SPECIFICATION FairSpec
CONSTANTS
  run = run
  pass = pass
  next = next
  Keys = {k1}
  Procs = {run, pass, next}
  Tokens = {t1, t2, t3, t4}
  Ttl <- MCTtl
  Renewing = {run, next}
  None = None
INVARIANTS
  TypeOK
  ExclusiveWithinLease
PROPERTIES
  LeaseNeverStolen
  OrphanedKeyRecovers
  ImplementsKeyedLease
