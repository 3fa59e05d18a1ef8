\* Two memories of one claim, one run, one request at a time.
SPECIFICATION Spec
CONSTANTS
  m1 = m1
  m2 = m2
  n1 = n1
  Memories = {m1, m2}
  Noemas = {n1}
  ClaimOf <- MCClaimOf
  Runs = {r1}
  Requests = {f1}
  Proven = {m1}
  None = None
  MaxCalls = 1
  MaxEdits = 1
  MaxFaults = 1
INVARIANT EvidenceAgrees
PROPERTIES PromotesWhatItRead AnswerIsTrue ImplementsAtomicPromotion EveryPromotableIsPromoted
