CONSTANTS
  u1 = u1
  session = session
  user_ = user
  e1 = e1
  None = None
  Boot = boot
  Catchup = catchup
  Timer = timer
  Forced = {f1}
  Passes = {s1}
  Users <- MCUsers
  Scopes <- MCScopes
  Entries <- MCEntries
  MinSessions = 1
  MaxPasses = 2
  MaxFaults = 2
SPECIFICATION FairSpec
CHECK_DEADLOCK FALSE
INVARIANTS ExclusiveReplay RunReplaysOnce
PROPERTIES PacedRuns BacklogIsSettled
