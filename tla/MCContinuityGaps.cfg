CONSTANTS
  Callers = {c1}
  Runs = {r1, r2}
  Jobs = {"end"}
  Totals = {1}
  IdleClose = 1
  MaxNow = 3
  MaxCalls = 2
  MaxFaults = 1
  MaxEdits = 1
  Decisions = {"dismissed"}
  None = None
SPECIFICATION FairSpec
CHECK_DEADLOCK FALSE
INVARIANTS OneOpenGap
PROPERTY EndedWorkIsReported
