CONSTANTS
  Callers = {c1, c2}
  Runs = {r1}
  Jobs = {"open", "end"}
  Totals = {1}
  IdleClose = 1
  MaxNow = 2
  MaxCalls = 2
  MaxFaults = 0
  None = None
SPECIFICATION SessionSpec
CHECK_DEADLOCK FALSE
PROPERTY StaleResolveKeepsClose
