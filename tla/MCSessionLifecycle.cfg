CONSTANTS
  Callers = {c1, c2}
  Runs = {r1}
  Jobs = {"open", "store", "end"}
  Totals = {1, 2}
  IdleClose = 1
  MaxNow = 3
  MaxCalls = 3
  MaxFaults = 1
  None = None
SPECIFICATION SessionSpec
CHECK_DEADLOCK FALSE
SYMMETRY Symmetric
INVARIANTS WatermarkNotLost
PROPERTIES CloseIsMonotone
