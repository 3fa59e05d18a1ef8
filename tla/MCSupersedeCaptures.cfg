SPECIFICATION Spec
CONSTANTS
  MaxId = 4
  Writers = {w1, w2}
  Maintainers = {}
  Staleness = FALSE
  Backlog = {}
  Ceiling = 50
  ReadsFail = TRUE
  Requests = {"forget", "restore", "erase"}
SYMMETRY Symmetric
INVARIANTS LineageIntact SupersededHasSurvivor
PROPERTY HardDeleteIsFinal
