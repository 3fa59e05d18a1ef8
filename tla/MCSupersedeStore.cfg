SPECIFICATION Spec
CONSTANTS
  MaxId = 3
  Writers = {w1}
  Maintainers = {m1}
  Staleness = TRUE
  Backlog = {{1}}
  Ceiling = 50
  ReadsFail = FALSE
  Requests = {"erase"}
INVARIANTS TypeOK SupersedesAcyclic
