SPECIFICATION FairSpec
CONSTANTS
  MaxId = 4
  MaxTime = 3
  MaxEdits = 1
  MaxFails = 2
  Textless = {2}
  Limit = 2
  Builders = {b1, b2}
INVARIANTS NoEvidenceBurned
PROPERTIES NoBuildUndone EvidenceIsFolded
