SPECIFICATION FairSpec
CONSTANTS
  MaxId = 3
  MaxTime = 5
  MaxFails = 1
  Values = {v1}
  Budget = 1
  Limit = 1
  Late = FALSE
INVARIANTS TypeOK NoPairSkipped FedIsBehindWatermark SweptRowsAreFed
PROPERTIES SurvivorCarriesValues EveryPairCompared
