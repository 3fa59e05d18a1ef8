SPECIFICATION FairSpec
CONSTANTS
  Ids = {1, 2}
  Hmacs = {h1, h2}
  h1 = h1
  h2 = h2
  None = None
  Batches <- MCBatches
  MaxFaults = 1
  Requests = {r1, r2}
  ContentOnly = {2}
  EraseKinds = {"session", "user"}
  MaxArrivals = 2
  MaxErases = 1
INVARIANTS TypeOK JournalIsResident BuriedStaysErased MarkerIsTrue NoLockCycle
PROPERTIES AcceptedIsKept NoSecondExtraction AcceptedIsStored
CHECK_DEADLOCK FALSE
