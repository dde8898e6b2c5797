SPECIFICATION FairSyncSpec
CONSTANTS
  c1 = c1  w1 = w1  w2 = w2  NoCreate = NoCreate
  Creates = {c1}
  SyncWorkers = {w1, w2}
  Id <- OneId
  PageSize = 1
  MaxFaults = 2
INVARIANTS
  SyncInv
PROPERTIES
  RevisionsGrow
  EndIsReported
