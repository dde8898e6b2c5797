SPECIFICATION FairClaimSpec
CONSTANTS
  w1 = w1  w2 = w2  NoRow = NoRow
  Rows <- RowIds
  Rank <- ById
  Workers = {w1, w2}
  Profiles <- Queues
  MaxFaults = 1
INVARIANTS
  ClaimInv
PROPERTIES
  OthersAreServed
