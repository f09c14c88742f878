SPECIFICATION FairSpec
CONSTANTS
  NProc = 3
  WorkSize = 256
  Programs <- AllPrograms
INVARIANTS ReduceInv OnOneRank BalanceHelps LinksAgree HeardFromPartners Reduced NothingLeft PointsFound GhostsFromNeighbors
PROPERTY Completes
CHECK_DEADLOCK FALSE
