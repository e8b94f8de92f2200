SPECIFICATION FairSpec
CONSTANTS
  NumRanks = 2
  ChunkSize = 2
  CommandSizes = {2, 3}
  ResultSizes = {0, 2, 3}
  MaxCalls = 2
INVARIANTS TypeOK NothingLeft
PROPERTIES Calls CallReturns AllExit
CHECK_DEADLOCK FALSE
