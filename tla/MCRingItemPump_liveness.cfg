SPECIFICATION FairSpec
CONSTANTS
  Workers = {w1}
  NoWorker = NoWorker
  ChunkSizes = {0, 2}
  PhysicsBytes = {3}
  OtherBytes = {5}
  MaxMessage = 4
  LongBytes = 1
  MaxItems = 5
  MayExit = FALSE
PROPERTIES RootReturns WorkersCatchUp
CHECK_DEADLOCK FALSE
