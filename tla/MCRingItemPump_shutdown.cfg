SPECIFICATION FairSpec
CONSTANTS
  Workers = {w1}
  NoWorker = NoWorker
  ChunkSizes = {2}
  PhysicsBytes = {3}
  OtherBytes = {2}
  MaxMessage = 4
  LongBytes = 1
  MaxItems = 4
  MayExit = TRUE
PROPERTIES PumpThreadsStop
CHECK_DEADLOCK FALSE
