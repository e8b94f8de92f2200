SPECIFICATION Spec
CONSTANTS
  Workers = {w1, w2}
  NoWorker = NoWorker
  ChunkSizes = {0, 2}
  PhysicsBytes = {3}
  OtherBytes = {2}
  MaxMessage = 4
  LongBytes = 1
  MaxItems = 3
  MayExit = TRUE
SYMMETRY WorkerSymmetry
INVARIANTS TypeOK FlowControl Framing ExactlyOnce StatisticsExact
PROPERTIES Distribution
CHECK_DEADLOCK FALSE
