SPECIFICATION Spec
CONSTANTS
  Workers = {w1, w2}
  Root = root
  Sink = sink
  Shapes <- TwoShapes
  NumVectors = 2
  BatchSize = 2
  MaxEvents = 3
  MaxRuns = 1
  MayExit = FALSE
SYMMETRY WorkerSymmetry
INVARIANTS TypeOK BatchesWhole EventsKept EventsRebuilt WorkerOrder ChangesInOrder
CHECK_DEADLOCK FALSE
