SPECIFICATION FairSpec
CONSTANTS
  Workers = {w1}
  Root = root
  Sink = sink
  Shapes <- TwoShapes
  NumVectors = 2
  BatchSize = 1
  MaxEvents = 2
  MaxRuns = 1
  MayExit = TRUE
PROPERTIES FlushedArrive SinkPumpsStop
CHECK_DEADLOCK FALSE
