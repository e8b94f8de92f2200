SPECIFICATION FairSpec
CONSTANTS
  Root = root
  Sink = sink
  Workers = {w1}
  Names = {g, h}
  MaxCommands = 2
  MaxDrawn = 1
INVARIANTS TypeOK GatesAgree
PROPERTY TracesFollow
CHECK_DEADLOCK FALSE
