SPECIFICATION Spec
CONSTANTS
  Root = root
  Sink = sink
  Workers = {w1}
  Names = {g}
  MaxCommands = 2
  MaxDrawn = 2
INVARIANT Overwrites
CHECK_DEADLOCK FALSE
