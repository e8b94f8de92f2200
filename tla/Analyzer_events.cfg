SPECIFICATION Spec
CONSTANTS
  Processors = {e1, e2}
  PipelineNames = {default, other}
  Default = default
  MaxLength = 2
  MaxCommands = 2
  Threshold = 2
  Sizes = {0, 1}
  Bodies = {0, 2}
  MaxEntities = 2
  MaxItems = 2
  MaxParts = 1
INVARIANTS TypeOK AttachedIfCurrent UsedRegistered EventsOwned HistogrammedOnce
CHECK_DEADLOCK FALSE
