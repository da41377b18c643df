SPECIFICATION Spec
CONSTANTS
  Before <- TwoBefore
  During <- OneDuring
  Boundary <- OneBoundary
  After <- TwoAfter
  Undoes <- EachUndoes
  Configs <- OneConfig
  MaxSignals = 2
PROPERTIES
  RunningKilled
CHECK_DEADLOCK FALSE
