SPECIFICATION FairSpec
CONSTANTS
  Before <- TwoBefore
  During <- OneDuring
  Boundary <- OneBoundary
  After <- TwoAfter
  Undoes <- EachUndoes
  Configs <- FlowConfigs
  MaxSignals = 2
INVARIANTS
  NodesClean
  LockCoversNodes
  DuringBracket
  MeasuredWhenReady
  InterruptedCleansUp
PROPERTIES
  RunEnds
CHECK_DEADLOCK FALSE
