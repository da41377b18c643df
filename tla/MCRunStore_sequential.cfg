SPECIFICATION Spec
CONSTANTS
  p1 = p1
  p2 = p2
  NoProc = NoProc
  Proc <- OneProc
  MaxRuns = 2
  Commands <- AllCommands
  Outcomes <- AllOutcomes
  MaxCommands = 5
  MaxCrashes = 3
INVARIANTS
  IndexTruthful
  OpenSettles
  NothingAwaited
CHECK_DEADLOCK FALSE
