SPECIFICATION FairSpec
CONSTANTS
  p1 = p1
  p2 = p2
  NoProc = NoProc
  Proc <- TwoProcs
  MaxRuns = 2
  Commands <- AllCommands
  Outcomes <- AllOutcomes
  MaxCommands = 4
  MaxCrashes = 0
INVARIANTS
  IndexTruthful
PROPERTIES
  IndexedAnalysesKept
  VerdictKept
  CommandsEnd
CHECK_DEADLOCK FALSE
