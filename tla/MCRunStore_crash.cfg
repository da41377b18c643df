SPECIFICATION Spec
CONSTANTS
  p1 = p1
  p2 = p2
  NoProc = NoProc
  Proc <- TwoProcs
  MaxRuns = 2
  Commands <- AllCommands
  Outcomes <- AllOutcomes
  MaxCommands = 4
  MaxCrashes = 1
SYMMETRY Symmetry
INVARIANTS
  OneBenchmark
  SnapshotInPlace
PROPERTIES
  LiveRunUntouched
  AnalysesKept
  ImplementsLedger
CHECK_DEADLOCK FALSE
