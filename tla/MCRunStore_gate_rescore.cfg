SPECIFICATION Spec
CONSTANTS
  p1 = p1
  p2 = p2
  NoProc = NoProc
  Proc <- TwoProcs
  MaxRuns = 2
  Commands <- RunAndRescore
  Outcomes <- PendedOnly
  MaxCommands = 4
  MaxCrashes = 0
SYMMETRY Symmetry
INVARIANTS
  NothingAwaited
CHECK_DEADLOCK FALSE
