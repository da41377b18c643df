SPECIFICATION Spec
CONSTANTS
  p1 = p1
  p2 = p2
  NoProc = NoProc
  Proc <- TwoProcs
  MaxRuns = 2
  Commands <- RunAndEnrich
  Outcomes <- PassOnly
  MaxCommands = 3
  MaxCrashes = 1
SYMMETRY Symmetry
INVARIANTS
  IndexTruthful
CHECK_DEADLOCK FALSE
