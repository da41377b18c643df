SPECIFICATION Spec
CONSTANTS
  p1 = p1
  p2 = p2
  NoProc = NoProc
  Proc <- OneProc
  MaxRuns = 2
  Commands <- RunAndRescore
  Outcomes <- PendedOnly
  MaxCommands = 4
  MaxCrashes = 1
PROPERTIES
  VerdictKept
CHECK_DEADLOCK FALSE
