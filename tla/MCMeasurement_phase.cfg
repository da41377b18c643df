SPECIFICATION MeasureSpec
CONSTANTS
  Count = 7
  Node = {"web", "db"}
  Local = "here"
  Queue = {"perf", "log", "none"}
  Plans <- OnePlan
  Limit = 2
  Said = {"pass", "start", "finish", "secret"}
  MaxLines = 2
  Modes = {"command", "external"}
  Limits <- MCLimits
INVARIANTS
  NodeLimit
  QueueOrder
  LocalLast
  OutputKept
  ResultFromLogs
PROPERTIES
  PhaseEnds
  BenchmarkReturns
CHECK_DEADLOCK FALSE
