SPECIFICATION ReadersSpec
CONSTANTS
  None = None
  Stacks <- GoStacks
  Routes = {"GET /", "(no route)"}
  App = {"main.get", "main.walk"}
  Inner = {"runtime.lock", "sync.Lock"}
  Classes <- GoClasses
  FunctionRows = 2
  MaxEvents = 4
  Untaken = None
  Service = {"app", "db"}
  Cpu <- CpuRows
  Full = 2
  Day = 6
  Noon = 3
  SarStart = 4
  BenchStart = 5
  BenchEnd = 6
  MaxUse = 1
  MaxRows = 3
  Absent = None
  Setup <- Setups
  Outcome <- Outcomes
  Empty = "empty"
  MaxRuns = 3
  Failed = Failed
  Object <- StateObjects
  State = {"A", "B"}
  LastTime = 3
  MaxLines = 3
  WindowStart = 1
  WindowEnd = 3
  Nothing = Nothing
  Unsaid = Unsaid
INVARIANTS
  StatesTrue
  RequestsTrue
  EdgesTrue
  ProfileTrue
  ConditionsCompared
  HostRowsTrue
  StatementsCounted
  ViewsTrue
CHECK_DEADLOCK FALSE
