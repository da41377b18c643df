SPECIFICATION StoresSpec
CONSTANTS
  Run = {"new", "old"}
  Log = {"a", "b", "c"}
  Sources <- MCSources
  Events <- MCEvents
  Writer = {p1, p2}
  Query = {p1, p2}
  Old = {"old"}
  CacheRuns = 1
  MaxQuestions = 2
  MaxChanges = 1
  MaxKills = 1
  Free = "free"
  Change = {"c"}
  What = {"yes", "no"}
  MaxOrders = 3
  MaxFaults = 1
  Connection = {"c", "d"}
  Breaking = {"c"}
  Type = {"json"}
  Limit = 2
  Byte = {"0", "r", "n", "a", "t", "1", "2"}
  MaxChunk = 2
  Numeral <- MCNumeral
  Payload <- MCPayload
  Framing <- MCFraming
  Trailers <- MCTrailers
INVARIANTS
  CacheSound
  ChangesListed
  ExchangesRecorded
PROPERTIES
  AnswersFromLogs
SYMMETRY Symmetry
CHECK_DEADLOCK FALSE
