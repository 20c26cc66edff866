CONSTANTS
  Clients = {c1}
  Calls = {"read", "write", "status", "abort", "set"}
  Answers = {"good", "part"}
  Fragments = 3
  Builds = {TRUE}
  Connected = TRUE
  AutoRead = FALSE
  AutoWrite = FALSE
  Timeouts = TRUE
  Callers = {a1, a2}
  Tickler = tk
  Tags = {g1, g2}
  NoTag = NoTag
  TagIdMask = 5
  MaxAttempts = 2
  StartId = 1
  EarlyHandles = TRUE
  Size = 4
  RequestPayload = 2
  ResponsePayload = 3
  MaxInFlight = 3
  SeqIds = 4
  MaxWire = 2
  MaxFaults = 1
SPECIFICATION UseSpec
INVARIANTS OffsetReset CallsMeanDone DirtyKept
PROPERTIES WaitsEnd OperationsEnd DirtySent ShutdownReturns OkMovesAll
CHECK_DEADLOCK FALSE
