CONSTANTS
  t1 = t1
  t2 = t2
  Tags = {t1}
  NoTag = NoTag
  ReadOnly = {}
  Kinds = {"read", "write"}
  Outcomes <- Patient
  Size = 2
  RequestPayload = 1
  ResponsePayload = 1
  MaxInFlight = 2
  SeqIds = 5
  SeqWraps = FALSE
  AutoRead = FALSE
  Calls <- AllAbort
  MaxWire = 2
  MaxFaults = 1
SPECIFICATION Spec
INVARIANTS ResultKnown
CHECK_DEADLOCK FALSE
