CONSTANTS
  t1 = t1
  t2 = t2
  Tags = {t1, t2}
  NoTag = NoTag
  ReadOnly = {t2}
  Kinds = {"write"}
  Outcomes <- Lossy
  Size = 2
  RequestPayload = 1
  ResponsePayload = 1
  MaxInFlight = 2
  SeqIds = 5
  SeqWraps = FALSE
  AutoRead = FALSE
  Calls <- OneLeaves
  MaxWire = 2
  MaxFaults = 1
  Clients = {c1, c2}
  CipCalls = {"read", "write", "abort", "set"}
  Answers = {"good", "part", "refused", "dead"}
  Fragments = 2
  Builds = {TRUE, FALSE}
  Connected = TRUE
  CipAutoRead = TRUE
  AutoWrite = FALSE
  Timeouts = TRUE
SPECIFICATION LookSpec
INVARIANTS SlotsOwned ReplyFits RequestFits
CHECK_DEADLOCK FALSE
VIEW LookControl
