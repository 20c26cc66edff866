CONSTANTS
  Requests = {r1, r2, r3}
  Null = Null
  r1 = r1
  r2 = r2
  r3 = r3
  Packable = {r1, r2, r3}
  MaxRequests = 2
  PackOverhead = 1
  UseConnected = TRUE
  FoConnSize = 4
  FoExConnSize = 8
  Grants = {4, 6}
  MaxFaults = 2
  SilentOpen = FALSE
  UnpackFails = FALSE
  PushBackRace = FALSE
  Size <- MixedSizes
SPECIFICATION FairSpec
INVARIANTS RefsExact
PROPERTIES ImplementsFifo EventuallyAnswered
CHECK_DEADLOCK FALSE
