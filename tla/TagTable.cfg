CONSTANTS
  Clients = {c1, c2}
  Tickler = tk
  Tags = {g1, g2, g3}
  NoTag = NoTag
  TagIdMask = 2
  MaxAttempts = 2
  StartId = 2
  EarlyHandles = FALSE
  Null = Null
  r1 = r1
  r2 = r2
  Caller = a1
  TicklerThread = et
  e1 = e1
SPECIFICATION PartSpec
INVARIANTS CountIsOwners NoUseAfterFree CleanupIsAlone NoLeak AnswerMatches
PROPERTIES ImplementsOwnership DestroyReturns EndIsTold
CHECK_DEADLOCK FALSE
