CONSTANTS
  g1 = g1
  g2 = g2
  Tags = {g1, g2}
  Clients = {c1, c2}
  TicklerThread = tk
  None = None
  Peer <- Mutual
  Calls <- OnlyReads
  AutoRead = FALSE
  MaxCalls = 2
SPECIFICATION Spec
INVARIANTS NoDeadlock
CHECK_DEADLOCK FALSE
