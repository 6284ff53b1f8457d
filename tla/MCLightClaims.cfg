SPECIFICATION LightSpec
CONSTANTS
  a = a
  a2 = a2
  b = b
  x = x
  p1 = p1
  p2 = p2
  Data = {a, a2, b, x}
  Peers = {p1, p2}
  Liars = {liar}
  NoPrev = none
  SizeOf <- MCSizeOf
  NameOf <- MCNameOf
  PrevOf <- MCPrevOf
  LiarClaims <- MCLiarClaims
  LiarLogs <- MCLiarLogs
  LiarCheckpoints <- MCLiarCheckpoints
  Inflated = FALSE
  Quorum = 2
  CHECKPOINT_INTERVAL = 2
  LENGTHS_LIMIT = 1
  FORKS_LIMIT = 1
  MaxLog = 3
  MaxHeard = 0
INVARIANT VerifiedIsLogged
CHECK_DEADLOCK FALSE
