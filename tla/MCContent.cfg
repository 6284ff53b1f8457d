SPECIFICATION Spec
CONSTANTS
  CHUNK_BYTES = 2
  BLOCKS = 8
  DEPTH = 4
  RESOURCE_BYTES = 5
  BLOCK_BYTES = 6
  LINKS_PER_NODE = 4
  NODE_BYTES = 1
  Dots = {9}
  Cids <- MCCids
  None = none
  Sites <- MCSites
  Hostile <- MCHostile
  WrongBytes <- MCWrongBytes
  Paths <- MCPaths
  LimitBlocks = 6
  LimitBytes = 16
INVARIANT PublishedIsFetched FetchIsTrue PullSuffices MemoryIsBounded
PROPERTY PullEnds
CHECK_DEADLOCK FALSE
