CONSTANTS
  Conns = {s1, s2}
  Plans <- ThePlans
  headBytes = 3
  bodyBytes = 2
  connections = 1
  MaxChunk = 2
SPECIFICATION ListenerSpec
INVARIANTS ListenerTypeOK SlotsAreHeld WholeRequestOnce BufferIsBounded
PROPERTY EveryConnectionIsDecided
CHECK_DEADLOCK FALSE
