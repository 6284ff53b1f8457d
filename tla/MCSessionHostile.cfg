CONSTANTS
  k1 = k1
  k2 = k2
  p1 = p1
  p2 = p2
  a = a
  b = b
  c = c
  Names = {a, b, c}
  Keys = {k1, k2}
  Peers = {p1, p2}
  ActiveSuites = {1}
  TldOf <- OneTld
  BaseBits <- OneBit
  MAX_SEQ = 5
  TERM_SECONDS = 20
  RENEWAL_WINDOW_SECONDS = 3
  MIN_INTERVAL_SECONDS = 1
  MAX_CLOCK_SKEW_SECONDS = 1
  MAX_BACKDATE_SECONDS = 5
  SETTLEMENT_SECONDS = 2
  GRACE_SECONDS = 2
  QUARANTINE_SECONDS = 2
  EPOCH_SECONDS = 4
  RATE_WINDOW_SECONDS = 8
  RATE_FLOOR = 100
  MAX_DIFFICULTY_BITS = 4
  DETECTED_BUDGET = 2
  RECEIVED_BUDGET = 1
  Hostile = {p2}
  Offset <- SameClock
  WantCount = 2
  OutstandingWants = 2
  WantDeadlineSeconds = 1
  DeferredLimit = 2
  PerConnection = 1
  Elsewhere <- Nothing
  HostileMessages <- AnyMessages
  MaxTime = 1
  MaxConnections = 2
  MaxFailures = 1
  MaxInjected = 2
SPECIFICATION Spec
INVARIANTS NothingSkipped DeferredDistinct
CHECK_DEADLOCK FALSE
