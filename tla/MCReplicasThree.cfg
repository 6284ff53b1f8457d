CONSTANTS
  k1 = k1
  k2 = k2
  k3 = k3
  p1 = p1
  p2 = p2
  p3 = p3
  Names = {a}
  Keys = {k1, k2, k3}
  Peers = {p1, p2, p3}
  ActiveSuites = {1}
  TldOf <- OneTld
  BaseBits <- OneBit
  MAX_SEQ = 5
  TERM_SECONDS = 5
  RENEWAL_WINDOW_SECONDS = 3
  MIN_INTERVAL_SECONDS = 1
  MAX_CLOCK_SKEW_SECONDS = 1
  MAX_BACKDATE_SECONDS = 1
  SETTLEMENT_SECONDS = 2
  GRACE_SECONDS = 2
  QUARANTINE_SECONDS = 2
  EPOCH_SECONDS = 4
  RATE_WINDOW_SECONDS = 8
  RATE_FLOOR = 100
  MAX_DIFFICULTY_BITS = 4
  DETECTED_BUDGET = 2
  RECEIVED_BUDGET = 1
  Offset <- SameClock
  Home <- HomeOfThree
  Published = {"REGISTER"}
  Drawn <- DrawnDigest
  Forgeable <- NoForgery
  MaxTime = 2
  MaxIssued = 3
  MaxForged = 0
SPECIFICATION Spec
INVARIANT RootsAgree
