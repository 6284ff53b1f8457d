CONSTANTS
  Names = {a, b}
  Keys = {k1, k2}
  ActiveSuites = {1}
  TldOf <- OneTld
  BaseBits <- OneBit
  MAX_SEQ = 5
  TERM_SECONDS = 5
  RENEWAL_WINDOW_SECONDS = 3
  MIN_INTERVAL_SECONDS = 1
  MAX_CLOCK_SKEW_SECONDS = 1
  MAX_BACKDATE_SECONDS = 1
  SETTLEMENT_SECONDS = 2
  GRACE_SECONDS = 2
  QUARANTINE_SECONDS = 2
  EPOCH_SECONDS = 4
  RATE_WINDOW_SECONDS = 8
  RATE_FLOOR = 100
  MAX_DIFFICULTY_BITS = 4
  DETECTED_BUDGET = 2
  RECEIVED_BUDGET = 1
  Procs = {p1, p2}
  Reports <- SomeReports
  MaxFile = 4
SPECIFICATION Spec
SYMMETRY Symmetric
INVARIANTS EarlierEvidenceSurvives BoundedAndDistinct
