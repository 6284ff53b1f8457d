CONSTANTS
  Names = {a}
  Keys = {k1, k2}
  Procs = {p1, p2}
  ActiveSuites = {1}
  TldOf <- OneTld
  BaseBits <- OneBit
  MAX_SEQ = 5
  TERM_SECONDS = 4
  RENEWAL_WINDOW_SECONDS = 2
  MIN_INTERVAL_SECONDS = 1
  MAX_CLOCK_SKEW_SECONDS = 1
  MAX_BACKDATE_SECONDS = 1
  SETTLEMENT_SECONDS = 2
  GRACE_SECONDS = 2
  QUARANTINE_SECONDS = 1
  EPOCH_SECONDS = 4
  RATE_WINDOW_SECONDS = 8
  RATE_FLOOR = 100
  MAX_DIFFICULTY_BITS = 4
  Digests = {1, 2}
  Offered <- OnTimeRecord
  MaxTime = 6
  MaxLog = 3
SPECIFICATION Spec
INVARIANTS TypeOK Custody ClosedIsFinal TermBound MemoryIsDurable TransferorCanCancel
PROPERTY TitleIsDefended ImplementsLawfulRegistry
SYMMETRY Symmetric
