CONSTANTS
  shop = shop
  link = link
  c1 = c1
  c2 = c2
  ptr = ptr
  Names = {shop, link}
  Keys = {k1}
  Cids = {c1, c2, c3}
  Missing = Missing
  Malformed = Malformed
  Site <- TheSites
  ALIAS_BUDGET = 2
  POSITIVE_TTL_SECONDS = 3
  NEGATIVE_TTL_SECONDS <- Ttl
  ActiveSuites = {1}
  TldOf <- OneTld
  BaseBits <- OneBit
  MAX_SEQ = 5
  TERM_SECONDS = 4
  RENEWAL_WINDOW_SECONDS = 2
  MIN_INTERVAL_SECONDS = 1
  MAX_CLOCK_SKEW_SECONDS = 1
  MAX_BACKDATE_SECONDS = 1
  SETTLEMENT_SECONDS = 2
  GRACE_SECONDS = 1
  QUARANTINE_SECONDS = 1
  EPOCH_SECONDS = 4
  RATE_WINDOW_SECONDS = 8
  RATE_FLOOR = 100
  MAX_DIFFICULTY_BITS = 4
  Requests <- TheRequests
  Appends <- TheAppends
  Sizes <- TheSizes
  InitialLimits <- TheLimits
  CACHE_CEILINGS <- TheLimits
  PIN_LIMIT = 2
  OtherPorts <- TellingPort
  Pointer = ptr
  PointsTo = c1
  MaxTime = 4
  MaxAppends = 2
  MaxTokens = 2
SPECIFICATION Spec
INVARIANTS TypeOK PagesAreCurrent RefusalsWereTrue NoStaleOutage NoDowngrade CacheIsBounded
