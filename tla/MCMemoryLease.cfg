SPECIFICATION FairSpec
CONSTANTS
  Workers = {w1, w2, w3}
  TTL = 3
  Grace = 1
  MaxRetry = 3
  Backoff <- BackoffTicks
  MaxSource = 3
INVARIANTS
  HolderKeepsLease
  OutputIsProjected
PROPERTIES
  VersionsAdvance
  BehindIsRetried
CHECK_DEADLOCK FALSE
