CONSTANTS
  Calls = {c1, c2, c3}
  TTL = 2
  NegTTL = 1
  MaxTime = 4
SPECIFICATION ReadyzSpec
INVARIANT CachedReadyVouched
PROPERTY NoStampede
CHECK_DEADLOCK FALSE
