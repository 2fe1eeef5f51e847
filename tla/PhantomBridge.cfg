CONSTANTS
  Calls = {m1, m2, m3}
  Cancels = {k1, k2}
  None = None
SPECIFICATION BridgeSpec
INVARIANTS LeaseHeld CancelTruthful
PROPERTY BridgeOwnsOneJob
CHECK_DEADLOCK FALSE
