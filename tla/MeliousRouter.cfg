CONSTANTS
  Calls = {c1, c2}
  Routes = 2
  Threshold = 2
  MaxRetries = 1
  MaxEpoch = 2
SPECIFICATION FairSpec
INVARIANTS LeaseOwned
PROPERTIES OnlyProbeDecides CallsEnd
CHECK_DEADLOCK FALSE
