CONSTANTS
  Calls = {1, 2, 3}
  Cancels = {1, 2, 3, 4}
  None = None
  Texts = {A, B}
  MaxChecks = 3
SPECIFICATION FairOverlaySpec
INVARIANTS FreshPreview CancelHitsItsOwn NeverBusy ReadinessFresh
PROPERTY NeverStuck
CHECK_DEADLOCK FALSE
