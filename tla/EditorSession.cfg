CONSTANTS
  Editors = {e1, e2}
  Runs = {r1, r2}
  Setters = {s1, s2}
  Tokens = {t1}
  None = None
  MaxVersion = 1
  MaxEpoch = 3
SPECIFICATION FairEditorSpec
INVARIANTS CandidateFresh TokenCurrent DiscardDisconnects
PROPERTY SessionSettles
CHECK_DEADLOCK FALSE
