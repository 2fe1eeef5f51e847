CONSTANTS
  Creators = {r1, r2, r3}
  Readers = {b1}
  Existing = Existing
  Nil = Nil
SPECIFICATION FairPairingSpec
INVARIANTS Agreement WholePublished
PROPERTIES NeverReplaced LoadEnds
CHECK_DEADLOCK FALSE
