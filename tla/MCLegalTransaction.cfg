CONSTANTS
  Sources = {s1, s2}
  Books = {nda, other}
  Allowed = {nda}
  Proposals = {p1, p2}
  Runs = {r1, r2}
  Dirs = {d1}
  MaxEdits = 2
SPECIFICATION Spec
SYMMETRY Symmetry
INVARIANTS OutputGoverned EvidenceSound RerunValid
CHECK_DEADLOCK FALSE
