CONSTANTS
  Attempts = {a1, a2, a3}
  Replicas = {r1, r2}
  MaxInflight = 1
  Ceiling = 4
  Estimates = {2}
  MaxSpend = 3
SPECIFICATION Spec
INVARIANTS AdmissionHolds  PermitsConserved
PROPERTIES OneGovernor
CHECK_DEADLOCK FALSE
