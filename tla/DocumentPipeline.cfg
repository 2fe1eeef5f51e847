CONSTANTS
  Requests = {d1, d2}
  Values = {v1, v2}
  Gates = 2
  Confidence = 90
  Window = 5
  MaxCorrections = 3
  MaxRestarts = 2
SPECIFICATION Spec
INVARIANT OfferedOnRecord
PROPERTY FlywheelTurns
CHECK_DEADLOCK FALSE
