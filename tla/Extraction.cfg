CONSTANTS
  Requests = {q1, q2, q3}
  Workers = 1
  QueueDepth = 1
  Gates = 1
  Modes = {"process", "thread"}
SPECIFICATION FairSpec
INVARIANTS SlotsExact NoOrphan
PROPERTIES EveryoneAnswered SlotsReturned
CHECK_DEADLOCK FALSE
