CONSTANTS
  Previews = {p1, p2}
  Cancels = {c1}
  None = None
SPECIFICATION Spec
INVARIANT AcknowledgedCancelAborts
