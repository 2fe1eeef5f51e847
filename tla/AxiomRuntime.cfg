CONSTANTS
  Previews = {p1, p2}
  Cancels = {c1, c2}
  None = None
SPECIFICATION FairSpec
INVARIANTS PermitConserved RunningIsCancellable NoSpuriousCancel
PROPERTIES OwnsOneJob GenerationEnds ShutdownCompletes
