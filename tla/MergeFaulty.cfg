\* Errors, cancellation outside of OnNext, and two upstreams that answer later.
CONSTANTS
  N = 3
  Deferred = {2, 3}
  UserCancel = "outside"
  KMax = 7
  Counts = {1, 2, 7}
  Ends = {"done", "error"}
  MaxElems = 2
  MaxGrant = 9
SPECIFICATION Spec
INVARIANTS
  LoopConditionTruthful
  NoUpstreamLeft
PROPERTIES
  FaultCause
