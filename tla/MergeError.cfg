\* Two synchronous upstreams that may end with an error.
CONSTANTS
  N = 2
  Deferred = {}
  UserCancel = "never"
  KMax = 7
  Counts = {1, 2}
  Ends = {"done", "error"}
  MaxElems = 1
  MaxGrant = 4
SPECIFICATION Spec
INVARIANTS
  NoFault
