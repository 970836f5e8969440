\* Three synchronous upstreams without errors; 7 = KMax is infinite.
CONSTANTS
  N = 3
  Deferred = {}
  UserCancel = "never"
  KMax = 7
  Counts = {1, 2, 7}
  Ends = {"done"}
  MaxElems = 2
  MaxGrant = 9
SPECIFICATION Spec
INVARIANTS
  ValuesConserved
  RoundRobin
PROPERTIES
  KeepsContract
