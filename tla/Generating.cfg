\* Two streams whose subscribers call each other's subscriptions. A request of
\* 3 = KMax is "infinite".
CONSTANTS
  Gens = {g1, g2}
  KMax = 3
  Counts = {1, 2, 3}
  Ends = {"done", "error"}
  MaxElems = 1
  MaxGrant = 4
SPECIFICATION Spec
INVARIANTS
  NoDeepRecursion
  NoFault
PROPERTIES
  KeepsContract
