SPECIFICATION Spec
CONSTANTS
  KMax = 6
  Workers = {w1, w2}
  Counts = {2}
  MinElems = 0
  MaxElems = 1
  MaxGrant = 2
  MaxOpen = 2
  CancelsFreely = FALSE
INVARIANTS
  NoFault
