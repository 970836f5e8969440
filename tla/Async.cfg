SPECIFICATION Spec
CONSTANTS
  KMax = 6
  Workers = {w1, w2}
  Counts = {1, 2}
  MinElems = 2
  MaxElems = 4
  MaxGrant = 6
  MaxOpen = 1
  CancelsFreely = FALSE
INVARIANTS
  NoFault
  SubscriberOutlives
  NothingLeft
PROPERTIES
  KeepsContract
