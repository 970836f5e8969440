SPECIFICATION Spec
CONSTANTS
  KMax = 5
  Kinds = {"prefetch", "concat", "flatmap"}
  Sources = {1, 2, 3, 4}
  AnswersLate <- MCAnswersLate
  SubscribesLate <- MCSubscribesLate
  Counts = {1, 2}
  Ends = {"done", "error"}
  MaxElems = 3
  MaxGrant = 5
  BufferSize = 2
  RefillMark = 1
  Cancels = {"concat", "flatmap"}
  CancelsInEnd = {"concat"}
  Patient = {"flatmap"}
  Singles = {"concat", "flatmap"}
INVARIANTS
  NoFault
  PrefetchConserves
  OwedIsRequested
  ContinuationOwned
  NoSourceLeft
PROPERTIES
  KeepsContract
  SingleAnsweredOnce
