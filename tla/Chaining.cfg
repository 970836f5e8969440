\* Map with a function that may fail, and Buffer(2), both cancelled from
\* everywhere. 15 = KMax is an infinite request, and so is twice that number, which
\* wraps around to 14.
CONSTANTS
  Source = src
  Operators = {"map", "buffer"}
  Size = 2
  KMax = 15
  Counts = {1, 2, 3, 15}
  Ends = {"done", "error"}
  MaxElems = 5
  MaxGrant = 18
SPECIFICATION Spec
INVARIANTS
  OverrunOnlyByFlush
  ElementsConserved
PROPERTIES
  EndIsLast
  RequestServed
