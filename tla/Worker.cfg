\* Two workers and four tasks.
CONSTANTS
  Workers = {w1, w2}
  Tasks = {k1, k2, k3, k4}
  NoTask = NoTask
SPECIFICATION Spec
INVARIANTS
  IdleMeansDrained
  OnlyTheRestIsLate
PROPERTIES
  ImplementsSerialExecutor
