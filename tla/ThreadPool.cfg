\* Three threads and four tasks, one of which blocks on another one.
CONSTANTS
  k1 = k1
  k2 = k2
  Threads = {t1, t2, t3}
  Tasks = {k1, k2, k3, k4}
  Needs <- OneBlocks
  NoTask = NoTask
  EagerDestroy = FALSE
SPECIFICATION Spec
INVARIANTS
  ActiveCountExact
  NoStrandedTask
  TasksConserved
  IdleMeansDone
  NoAbort
PROPERTIES
  NonblockingTaskRuns
  WaitsEnd
  ImplementsScheduler
