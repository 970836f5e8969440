SPECIFICATION Spec
CONSTANTS
  Activities = {a1, a2, a3}
  Threads = {t1, t2}
  NoActivity = NoActivity
  MaxTasks = 4
SYMMETRY MCSymmetry
INVARIANTS
  NoFault
  OneThreadEach
  NothingLeaks
