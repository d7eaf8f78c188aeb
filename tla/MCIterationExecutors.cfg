SPECIFICATION Spec
CONSTANTS
  Task = {t1, t2, t3}
  MaxU32 = 99
  ZeroGrace = FALSE
  MaxDeaths = 1
  Modes = {"shared", "per-vu"}
  Vus = 3
  Iterations = 3
  MaxIterations = 2
INVARIANTS NoOverrun WorkIsDone
PROPERTIES EndsByMaxDuration
CHECK_DEADLOCK FALSE
