SPECIFICATION Spec
CONSTANTS
  Task = {t1, t2}
  MaxU32 = 99
  ZeroGrace = FALSE
  MaxDeaths = 0
  PreAlloc = 1
  MaxVus = 2
  SpawnBurst = 1
  MaxArrivals = 2
INVARIANTS EveryArrivalReported
CHECK_DEADLOCK FALSE
