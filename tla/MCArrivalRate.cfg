SPECIFICATION Spec
CONSTANTS
  Task = {t1, t2}
  MaxU32 = 99
  ZeroGrace = FALSE
  MaxDeaths = 1
  PreAlloc = 0
  MaxVus = 2
  SpawnBurst = 1
  MaxArrivals = 4
INVARIANTS TypeOK IdleIsWaiting BucketBounded PoolHeld
PROPERTIES LedgerSpec PressureGrowsPool
CHECK_DEADLOCK FALSE
