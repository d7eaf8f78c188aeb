SPECIFICATION Spec
CONSTANTS
  Task = {t1, t2, t3}
  MaxU32 = 99
  ZeroGrace = FALSE
  MaxDeaths = 1
  InitialVus = 1
  MaxVus = 2
  ApiVus = {0, 3}
  Conn = {c1, c2}
  MaxApi = 2
  Timed = TRUE
INVARIANTS TypeOK ActiveIsLeases DoneIsQuiet PoolWithinCap PoolCounted
SYMMETRY Symmetry
CHECK_DEADLOCK FALSE
