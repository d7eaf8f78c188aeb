SPECIFICATION IterSpec
CONSTANTS
  Task = {t1, t2}
  MaxU32 = 99
  ZeroGrace = FALSE
  MaxDeaths = 0
  InitialVus = 2
  MaxVus = 2
  ApiVus = {0, 1}
  Conn = {c1}
  MaxApi = 2
  Timed = FALSE
PROPERTIES ShrinkReachesTarget
CHECK_DEADLOCK FALSE
