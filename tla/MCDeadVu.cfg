SPECIFICATION Spec
CONSTANTS
  Task = {t1, t2}
  MaxU32 = 99
  ZeroGrace = FALSE
  MaxDeaths = 1
  InitialVus = 2
  MaxVus = 2
  ApiVus = {0, 3}
  Conn = {c1}
  MaxApi = 0
  Timed = FALSE
PROPERTIES DeadVuReplaced
CHECK_DEADLOCK FALSE
