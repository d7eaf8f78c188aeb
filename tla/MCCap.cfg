SPECIFICATION Spec
CONSTANTS
  Task = {t1, t2}
  MaxU32 = 99
  ZeroGrace = FALSE
  MaxDeaths = 0
  InitialVus = 1
  MaxVus = 1
  ApiVus = {2}
  Conn = {c1}
  MaxApi = 1
  Timed = FALSE
INVARIANTS CapIsHard
CHECK_DEADLOCK FALSE
