SPECIFICATION Spec
CONSTANTS
  Task = {t1, t2, t3}
  MaxU32 = 99
  ZeroGrace = FALSE
  MaxDeaths = 0
  StartVus = 3
  Stages <- Down
  ZeroGraceRd = FALSE
INVARIANTS SettlesOnTarget
CHECK_DEADLOCK FALSE
