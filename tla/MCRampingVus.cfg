SPECIFICATION Spec
CONSTANTS
  Task = {t1, t2, t3}
  MaxU32 = 99
  ZeroGrace = FALSE
  MaxDeaths = 1
  StartVus = 1
  Stages <- HoldDownUp
  ZeroGraceRd = FALSE
INVARIANTS PoolHeld
PROPERTIES NoClaimWhileGrowing StopEndsRun DeadVuReplaced
CHECK_DEADLOCK FALSE
