SPECIFICATION Spec
CONSTANTS
  Task = {t1, t2}
  MaxU32 = 99
  ZeroGrace = FALSE
  MaxDeaths = 1
  Modes = {"shared"}
  Vus = 2
  Iterations = 2
  MaxIterations = 9
INVARIANTS BudgetSelfHeals
CHECK_DEADLOCK FALSE
