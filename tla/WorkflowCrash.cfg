SPECIFICATION Spec
CONSTANTS
  Workflows = {w1}
  Texts = {t1, t2}
  MaxSteps = 2
  MaxRestarts = 1
  SaveMayFail = FALSE
  None = None
INVARIANT
  RunningMeansExecuting
CHECK_DEADLOCK FALSE
