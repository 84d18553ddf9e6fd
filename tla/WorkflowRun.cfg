SPECIFICATION FairSpec
CONSTANTS
  Workflows = {w1}
  Texts = {t1, t2}
  MaxSteps = 3
  MaxRestarts = 1
  SaveMayFail = TRUE
  None = None
INVARIANTS
  TypeOK
  RecordsAreConsistent
  CancelStopsSteps
  EndedRunsAreRecorded
PROPERTIES
  NeverGoesBack
  RunsEnd
CHECK_DEADLOCK FALSE
