SPECIFICATION FairSpec
CONSTANT MaxRestarts = 2
CHECK_DEADLOCK FALSE
INVARIANTS
  OneLogger
  NothingOutlives
  PassIsEarned
  OwnStopIsNotManual
PROPERTIES
  RunAdvances
  SupervisorEnds
