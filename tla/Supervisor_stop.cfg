SPECIFICATION FairSpec
CONSTANT MaxRestarts = 2
CHECK_DEADLOCK FALSE
PROPERTIES
  OperatorStopIsKept
