SPECIFICATION Spec
CONSTANTS
  Offsets <- MCOffsets
  Jitter = 1
  MaxAge = 2
  Required = 2
  P50Max = 1
  P95Max = 2
  DowngradeAfter = 1
  UnsafeAfter = 2
  None = None
  Runs <- MCRuns
  Midnight = 1
  NoDoc = NoDoc
  Symbols = {spx}
  ServerOffset = 10
  Delays <- MCDelays
  MaxClock = 3
  MaxShifts = 1
CHECK_DEADLOCK FALSE
INVARIANTS
  VerifiedIsEarned
  SelectionResolves
  
  NoForeignRows
