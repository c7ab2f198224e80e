SPECIFICATION Spec
CONSTANTS
  Kinds <- MCAllKinds
  Ms = 2
  Tolerance = 2
  ReportSizes = {2, 4}
  ModelSizes = {4}
  Diagnostic = 2
  Window = 2
  MinSafe = 50
  MinMatch = 50
  MaxUnmatched = 50
  PassRate = 80
  PassVolume = 80
  Gate <- MCDay
  Quotes <- MCQuotes
  MaxTime = 8
  MaxTrades = 2
  MaxTicks = 2
INVARIANTS
  NoLookAhead
  SettledRowsStay
  ReportIsRight
  EligibleIsAligned
