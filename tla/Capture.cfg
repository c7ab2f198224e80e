SPECIFICATION FairSpec
CONSTANTS
  Symbols = {spx, ndx}
  Quotes = {q1, q2}
  NoQuote = NoQuote
  Times <- MCTimes
  Gap = 2
  Rows <- MCRows
  Hours <- MCHours
  Parts <- MCParts
  FlushRows = 2
  MaxTicks = 3
  MaxSignals = 1
CHECK_DEADLOCK FALSE
INVARIANTS
  TicksAddUp
  RowsShowLatest
  EveryRowOnce
PROPERTIES
  StopIsObeyed
  JournalRefined
