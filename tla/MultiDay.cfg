SPECIFICATION Spec
CONSTANTS
  NDates = 2
  MaxRetries = 1
  Options <- MCOptions
INVARIANTS
  FetchIsAuthorized
  SummaryTellsReports
  ExitTellsFailures
  DryRunForetells
