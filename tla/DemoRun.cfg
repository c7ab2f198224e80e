SPECIFICATION FairSpec
CONSTANTS
  N = 3
  Deps <- MCDeps
  Runners = {r1, r2}
  Nobody = nobody
  MaxChanges = 3
INVARIANTS
  PassedOnRecordedInputs
  ManifestSumsUpRecords
  ConsumptionIsAuthorized
PROPERTIES
  PublicationIsFinal
  RunEnds
  LedgerRefined
