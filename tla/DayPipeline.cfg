SPECIFICATION FairSpec
CONSTANTS
  N <- StageCount
  Deps <- DependsOn
  Required <- IsRequired
  ForceCapable <- SupportsForce
  WriteOnce <- RefusesExisting
  Partitioned <- WritesPartitions
  Options <- MCOptions
  MaxRetries = 1
INVARIANTS
  ReuseIsDownwardClosed
  RanMeansSound
  CompleteIsEarned
  RecordedTruncationBlocks
PROPERTIES
  InvocationAdvances
  NothingPresentIsRewritten
  InvocationEnds
  LedgerRefined
