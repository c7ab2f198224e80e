SPECIFICATION Spec
CONSTANTS
  N <- StageCount
  Deps <- DependsOn
  Required <- IsRequired
  ForceCapable <- SupportsForce
  WriteOnce <- RefusesExisting
  Partitioned <- WritesPartitions
  Options <- MCOptions
  MaxRetries = 1
INVARIANT TruncatedRawBlocks
