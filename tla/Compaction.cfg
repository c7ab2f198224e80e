SPECIFICATION FairSpec
CONSTANTS
  Parts <- MCParts
  ChunkFiles = 2
CHECK_DEADLOCK FALSE
INVARIANTS
  RunKeepsSources
  CleanRunMovesOnce
PROPERTIES
  CompactionEnds
