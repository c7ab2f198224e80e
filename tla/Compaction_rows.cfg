SPECIFICATION Spec
CONSTANTS
  Parts <- MCParts
  ChunkFiles = 2
CHECK_DEADLOCK FALSE
INVARIANTS
  RowsSurvive
