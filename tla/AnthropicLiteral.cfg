SPECIFICATION MessagesSpec
CONSTANTS
  MaxFrames = 2
  MaxBatch = 2
  ArgPieces = 3
  Quirks = {"literal"}
INVARIANT ToolArgsIntact
CHECK_DEADLOCK FALSE
