SPECIFICATION MessagesSpec
CONSTANTS
  MaxFrames = 2
  MaxBatch = 2
  ArgPieces = 3
  Quirks = {}
INVARIANT BlocksInOrder
CHECK_DEADLOCK FALSE
