SPECIFICATION StreamSpec
CONSTANTS
  MaxFrames = 2
  MaxBatch = 2
  ArgPieces = 2
  Indices = {0}
  MaxCalls = 1
  Quirks = {}
PROPERTY CompletedIsLast
CHECK_DEADLOCK FALSE
