SPECIFICATION SearchSpec
CONSTANTS
  MaxRounds = 1
  Indices = {0}
  RoundFrames = 2
  MaxText = 2
INVARIANT TextKept
CHECK_DEADLOCK FALSE
