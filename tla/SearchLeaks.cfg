SPECIFICATION SearchSpec
CONSTANTS
  MaxRounds = 1
  Indices = {0, 1}
  RoundFrames = 2
  MaxText = 2
INVARIANT SearchNeverSeen
CHECK_DEADLOCK FALSE
