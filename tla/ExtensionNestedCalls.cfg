SPECIFICATION ChainSpec
CONSTANTS
  NumExt = 2
  MAX_DECIDE_ROUNDS = 2
  MaxMessages = 2
INVARIANT NestedCallsAllCounted
CHECK_DEADLOCK FALSE
