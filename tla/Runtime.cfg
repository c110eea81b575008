SPECIFICATION RuntimeSpec
CONSTANTS
  NumExt = 2
  MAX_DECIDE_ROUNDS = 2
  MaxMessages = 2
  Procs = {p1, p2}
  TIMEOUT = 1
  MARGIN = 1
  MaxBuilds = 1
  Faults = {"crash", "leap"}
  MaxRounds = 1
  Indices = {0, 1}
  RoundFrames = 2
  MaxText = 2
  MaxFrames = 3
  MaxBatch = 2
  ArgPieces = 3
  Quirks = {}
INVARIANTS
  GateFailsClosed
  SpendBounded
  GatesHold
  EditsInNameOrder
  ExclusiveUndisturbed
  LockReleased
  RecordIsEarned
  SearchHidden
  TextForwarded
  OwnCallsKept
  WellFormed
  ClosedAtEnd
  ToolArgsIntact
  NothingLost
PROPERTIES
  ClientSeesOneAnswer
  EverythingEnds
CHECK_DEADLOCK FALSE
