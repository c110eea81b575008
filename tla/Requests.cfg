SPECIFICATION RequestsSpec
CONSTANTS
  Cases <- MCCases
  Answers <- MCAnswers
  Chats <- MCChats
  MaxRequests = 2
  MaxFrames = 3
  MaxBatch = 2
  ArgPieces = 2
  Indices = {0, 1}
  MaxCalls = 2
  Quirks = {}
  BudgetTime = 20
  MinReserve = 4
  MinBudget = 8
  MaxBudget = 20
  GraphMemory = 2
  LoadTime = 2
  PassTime = 1
  MinTokens = 2
  MaxTokens = 4
  HostTimeout = 24
  Delays = {0, 10}
  Limit = 3
  ResultLimit = 2
  MaxWords = 12
INVARIANTS
  ChatProtocolKept
  AnswerWhole
  
  EffortHonoured
  DefaultsUsable
  ItemsWellFormed
  ItemsClosedAtEnd
  CallArgsIntact
  ChatDeltasNamed
  SentRedacted
  ImagesKept
  ReplyInTime
PROPERTY HandlerAnswers
CHECK_DEADLOCK FALSE
