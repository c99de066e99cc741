\* Six duties, three messages in two chats, one retry, one crash or failing call.
SPECIFICATION Spec
CONSTANTS
  chat = chat
  room = room
  NoKey = NoKey
  Id <- MCId
  Key <- MCKey
  Policies <- MCPolicies
  Unbounded <- NoWindow
  DailyCredits = 2
  InitialWindow = 1
  MaxWindow = 2
  Day = 2
  QueueMaxDepth = 1
  MaxRetries = 1
  Backoff <- MCBackoff
  MaxMsg = 3
  MaxTime = 2
  MaxFaults = 1
INVARIANTS TypeOK NoDuplicate OneOpenBatch NeverSpeedsUp HeldToOpening
PROPERTIES MessagesRunTheirCourse
SYMMETRY Chats
CHECK_DEADLOCK FALSE
