\* A batch duty whose debounce outlasts its dispatch window.
SPECIFICATION Spec
CONSTANTS
  chat = chat
  room = room
  NoKey = NoKey
  Id <- MCId
  Key <- MCKey
  Policies <- MCWindowedBatch
  Unbounded <- NoWindow
  DailyCredits = 2
  InitialWindow = 1
  MaxWindow = 2
  Day = 2
  QueueMaxDepth = 3
  MaxRetries = 1
  Backoff <- MCBackoff
  MaxMsg = 3
  MaxTime = 2
  MaxFaults = 0
INVARIANT WaitsForWindow
CHECK_DEADLOCK FALSE
