SPECIFICATION FairSpec
CONSTANTS
  a = a
  greet = greet
  cont = cont
  NoId = NoId
  Id <- MCPair
  BootId <- MCBootId
  Child <- MCPairChild
  Urgencies = {"normal"}
  Effects = {}
  MaxRetries = 1
  Backoff <- MCBackoff
  QueueMaxDepth = 2
  Gates = {0, 1}
  MaxTime = 0
  MaxLosses = 2
  MaxFaults = 0
  MaxPauses = 1
INVARIANTS PauseHolds
PROPERTIES EveryStimulusSettles NoLeaseForever
CHECK_DEADLOCK FALSE
