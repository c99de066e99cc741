SPECIFICATION FairSpec
CONSTANTS
  a = a
  greet = greet
  cont = cont
  NoId = NoId
  Id <- MCPair
  BootId <- MCBootId
  Child <- MCPairChild
  Urgencies = {"normal"}
  Effects = {}
  MaxRetries = 1
  Backoff <- MCBackoff
  QueueMaxDepth = 2
  Gates = {0}
  MaxTime = 0
  MaxLosses = 1
  MaxFaults = 0
  MaxPauses = 0
PROPERTY ExitLeavesNoZombie
CHECK_DEADLOCK FALSE
