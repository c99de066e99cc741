SPECIFICATION FairSpec
CONSTANTS
  a = a
  greet = greet
  cont = cont
  NoId = NoId
  Id <- MCPair
  BootId <- MCBootId
  Child <- MCPairChild
  Urgencies = {"normal"}
  Effects = {"spawn"}
  MaxRetries = 1
  Backoff <- MCBackoff
  QueueMaxDepth = 2
  Gates = {0}
  MaxTime = 0
  MaxLosses = 0
  MaxFaults = 0
  MaxPauses = 0
PROPERTY RetriedWakeDidNothing
CHECK_DEADLOCK FALSE
