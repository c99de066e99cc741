\* A stimulus, the continuation it may defer and a back-online one; one process loss, one fault.
SPECIFICATION Spec
CONSTANTS
  a = a
  greet = greet
  cont = cont
  NoId = NoId
  Id <- MCIdCont
  BootId <- MCBootId
  Child <- MCChild
  Urgencies = {"normal"}
  Effects = {"post"}
  MaxRetries = 1
  Backoff <- MCBackoff
  QueueMaxDepth = 1
  Gates = {0}
  MaxTime = 0
  MaxLosses = 1
  MaxFaults = 1
  MaxPauses = 0
INVARIANTS TypeOK SingleFlight ActsOncePerOutcome RetryDiscipline
PROPERTIES ShedFloor ImplementsLifecycle
CHECK_DEADLOCK FALSE
