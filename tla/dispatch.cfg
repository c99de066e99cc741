\* One raw stimulus, one level of deferral, one retry, one failing database call or crash.
SPECIFICATION FairSpec
CONSTANTS
  public = public
  org = org
  self = self
  operator = operator
  nowhere = nowhere
  look = look
  say = say
  trade = trade
  grow = grow
  feed = feed
  ledger = ledger
  Tier <- MCTier
  Lattice <- MCLattice
  Prompt <- MCPrompt
  StateOf <- MCStateOf
  Transitions <- MCTransitions
  Server <- MCServer
  ServerTrust <- MCServerTrust
  ServerMin <- MCServerMin
  ServerStates <- MCServerStates
  Seeds <- MCSeeds
  Operator = operator
  Public = public
  MaxSteps = 2
  MaxWidth = 2
  MaxDepth = 1
  MaxRetries = 1
  ReflectInterval = 1
  BatonTtl = 0
  MaxRaw = 1
  MaxTime = 1
  MaxFaults = 1
INVARIANTS TypeOK TaintTracksLineage CeilingHolds PrivilegeLostWithTrust ReflectRationed
PROPERTIES LineagesEnd ImplementsWakes
CHECK_DEADLOCK FALSE
