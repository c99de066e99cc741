\* One self-trusted stimulus that fans out Low batons.
SPECIFICATION FairSpec
CONSTANTS
  public = public
  org = org
  self = self
  operator = operator
  nowhere = nowhere
  look = look
  say = say
  trade = trade
  grow = grow
  feed = feed
  ledger = ledger
  Tier <- MCTier
  Lattice <- MCLattice
  Prompt <- MCPrompt
  StateOf <- MCStateOf
  Transitions <- MCTransitions
  Server <- MCServer
  ServerTrust <- MCServerTrust
  ServerMin <- MCServerMin
  ServerStates <- MCServerStates
  Seeds <- MCSeedsOne
  Operator = operator
  Public = public
  MaxSteps = 2
  MaxWidth = 2
  MaxDepth = 1
  MaxRetries = 1
  ReflectInterval = 1
  BatonTtl = 0
  MaxRaw = 1
  MaxTime = 0
  MaxFaults = 0
INVARIANT StimulusStepCap
CHECK_DEADLOCK FALSE
