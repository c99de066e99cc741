\* Every bound is the component's own; the components stop when theirs are reached.
SPECIFICATION Spec
CONSTANTS
  Module = {m1, m2}
  Enabled = {m1}
  BackoffStart = 1
  BackoffCap = 3
  MaxRestarts = 4
  MaxCrashes = 1
  Duty = {"a", "b"}
  HookPath = {"p"}
  Roster <- MCRoster
  FirstRoster <- MCFirst
  Reloader = {r1, r2}
  Capacity = 1
  Park = 2
  MaxClock = 3
  MaxChanges = 2
  MaxPosts = 1
  Label = {"a"}
  Trust = {"t", "u"}
  DayLength = 1
  KeepDays = 1
  MaxNotes = 1
  Stray <- MCStray
  MaxInstant = 2
  MaxEntries = 2
  MaxWritten = 2
  MaxTrouble = 1
  memory = memory
  etc = etc
  Agent <- MCAgent
  Flat <- MCFlat
  Soul = {memory}
  Outside = {etc}
  AgentTool = {"edit", "search"}
  AgentFile <- MCFile
  Missing = Missing
  AnyTool = AnyTool
  Settings <- MCSettings
  Slot = {k1, k2}
  StaleAfter = 1
  MaxSecond = 2
  MaxSpawned = 2
  MaxMishaps = 1
  Prompt = {"perceive", "express"}
  Ways <- MCWays
  Lean <- MCLean
  Tier = {"self", "public"}
  Dims = {"x"}
  Ttl = 1
  Cap = 1
  MaxContext = 2
  MaxMoment = 2
  MaxTurns = 3
  MaxLives = 2
  Item = {"m1", "m2"}
  Latest = "latest"
  NoTarget = "none"
  Says <- MCSays
  MaxParse = 1
  MaxCalls = 2
  MaxInvocations = 3
INVARIANTS TypeOK RestartsSlowDown FiresOnce ReloadReachesSources RunlogReadsBack WorkersAccounted WorkerContained  DecisionsArrive
PROPERTIES HistoryKept
SYMMETRY Alike
CHECK_DEADLOCK FALSE
