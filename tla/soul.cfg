\* One call or stray write, one edit or reconciliation by hand, one fault.
SPECIFICATION FairSpec
CONSTANTS
  Path <- MCPath
  Content <- MCContent
  Absent = Absent
  Quoted <- MCNone
  Tool <- MCTool
  BuiltinKind <- MCBuiltin
  Capability <- MCCapability
  DryRun <- MCDryRun
  SoulNamed = {"SOUL.md", "SOUL.md.draft"}
  Root <- MCRoot
  StartFiles <- MCStart
  StepState <- MCStates
  Calls <- MCCalls
  Remotes <- MCRemotes
  Required = {"main"}
  MaxAttempts = 2
  MaxSteps = 2
  MaxWrites = 1
  MaxEdits = 1
  MaxFaults = 1
INVARIANTS TypeOK TripwireHolds CleanAfterStep  OutwardIsMarked SettleOnlyInSettle
PROPERTIES AllowedWritesKept 
CHECK_DEADLOCK FALSE
