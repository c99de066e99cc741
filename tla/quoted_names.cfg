\* No git call fails; one file that a step may write has a non-ASCII name.
SPECIFICATION Spec
CONSTANTS
  Path <- MCPath
  Content <- MCContent
  Absent = Absent
  Quoted <- MCQuoted
  Tool <- MCTool
  BuiltinKind <- MCBuiltin
  Capability <- MCCapability
  DryRun <- MCDryRun
  SoulNamed = {"SOUL.md", "SOUL.md.draft"}
  Root <- MCRoot
  StartFiles <- MCStart
  StepState <- MCStates
  Calls <- MCCalls
  Remotes <- MCRemotes
  Required = {"main"}
  MaxAttempts = 2
  MaxSteps = 2
  MaxWrites = 1
  MaxEdits = 0
  MaxFaults = 0
INVARIANTS AllowlistedIsCommitted
CHECK_DEADLOCK FALSE
