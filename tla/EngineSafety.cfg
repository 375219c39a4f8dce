SPECIFICATION Spec
CONSTANTS
  NumSteps = 3
  Deps <- JoinDeps
  Dangerous = {1, 2}
  Agents = {"a1"}
  Selectable <- AnyAgent
  Eligible <- AnyAgent
  NoAgent = "none"
  MaxRetries = 1
  MaxSwitches = 0
  MaxRevisions = 1
  VerifierRevisions = 2
  LongTimeout = FALSE
  AuthorityInstalled = TRUE
  MaxFaults = 2
  MaxResumes = 2
INVARIANTS
  TypeOK
  DependenciesRespected
  DangerousCallNeedsGrant
  StatusMatchesPlan
  NeverStalls
  NoRunDropped
PROPERTIES
  CompletedNeverRepeated
  DurableTerminalIsFinal
CHECK_DEADLOCK FALSE
