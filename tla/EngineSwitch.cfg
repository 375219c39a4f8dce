SPECIFICATION Spec
CONSTANTS
  NumSteps = 2
  Deps <- ChainDeps
  Dangerous = {2}
  Agents = {"a1", "a2"}
  Selectable <- AnyAgent
  Eligible <- AnyAgent
  NoAgent = "none"
  MaxRetries = 1
  MaxSwitches = 1
  MaxRevisions = 2
  VerifierRevisions = 1
  LongTimeout = TRUE
  AuthorityInstalled = FALSE
  MaxFaults = 1
  MaxResumes = 2
PROPERTIES
  SwitchedAgentRuns
CHECK_DEADLOCK FALSE
