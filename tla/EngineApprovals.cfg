SPECIFICATION Spec
CONSTANTS
  NumSteps = 3
  Deps <- JoinDeps
  Dangerous = {1, 2}
  Agents = {"a1"}
  Selectable <- AnyAgent
  Eligible <- AnyAgent
  NoAgent = "none"
  MaxRetries = 1
  MaxSwitches = 0
  MaxRevisions = 1
  VerifierRevisions = 2
  LongTimeout = FALSE
  AuthorityInstalled = FALSE
  MaxFaults = 1
  MaxResumes = 2
INVARIANTS
  ApprovalSingleUse
CHECK_DEADLOCK FALSE
