SPECIFICATION Spec
CONSTANTS
  Requests <- TwoRequests
  Callers <- TwoRequests
  RedisLimit = 4
  MemoryLimit = 4
  Estimate = 2
  MaxFaults = 0
  FailureThreshold = 1
  SuccessThreshold = 1
  Chain <- FourCandidates
  Registered = {"primary", "secondary"}
  MaxRetries = 1
  MaxAttempts = 3
  Actuals = {1, 3}
  MaxActual = 3
INVARIANT TerminalPathsFinalize
CHECK_DEADLOCK FALSE
