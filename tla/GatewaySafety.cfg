SPECIFICATION FairSpec
CONSTANTS
  Requests <- TwoRequests
  Callers <- TwoRequests
  RedisLimit = 3
  MemoryLimit = 4
  Estimate = 2
  MaxFaults = 2
  FailureThreshold = 1
  SuccessThreshold = 1
  Chain <- FourCandidates
  Registered = {"primary", "secondary"}
  MaxRetries = 1
  MaxAttempts = 3
  Actuals = {1, 3}
  MaxActual = 3
INVARIANTS
  TypeOK
  CountersCoverUse
  SpendBounded
  SettledAtMostOnce
  AnsweredIsSettled
  OutageTextNotCached
  CountersMatchState
PROPERTIES
  RequestsEnd
CHECK_DEADLOCK FALSE
