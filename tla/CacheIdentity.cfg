SPECIFICATION CacheSpec
CONSTANTS
  Requests <- SomeRequests
  Alike <- SameText
  MaxSets = 2
INVARIANT ExactHitSamePrompt
CHECK_DEADLOCK FALSE
