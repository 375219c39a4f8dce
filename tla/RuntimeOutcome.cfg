SPECIFICATION Spec
CONSTANTS
  Runs = {r1, r2}
  Watched = {}
  MaxIterations = 2
  AuthorityInstalled = FALSE
  Guarded = FALSE
INVARIANTS
  CompletedIsSaved
CHECK_DEADLOCK FALSE
