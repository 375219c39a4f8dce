SPECIFICATION Spec
CONSTANTS
  Runs = {r1}
  Watched = {}
  MaxIterations = 2
  AuthorityInstalled = TRUE
  Guarded = FALSE
PROPERTIES
  CancelAlwaysHeeded
CHECK_DEADLOCK FALSE
