SPECIFICATION FairSpec
CONSTANTS
  Runs = {r1, r2}
  Watched = {r1}
  MaxIterations = 2
  AuthorityInstalled = TRUE
  Guarded = TRUE
INVARIANTS
  TypeOK
  NoZombie
  ToolsBounded
PROPERTIES
  CancelHeeded
  DriversEnd
  StreamsEnd
CHECK_DEADLOCK FALSE
