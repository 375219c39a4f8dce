SPECIFICATION ServicesSpec
CONSTANTS
  Turns = {t1, t2}
  MaxRevisions = 2
  Tasks = {j1, j2}
  Workers = {w1, w2}
  MaxPolls = 2
  Watched = {j1}
  NoTask = none
  MaxLinkFaults = 2
  Posts = {p1, p2, p3}
  OwnPosts = {p1, p2}
  MaxBridgeFaults = 2
  Checks = {c1, c2}
  Capacity = 2
  Backoff = 1
  MaxTime = 2
  Slots = {k1}
  Calls = {o1, o2, o3}
  Actors = {u1, u2}
  Admins = {u2}
  MaxPasses = 1
  MaxStoreFaults = 1
  Flows = {f1, f2}
  FreshFor = 2
  WatchPeriod = 2
  AnswerAge = 1
  MaxActs = 1
INVARIANTS
  ServicesTypeOK
  RefusedNotPublished
  PublishedWasPassed
  ResumedOnce
  LockFreedByRefused
  AdmissionsBounded
  GoneStaysGone
  RetiredIsUnused
PROPERTIES
  TurnsEnd
  ImplementsTaskPath
  SeenGoesBackOnlyByOverlap
  AcceptedTasksEnd
  DenialIsFinal
  RevocationHeeded
  WithdrawnIsStopped
CHECK_DEADLOCK FALSE
