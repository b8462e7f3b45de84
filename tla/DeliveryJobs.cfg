\* One job, all four routes, two runs in memory, two requests, two sweepers.
SPECIFICATION FairSpec
CONSTANTS
  Jobs = {j1}
  Tasks = {t1, t2}
  Requests = {h1, h2}
  Sweepers = {s1, s2}
  NoJob = NoJob
  NoOne = NoOne
  MaxAttempts = 2
  MaxRuns = 3
  MaxCrashes = 1
INVARIANTS
  TypeOK
  MutualExclusion
  CancelledNeverExecutes
  TruthfulStatus
  AttemptsBoundCopies
PROPERTIES
  RequeuedAtRest
  RegressionHasCause
  ImplementsLifecycle
  QueuedIsResolved
  LockIsReleased
