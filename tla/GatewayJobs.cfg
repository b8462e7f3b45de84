\* Two jobs, two handlers, two attempts.
SPECIFICATION FairSpec
CONSTANTS
  LastJob = 2
  Handlers = {u1, u2}
  NoHandler = NoHandler
  MaxAttempts = 2
INVARIANTS
  DoneHasItem
  DuplicateNeedsOverlap
PROPERTIES
  ResultsAreKept
  JobsSettle
CHECK_DEADLOCK FALSE
