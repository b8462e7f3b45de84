SPECIFICATION Spec
CONSTANTS
  r1 = r1
  r2 = r2
  Requests <- TwoRequests
  LastGen = 2
  MaxLaunches = 2
  LastVersion = 3
  MaxInterruptions = 2
CHECK_DEADLOCK FALSE
INVARIANTS LastCodesWork KeysAreEarned
PROPERTIES FirstStartPairs FolderIsSafe LeftAloneArrives
