SPECIFICATION Spec
CONSTANTS
  a1 = a1 a2 = a2 NoUser = NoUser s1 = s1 s2 = s2 s3 = s3 s4 = s4
  Users <- TwoOfA
  Sends <- FourSends
  HourlyQuota = 2
  DailyQuota = 3
  d1 = d1 dune = dune
  NoRef = NoRef
  Importers <- TwoOfA
  Deleters <- OneDeleter
  Refs <- OneRef
  Quota = 1
  LastItem = 3
  r1 = r1 r2 = r2 r3 = r3
  Requests <- ThreeCallers
  NoRequest = NoRequest
SYMMETRY Symmetry
CHECK_DEADLOCK FALSE
INVARIANTS QuotasHold StorageHolds CacheTypeOK BrokenNeedsCause WholeAtRest
