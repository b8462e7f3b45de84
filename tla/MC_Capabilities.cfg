SPECIFICATION Spec
CONSTANTS
  a1 = a1 a2 = a2 b1 = b1 b2 = b2 q1 = q1 r1 = r1 r2 = r2 r3 = r3
  dropbox = dropbox drive = drive kobo = kobo
  Uncounted = Uncounted
  Codes <- TwoOfA
  Jobs <- TwoOfB
  CodeRequests <- ThreeRequests
  Unlimited = Unlimited
  NoDelivery = NoDelivery
  Deliveries <- TwoOfA
  Downloads <- TwoOfB
  TokenRequests <- OneRequest
  Labels <- OneReader
  Limits <- OneOrNoLimit
  LastToken = 2
  MaxCount = 2
  NoState = NoState
  NoDevice = NoDevice
  States <- TwoOfA
  Devices <- TwoOfB
  Providers <- BothProviders
  Callbacks <- ThreeRequests
SYMMETRY Symmetry
CHECK_DEADLOCK FALSE
INVARIANTS UsedOnce
PROPERTIES OneCatalogPerReader IsGrant LinkAsAsked
