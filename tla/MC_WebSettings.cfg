SPECIFICATION Spec
CONSTANTS
  d1 = d1 d2 = d2 k1 = k1 k2 = k2
  OwnDevices <- TwoDevices
  NoDevice = NoDevice
  FormModels <- ModelsOf
  HighEnd = {"Forma"}
  NoWord = ""
  GoodMails = {"allowed"}
  BadMails = {"barred"}
  NoReader = NoReader
  OpenAccess = {"gutendex", "open_library", "internet_archive"}
  NoSource = "none"
  Gateways = {"g1"}
  NoGateway = "none"
  MaxCodes = 2
  ActFirst = "g1"
  ActSecond = "g2"
  NoneShown = "none"
  OnlineWindow = 1
  CodesWindow = 1
  Settings = {"v0", "v1", "v2", " v1"}
  NotSet = "v0"
  Trim <- TrimOf
  MaxRefreshes = 2
  ReaderLinks <- TwoLinks
  NoLinkShown = NoLinkShown
INVARIANTS PagesAreServers SwitchesAreServers CodesShownWork
CHECK_DEADLOCK FALSE
