SPECIFICATION Spec
CONSTANTS
  b1 = b1 b2 = b2 b3 = b3 r1 = r1 r2 = r2
  d1 = d1 d2 = d2 m1 = m1 m2 = m2 q1 = q1 q2 = q2 blank = blank u1 = u1 u2 = u2
  LibBooks <- ThreeBooks
  LibStarts <- OneOrTwo
  LibResults <- TwoResults
  GatewayResults <- OneResult
  LibPageLimit = 1
  NoResult = NoResult
  SendBooks <- OneBook
  SendDevices <- TwoDevices
  SendMethods <- TwoMethods
  KindleDevices <- OneKindle
  SendFormats = {"azw3"}
  NoSendBook = NoSendBook
  NoSendDevice = NoSendDevice
  NoMethod = NoMethod
  Queries <- TwoQueries
  MaxPage = 2
  CoverBooks <- TwoBooks
  NoCover = NoCover
  ByTitle <- Titles
  NewestFirst <- Newest
  LinkedBooks <- OneBook
  ManualBooks <- OtherBook
  TextBooks <- BooksOfText
  ColPageSize = 2
  MaxColPage = 3
  NoColBook = NoColBook
  PalTexts <- TwoQueries
  NoText = blank
  PalCommands <- CommandsOf
  PalFound <- FoundFor
  Tabs4 = {"library"}
  MorePages = {"settings"}
  ShellUsers <- TwoUsers
  FirstSteps = {"books", "devices"}
INVARIANTS LibraryIsServers SentWasOffered ShownIsAskedFor
