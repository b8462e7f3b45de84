SPECIFICATION Spec
CONSTANTS
  b1 = b1 b2 = b2 j1 = j1
  DetBooks <- TwoBooks
  DetJobs <- OneJob
  NoDetBook = NoDetBook
  DelJobs <- OneJob
  NoDelivery = NoDelivery
  LinkDevices = {"d1", "d2"}
  LinkRuns = {1, 2}
  NoLink = "none"
SYMMETRY Symmetry
INVARIANTS BookIsTheOneShown DeliveriesAreTrue LinksAreAttended
CHECK_DEADLOCK FALSE
