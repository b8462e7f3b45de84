SPECIFICATION Spec
CONSTANTS
  MaxPolls = 2
  BatchBooks = {"b1", "b2", "b3"}
  BatchPages <- AllAtOnce
  HasDevice = TRUE
  Parallel = 2
  Drops = {1, 2}
  DropSize = 2
  BadFiles <- OneBad
  Gateways = {"g1"}
  NoGateway = "none"
  MaxCodes = 1
INVARIANTS OutcomeToldOnce EachBookAskedOnce
PROPERTIES WorkEnds
CHECK_DEADLOCK FALSE
