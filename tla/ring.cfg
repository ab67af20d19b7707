SPECIFICATION FairSpec
CONSTANTS
  Pushers = {p1, p2}
  Poppers = {c1, c2}
  Cap = 3
  MaxPush = 4
  MaxOvertake = 2
INVARIANTS
  SlotsOwnedOnce
PROPERTIES
  FifoImplemented
  PushReturns
