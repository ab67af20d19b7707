SPECIFICATION Spec
CONSTANTS
  NEp = 1
  EndpShift = 1
  UnitShift = 2
  ItemShift = 1
  ReadRingShift = 1
  WriteRingShift = 3
  PsnBits = 6
  RegBits = 8
  Psn0 = 0
  NPost = 2
  NItem = 2
  NSession = 1
  MaxLoss = 1
  LoseRequests = FALSE
INVARIANTS
  CompletedIsWritten
