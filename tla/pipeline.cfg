SPECIFICATION Spec
CONSTANTS
  NEp = 2
  EndpShift = 1
  UnitShift = 2
  ItemShift = 2
  ReadRingShift = 0
  WriteRingShift = 3
  PsnBits = 6
  RegBits = 8
  Psn0 = 0
  NPost = 1
  NItem = 3
  NSession = 2
  MaxLoss = 1
  LoseRequests = FALSE
INVARIANTS
  ReadSlotHolds
  WriteIsRight
  CompletedIsWritten
  DownOnlyAfterLoss
PROPERTIES
  FirstIsCompleted
