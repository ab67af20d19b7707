SPECIFICATION Spec
CONSTANTS
  SeNum = 1
  SuPSe = 2
  PsnRingSize = 2
  McastGrpSize = 1
  ReqMtu = 2
  EleNum = 8
  SReqMsgSize = 8
  MaxRetry = 5
  MaxLoss = 0
  Pipelined = TRUE
  RetryWhen = "quiet"
INVARIANTS
  TypeOK
  WindowBounded
  ReadSlotsSuffice
  WriteSlotsSuffice
PROPERTIES
  UnitReassignedAfterRetire
  ServiceImplemented
