SPECIFICATION Spec
CONSTANTS
  SeNum = 1
  SuPSe = 2
  PsnRingSize = 4
  McastGrpSize = 2
  ReqMtu = 3
  EleNum = 6
  SReqMsgSize = 6
  MaxRetry = 3
  MaxLoss = 2
  Pipelined = FALSE
  RetryWhen = "idle"
INVARIANTS
  AckedIsRetired
  RetiredIsDelivered
  WritePsnNotReused
  ReadPsnNotReused
PROPERTIES
  ServiceImplemented
