SPECIFICATION Spec
CONSTANTS
  SeNum = 2
  SuPSe = 2
  PsnRingSize = 2
  McastGrpSize = 2
  ReqMtu = 1
  EleNum = 2
  SReqMsgSize = 2
  MaxRetry = 5
  MaxLoss = 0
  Pipelined = TRUE
  RetryWhen = "quiet"
INVARIANTS
  RetiredIsDelivered
