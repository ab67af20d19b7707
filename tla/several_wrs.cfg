SPECIFICATION Spec
CONSTANTS
  SeNum = 1
  SuPSe = 2
  PsnRingSize = 4
  McastGrpSize = 1
  ReqMtu = 2
  EleNum = 6
  SReqMsgSize = 2
  MaxRetry = 5
  MaxLoss = 0
  Pipelined = TRUE
  RetryWhen = "quiet"
INVARIANTS
  CompletedWrIsCorrect
