SPECIFICATION FairSpec
CONSTANTS
  SeNum = 1
  SuPSe = 2
  PsnRingSize = 4
  McastGrpSize = 2
  ReqMtu = 2
  EleNum = 4
  SReqMsgSize = 4
  MaxRetry = 5
  MaxLoss = 2
  Pipelined = FALSE
  RetryWhen = "quiet"
PROPERTIES
  EventuallyComplete
