SPECIFICATION FairSpec
CONSTANTS
  NEp = 2
  NHost = 3
  NProc = 4
INVARIANTS
  ReadsAnswered
  RequestsAnswered
PROPERTIES
  SessionEnds
  ServiceImplemented
