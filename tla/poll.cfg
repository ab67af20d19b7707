SPECIFICATION FairSpec
CONSTANTS
  NCore = 2
  NEp = 2
  QSize = 2
  MaxPost = 2
  Window = 2
INVARIANTS
  OwnOnce
  LostInBatchOrRefused
PROPERTIES
  RefusedFullOrOvertaken
  EveryReadReported
