SPECIFICATION Spec
CONSTANTS
  NCore = 2
  NEp = 1
  QSize = 3
  MaxPost = 2
  Window = 2
INVARIANTS
  NoCompletionLost
