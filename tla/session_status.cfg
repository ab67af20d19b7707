SPECIFICATION Spec
CONSTANTS
  NEp = 2
  NHost = 2
  NProc = 2
INVARIANTS
  WcStatusSuccess
