SPECIFICATION FairSpec
CONSTANTS
  Texts = {"a", "b"}
  Kids = {}
  Controllers = {"host"}
  Ops <- CtrlC
  MaxOps = 1
CHECK_DEADLOCK FALSE
PROPERTIES
  ResetReturns
