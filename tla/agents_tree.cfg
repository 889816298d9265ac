SPECIFICATION FairSpec
CONSTANTS
  Texts = {"a", "b"}
  Kids = {"k"}
  Controllers = {"host", "evictor", "canceller"}
  Ops <- HostAndOthers
  MaxOps = 2
CHECK_DEADLOCK FALSE
INVARIANTS
  TypeOK
  NothingRunsInClosedTree
  OwnResultUnlessFed
PROPERTIES
  ResetLeavesNothing
  Answered
  InterruptReturns
  ChildrenLeave
