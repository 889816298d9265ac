CONSTANTS
  None = None
  Inputs = {"a", "b", "c"}
  Answers = {"a"}
  Plain = {"b", "c"}
  MaxPending = 2
  Outcomes = {"complete", "terminal"}
  Disturbances = {"interrupt", "evict", "append error"}
SPECIFICATION FairSpec
INVARIANTS TypeOK Accounted ClaimKept ClosedIsBeingReset
PROPERTIES LifeSpec LossHasCause Serviced
CHECK_DEADLOCK FALSE
