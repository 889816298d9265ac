SPECIFICATION Spec
CONSTANTS
  Requests = {"p", "q"}
  Rules = {"x"}
  RuleOf <- SameRule
  Hosts = {"web"}
  Faults = {}
  MaxTries = 1
  MaxEdits = 0
CHECK_DEADLOCK FALSE
INVARIANTS
  RefusalEndsCountdown
