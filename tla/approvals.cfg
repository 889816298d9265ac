SPECIFICATION FairSpec
CONSTANTS
  Requests = {"p"}
  Rules = {"x"}
  RuleOf <- SameRule
  Hosts = {"web", "cli"}
  Faults = {"refused", "late", "raised"}
  MaxTries = 2
  MaxEdits = 2
CHECK_DEADLOCK FALSE
INVARIANTS
  TypeOK
  FailClosed
  RuleMatchesAnswer
  InboxShowsPending
PROPERTIES
  PromiseSpec
  NoLostEdit
  Decided
