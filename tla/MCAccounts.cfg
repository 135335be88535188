CONSTANTS
  Requests = {1, 2, 3}
  Emails = {e1, e2}
  TTL = 1
  MaxClock = 2
  Tables = {"dns_rules", "dns_rule_sets"}
  RuleSets = "dns_rule_sets"
  None = None
SPECIFICATION FairSpec
ACTION_CONSTRAINT InOrder
CHECK_DEADLOCK FALSE
INVARIANTS
  OneDefaultProfile
  DefaultIsShown
  RowsHaveOneOwner
  SessionHasProfile
  NoLockOut
PROPERTIES
  EveryRequestEnds
