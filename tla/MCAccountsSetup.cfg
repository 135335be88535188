CONSTANTS
  Requests = {1, 2}
  Emails = {e1, e2}
  TTL = 1
  MaxClock = 0
  Tables = {"dns_rules", "dns_rule_sets"}
  RuleSets = "dns_rule_sets"
  None = None
SPECIFICATION Spec
PROPERTIES
  SetupOnlyWhenEmpty
CHECK_DEADLOCK FALSE
