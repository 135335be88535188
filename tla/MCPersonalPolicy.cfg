CONSTANTS
  o1 = o1
  o2 = o2
  s1 = s1
  s2 = s2
  Reqs = {r1}
  Owners <- MCOwners
  Anonymous = anonymous
  Names <- MCNames
  Domains <- MCDomains
  Sets <- MCSets
  Lines <- MCLines
  RuleIDs = {i1, i2}
  MaxClock = 2
  Consoles = {c1, c2}
  RowIDs = {w1}
  Day = 1
  Interval = 2
SYMMETRY Same
SPECIFICATION MCSpec
INVARIANTS
  QuietVerdict
  StandingEntryBlocks
  BlockedOnlyIfListed
PROPERTIES
  OwnersApart
