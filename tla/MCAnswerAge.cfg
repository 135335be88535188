CONSTANTS
  Messages <- SomeMessages
  Sections <- SomeSections
  Defaults <- MCDefaults
  MaxClock = 6
  MaxLag = 1
SPECIFICATION MCSpec
INVARIANTS
  ToldWithinRecords
  NegativeLeavesFresh
  UsedWithinTwiceTTL
CHECK_DEADLOCK FALSE
