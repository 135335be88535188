CONSTANTS
  ByName <- MCByName
  Domains = {"d"}
  Good = {"hagezi_multi_normal", "oisd_big"}
  QuickFetch = 1
  FetchLimit = 2
  StartLimit = 3
  DailyLimit = 8
  MarkLimit = 1
  MaxAge = 4
SPECIFICATION FairRefreshSpec
INVARIANTS
  UsedIffFilled
PROPERTIES
  DailyPassReachesAll
  GoodListsGetUsed
