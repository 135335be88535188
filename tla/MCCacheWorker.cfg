CONSTANTS
  r1 = r1
  r2 = r2
  r3 = r3
  Reqs <- MCReqs
  Queries <- MCQueries
  Public = "public"
SPECIFICATION MCSpec
CHECK_DEADLOCK FALSE
INVARIANTS
  ReplyFits
  NoStoreIsFresh
  InflightConsistent
PROPERTIES
  EveryRequestEnds
