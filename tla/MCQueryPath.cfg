CONSTANTS
  r1 = r1
  r2 = r2
  r3 = r3
  NoUpstream = ""
  Reqs <- MCReqs
  Queries <- MCQueries
  Unsendable <- MCUnsendable
  Width <- MCWidth
  DefaultBits <- MCDefaultBits
  Files <- MCFiles
  Defaults <- MCDefaults
  Edges <- MCEdges
  China <- MCChina
  MaxItems = 2
  PositiveTTL = 1
  NegativeTTL = 1
  StaleIfError = 1
  MaxClock = 3
SPECIFICATION MCSpec
CHECK_DEADLOCK FALSE
INVARIANTS
  FlightConsistent
  AnswersOwnQuestion
  OwnIDUnlessCoalesced
  SubnetIsOwn
PROPERTIES
  NoNeedlessError
  EveryRequestAnswered
