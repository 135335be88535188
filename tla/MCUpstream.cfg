CONSTANTS
  c1 = c1
  c2 = c2
  u1 = u1
  u2 = u2
  u3 = u3
  NoUpstream = NoUpstream
  Calls <- MCCalls
  Ups <- MCUps
  Routes <- MCRoutes
  MaxConcurrent <- MCMaxConcurrent
SPECIFICATION FairSpec
INVARIANTS
  TokensAccounted
  NoHoldAndWait
PROPERTIES
  KeepsPromise
