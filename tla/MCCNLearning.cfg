CONSTANTS
  r1 = r1
  r2 = r2
  Reqs = {r1, r2}
  Names <- MCNames
  KeywordHits <- MCHits
  TTLs = {0, 2}
  TTLFloor = 1
  TTLCaps <- MCCaps
  MaxClock = 3
  Scripts = {timer, manual}
  Daily = timer
  Downloads <- MCDownloads
  LocalFiles <- MCLocalFiles
  MaxFailures = 2
SPECIFICATION MCSpec
INVARIANTS
  CNRouteHasEvidence
  RulesAsWritten
  FilesAgree
PROPERTIES
  ForgottenEarlyOnlyInRace
  ListsTakeEffect
