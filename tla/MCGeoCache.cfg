SPECIFICATION FairSpec
CONSTANTS
  w1 = w1
  w2 = w2
  w3 = w3
  Tasks = {w1, w2, w3}
  Targets <- TwoEditions
  Permits = 2
  DnsTtl = 1
  DnsRetry = 1
  GeoTtl = 1
  GeoRetry = 1
  Jitter = 1
  Timeout = 1
  MaxEntries = 1
  MaxFailures = 1
INVARIANTS
  TypeOK
  BoundedStaleness
PROPERTIES
  OnlyRacesOverwrite
  CacheBounded
  Recovers
