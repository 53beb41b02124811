CONSTANTS
  a = a  b = b  c = c  d = d  r1 = r1  r2 = r2  k1 = k1  k2 = k2
  x = x  y = y  home = home  n1 = n1  n2 = n2
  NoKey = NoKey  NoRef = NoRef
  Candidates = {a, d}
  AddressOf <- Addresses
  RefOf <- Refs
  Connectors <- Both
  Feeds <- Lists
  Prior <- Streaks
  Outcomes <- Observed
  DirectExits = {home}
  SubnetOf <- OneSubnet
  AsnOf <- Owners
  Known <- BothThenOne
  ReserveSize = 3
  PoolSize = 2
  MinScore = 5
  UnknownPenalty = 2
  UnknownLimit = 1
  ReloadInterval = 1
  Timeout = 1
  MaxAge = 1
  Concurrency = 1
  MaxNow = 0
  MaxReleases = 1
  MaxCycles = 2
SPECIFICATION FairSpec
PROPERTIES
  CycleIsRetried
CHECK_DEADLOCK FALSE
