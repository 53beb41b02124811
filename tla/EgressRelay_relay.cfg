CONSTANTS
  c1 = c1  c2 = c2  a1 = a1  a2 = a2
  Clients = {c1, c2}
  Addresses = {a1, a2}
  Ports <- MCPorts
  Snapshots <- TwoSnapshots
  CapableKey = {a2}
  PoolSize = 2
  Attempts = 2
  RefreshEvery = 1
  Cooldown = 1
  MaxNow = 2
  NoClient = NoClient
  NoUpstream = NoUpstream
SPECIFICATION FairSpec
INVARIANTS
  TypeOK
  DnsTunnelIsProven
PROPERTIES
  PoolNeverGoesBack
  CooldownOwnedByAttempts
  RefusedOnlyWhenExhausted
  EveryConnectionEnds
CHECK_DEADLOCK FALSE
