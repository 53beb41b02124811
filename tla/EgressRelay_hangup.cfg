CONSTANTS
  c1 = c1  c2 = c2  a1 = a1  a2 = a2
  Clients = {c1, c2}
  Addresses = {a1, a2}
  Ports <- DnsOnly
  Snapshots <- OneSnapshot
  CapableKey = {}
  PoolSize = 2
  Attempts = 2
  RefreshEvery = 1
  Cooldown = 1
  MaxNow = 2
  NoClient = NoClient
  NoUpstream = NoUpstream
SPECIFICATION Spec
PROPERTIES
  FailedCandidatesCoolDown
CHECK_DEADLOCK FALSE
