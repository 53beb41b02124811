CONSTANTS
  p = p
  Candidates = {p}
  AddressOf <- OwnAddress
  PoolSize = 1
  ReserveSize = 2
  MaxNow = 1
  MaxCycles = 2
  MaxCrashes = 1
SPECIFICATION FairSpec
INVARIANTS
  TypeOK
  LineageIsVisible
  GatewayServesValidated
  StreakIsConsecutive
PROPERTIES
  LineageNeverBackwards
  PoolCatchesUp
