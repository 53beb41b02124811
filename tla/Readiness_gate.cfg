CONSTANTS
  p = p  q = q
  Candidates = {p}
  AddressOf <- OwnAddress
  PoolSize = 1
  ReserveSize = 1
  MaxNow = 2
  MaxCycles = 2
  MaxCrashes = 0
  Since = 1
  RawLimit = 0
  ValidatedLimit = 1
  RankLimit = 1
SPECIFICATION GateSpec
INVARIANTS
  ReadyIsProven
PROPERTIES
  AssessedIsRecent
