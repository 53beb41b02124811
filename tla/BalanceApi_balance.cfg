CONSTANTS
  r1 = r1  r2 = r2  r3 = r3
  Requests = {r1, r2, r3}
  RoundRobin = RoundRobin
  StickTable = StickTable
  NoMode = NoMode
SPECIFICATION Spec
SYMMETRY Symmetry
INVARIANTS
  TypeOK
  LoadedCatchesUp
PROPERTIES
  AppliedAloneIsTrue
CHECK_DEADLOCK FALSE
