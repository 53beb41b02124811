CONSTANTS
  Updaters = {u1}
  Releases = {r1, r2}
  NoUpdater = NoUpdater
  NoPins = NoPins
  Torn = Torn
  Contents = {f1, f2}
  MaxFaults = 2
SPECIFICATION Spec
INVARIANTS
  AdviceIsUsable
SYMMETRY ReleaseSymmetry
