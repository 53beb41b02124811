CONSTANTS
  Updaters = {u1, u2}
  Releases = {r1, r2}
  NoUpdater = NoUpdater
  NoPins = NoPins
  Torn = Torn
  Contents = {f1, f2}
  MaxFaults = 3
SPECIFICATION FairSpec
INVARIANTS
  TypeOK
  SettledIsWhole
  RolledBackIsPrevious
PROPERTIES
  PassedAsValidated
  ChangesAreJournalled
  InstallationPromise
  InterruptionIsResolved
