CONSTANTS
  o1 = o1  o2 = o2  c1 = c1  c2 = c2
  withCA = withCA  withoutCA = withoutCA
  store = store  ca = ca  none = none
  Operators = {o1, o2}
  Commits = {c1, c2}
  Sets = {withCA, withoutCA}
  FileOrder <- StoreThenCA
  Provides <- OneBringsCA
  Consistent <- CAWhenNamed
  Absent = none
  Torn = Torn
  Down = Down
  NoOne = NoOne
  Service = Service
  StartLimit = 1
  MaxJobs = 5
SPECIFICATION FairSpec
INVARIANTS
  TypeOK
  DeliveredIsCanonical
PROPERTIES
  InstalledIsValidated
  RecordedIsInstalled
  ReadyIsPinned
  LockComesFree
