SPECIFICATION FairSpec
CONSTANTS
  a = a
  b = b
  Conns = {a, b}
  MaxBuilds = 1
  RecentLimit = 1
  MaxRestarts = 1
INVARIANTS TypeOK PermitsConserved RegistryTellsTruth NoEntryLeftBehind OnePlaceEach
PROPERTIES EveryRequestEnds
CHECK_DEADLOCK FALSE
