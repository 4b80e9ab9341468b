SPECIFICATION FairSpec
CONSTANTS
  a = a
  Sessions = {a}
  TicketUses = 1
  MaxBuilds = 1
  Limits <- MCLimits
  MaxU64 = 7
  ListSizes = {0, 2, 3}
  ChunkSize = 1
  MaxPaths = 2
  MaxChunks = 3
  MaxCrashes = 1
INVARIANTS TypeOK TurnsAgree PaidFor SuccessIsShared BuildsOnWholeInputs
PROPERTIES ImplementsService EveryClientEnds EveryHandlerEnds
CHECK_DEADLOCK FALSE
