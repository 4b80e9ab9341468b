SPECIFICATION FairLockSpec
CONSTANTS
  c1 = c1
  c2 = c2
  c3 = c3
  server = server
  cli = cli
  cli2 = cli2
  Nobody = Nobody
  Calls = {c1, c2, c3}
  Procs = {server, cli, cli2}
  ProcOf <- ThreeProcs
  PidOf <- ReusedPid
  UnitOf <- OwnUnit
INVARIANTS LockTypeOK NoOrphanLock AtMostOneHolder
PROPERTIES EveryCallEnds
CHECK_DEADLOCK FALSE
