SPECIFICATION StoreSpec
CONSTANTS
  c1 = c1
  c2 = c2
  c3 = c3
  server = server
  cli = cli
  i1 = i1
  i2 = i2
  alice = alice
  bob = bob
  Nobody = Nobody
  AnyClient = AnyClient
  Unlimited = Unlimited
  NoTicket = NoTicket
  NoFile = NoFile
  Torn = Torn
  Calls = {c1, c2, c3}
  Procs = {server, cli}
  Ids = {i1, i2}
  Clients = {alice, bob}
  MaxTime = 3
  Times = {0}
  ProcOf <- ServerAndCli
  PidOf <- OwnPid
  UnitOf <- OwnUnit
  FirstFile <- OneTicket
  RequestsOf <- RedeemWhileCreating
INVARIANTS NoOverRedemption
CHECK_DEADLOCK FALSE
