---------------------------- MODULE MCTicketLock ----------------------------
(* A server and two commands contend for the lock, with one call each.  The   *)
(* second command starts after the first has stopped, and has its pid.        *)
EXTENDS TicketLock, TLC

CONSTANTS c1, c2, c3, server, cli, cli2

\* One call of each of three processes.
ThreeProcs == (c1 :> server) @@ (c2 :> cli) @@ (c3 :> cli2)

ReusedPid == (server :> 1) @@ (cli :> 2) @@ (cli2 :> 2)
OwnUnit == (server :> "service") @@ (cli :> "shell") @@ (cli2 :> "shell2")
=============================================================================
