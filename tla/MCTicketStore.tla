---------------------------- MODULE MCTicketStore ----------------------------
(* Instances of the ticket store for TLC.  The server loads, checks and       *)
(* redeems; commands (`drv-thru ticket`) create, revoke and list.             *)
EXTENDS TicketStore, TLC

CONSTANTS c1, c2, c3, server, cli, i1, i2, alice, bob

OwnPid == (server :> 1) @@ (cli :> 2)
OwnUnit == (server :> "service") @@ (cli :> "shell")
OneUnit == [p \in {server, cli} |-> "service"]

\* A command that runs while the server does not, and two calls of the server.
InTurns == (c1 :> cli) @@ (c2 :> server) @@ (c3 :> server)
\* A server with two calls, and one command.
ServerAndCli == (c1 :> server) @@ (c2 :> server) @@ (c3 :> cli)

CreateOf(i, uses, after, bound) ==
    [kind |-> "create", id |-> i, uses |-> uses, after |-> after,
     bound |-> bound, wellFormed |-> TRUE]
RevokeOf(i) == [kind |-> "revoke", id |-> i]
CheckOf(i, who) == [kind |-> "check", id |-> i, remote |-> who]
RedeemOf(i, who) == [kind |-> "redeem", id |-> i, remote |-> who]
ListAll == [kind |-> "load"]

TicketWith(uses) == [uses |-> uses, expires |-> 1, bound |-> AnyClient, revoked |-> FALSE]
OneTicket == (i1 :> TicketWith(1)) @@ (i2 :> NoTicket)

InTurnsRequests ==
    (c1 :> {CreateOf(i2, Unlimited, 1, alice), RevokeOf(i1)})
    @@ (c2 :> {RedeemOf(i1, alice)})
    @@ (c3 :> {RedeemOf(i1, bob), RedeemOf(i2, alice), CheckOf(i2, bob)})

\* The server redeems one ticket while a command creates another.
RedeemWhileCreating ==
    (c1 :> {RedeemOf(i1, alice)}) @@ (c2 :> {RedeemOf(i1, bob)})
    @@ (c3 :> {CreateOf(i2, 1, 1, AnyClient)})

\* The server redeems a ticket twice while a command revokes it, lists tickets, or is
\* refused: the ticket exists, or would expire too late.  The two calls of the
\* server are alike.
CrossingRequests ==
    (c1 :> {RedeemOf(i1, alice)}) @@ (c2 :> {RedeemOf(i1, alice)})
    @@ (c3 :> {RevokeOf(i1), ListAll,
               CreateOf(i1, 1, 1, bob), CreateOf(i2, 1, MaxTime + 1, AnyClient)})
ServerCalls == Permutations({c1, c2})

TwoUses == (i1 :> TicketWith(2)) @@ (i2 :> NoTicket)
=============================================================================
