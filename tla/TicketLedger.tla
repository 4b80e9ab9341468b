----------------------------- MODULE TicketLedger -----------------------------
(***************************************************************************)
(* What the ticket store promises: a ledger in which every request is      *)
(* answered in one atomic step.  There are no files, locks, processes or   *)
(* crashes here; a request that a crash cuts off is never answered.        *)
(*                                                                         *)
(* The one thing that is not atomic is the lifetime of a redeemed ticket:  *)
(* the store looks at the clock once, and a use accepted before the expiry *)
(* may be recorded after it.                                               *)
(***************************************************************************)
EXTENDS Naturals

CONSTANTS Calls, Ids, Clients, AnyClient, Unlimited, NoTicket, MaxTime, Times

VARIABLES
    book,      \* the tickets that exist
    now,       \* the clock
    request,   \* request[c]: what c asks for
    answer     \* answer[c]: "pending", "accepted", "ok" or "err"

vars == <<book, now, request, answer>>

EmptyLedger == [i \in Ids |-> NoTicket]

Answer(c, a) == answer' = [answer EXCEPT ![c] = a]
Asks(c, kind) == answer[c] = "pending" /\ request[c].kind = kind
TicketOf(c) == book[request[c].id]

\* The ticket may be used by the client of c, now.
Usable(c) ==
    /\ TicketOf(c) # NoTicket
    /\ ~TicketOf(c).revoked
    /\ TicketOf(c).bound \in {AnyClient, request[c].remote}
    /\ TicketOf(c).uses # 0

Init == answer = [c \in Calls |-> "pending"]

Create(c) ==
    /\ Asks(c, "create")
    /\ TicketOf(c) = NoTicket
    /\ \E t \in Times :
           /\ t + request[c].after <= MaxTime
           /\ book' = [book EXCEPT ![request[c].id] =
                          [uses |-> request[c].uses, expires |-> t + request[c].after,
                           bound |-> request[c].bound, revoked |-> FALSE]]
    /\ Answer(c, "ok")
    /\ UNCHANGED <<now, request>>

Revoke(c) ==
    /\ Asks(c, "revoke")
    /\ TicketOf(c) # NoTicket
    /\ book' = [book EXCEPT ![request[c].id].revoked = TRUE]
    /\ Answer(c, "ok")
    /\ UNCHANGED <<now, request>>

\* A question about a usable ticket changes nothing.
Check(c) ==
    /\ Asks(c, "check")
    /\ Usable(c) /\ now < TicketOf(c).expires
    /\ Answer(c, "ok")
    /\ UNCHANGED <<book, now, request>>

\* A use is accepted within the ticket's lifetime ...
Accept(c) ==
    /\ Asks(c, "redeem")
    /\ Usable(c) /\ now < TicketOf(c).expires
    /\ Answer(c, IF TicketOf(c).uses = Unlimited THEN "ok" ELSE "accepted")
    /\ UNCHANGED <<book, now, request>>

\* ... and recorded while the ticket is still good for it.
Redeem(c) ==
    /\ answer[c] = "accepted"
    /\ Usable(c)
    /\ book' = [book EXCEPT ![request[c].id].uses = @ - 1]
    /\ Answer(c, "ok")
    /\ UNCHANGED <<now, request>>

List(c) ==
    /\ Asks(c, "load")
    /\ Answer(c, "ok")
    /\ UNCHANGED <<book, now, request>>

\* Refused, or the machine failed it: the ledger stays as it was.
Fail(c) ==
    /\ answer[c] \in {"pending", "accepted"}
    /\ Answer(c, "err")
    /\ UNCHANGED <<book, now, request>>

Tick ==
    /\ now' \in Times
    /\ UNCHANGED <<book, request, answer>>

Next ==
    \/ \E c \in Calls : \/ Create(c) \/ Revoke(c) \/ Check(c) \/ Accept(c)
                        \/ Redeem(c) \/ List(c) \/ Fail(c)
    \/ Tick

Spec == Init /\ [][Next]_vars
=============================================================================
