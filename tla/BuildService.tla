----------------------------- MODULE BuildService -----------------------------
(***************************************************************************)
(* What drv-thru promises of a build, whatever happens between the client  *)
(* and the builder: a request is taken up once, for a trusted client or    *)
(* for one use of the ticket; it ends once; and the client reports outputs *)
(* only of a request that was taken up and ended well, and a failed build  *)
(* only of one that failed.  It may have to give up at any time.           *)
(***************************************************************************)
EXTENDS Naturals

CONSTANTS
    Sessions,     \* build commands
    TicketUses    \* uses of the one ticket

VARIABLES
    trusted,    \* commands of trusted clients
    ticketed,   \* commands that show the ticket
    stage,      \* stage[s]: the request at the builder
    report,     \* report[s]: what the client's command ended with
    uses,       \* uses left on the ticket
    revoked     \* the ticket is revoked

vars == <<trusted, ticketed, stage, report, uses, revoked>>

Stages == {"asked", "taken", "success", "failed", "error"}
Reports == {"none", "local", "success", "build failed", "failed"}

Init ==
    /\ trusted \in SUBSET Sessions /\ ticketed \in SUBSET Sessions
    /\ stage = [s \in Sessions |-> "asked"]
    /\ report = [s \in Sessions |-> "none"]
    /\ uses = TicketUses
    /\ revoked = FALSE

Take(s) ==
    /\ stage[s] = "asked"
    /\ stage' = [stage EXCEPT ![s] = "taken"]
    /\ IF s \in ticketed THEN uses > 0 /\ ~revoked /\ uses' = uses - 1
       ELSE s \in trusted /\ UNCHANGED uses
    /\ UNCHANGED <<trusted, ticketed, report, revoked>>

End(s) ==
    /\ stage[s] = "taken"
    /\ \E result \in {"success", "failed", "error"} : stage' = [stage EXCEPT ![s] = result]
    /\ UNCHANGED <<trusted, ticketed, report, uses, revoked>>

Report(s) ==
    /\ report[s] = "none"
    /\ \E what \in Reports \ {"none"} :
           /\ what = "success" => stage[s] = "success"
           /\ what = "build failed" => stage[s] = "failed"
           /\ report' = [report EXCEPT ![s] = what]
    /\ UNCHANGED <<trusted, ticketed, stage, uses, revoked>>

\* Other clients use the same ticket.
Spend ==
    /\ uses > 0 /\ ~revoked /\ uses' = uses - 1
    /\ UNCHANGED <<trusted, ticketed, stage, report, revoked>>

Revoke == revoked' = TRUE /\ UNCHANGED <<trusted, ticketed, stage, report, uses>>

Next == (\E s \in Sessions : Take(s) \/ End(s) \/ Report(s)) \/ Spend \/ Revoke

Spec == Init /\ [][Next]_vars
=============================================================================
