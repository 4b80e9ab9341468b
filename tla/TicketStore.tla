----------------------------- MODULE TicketStore -----------------------------
(***************************************************************************)
(* The ticket store: what the methods of TicketStore do to tickets.json    *)
(* while they hold TicketLock.  The body of a method loads the whole book, *)
(* works on its own copy, and publishes the copy by write_atomic: a        *)
(* temporary file named after the pid is created, filled and renamed over  *)
(* tickets.json.                                                           *)
(*                                                                         *)
(* A book maps ticket ids to tickets.  The file is a book, NoFile, or Torn *)
(* (bytes that do not parse).  `created_at`, names and the build limits,   *)
(* which no method decides on, are left out.                               *)
(***************************************************************************)
EXTENDS TicketLock

CONSTANTS
    Ids,          \* ticket ids: hashes of the secrets
    Clients,      \* endpoint ids
    AnyClient,    \* the bound_client of a ticket that has none
    Unlimited,    \* the uses_remaining of a ticket that has none
    NoTicket, NoFile, Torn,
    MaxTime,      \* u64::MAX, in the model's seconds
    Times,        \* what the system clock may show
    FirstFile,    \* tickets.json when the model starts
    RequestsOf    \* the requests each call may be made with

Uses == Nat \cup {Unlimited}
Ticket == [uses : Uses, expires : 0..MaxTime,
           bound : Clients \cup {AnyClient}, revoked : BOOLEAN]
Books == [Ids -> Ticket \cup {NoTicket}]
EmptyBook == [i \in Ids |-> NoTicket]

\* `id` of a create is that of the secret BuildTicket::generate draws, and
\* `wellFormed` says that its name is not blank and its bound client parses.
CreateRequest == [kind : {"create"}, id : Ids, uses : Uses, after : Nat,
                  bound : Clients \cup {AnyClient}, wellFormed : BOOLEAN]
RevokeRequest == [kind : {"revoke"}, id : Ids]
UseRequest == [kind : {"check", "redeem"}, id : Ids, remote : Clients]
LoadRequest == [kind : {"load"}]
Request == CreateRequest \cup RevokeRequest \cup UseRequest \cup LoadRequest

Pids == {PidOf[p] : p \in Procs}

ASSUME StoreAssumption ==
    /\ RequestsOf \in [Calls -> SUBSET Request]
    /\ MaxTime \in Nat /\ Times \subseteq 0..MaxTime
    /\ Unlimited \notin Nat /\ NoTicket \notin Ticket
    /\ NoFile \notin Books /\ Torn \notin Books /\ NoFile # Torn
    /\ FirstFile \in Books \cup {NoFile}

VARIABLES
    file,      \* tickets.json
    tmp,       \* tmp[n]: the temporary file .tickets.json.<n>.tmp
    copy,      \* copy[c]: the local `state` of c
    stage,     \* stage[c]: where c is in its method's body
    request,   \* request[c]: the method and arguments of c
    now,       \* the system clock
    issued     \* history: the uses each ticket was published with

storeVars == <<file, tmp, copy, stage, request, now, issued>>
vars == <<lockVars, storeVars>>

Stages == {"load", "apply", "openTmp", "fillTmp", "rename", "ok", "err"}
InBody(c, s) == Up(ProcOf[c]) /\ pc[c] = "held" /\ stage[c] = s
\* (mutant) the temporary name does not hold the pid
SharedTmp(c) == CHOOSE n \in Pids : TRUE
MyTmp(c) == PidOf[ProcOf[c]]
BookIn(f) == IF f = NoFile THEN EmptyBook ELSE f
To(c, s) == stage' = [stage EXCEPT ![c] = s]

IssuedIn(book) == [i \in Ids |-> IF book[i] = NoTicket THEN 0 ELSE book[i].uses]

\* (mutant) the bound client is not compared
ValidForAnyone(ticket, remote) ==
    ~ticket.revoked /\ now < ticket.expires /\ ticket.uses # 0

\* validate_ticket_record, at time `now`.
Valid(ticket, remote) ==
    /\ ~ticket.revoked
    /\ now < ticket.expires
    /\ ticket.bound \in {AnyClient, remote}
    /\ ticket.uses # 0

NewTicket(r) ==
    [uses |-> r.uses, expires |-> now + r.after, bound |-> r.bound, revoked |-> FALSE]

\* (mutant) the expiry is added up without a check for overflow
AcceptsOverflow(c) ==
    LET r == request[c]
        found == r.kind # "load" /\ copy[c][r.id] # NoTicket
    IN  CASE r.kind = "create" -> r.wellFormed /\ ~found
          [] r.kind = "revoke" -> found
          [] r.kind \in {"check", "redeem"} -> found /\ Valid(copy[c][r.id], r.remote)
          [] r.kind = "load" -> TRUE

\* Does the method find what it needs in its copy?
Accepts(c) ==
    LET r == request[c]
        found == r.kind # "load" /\ copy[c][r.id] # NoTicket
    IN  CASE r.kind = "create" -> r.wellFormed /\ now + r.after <= MaxTime /\ ~found
          [] r.kind = "revoke" -> found
          [] r.kind \in {"check", "redeem"} -> found /\ Valid(copy[c][r.id], r.remote)
          [] r.kind = "load" -> TRUE

\* The copy as the method leaves it, and whether the method writes it back:
\* redeeming a ticket of unlimited uses does not.
Applied(c) ==
    LET r == request[c]
    IN  CASE r.kind = "create" -> [copy[c] EXCEPT ![r.id] = NewTicket(r)]
          [] r.kind = "revoke" -> [copy[c] EXCEPT ![r.id].revoked = TRUE]
          [] r.kind = "redeem" /\ copy[c][r.id].uses # Unlimited ->
                 [copy[c] EXCEPT ![r.id].uses = @ - 1]
          [] OTHER -> copy[c]

\* (mutant) a redeemed use is not written back
WritesNoRedeem(c) == request[c].kind \in {"create", "revoke"}

Writes(c) ==
    LET r == request[c]
    IN  \/ r.kind \in {"create", "revoke"}
        \/ r.kind = "redeem" /\ copy[c][r.id].uses # Unlimited

-----------------------------------------------------------------------------
StoreInit ==
    /\ LockInit
    /\ file = FirstFile
    /\ tmp = [n \in Pids |-> NoFile]
    /\ copy = [c \in Calls |-> EmptyBook]
    /\ stage = [c \in Calls |-> "load"]
    /\ request \in {r \in [Calls -> UNION {RequestsOf[c] : c \in Calls}] :
                       \A c \in Calls : r[c] \in RequestsOf[c]}
    /\ now \in Times
    /\ issued = IssuedIn(BookIn(FirstFile))

\* load_unlocked: a missing file is an empty book, one that does not parse ends
\* the call.
Load(c) ==
    /\ InBody(c, "load")
    /\ IF file = Torn
       THEN To(c, "err") /\ UNCHANGED copy
       ELSE To(c, "apply") /\ copy' = [copy EXCEPT ![c] = BookIn(file)]
    /\ UNCHANGED <<lockVars, file, tmp, request, now, issued>>

LoadError(c) ==
    /\ InBody(c, "load")
    /\ To(c, "err")
    /\ UNCHANGED <<lockVars, file, tmp, copy, request, now, issued>>

\* The decision and the change to the copy, of any of the methods.
Apply(c) ==
    /\ InBody(c, "apply") /\ Accepts(c)
    /\ copy' = [copy EXCEPT ![c] = Applied(c)]
    /\ To(c, IF Writes(c) THEN "openTmp" ELSE "ok")
    /\ UNCHANGED <<lockVars, file, tmp, request, now, issued>>

Refuse(c) ==
    /\ InBody(c, "apply") /\ ~Accepts(c)
    /\ To(c, "err")
    /\ UNCHANGED <<lockVars, file, tmp, copy, request, now, issued>>

\* write_temp_file: create or truncate, then write everything and sync.
OpenTmp(c) ==
    /\ InBody(c, "openTmp")
    /\ tmp' = [tmp EXCEPT ![MyTmp(c)] = Torn]
    /\ To(c, "fillTmp")
    /\ UNCHANGED <<lockVars, file, copy, request, now, issued>>

FillTmp(c) ==
    /\ InBody(c, "fillTmp")
    /\ tmp' = [tmp EXCEPT ![MyTmp(c)] = copy[c]]
    /\ To(c, "rename")
    /\ UNCHANGED <<lockVars, file, copy, request, now, issued>>

\* Either fails, and the temporary file is removed.
TmpError(c) ==
    /\ InBody(c, "openTmp") \/ InBody(c, "fillTmp")
    /\ tmp' = [tmp EXCEPT ![MyTmp(c)] = NoFile]
    /\ To(c, "err")
    /\ UNCHANGED <<lockVars, file, copy, request, now, issued>>

\* The copy becomes tickets.json, and the method's result is decided.
Rename(c) ==
    /\ InBody(c, "rename")
    /\ tmp[MyTmp(c)] # NoFile
    /\ file' = tmp[MyTmp(c)]
    /\ tmp' = [tmp EXCEPT ![MyTmp(c)] = NoFile]
    /\ To(c, "ok")
    /\ issued' = IF request[c].kind = "create"
                 THEN [issued EXCEPT ![request[c].id] = request[c].uses] ELSE issued
    /\ UNCHANGED <<lockVars, copy, request, now>>

\* rename fails and leaves the temporary file behind.
RenameError(c) ==
    /\ InBody(c, "rename")
    /\ To(c, "err")
    /\ UNCHANGED <<lockVars, file, tmp, copy, request, now, issued>>

\* The method returns: its locals and its file lock drop.
Return(c) ==
    /\ stage[c] \in {"ok", "err"}
    /\ EndBody(c)
    /\ copy' = [copy EXCEPT ![c] = EmptyBook]
    /\ UNCHANGED <<file, tmp, stage, request, now, issued>>

\* The system clock, which may be set back.
Tick ==
    /\ now' \in Times
    /\ UNCHANGED <<lockVars, file, tmp, copy, stage, request, issued>>

Body(c) ==
    \/ Load(c) \/ LoadError(c) \/ Apply(c) \/ Refuse(c)
    \/ OpenTmp(c) \/ FillTmp(c) \/ TmpError(c) \/ Rename(c) \/ RenameError(c)

\* The steps of TicketLock that leave the files alone.
AroundBody ==
    /\ \/ \E p \in Procs : ProcessStep(p)
       \/ \E c \in Calls : Begin(c) \/ LockStep(c)
    /\ UNCHANGED storeVars

StoreNext ==
    \/ AroundBody
    \/ \E c \in Calls : Body(c) \/ Return(c)
    \/ Tick

StoreSpec == StoreInit /\ [][StoreNext]_vars

\* As in TicketLock: a running process keeps executing its calls.
StoreFairness ==
    \A c \in Calls : /\ WF_vars(LockStep(c) /\ UNCHANGED storeVars)
                     /\ WF_vars(Body(c) \/ Return(c))

FairStoreSpec == StoreSpec /\ StoreFairness

-----------------------------------------------------------------------------
StoreTypeOK ==
    /\ LockTypeOK
    /\ file \in Books \cup {NoFile, Torn}
    /\ tmp \in [Pids -> Books \cup {NoFile, Torn}]
    /\ copy \in [Calls -> Books]
    /\ stage \in [Calls -> Stages]
    /\ request \in [Calls -> Request]
    /\ now \in 0..MaxTime
    /\ issued \in [Ids -> Uses]

\* write_atomic: tickets.json always parses, whichever processes are writing
\* it, have lost the lock to each other, or stopped half-way.
NeverTorn == file # Torn

\* A call about to rename publishes what it computed itself: the pid in the
\* temporary name keeps other processes away, the mutex the process's own calls.
PublishesOwnCopy ==
    \A c \in Calls : Up(ProcOf[c]) /\ pc[c] = "held" /\ stage[c] = "rename" =>
        tmp[MyTmp(c)] = copy[c]

\* The calls whose redeem of ticket i succeeded: each entitles to one build.
Redeemers(i) ==
    {c \in Calls : request[c].kind = "redeem" /\ request[c].id = i /\ stage[c] = "ok"}

\* A ticket never pays for more builds than it was issued for.
NoOverRedemption ==
    \A i \in Ids : issued[i] # Unlimited => Cardinality(Redeemers(i)) <= issued[i]

\* What tickets.json still allows and what has been redeemed add up to what was
\* issued.
UsesAddUp ==
    \A i \in Ids : file \in Books /\ file[i] # NoTicket /\ file[i].uses # Unlimited =>
        file[i].uses + Cardinality(Redeemers(i)) = issued[i]

\* A revocation that was reported is in tickets.json.
RevocationsStand ==
    \A c \in Calls : request[c].kind = "revoke" /\ stage[c] = "ok" =>
        file \in Books /\ file[request[c].id] # NoTicket /\ file[request[c].id].revoked

\* The server's redeems and the commands beside it lose no use and make none up,
\* unless some call lost its lock while it ran (NoOverRedemption: what comes of that).
UsesConserved == UsesAddUp \/ robbed # {}

\* Once `drv-thru ticket revoke` has reported success, no redeem of the server that
\* runs beside it brings the ticket back, unless some call lost its lock while it ran.
RevocationIsFinal == RevocationsStand \/ robbed # {}

-----------------------------------------------------------------------------
\* How far a call is, to the ledger: a redeem past its validation is accepted,
\* and a result counts from the rename that publishes it.
AnswerOf(c) ==
    CASE stage[c] = "ok" -> "ok"
      [] stage[c] = "err" \/ pc[c] = "failed" -> "err"
      [] stage[c] \in {"openTmp", "fillTmp", "rename"} /\ request[c].kind = "redeem" ->
             "accepted"
      [] OTHER -> "pending"

Ledger == INSTANCE TicketLedger
            WITH book <- BookIn(file), answer <- [c \in Calls |-> AnswerOf(c)]

\* One service at a time implements the ledger: load, change and rename act as
\* one step, and a crash loses at most the call it interrupts.
ImplementsLedger == Ledger!Spec
=============================================================================
