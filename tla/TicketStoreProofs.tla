-------------------------- MODULE TicketStoreProofs --------------------------
(***************************************************************************)
(* Proofs about TicketStore, for any calls, processes, tickets and         *)
(* requests, any number of them at once.  The second part is about uses    *)
(* and revocations, as long as no running call has lost its lock; the      *)
(* third, OneService, shows that none does where processes run one after   *)
(* another.                                                                *)
(***************************************************************************)
EXTENDS TicketStore, TicketLockProofs, FiniteSetTheorems

LEMMA CopyStaysBook ==
    ASSUME StoreTypeOK, NEW c \in Calls, Accepts(c)
    PROVE  Applied(c) \in Books
<1> DEFINE r == request[c]
           k == r.kind
<1>1. r \in Request /\ copy[c] \in Books
    BY DEF StoreTypeOK
<1>2. CASE k = "create"
    <2>1. r \in CreateRequest
        BY <1>1, <1>2 DEF Request, CreateRequest, RevokeRequest, UseRequest, LoadRequest
    <2>2. now + r.after <= MaxTime
        BY <1>2 DEF Accepts
    <2>3. NewTicket(r) \in Ticket
        BY <2>1, <2>2, StoreAssumption DEF NewTicket, Ticket, CreateRequest, StoreTypeOK
    <2> QED
        BY <1>1, <1>2, <2>1, <2>3 DEF Applied, Books, CreateRequest
<1>3. CASE k # "create"
    <2>1. k \in {"revoke", "check", "redeem", "load"}
        BY <1>1, <1>3 DEF Request, CreateRequest, RevokeRequest, UseRequest, LoadRequest
    <2>2. CASE k \in {"check", "load"}
        BY <1>1, <2>2 DEF Applied
    <2>3. CASE k \in {"revoke", "redeem"}
        <3>1. r.id \in Ids /\ copy[c][r.id] \in Ticket
            <4>1. r.id \in Ids
                BY <1>1, <2>3 DEF Request, CreateRequest, RevokeRequest, UseRequest, LoadRequest
            <4>2. copy[c][r.id] # NoTicket
                BY <2>3 DEF Accepts
            <4> QED
                BY <1>1, <4>1, <4>2 DEF Books
        <3>2. CASE k = "revoke"
            <4>1. Applied(c) = [copy[c] EXCEPT ![r.id].revoked = TRUE]
                BY <3>2 DEF Applied
            <4>2. [copy[c][r.id] EXCEPT !.revoked = TRUE] \in Ticket
                BY <3>1 DEF Ticket
            <4> QED
                BY <1>1, <3>1, <4>1, <4>2 DEF Books
        <3>3. CASE k = "redeem" /\ copy[c][r.id].uses # Unlimited
            <4>1. Applied(c) = [copy[c] EXCEPT ![r.id].uses = @ - 1]
                BY <3>3 DEF Applied
            <4>2. copy[c][r.id].uses \in Nat \ {0}
                BY <3>1, <3>3 DEF Accepts, Valid, Ticket, Uses
            <4>3. [copy[c][r.id] EXCEPT !.uses = @ - 1] \in Ticket
                BY <3>1, <4>2 DEF Ticket, Uses
            <4> QED
                BY <1>1, <3>1, <4>1, <4>3 DEF Books
        <3>4. CASE k = "redeem" /\ copy[c][r.id].uses = Unlimited
            BY <1>1, <3>4 DEF Applied
        <3> QED
            BY <2>3, <3>2, <3>3, <3>4
    <2> QED
        BY <2>1, <2>2, <2>3
<1> QED
    BY <1>2, <1>3

LEMMA StoreTypeInit == StoreInit => StoreTypeOK
<1> SUFFICES ASSUME StoreInit PROVE StoreTypeOK
    OBVIOUS
<1>1. LockTypeOK
    BY LockTypeInit DEF StoreInit
<1>2. EmptyBook \in Books
    BY DEF EmptyBook, Books
<1>3. request \in [Calls -> Request]
    BY StoreAssumption DEF StoreInit
<1>4. BookIn(FirstFile) \in Books
    BY <1>2, StoreAssumption DEF BookIn
<1>5. issued \in [Ids -> Uses]
    BY <1>4 DEF StoreInit, IssuedIn, Books, Ticket, Uses
<1> QED
    BY <1>1, <1>2, <1>3, <1>5, StoreAssumption DEF StoreInit, StoreTypeOK, Stages

LEMMA StoreTypeStep == StoreTypeOK /\ [StoreNext]_vars => StoreTypeOK'
<1> SUFFICES ASSUME StoreTypeOK, [StoreNext]_vars PROVE StoreTypeOK'
    OBVIOUS
<1> USE LockAssumption, StoreAssumption DEF StoreTypeOK
<1>1. CASE UNCHANGED vars
    BY <1>1, LockTypeStep DEF vars, storeVars
<1>2. CASE AroundBody
    BY <1>2, LockTypeStep DEF AroundBody, storeVars, LockNext
<1>3. ASSUME NEW c \in Calls, Load(c) PROVE StoreTypeOK'
    <2>1. LockTypeOK'
        BY <1>3, LockTypeStep DEF Load
    <2>2. file # Torn => BookIn(file) \in Books
        BY DEF BookIn, EmptyBook, Books
    <2> QED
        BY <1>3, <2>1, <2>2 DEF Load, To, Stages
<1>4. ASSUME NEW c \in Calls, LoadError(c) \/ Refuse(c) \/ RenameError(c)
      PROVE StoreTypeOK'
    <2>1. LockTypeOK'
        BY <1>4, LockTypeStep DEF LoadError, Refuse, RenameError
    <2> QED
        BY <1>4, <2>1 DEF LoadError, Refuse, RenameError, To, Stages
<1>5. ASSUME NEW c \in Calls, Apply(c) PROVE StoreTypeOK'
    <2>1. LockTypeOK'
        BY <1>5, LockTypeStep DEF Apply
    <2>2. Applied(c) \in Books
        BY <1>5, CopyStaysBook DEF Apply
    <2> QED
        BY <1>5, <2>1, <2>2 DEF Apply, To, Stages
<1>6. ASSUME NEW c \in Calls, OpenTmp(c) \/ FillTmp(c) \/ TmpError(c)
      PROVE StoreTypeOK'
    <2>1. LockTypeOK'
        BY <1>6, LockTypeStep DEF OpenTmp, FillTmp, TmpError
    <2> QED
        BY <1>6, <2>1 DEF OpenTmp, FillTmp, TmpError, To, Stages
<1>7. ASSUME NEW c \in Calls, Rename(c) PROVE StoreTypeOK'
    <2>1. LockTypeOK'
        BY <1>7, LockTypeStep DEF Rename
    <2>2. MyTmp(c) \in Pids
        BY DEF MyTmp, Pids
    <2>3. issued' \in [Ids -> Uses]
        <3>1. CASE request[c].kind = "create"
            <4>1. request[c] \in CreateRequest
                BY <3>1 DEF Request, CreateRequest, RevokeRequest, UseRequest, LoadRequest
            <4> QED
                BY <1>7, <3>1, <4>1 DEF Rename, CreateRequest
        <3> QED
            BY <1>7, <3>1 DEF Rename
    <2> QED
        BY <1>7, <2>1, <2>2, <2>3 DEF Rename, To, Stages
<1>8. ASSUME NEW c \in Calls, Return(c) PROVE StoreTypeOK'
    <2>1. LockTypeOK'
        BY <1>8, LockTypeStep DEF Return, LockNext
    <2>2. EmptyBook \in Books
        BY DEF EmptyBook, Books
    <2> QED
        BY <1>8, <2>1, <2>2 DEF Return
<1>9. CASE Tick
    BY <1>9, LockTypeStep DEF Tick
<1> QED
    BY <1>1, <1>2, <1>3, <1>4, <1>5, <1>6, <1>7, <1>8, <1>9 DEF StoreNext, Body

-----------------------------------------------------------------------------
\* Any number of processes.  Running processes have their own pids, and a call
\* that is about to rename has filled its process's temporary file itself.
PidsApart == \A p, q \in Procs : Up(p) /\ Up(q) /\ PidOf[p] = PidOf[q] => p = q

\* A call's stage moves in its body only.
BodyPcs == {"held", "dropFiles", "dropDir", "done"}
FreshBefore == \A c \in Calls : pc[c] \notin BodyPcs => stage[c] = "load"

StoreInv ==
    /\ LockInv /\ StoreTypeOK /\ PidsApart /\ FreshBefore /\ IdleBefore
    /\ OwnersApart /\ PublishesOwnCopy /\ NeverTorn

\* The steps of the store are steps of the lock.
LEMMA LockSimulation == [StoreNext]_vars => [LockNext]_lockVars
<1> USE DEF LockNext, lockVars
<1>1. ASSUME UNCHANGED vars PROVE UNCHANGED lockVars
    BY <1>1 DEF vars
<1>2. ASSUME NEW c \in Calls, Body(c) PROVE UNCHANGED lockVars
    BY <1>2 DEF Body, Load, LoadError, Apply, Refuse, OpenTmp, FillTmp, TmpError, Rename, RenameError
<1>3. ASSUME NEW c \in Calls, Return(c) PROVE LockNext
    BY <1>3 DEF Return
<1>4. ASSUME AroundBody PROVE LockNext
    BY <1>4 DEF AroundBody
<1>5. ASSUME Tick PROVE UNCHANGED lockVars
    BY <1>5 DEF Tick
<1> QED
    BY <1>1, <1>2, <1>3, <1>4, <1>5 DEF StoreNext

LEMMA StoreInvInit == StoreInit => StoreInv
<1> SUFFICES ASSUME StoreInit PROVE StoreInv
    OBVIOUS
<1>1. LockInv /\ StoreTypeOK
    BY StoreTypeInit, LockTypeInit, MutexInit DEF StoreInit, LockInv
<1>2. PidsApart /\ PublishesOwnCopy
    BY DEF StoreInit, LockInit, PidsApart, PublishesOwnCopy, Up
<1>4. FreshBefore /\ IdleBefore /\ OwnersApart
    BY DEF StoreInit, LockInit, FreshBefore, IdleBefore, OwnersApart, Owns, CreateSteps
<1>3. NeverTorn
    BY StoreAssumption DEF StoreInit, NeverTorn
<1> QED
    BY <1>1, <1>2, <1>3, <1>4 DEF StoreInv

\* A call reaches its body by writing "owner", and never goes back.
LEMMA LockOrder ==
    ASSUME LockTypeOK, NEW c \in Calls, Begin(c) \/ LockStep(c) \/ EndBody(c)
    PROVE  /\ Up(ProcOf[c]) /\ status' = status /\ pc[c] # "failed"
           /\ pc[c] \in BodyPcs => pc'[c] \in BodyPcs \ {"held"}
           /\ pc'[c] \in BodyPcs /\ pc[c] \notin BodyPcs => pc'[c] = "held"
<1> USE DEF LockTypeOK, BodyPcs
<1>1. CASE Begin(c) \/ EndBody(c) \/ LockMutex(c)
    BY <1>1 DEF Begin, EndBody, LockMutex, Goto
<1>2. CASE Mkdir(c) \/ MkdirError(c)
    BY <1>2 DEF Mkdir, MkdirError, Leave, Goto
<1>3. CASE OpenLockFile(c) \/ WriteLockFile(c) \/ WriteOwnerError(c)
    BY <1>3 DEF OpenLockFile, WriteLockFile, WriteOwnerError, CreateSteps, AfterCreateStep, Goto
<1>4. CASE ReadOwner(c) \/ ReadPid(c) \/ ReadError(c)
    BY <1>4 DEF ReadOwner, ReadPid, ReadError, Goto
<1>5. CASE RemoveFiles(c)
    BY <1>5 DEF RemoveFiles, Leave, Goto, RemoveSteps, RmdirOf, AfterRemove
<1>6. CASE RemoveDir(c)
    BY <1>6 DEF RemoveDir, Leave, Goto, RmdirSteps, AfterRemove
<1>7. CASE RemoveError(c)
    BY <1>7 DEF RemoveError, Leave, Goto, RemoveSteps, RmdirSteps, AfterRemove
<1> QED
    BY <1>1, <1>2, <1>3, <1>4, <1>5, <1>6, <1>7 DEF LockStep

LEMMA PidsApartStep == PidsApart /\ LockTypeOK /\ [LockNext]_lockVars => PidsApart'
<1> SUFFICES ASSUME PidsApart, LockTypeOK, [LockNext]_lockVars PROVE PidsApart'
    OBVIOUS
<1> USE DEF PidsApart, Up, LockTypeOK
<1>1. ASSUME NEW p \in Procs, ProcessStep(p) PROVE PidsApart'
    BY <1>1 DEF ProcessStep, StartProcess, StopProcess
<1>2. ASSUME NEW c \in Calls, Begin(c) \/ LockStep(c) \/ EndBody(c) PROVE PidsApart'
    BY <1>2, LockOrder
<1> QED
    BY <1>1, <1>2 DEF LockNext, lockVars

\* Two running calls in their bodies work on different temporary files.
LEMMA TmpApart ==
    ASSUME StoreInv, NEW c \in Calls, NEW d \in Calls, MyTmp(c) = MyTmp(d),
           Up(ProcOf[c]), Up(ProcOf[d]), pc[c] = "held", pc[d] = "held"
    PROVE  c = d
<1>1. ProcOf[c] = ProcOf[d]
    BY LockAssumption DEF StoreInv, PidsApart, MyTmp
<1>2. Inside(c) /\ Inside(d)
    BY DEF Inside, Outside
<1> QED
    BY <1>1, <1>2 DEF StoreInv, LockInv, MutexKnowsHolder

LEMMA OrderStep ==
    StoreTypeOK /\ FreshBefore /\ IdleBefore /\ [StoreNext]_vars => FreshBefore' /\ IdleBefore'
<1> SUFFICES ASSUME StoreTypeOK, FreshBefore, IdleBefore, [StoreNext]_vars
             PROVE  FreshBefore' /\ IdleBefore'
    OBVIOUS
<1> USE LockAssumption DEF FreshBefore, IdleBefore, StoreTypeOK, LockTypeOK
<1>1. CASE UNCHANGED vars
    BY <1>1 DEF vars, lockVars, storeVars
<1>2. ASSUME NEW p \in Procs, ProcessStep(p), UNCHANGED storeVars
      PROVE FreshBefore' /\ IdleBefore'
    BY <1>2 DEF ProcessStep, StartProcess, StopProcess, storeVars, Up
<1>3. ASSUME NEW c \in Calls, Begin(c) \/ LockStep(c) \/ EndBody(c), stage' = stage
      PROVE FreshBefore' /\ IdleBefore'
    <2>1. FreshBefore'
        BY <1>3, LockMoves, LockOrder
    <2>2. IdleBefore'
        BY <1>3, LockMoves, LockOrder DEF Up
    <2> QED
        BY <2>1, <2>2
<1>4. ASSUME NEW c \in Calls, Body(c) PROVE FreshBefore' /\ IdleBefore'
    <2>1. pc[c] = "held" /\ pc' = pc /\ status' = status
        BY <1>4, LockSimulation DEF lockVars, Body, InBody, Load, LoadError, Apply, Refuse, OpenTmp,
            FillTmp, TmpError, Rename, RenameError
    <2>2. \A d \in Calls \ {c} : stage'[d] = stage[d]
        BY <1>4 DEF Body, Load, LoadError, Apply, Refuse, OpenTmp, FillTmp, TmpError, Rename,
            RenameError, To
    <2> QED
        BY <2>1, <2>2 DEF BodyPcs
<1>5. CASE Tick
    BY <1>5 DEF Tick, lockVars
<1> QED
    BY <1>1, <1>2, <1>3, <1>4, <1>5 DEF StoreNext, AroundBody, Return, storeVars

LEMMA PublishesStep == StoreInv /\ [StoreNext]_vars => PublishesOwnCopy' /\ NeverTorn'
<1> SUFFICES ASSUME StoreInv, [StoreNext]_vars PROVE PublishesOwnCopy' /\ NeverTorn'
    OBVIOUS
<1> USE LockAssumption, StoreAssumption DEF StoreInv, StoreTypeOK, LockTypeOK
<1> DEFINE Ready(c) == Up(ProcOf[c]) /\ pc[c] = "held" /\ stage[c] = "rename"
<1>0. PublishesOwnCopy = \A c \in Calls : Ready(c) => tmp[MyTmp(c)] = copy[c]
    BY DEF PublishesOwnCopy
<1>1. CASE UNCHANGED vars
    BY <1>1 DEF vars, lockVars, storeVars, PublishesOwnCopy, NeverTorn, Up, MyTmp
<1>2. ASSUME NEW p \in Procs, ProcessStep(p), UNCHANGED storeVars
      PROVE PublishesOwnCopy' /\ NeverTorn'
    <2>1. \A c \in Calls : Ready(c)' => Ready(c)
        BY <1>2 DEF ProcessStep, StartProcess, StopProcess, storeVars, Up, IdleBefore
    <2> QED
        BY <1>2, <2>1 DEF storeVars, PublishesOwnCopy, NeverTorn, MyTmp
<1>3. ASSUME NEW c \in Calls, Begin(c) \/ LockStep(c), UNCHANGED storeVars
      PROVE PublishesOwnCopy' /\ NeverTorn'
    <2>1. \A d \in Calls : Ready(d)' => Ready(d)
        BY <1>3, LockMoves, LockOrder DEF storeVars, Up, FreshBefore, BodyPcs
    <2> QED
        BY <1>3, <2>1 DEF storeVars, PublishesOwnCopy, NeverTorn, MyTmp
<1>4. ASSUME NEW c \in Calls, Body(c) PROVE PublishesOwnCopy' /\ NeverTorn'
    <2>1. pc[c] = "held" /\ Up(ProcOf[c]) /\ UNCHANGED <<pc, status>>
        BY <1>4 DEF lockVars, Body, InBody, Load, LoadError, Apply, Refuse, OpenTmp,
            FillTmp, TmpError, Rename, RenameError
    <2>2. MyTmp(c) \in Pids
        BY DEF MyTmp, Pids
    <2>3. CASE OpenTmp(c) \/ FillTmp(c) \/ TmpError(c)
        <3> SUFFICES ASSUME NEW d \in Calls, Ready(d)' PROVE tmp'[MyTmp(d)] = copy'[d]
            BY <2>3 DEF PublishesOwnCopy, NeverTorn, OpenTmp, FillTmp, TmpError, MyTmp
        <3>1. CASE d = c
            BY <2>2, <2>3, <3>1 DEF OpenTmp, FillTmp, TmpError, To, MyTmp
        <3>2. CASE d # c
            <4>1. Ready(d)
                BY <2>1, <2>3, <3>2 DEF OpenTmp, FillTmp, TmpError, To, Up
            <4>2. MyTmp(d) # MyTmp(c)
                BY <2>1, <3>2, <4>1, TmpApart
            <4>3. MyTmp(d) \in Pids
                BY DEF MyTmp, Pids
            <4> QED
                BY <2>3, <4>1, <4>2, <4>3 DEF OpenTmp, FillTmp, TmpError, PublishesOwnCopy
        <3> QED
            BY <3>1, <3>2
    <2>4. CASE Rename(c)
        <3>1. tmp[MyTmp(c)] = copy[c]
            BY <2>4 DEF Rename, InBody, PublishesOwnCopy
        <3>2. NeverTorn'
            BY <2>4, <3>1 DEF Rename, NeverTorn
        <3> SUFFICES ASSUME NEW d \in Calls, Ready(d)' PROVE tmp'[MyTmp(d)] = copy'[d]
            BY <3>2 DEF PublishesOwnCopy
        <3>3. d # c /\ Ready(d)
            BY <2>1, <2>4 DEF Rename, To, Up
        <3>4. MyTmp(d) # MyTmp(c)
            BY <2>1, <3>3, TmpApart
        <3> QED
            BY <2>4, <3>3, <3>4 DEF Rename, PublishesOwnCopy
    <2>5. CASE Load(c) \/ LoadError(c) \/ Apply(c) \/ Refuse(c) \/ RenameError(c)
        <3>1. UNCHANGED <<file, tmp>> /\ stage'[c] # "rename"
            BY <2>5 DEF Load, LoadError, Apply, Refuse, RenameError, To
        <3>2. \A d \in Calls \ {c} : stage'[d] = stage[d] /\ copy'[d] = copy[d]
            BY <2>5 DEF Load, LoadError, Apply, Refuse, RenameError, To
        <3> QED
            BY <2>1, <3>1, <3>2 DEF PublishesOwnCopy, NeverTorn, MyTmp, Up
    <2> QED
        BY <1>4, <2>3, <2>4, <2>5 DEF Body
<1>5. ASSUME NEW c \in Calls, Return(c) PROVE PublishesOwnCopy' /\ NeverTorn'
    <2>1. pc[c] = "held" /\ pc'[c] # "held" /\ UNCHANGED <<file, tmp, stage, status>>
        BY <1>5 DEF Return, EndBody, Goto
    <2>2. \A d \in Calls \ {c} : pc'[d] = pc[d] /\ copy'[d] = copy[d]
        BY <1>5 DEF Return, EndBody, Goto
    <2> QED
        BY <2>1, <2>2 DEF PublishesOwnCopy, NeverTorn, MyTmp, Up
<1>6. CASE Tick
    BY <1>6 DEF Tick, lockVars, PublishesOwnCopy, NeverTorn, MyTmp, Up
<1> QED
    BY <1>1, <1>2, <1>3, <1>4, <1>5, <1>6 DEF StoreNext, AroundBody

LEMMA StoreInvStep == StoreInv /\ [StoreNext]_vars => StoreInv'
<1> SUFFICES ASSUME StoreInv, [StoreNext]_vars PROVE StoreInv'
    OBVIOUS
<1>1. LockInv' /\ PidsApart'
    BY LockSimulation, LockTypeStep, MutexStep, PidsApartStep DEF StoreInv, LockInv
<1>2. StoreTypeOK' /\ FreshBefore' /\ IdleBefore'
    BY StoreTypeStep, OrderStep DEF StoreInv
<1>3. OwnersApart'
    BY LockSimulation, ApartStep DEF StoreInv, LockInv
<1> QED
    BY <1>1, <1>2, <1>3, PublishesStep DEF StoreInv

\* Types, whole files and own copies together are kept by every step of the
\* store, with any number of processes at work.
THEOREM StoreInvariant == StoreSpec => []StoreInv
BY StoreInvInit, StoreInvStep, PTL DEF StoreSpec

\* Type correctness of the store and its lock.
THEOREM StoreTypeCorrect == StoreSpec => []StoreTypeOK
BY StoreInvariant, PTL DEF StoreInv

\* tickets.json always parses, however many processes write it, whether or not
\* they exclude each other, and wherever they stop.
THEOREM FileNeverTorn == StoreSpec => []NeverTorn
BY StoreInvariant, PTL DEF StoreInv

\* What a call renames over tickets.json is its own copy.
THEOREM RenamesOwnCopy == StoreSpec => []PublishesOwnCopy
BY StoreInvariant, PTL DEF StoreInv

-----------------------------------------------------------------------------
\* As long as no running call has lost its directory, whatever the processes.

\* The change a call is about to publish, against the book in the file now.
Pending(c) ==
    LET r == request[c]
        b == BookIn(file)
    IN  \/ /\ r.kind = "create" /\ b[r.id] = NoTicket
           /\ \E t \in Times :
                  /\ t + r.after <= MaxTime
                  /\ copy[c] = [b EXCEPT ![r.id] =
                         [uses |-> r.uses, expires |-> t + r.after,
                          bound |-> r.bound, revoked |-> FALSE]]
        \/ /\ r.kind = "revoke" /\ b[r.id] # NoTicket
           /\ copy[c] = [b EXCEPT ![r.id].revoked = TRUE]
        \/ /\ r.kind = "redeem" /\ b[r.id] # NoTicket
           /\ b[r.id].uses \in Nat \ {0} /\ ~b[r.id].revoked
           /\ b[r.id].bound \in {AnyClient, r.remote}
           /\ copy[c] = [b EXCEPT ![r.id].uses = @ - 1]

\* What a running call has in its copy stays in step with the file.
CopiesCurrent ==
    \A c \in Calls : Up(ProcOf[c]) /\ pc[c] = "held" =>
        /\ stage[c] = "apply" => copy[c] = BookIn(file)
        /\ stage[c] \in {"openTmp", "fillTmp", "rename"} => Pending(c)

\* UsesAddUp, with what it leaves implicit: no redeem without a ticket.
Accounted ==
    \A i \in Ids :
        LET t == BookIn(file)[i]
        IN  /\ t = NoTicket => Redeemers(i) = {}
            /\ t # NoTicket /\ t.uses = Unlimited => issued[i] = Unlimited
            /\ t # NoTicket /\ t.uses # Unlimited =>
                   /\ issued[i] \in Nat
                   /\ t.uses + Cardinality(Redeemers(i)) = issued[i]

ServiceInv ==
    /\ StoreInv /\ robbed = {} /\ now \in Times /\ CopiesCurrent
    /\ Accounted /\ RevocationsStand

LEMMA BookInFile == ASSUME StoreInv PROVE BookIn(file) \in Books
BY DEF StoreInv, StoreTypeOK, NeverTorn, BookIn, EmptyBook, Books

\* One running call is in its body.
LEMMA OneBody ==
    ASSUME StoreInv, robbed = {}, NEW c \in Calls, NEW d \in Calls,
           Up(ProcOf[c]), Up(ProcOf[d]), pc[c] = "held", pc[d] = "held"
    PROVE  c = d
BY DEF StoreInv, OwnersApart, Owns

\* Who has redeemed, after a call moves on in its body.
LEMMA RedeemersAfter ==
    ASSUME StoreTypeOK, NEW c \in Calls, NEW s, To(c, s), request' = request,
           stage[c] # "ok", NEW i \in Ids
    PROVE  /\ c \notin Redeemers(i)
           /\ s = "ok" /\ request[c].kind = "redeem" /\ request[c].id = i =>
                 Redeemers(i)' = Redeemers(i) \cup {c}
           /\ ~(s = "ok" /\ request[c].kind = "redeem" /\ request[c].id = i) =>
                 Redeemers(i)' = Redeemers(i)
BY DEF StoreTypeOK, To, Redeemers

LEMMA ServiceInit == StoreInit => ServiceInv
<1> SUFFICES ASSUME StoreInit PROVE ServiceInv
    OBVIOUS
<1>1. StoreInv
    BY StoreInvInit
<1>2. robbed = {} /\ now \in Times /\ CopiesCurrent
    BY DEF StoreInit, LockInit, CopiesCurrent, Up
<1>3. Accounted
    <2> SUFFICES ASSUME NEW i \in Ids
                 PROVE LET t == BookIn(file)[i]
                       IN  /\ t = NoTicket => Redeemers(i) = {}
                           /\ t # NoTicket /\ t.uses = Unlimited => issued[i] = Unlimited
                           /\ t # NoTicket /\ t.uses # Unlimited =>
                                  /\ issued[i] \in Nat
                                  /\ t.uses + Cardinality(Redeemers(i)) = issued[i]
        BY DEF Accounted
    <2>1. Redeemers(i) = {}
        BY DEF StoreInit, Redeemers
    <2>2. Cardinality(Redeemers(i)) = 0
        BY <2>1, FS_EmptySet
    <2>3. issued[i] = IF BookIn(file)[i] = NoTicket THEN 0 ELSE BookIn(file)[i].uses
        BY DEF StoreInit, IssuedIn
    <2>4. BookIn(file)[i] # NoTicket /\ BookIn(file)[i].uses # Unlimited =>
              BookIn(file)[i].uses \in Nat
        BY <1>1, BookInFile DEF Books, Ticket, Uses
    <2> QED
        BY <2>1, <2>2, <2>3, <2>4
<1>4. RevocationsStand
    BY DEF StoreInit, RevocationsStand
<1> QED
    BY <1>1, <1>2, <1>3, <1>4 DEF ServiceInv

\* Steps that leave the files and the copies alone.
LEMMA AroundKeepsService ==
    ASSUME ServiceInv, AroundBody
    PROVE  CopiesCurrent' /\ Accounted' /\ RevocationsStand'
<1> USE DEF ServiceInv, StoreInv
<1>1. UNCHANGED storeVars
    BY DEF AroundBody
<1>2. Accounted' /\ RevocationsStand'
    BY <1>1 DEF storeVars, Accounted, RevocationsStand, Redeemers, BookIn
<1>3. \A c \in Calls : (Up(ProcOf[c]) /\ pc[c] = "held")' /\ stage[c] # "load" =>
          Up(ProcOf[c]) /\ pc[c] = "held"
    <2>1. ASSUME NEW p \in Procs, ProcessStep(p), NEW c \in Calls,
                 (Up(ProcOf[c]) /\ pc[c] = "held")'
          PROVE Up(ProcOf[c]) /\ pc[c] = "held"
        BY <2>1, LockAssumption DEF ProcessStep, StartProcess, StopProcess, Up, IdleBefore,
            StoreTypeOK, LockTypeOK
    <2>2. ASSUME NEW d \in Calls, Begin(d) \/ LockStep(d), NEW c \in Calls,
                 (Up(ProcOf[c]) /\ pc[c] = "held")', stage[c] # "load"
          PROVE Up(ProcOf[c]) /\ pc[c] = "held"
        BY <2>2, LockMoves, LockOrder DEF Up, FreshBefore, BodyPcs, StoreTypeOK
    <2> QED
        BY <2>1, <2>2 DEF AroundBody
<1>4. ASSUME NEW c \in Calls PROVE Pending(c)' = Pending(c)
    BY <1>1 DEF Pending, storeVars, BookIn
<1>5. CopiesCurrent'
    BY <1>1, <1>3, <1>4 DEF CopiesCurrent, storeVars, BookIn
<1> QED
    BY <1>2, <1>5

\* A step of the body, other than the rename, that moves c from a stage other
\* than "ok" and keeps the file.
LEMMA BodyKeepsAccounts ==
    ASSUME ServiceInv, NEW c \in Calls, NEW s, To(c, s), stage[c] # "ok",
           UNCHANGED <<file, request, issued>>,
           s = "ok" => /\ request[c].kind # "revoke"
                       /\ request[c].kind = "redeem" =>
                              /\ request[c].id \in Ids
                              /\ BookIn(file)[request[c].id] # NoTicket
                              /\ BookIn(file)[request[c].id].uses = Unlimited
    PROVE  Accounted' /\ RevocationsStand'
<1> USE DEF ServiceInv, StoreInv
<1>1. RevocationsStand'
    BY DEF RevocationsStand, To, StoreTypeOK
<1>2. ASSUME NEW i \in Ids
      PROVE  LET t == BookIn(file)[i]
             IN  /\ t = NoTicket => Redeemers(i)' = {}
                 /\ t # NoTicket /\ t.uses = Unlimited => issued[i] = Unlimited
                 /\ t # NoTicket /\ t.uses # Unlimited =>
                        /\ issued[i] \in Nat
                        /\ t.uses + Cardinality(Redeemers(i)') = issued[i]
    <2>1. CASE s = "ok" /\ request[c].kind = "redeem" /\ request[c].id = i
        BY <2>1 DEF Accounted
    <2>2. CASE ~(s = "ok" /\ request[c].kind = "redeem" /\ request[c].id = i)
        <3>1. Redeemers(i)' = Redeemers(i)
            BY <2>2, RedeemersAfter
        <3> QED
            BY <3>1 DEF Accounted
    <2> QED
        BY <2>1, <2>2
<1>3. Accounted'
    BY <1>2 DEF Accounted, BookIn
<1> QED
    BY <1>1, <1>3

\* What Apply computes is what Pending says.
LEMMA ApplyPends ==
    ASSUME ServiceInv, NEW c \in Calls, Apply(c)
    PROVE  /\ stage'[c] # "ok" => stage'[c] = "openTmp" /\ Pending(c)'
           /\ stage'[c] = "ok" => /\ request[c].kind # "revoke"
                                  /\ request[c].kind = "redeem" =>
                                         /\ request[c].id \in Ids
                                         /\ BookIn(file)[request[c].id] # NoTicket
                                         /\ BookIn(file)[request[c].id].uses = Unlimited
<1> USE DEF ServiceInv, StoreInv
<1> DEFINE r == request[c]
           b == BookIn(file)
<1>1. /\ copy[c] = b /\ b \in Books /\ r \in Request
      /\ stage \in [Calls -> Stages] /\ copy \in [Calls -> Books]
    BY BookInFile DEF Apply, InBody, CopiesCurrent, StoreTypeOK
<1>2. /\ Accepts(c) /\ copy'[c] = Applied(c) /\ UNCHANGED <<file, request, now>>
      /\ stage'[c] = IF Writes(c) THEN "openTmp" ELSE "ok"
    BY <1>1 DEF Apply, To
<1>3. BookIn(file)' = b
    BY <1>2 DEF BookIn
<1>4. CASE r.kind = "create"
    <2>1. r \in CreateRequest
        BY <1>1, <1>4 DEF Request, CreateRequest, RevokeRequest, UseRequest, LoadRequest
    <2>2. Writes(c)
        BY <1>4 DEF Writes
    <2>3. b[r.id] = NoTicket /\ now + r.after <= MaxTime
        BY <1>1, <1>2, <1>4 DEF Accepts
    <2>4. Applied(c) = [b EXCEPT ![r.id] = [uses |-> r.uses, expires |-> now + r.after,
                                            bound |-> r.bound, revoked |-> FALSE]]
        BY <1>1, <1>4 DEF Applied, NewTicket
    <2>5. Pending(c)'
        BY <1>2, <1>3, <1>4, <2>3, <2>4 DEF Pending
    <2> QED
        BY <1>2, <2>2, <2>5
<1>5. CASE r.kind = "revoke"
    <2>1. Writes(c)
        BY <1>5 DEF Writes
    <2>2. b[r.id] # NoTicket
        BY <1>1, <1>2, <1>5 DEF Accepts
    <2>3. Applied(c) = [b EXCEPT ![r.id].revoked = TRUE]
        BY <1>1, <1>5 DEF Applied
    <2>4. Pending(c)'
        BY <1>2, <1>3, <1>5, <2>2, <2>3 DEF Pending
    <2> QED
        BY <1>2, <2>1, <2>4
<1>6. CASE r.kind = "redeem"
    <2>1. r.id \in Ids
        BY <1>1, <1>6 DEF Request, CreateRequest, RevokeRequest, UseRequest, LoadRequest
    <2>2. b[r.id] # NoTicket /\ Valid(b[r.id], r.remote)
        BY <1>1, <1>2, <1>6 DEF Accepts
    <2>3. b[r.id].uses \in Uses
        BY <1>1, <2>1, <2>2 DEF Books, Ticket
    <2>4. CASE b[r.id].uses # Unlimited
        <3>1. Writes(c)
            BY <1>1, <1>6, <2>4 DEF Writes
        <3>2. Applied(c) = [b EXCEPT ![r.id].uses = @ - 1]
            BY <1>1, <1>6, <2>4 DEF Applied
        <3>3. b[r.id].uses \in Nat \ {0} /\ ~b[r.id].revoked
              /\ b[r.id].bound \in {AnyClient, r.remote}
            BY <2>2, <2>3, <2>4 DEF Valid, Uses
        <3>4. Pending(c)'
            BY <1>2, <1>3, <1>6, <2>2, <3>2, <3>3 DEF Pending
        <3> QED
            BY <1>2, <3>1, <3>4
    <2>5. CASE b[r.id].uses = Unlimited
        <3>1. ~Writes(c)
            BY <1>1, <1>6, <2>5 DEF Writes
        <3> QED
            BY <1>2, <1>6, <2>1, <2>2, <2>5, <3>1
    <2> QED
        BY <2>4, <2>5
<1>7. CASE r.kind \notin {"create", "revoke", "redeem"}
    <2>1. ~Writes(c)
        BY <1>7 DEF Writes
    <2> QED
        BY <1>2, <1>7, <2>1
<1> QED
    BY <1>4, <1>5, <1>6, <1>7

\* The file after a rename, ticket by ticket.
LEMMA RenameChanges ==
    ASSUME ServiceInv, NEW c \in Calls, Rename(c)
    PROVE  LET r == request[c]
               b == BookIn(file)
           IN  /\ file' = copy[c] /\ file' \in Books /\ BookIn(file)' = file'
               /\ r.kind \in {"create", "revoke", "redeem"} /\ r.id \in Ids
               /\ \A i \in Ids \ {r.id} : file'[i] = b[i]
               /\ file'[r.id] \in Ticket
               /\ r.kind = "create" => /\ b[r.id] = NoTicket
                                       /\ file'[r.id].uses = r.uses /\ r.uses \in Uses
               /\ r.kind = "revoke" => /\ b[r.id] \in Ticket
                                       /\ file'[r.id].uses = b[r.id].uses
                                       /\ file'[r.id].revoked
               /\ r.kind = "redeem" => /\ b[r.id] \in Ticket
                                       /\ b[r.id].uses \in Nat \ {0}
                                       /\ file'[r.id].uses = b[r.id].uses - 1
                                       /\ file'[r.id].revoked = b[r.id].revoked
<1> USE DEF ServiceInv, StoreInv
<1> DEFINE r == request[c]
           b == BookIn(file)
<1>1. b \in Books /\ copy[c] \in Books /\ r \in Request
    BY BookInFile DEF StoreTypeOK
<1>2. Pending(c)
    BY DEF Rename, InBody, CopiesCurrent
<1>3. file' = copy[c] /\ file' \in Books /\ BookIn(file)' = file'
    BY <1>1, StoreAssumption DEF Rename, InBody, PublishesOwnCopy, BookIn
<1>4. r.kind \in {"create", "revoke", "redeem"}
    BY <1>2 DEF Pending
<1>5. r.id \in Ids /\ (r.kind = "create" => r.uses \in Uses)
    BY <1>1, <1>4 DEF Request, CreateRequest, RevokeRequest, UseRequest, LoadRequest
<1>6. b[r.id] # NoTicket => b[r.id] \in Ticket
    BY <1>1, <1>5 DEF Books
<1>7. CASE r.kind = "create"
    <2>1. PICK t \in Times :
              /\ t + r.after <= MaxTime
              /\ copy[c] = [b EXCEPT ![r.id] =
                     [uses |-> r.uses, expires |-> t + r.after,
                      bound |-> r.bound, revoked |-> FALSE]]
        BY <1>2, <1>7 DEF Pending
    <2>2. b[r.id] = NoTicket
        BY <1>2, <1>7 DEF Pending
    <2>3. /\ copy[c][r.id] = [uses |-> r.uses, expires |-> t + r.after,
                              bound |-> r.bound, revoked |-> FALSE]
          /\ \A i \in Ids \ {r.id} : copy[c][i] = b[i]
        BY <1>1, <1>5, <2>1 DEF Books
    <2>4. copy[c][r.id] \in Ticket \cup {NoTicket} /\ copy[c][r.id] # NoTicket
        <3>1. r \in CreateRequest
            BY <1>1, <1>7 DEF Request, CreateRequest, RevokeRequest, UseRequest, LoadRequest
        <3>2. t + r.after \in 0..MaxTime
            BY <2>1, <3>1, StoreAssumption DEF CreateRequest
        <3>3. copy[c][r.id] \in Ticket
            BY <2>3, <3>1, <3>2 DEF CreateRequest, Ticket
        <3> QED
            BY <3>3, StoreAssumption
    <2> QED
        <3>1. copy[c][r.id].uses = r.uses /\ copy[c][r.id] \in Ticket
            BY <2>3, <2>4
        <3> QED
            BY <1>3, <1>4, <1>5, <1>7, <2>2, <2>3, <3>1
<1>8. CASE r.kind = "revoke"
    <2>1. b[r.id] \in Ticket /\ copy[c] = [b EXCEPT ![r.id].revoked = TRUE]
        BY <1>2, <1>6, <1>8 DEF Pending
    <2>2. copy[c][r.id] = [b[r.id] EXCEPT !.revoked = TRUE]
        BY <1>1, <1>5, <2>1 DEF Books
    <2>3. copy[c][r.id] \in Ticket /\ copy[c][r.id].uses = b[r.id].uses /\ copy[c][r.id].revoked
        BY <2>1, <2>2 DEF Ticket
    <2> QED
        BY <1>1, <1>3, <1>5, <1>8, <2>1, <2>3 DEF Books
<1>9. CASE r.kind = "redeem"
    <2>1. /\ b[r.id] \in Ticket /\ copy[c] = [b EXCEPT ![r.id].uses = @ - 1]
          /\ b[r.id].uses \in Nat \ {0}
        BY <1>2, <1>6, <1>9 DEF Pending
    <2>2. copy[c][r.id] = [b[r.id] EXCEPT !.uses = @ - 1]
        BY <1>1, <1>5, <2>1 DEF Books
    <2>3. /\ copy[c][r.id] \in Ticket /\ copy[c][r.id].uses = b[r.id].uses - 1
          /\ copy[c][r.id].revoked = b[r.id].revoked
        BY <2>1, <2>2 DEF Ticket, Uses
    <2> QED
        BY <1>1, <1>3, <1>5, <1>9, <2>1, <2>3 DEF Books
<1> QED
    BY <1>4, <1>7, <1>8, <1>9

LEMMA RenameKeepsAccounts ==
    ASSUME IsFiniteSet(Calls), ServiceInv, NEW c \in Calls, Rename(c)
    PROVE  Accounted' /\ RevocationsStand'
<1> USE DEF ServiceInv, StoreInv
<1> DEFINE r == request[c]
           b == BookIn(file)
<1>1. /\ To(c, "ok") /\ stage[c] # "ok" /\ request' = request
      /\ stage \in [Calls -> Stages]
      /\ issued \in [Ids -> Uses] /\ StoreTypeOK
      /\ issued' = IF r.kind = "create" THEN [issued EXCEPT ![r.id] = r.uses] ELSE issued
    BY DEF Rename, InBody, StoreTypeOK
<1>2. RevocationsStand'
    <2> SUFFICES ASSUME NEW d \in Calls, request[d].kind = "revoke", stage'[d] = "ok"
                 PROVE  file'[request[d].id] # NoTicket /\ file'[request[d].id].revoked
        BY <1>1, RenameChanges DEF RevocationsStand
    <2>1. CASE d = c
        BY <2>1, RenameChanges, StoreAssumption
    <2>2. CASE d # c
        <3>1. request[d] \in Request
            BY DEF StoreTypeOK
        <3>2. request[d].id \in Ids
            BY <3>1 DEF Request, CreateRequest, RevokeRequest, UseRequest, LoadRequest
        <3>3. /\ file \in Books /\ file[request[d].id] # NoTicket /\ file[request[d].id].revoked
            BY <1>1, <2>2 DEF To, RevocationsStand
        <3>4. b = file
            BY <3>3, StoreAssumption DEF BookIn
        <3> QED
            BY <3>2, <3>3, <3>4, RenameChanges, StoreAssumption
    <2> QED
        BY <2>1, <2>2
<1>3. ASSUME NEW i \in Ids
      PROVE  LET t == file'[i]
             IN  /\ t = NoTicket => Redeemers(i)' = {}
                 /\ t # NoTicket /\ t.uses = Unlimited => issued'[i] = Unlimited
                 /\ t # NoTicket /\ t.uses # Unlimited =>
                        /\ issued'[i] \in Nat
                        /\ t.uses + Cardinality(Redeemers(i)') = issued'[i]
    <2>1. CASE i # r.id
        <3>1. Redeemers(i)' = Redeemers(i) /\ file'[i] = b[i] /\ issued'[i] = issued[i]
            BY <1>1, <2>1, RedeemersAfter, RenameChanges
        <3> QED
            BY <3>1 DEF Accounted
    <2>2. CASE i = r.id /\ r.kind = "create"
        <3>1. Redeemers(i)' = {} /\ issued'[i] = r.uses
            BY <1>1, <2>2, RedeemersAfter, RenameChanges DEF Accounted
        <3>2. Cardinality(Redeemers(i)') = 0
            BY <3>1, FS_EmptySet
        <3> QED
            BY <2>2, <3>1, <3>2, RenameChanges, StoreAssumption DEF Uses
    <2>3. CASE i = r.id /\ r.kind = "revoke"
        <3>1. Redeemers(i)' = Redeemers(i) /\ issued'[i] = issued[i]
            BY <1>1, <2>3, RedeemersAfter
        <3>2. file'[i] # NoTicket /\ b[i] # NoTicket /\ file'[i].uses = b[i].uses
            BY <2>3, RenameChanges, StoreAssumption
        <3> QED
            BY <3>1, <3>2 DEF Accounted
    <2>4. CASE i = r.id /\ r.kind = "redeem"
        <3>1. /\ Redeemers(i)' = Redeemers(i) \cup {c} /\ c \notin Redeemers(i)
              /\ issued'[i] = issued[i]
            BY <1>1, <2>4, RedeemersAfter
        <3>2. IsFiniteSet(Redeemers(i))
            BY FS_Subset DEF Redeemers
        <3>3. /\ Cardinality(Redeemers(i)') = Cardinality(Redeemers(i)) + 1
              /\ Cardinality(Redeemers(i)) \in Nat
            BY <3>1, <3>2, FS_AddElement, FS_CardinalityType
        <3>4. /\ file'[i] # NoTicket /\ b[i] # NoTicket
              /\ b[i].uses \in Nat \ {0} /\ file'[i].uses = b[i].uses - 1
            BY <2>4, RenameChanges, StoreAssumption
        <3>5. issued[i] \in Nat /\ b[i].uses + Cardinality(Redeemers(i)) = issued[i]
            BY <3>4, StoreAssumption DEF Accounted
        <3> QED
            BY <3>1, <3>3, <3>4, <3>5, StoreAssumption
    <2> QED
        BY <2>1, <2>2, <2>3, <2>4, RenameChanges
<1>4. Accounted'
    BY <1>3, RenameChanges DEF Accounted
<1> QED
    BY <1>2, <1>4

LEMMA CopiesStep ==
    ASSUME ServiceInv, NEW c \in Calls, Body(c) \/ Return(c)
    PROVE  CopiesCurrent'
<1> USE DEF ServiceInv, StoreInv
<1>1. /\ Up(ProcOf[c]) /\ pc[c] = "held" /\ status' = status
      /\ \A d \in Calls \ {c} : pc'[d] = pc[d]
    BY DEF Body, InBody, Load, LoadError, Apply, Refuse, OpenTmp, FillTmp, TmpError,
        Rename, RenameError, Return, EndBody, Goto, lockVars, StoreTypeOK, LockTypeOK
\* The others are not in their bodies, so only c itself matters.
<1>2. SUFFICES ASSUME (Up(ProcOf[c]) /\ pc[c] = "held")'
               PROVE  /\ stage'[c] = "apply" => copy'[c] = BookIn(file)'
                      /\ stage'[c] \in {"openTmp", "fillTmp", "rename"} => Pending(c)'
    <2>1. ASSUME NEW d \in Calls, d # c, (Up(ProcOf[d]) /\ pc[d] = "held")' PROVE FALSE
        BY <1>1, <2>1, OneBody DEF Up
    <2> QED
        BY <2>1 DEF CopiesCurrent
<1>3. CASE Apply(c)
    <2>1. stage'[c] # "apply" /\ stage'[c] \in {"ok", "openTmp"}
        BY <1>3 DEF Apply, To, StoreTypeOK
    <2> QED
        BY <1>3, <2>1, ApplyPends
<1>4. CASE Load(c)
    BY <1>4 DEF Load, To, BookIn, StoreTypeOK
<1>5. CASE OpenTmp(c) \/ FillTmp(c)
    <2>1. stage[c] \in {"openTmp", "fillTmp"} /\ stage'[c] \in {"fillTmp", "rename"}
        BY <1>5 DEF OpenTmp, FillTmp, InBody, To, StoreTypeOK
    <2>2. UNCHANGED <<file, copy, request>>
        BY <1>5 DEF OpenTmp, FillTmp
    <2>3. Pending(c)' = Pending(c)
        BY <2>2 DEF Pending, BookIn
    <2> QED
        BY <1>1, <2>1, <2>3 DEF CopiesCurrent
<1>6. CASE LoadError(c) \/ Refuse(c) \/ TmpError(c) \/ Rename(c) \/ RenameError(c)
    <2>1. stage'[c] \in {"ok", "err"}
        BY <1>6 DEF LoadError, Refuse, TmpError, Rename, RenameError, To, StoreTypeOK
    <2> QED
        BY <2>1
<1>7. CASE Return(c)
    BY <1>2, <1>7 DEF Return, EndBody, Goto, StoreTypeOK, LockTypeOK
<1> QED
    BY <1>3, <1>4, <1>5, <1>6, <1>7 DEF Body

LEMMA ServiceStep ==
    IsFiniteSet(Calls) /\ ServiceInv /\ [StoreNext]_vars /\ robbed' = {} => ServiceInv'
<1> SUFFICES ASSUME IsFiniteSet(Calls), ServiceInv, [StoreNext]_vars, robbed' = {}
             PROVE  ServiceInv'
    OBVIOUS
<1>1. StoreInv'
    BY StoreInvStep DEF ServiceInv
<1>3. now' \in Times
    BY DEF ServiceInv, StoreNext, AroundBody, Body, Load, LoadError, Apply, Refuse, OpenTmp,
        FillTmp, TmpError, Rename, RenameError, Return, Tick, vars, storeVars
<1>4. CopiesCurrent' /\ Accounted' /\ RevocationsStand'
    <2>1. CASE AroundBody
        BY <2>1, AroundKeepsService
    <2>2. ASSUME NEW c \in Calls, Body(c)
          PROVE  CopiesCurrent' /\ Accounted' /\ RevocationsStand'
        <3>1. CASE Rename(c)
            BY <2>2, <3>1, CopiesStep, RenameKeepsAccounts
        <3>2. CASE Apply(c)
            <4>1. /\ To(c, stage'[c]) /\ stage[c] # "ok" /\ UNCHANGED <<file, request, issued>>
                BY <3>2 DEF Apply, InBody, To, ServiceInv, StoreInv, StoreTypeOK
            <4> QED
                BY <2>2, <3>2, <4>1, CopiesStep, ApplyPends, BodyKeepsAccounts
        <3>3. CASE Load(c) \/ LoadError(c) \/ Refuse(c) \/ OpenTmp(c) \/ FillTmp(c)
                      \/ TmpError(c) \/ RenameError(c)
            <4>1. PICK s \in {"apply", "err", "fillTmp", "rename"} : To(c, s)
                BY <3>3 DEF Load, LoadError, Refuse, OpenTmp, FillTmp, TmpError, RenameError
            <4>2. stage[c] # "ok" /\ UNCHANGED <<file, request, issued>>
                BY <3>3 DEF Load, LoadError, Refuse, OpenTmp, FillTmp, TmpError, RenameError, InBody
            <4> QED
                BY <2>2, <4>1, <4>2, CopiesStep, BodyKeepsAccounts
        <3> QED
            BY <2>2, <3>1, <3>2, <3>3 DEF Body
    <2>3. ASSUME NEW c \in Calls, Return(c)
          PROVE  CopiesCurrent' /\ Accounted' /\ RevocationsStand'
        <3>1. UNCHANGED <<file, stage, request, issued>>
            BY <2>3 DEF Return
        <3> QED
            BY <2>3, <3>1, CopiesStep DEF ServiceInv, Accounted, RevocationsStand, Redeemers, BookIn
    <2>4. CASE Tick \/ UNCHANGED vars
        <3>1. UNCHANGED <<lockVars, file, tmp, copy, stage, request, issued>>
            BY <2>4 DEF Tick, vars, storeVars
        <3>2. Accounted' /\ RevocationsStand'
            BY <3>1 DEF ServiceInv, Accounted, RevocationsStand, Redeemers, BookIn
        <3>3. \A c \in Calls : Pending(c)' = Pending(c)
            BY <3>1 DEF Pending, BookIn
        <3>4. CopiesCurrent'
            BY <3>1, <3>3 DEF ServiceInv, CopiesCurrent, BookIn, Up, lockVars
        <3> QED
            BY <3>2, <3>4
    <2> QED
        BY <2>1, <2>2, <2>3, <2>4 DEF StoreNext
<1> QED
    BY <1>1, <1>3, <1>4 DEF ServiceInv

\* A robbery is not forgotten.
LEMMA RobbedStays == [StoreNext]_vars => robbed \subseteq robbed'
<1> SUFFICES ASSUME [LockNext]_lockVars PROVE robbed \subseteq robbed'
    BY LockSimulation
<1>1. ASSUME NEW p \in Procs, ProcessStep(p) PROVE robbed' = robbed
    BY <1>1 DEF ProcessStep, StartProcess, StopProcess
<1> QED
    BY <1>1, LockRuns DEF LockNext, lockVars

BookInv == StoreInv /\ (robbed = {} => ServiceInv)

\* Until a running call loses its directory, the one call at work has loaded what
\* tickets.json holds, and uses and revocations are accounted for.
THEOREM BookInvariant == ASSUME IsFiniteSet(Calls) PROVE StoreSpec => []BookInv
<1>1. StoreInit => BookInv
    BY StoreInvInit, ServiceInit DEF BookInv
<1>2. BookInv /\ [StoreNext]_vars => BookInv'
    BY StoreInvStep, ServiceStep, RobbedStays DEF BookInv
<1> QED
    BY <1>1, <1>2, PTL DEF StoreSpec

\* The uses of every ticket balance, through any interleaving of the server's redeems
\* with commands of other processes, failed writes, crashes and restarts, for as long
\* as the directory of no running call is removed under it.
THEOREM UsesAreConserved == ASSUME IsFiniteSet(Calls) PROVE StoreSpec => []UsesConserved
<1>1. BookInv => UsesConserved
    BY StoreAssumption DEF BookInv, ServiceInv, Accounted, UsesConserved, UsesAddUp, BookIn
<1> QED
    BY <1>1, BookInvariant, PTL

\* ... and a revocation that the command has reported stands against every redeem
\* beside it.
THEOREM RevocationsAreFinal == ASSUME IsFiniteSet(Calls) PROVE StoreSpec => []RevocationIsFinal
<1>1. BookInv => RevocationIsFinal
    BY DEF BookInv, ServiceInv, RevocationIsFinal
<1> QED
    BY <1>1, BookInvariant, PTL

-----------------------------------------------------------------------------
\* Processes that run one after another: the server, its restarts, and commands
\* given while it does not run.
OneService == \A p, q \in Procs : UnitOf[p] = UnitOf[q]

OneUp == \A p, q \in Procs : Up(p) /\ Up(q) => p = q

LEMMA OneUpStep == OneService /\ LockTypeOK /\ OneUp /\ [LockNext]_lockVars => OneUp'
<1> SUFFICES ASSUME OneService, LockTypeOK, OneUp, [LockNext]_lockVars PROVE OneUp'
    OBVIOUS
<1> USE DEF OneUp, OneService, Up, LockTypeOK
<1>1. ASSUME NEW p \in Procs, ProcessStep(p) PROVE OneUp'
    BY <1>1 DEF ProcessStep, StartProcess, StopProcess
<1>2. ASSUME NEW c \in Calls, Begin(c) \/ LockStep(c) \/ EndBody(c) PROVE OneUp'
    BY <1>2, LockOrder
<1> QED
    BY <1>1, <1>2 DEF LockNext, lockVars

LEMMA UnrobbedStep ==
    LockInv /\ OneUp /\ robbed = {} /\ [LockNext]_lockVars => robbed' = {}
<1> SUFFICES ASSUME LockInv, OneUp, robbed = {}, [LockNext]_lockVars PROVE robbed' = {}
    OBVIOUS
<1>1. ASSUME NEW p \in Procs, ProcessStep(p) PROVE robbed' = robbed
    BY <1>1 DEF ProcessStep, StartProcess, StopProcess
<1>2. ASSUME NEW c \in Calls, RemoveDir(c) PROVE robbed' = {}
    <2>1. ASSUME NEW d \in Calls, Owns(d) PROVE FALSE
        <3>1. ProcOf[c] = ProcOf[d]
            BY <1>2, <2>1, LockAssumption DEF RemoveDir, Owns, OneUp
        <3>2. Inside(c) /\ Inside(d) /\ pc[c] # pc[d]
            BY <1>2, <2>1 DEF RemoveDir, RmdirSteps, Owns, CreateSteps, Inside, Outside
        <3> QED
            BY <3>1, <3>2 DEF LockInv, MutexKnowsHolder
    <2> QED
        BY <1>2, <2>1 DEF RemoveDir
<1>3. ASSUME NEW c \in Calls, Begin(c) \/ LockStep(c) \/ EndBody(c), ~RemoveDir(c)
      PROVE  robbed' = robbed
    BY <1>3 DEF LockStep, Begin, EndBody, LockMutex, Mkdir, MkdirError, OpenLockFile, WriteLockFile,
        WriteOwnerError, ReadOwner, ReadPid, ReadError, RemoveFiles, RemoveError
<1> QED
    BY <1>1, <1>2, <1>3 DEF LockNext, LockStep, lockVars

\* One process at a time never loses its lock: the mutex keeps its calls apart, and
\* there is nobody else to remove the directory.
THEOREM ServiceIsNeverRobbed == ASSUME OneService PROVE StoreSpec => [](robbed = {})
<1> DEFINE Alone == OneUp /\ robbed = {}
<1>1. StoreInit => Alone
    BY DEF StoreInit, LockInit, OneUp, Up
<1>2. StoreInv /\ Alone /\ [StoreNext]_vars => Alone'
    BY LockSimulation, OneUpStep, UnrobbedStep DEF StoreInv, LockInv
<1>3. Alone => robbed = {}
    OBVIOUS
<1> HIDE DEF Alone
<1> QED
    BY <1>1, <1>2, <1>3, StoreInvariant, PTL DEF StoreSpec

\* So its uses and revocations are accounted for whatever crashes or fails.
THEOREM ServiceInvariant ==
    ASSUME IsFiniteSet(Calls), OneService
    PROVE  StoreSpec => []ServiceInv
<1>1. BookInv /\ robbed = {} => ServiceInv
    BY DEF BookInv
<1> QED
    BY <1>1, BookInvariant, ServiceIsNeverRobbed, PTL
=============================================================================
