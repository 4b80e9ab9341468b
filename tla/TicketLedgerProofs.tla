-------------------------- MODULE TicketLedgerProofs --------------------------
(***************************************************************************)
(* With one service at a time, TicketStore implements TicketLedger.        *)
(***************************************************************************)
EXTENDS TicketStoreProofs

\* A step of one call, as the ledger sees it: only that call's answer changes.
LEMMA AnswersAfter ==
    ASSUME StoreTypeOK, NEW c \in Calls,
           \A d \in Calls \ {c} : stage'[d] = stage[d] /\ pc'[d] = pc[d],
           request' = request
    PROVE  [d \in Calls |-> AnswerOf(d)]' =
               [[d \in Calls |-> AnswerOf(d)] EXCEPT ![c] = AnswerOf(c)']
<1>1. ASSUME NEW d \in Calls \ {c} PROVE AnswerOf(d)' = AnswerOf(d)
    BY <1>1 DEF AnswerOf
<1> QED
    BY <1>1

LEMMA LockImplements ==
    ASSUME ServiceInv, AroundBody
    PROVE  [Ledger!Next]_Ledger!vars
<1> USE DEF ServiceInv, StoreInv
<1>1. UNCHANGED storeVars
    BY DEF AroundBody
<1>2. ASSUME NEW p \in Procs, ProcessStep(p) PROVE UNCHANGED Ledger!vars
    <2>1. UNCHANGED <<pc, stage, request, file, now>>
        BY <1>1, <1>2 DEF ProcessStep, StartProcess, StopProcess, storeVars
    <2> QED
        BY <2>1 DEF Ledger!vars, AnswerOf, BookIn
<1>3. ASSUME NEW c \in Calls, Begin(c) \/ LockStep(c) PROVE [Ledger!Next]_Ledger!vars
    <2>1. /\ \A d \in Calls \ {c} : stage'[d] = stage[d] /\ pc'[d] = pc[d]
          /\ UNCHANGED <<stage, request, now, BookIn(file)>>
        BY <1>1, <1>3, LockMoves DEF storeVars, StoreTypeOK, BookIn
    <2>2. [d \in Calls |-> AnswerOf(d)]' =
              [[d \in Calls |-> AnswerOf(d)] EXCEPT ![c] = AnswerOf(c)']
        BY <2>1, AnswersAfter
    <2>3. pc[c] # "failed"
        BY <1>3, LockOrder DEF StoreTypeOK
    <2>4. CASE pc'[c] = "failed"
        <3>1. stage[c] = "load"
            BY <1>3, <2>4, LockOrder DEF StoreTypeOK, BodyPcs, FreshBefore
        <3>2. AnswerOf(c) = "pending" /\ AnswerOf(c)' = "err"
            BY <2>1, <2>3, <2>4, <3>1 DEF AnswerOf
        <3>3. Ledger!Fail(c)
            BY <2>1, <2>2, <3>2 DEF Ledger!Fail, Ledger!Answer
        <3> QED
            BY <3>3 DEF Ledger!Next
    <2>5. CASE pc'[c] # "failed"
        <3>1. AnswerOf(c)' = AnswerOf(c)
            BY <2>1, <2>3, <2>5 DEF AnswerOf
        <3> QED
            BY <2>1, <2>2, <3>1 DEF Ledger!vars
    <2> QED
        BY <2>4, <2>5
<1> QED
    BY <1>2, <1>3 DEF AroundBody

LEMMA RenameImplements ==
    ASSUME ServiceInv, NEW c \in Calls, Rename(c)
    PROVE  Ledger!Next
<1> USE DEF ServiceInv, StoreInv
<1> DEFINE r == request[c]
           b == BookIn(file)
<1>1. /\ b \in Books /\ file' = copy[c] /\ BookIn(file)' = copy[c]
      /\ Pending(c) /\ pc[c] = "held" /\ stage[c] = "rename"
      /\ UNCHANGED <<pc, request, now>>
    BY BookInFile, RenameChanges DEF Rename, InBody, CopiesCurrent, lockVars
<1>2. /\ stage'[c] = "ok"
      /\ \A d \in Calls \ {c} : stage'[d] = stage[d] /\ pc'[d] = pc[d]
    BY <1>1 DEF Rename, To, StoreTypeOK
<1>3. [d \in Calls |-> AnswerOf(d)]' = [[d \in Calls |-> AnswerOf(d)] EXCEPT ![c] = "ok"]
    <2>1. AnswerOf(c)' = "ok"
        BY <1>1, <1>2 DEF AnswerOf
    <2> QED
        BY <1>1, <1>2, <2>1, AnswersAfter
<1>4. CASE r.kind = "create"
    <2>1. AnswerOf(c) = "pending"
        BY <1>1, <1>4 DEF AnswerOf
    <2>2. Ledger!Create(c)
        BY <1>1, <1>3, <1>4, <2>1
           DEF Ledger!Create, Ledger!Asks, Ledger!Answer, Ledger!TicketOf, Pending
    <2> QED
        BY <2>2 DEF Ledger!Next
<1>5. CASE r.kind = "revoke"
    <2>1. AnswerOf(c) = "pending"
        BY <1>1, <1>5 DEF AnswerOf
    <2>2. Ledger!Revoke(c)
        BY <1>1, <1>3, <1>5, <2>1
           DEF Ledger!Revoke, Ledger!Asks, Ledger!Answer, Ledger!TicketOf, Pending
    <2> QED
        BY <2>2 DEF Ledger!Next
<1>6. CASE r.kind = "redeem"
    <2>1. AnswerOf(c) = "accepted"
        BY <1>1, <1>6 DEF AnswerOf
    <2>2. Ledger!Redeem(c)
        BY <1>1, <1>3, <1>6, <2>1
           DEF Ledger!Redeem, Ledger!Usable, Ledger!Answer, Ledger!TicketOf, Pending
    <2> QED
        BY <2>2 DEF Ledger!Next
<1> QED
    BY <1>1, <1>4, <1>5, <1>6 DEF Pending

LEMMA ApplyImplements ==
    ASSUME ServiceInv, NEW c \in Calls, Apply(c)
    PROVE  [Ledger!Next]_Ledger!vars
<1> USE DEF ServiceInv, StoreInv
<1> DEFINE r == request[c]
           b == BookIn(file)
<1>1. /\ copy[c] = b /\ Accepts(c) /\ pc[c] = "held" /\ stage[c] = "apply"
      /\ UNCHANGED <<pc, request, now, file>> /\ r \in Request
    BY DEF Apply, InBody, CopiesCurrent, lockVars, StoreTypeOK
<1>2. /\ stage'[c] = IF Writes(c) THEN "openTmp" ELSE "ok"
      /\ \A d \in Calls \ {c} : stage'[d] = stage[d] /\ pc'[d] = pc[d]
    BY <1>1 DEF Apply, To, StoreTypeOK
<1>3. [d \in Calls |-> AnswerOf(d)]' = [[d \in Calls |-> AnswerOf(d)] EXCEPT ![c] = AnswerOf(c)']
    BY <1>1, <1>2, AnswersAfter
<1>4. AnswerOf(c) = "pending" /\ UNCHANGED <<BookIn(file), now, request>>
    BY <1>1 DEF AnswerOf, BookIn
<1>5. r.kind \in {"create", "revoke", "check", "redeem", "load"}
    BY <1>1 DEF Request, CreateRequest, RevokeRequest, UseRequest, LoadRequest
<1>6. CASE r.kind \in {"create", "revoke"}
    <2>1. AnswerOf(c)' = "pending"
        BY <1>1, <1>2, <1>6 DEF Writes, AnswerOf
    <2> QED
        BY <1>3, <1>4, <2>1 DEF Ledger!vars
<1>7. CASE r.kind = "check"
    <2>1. AnswerOf(c)' = "ok"
        BY <1>1, <1>2, <1>7 DEF Writes, AnswerOf
    <2>2. b[r.id] # NoTicket /\ Valid(b[r.id], r.remote)
        BY <1>1, <1>7 DEF Accepts
    <2>3. Ledger!Check(c)
        BY <1>3, <1>4, <1>7, <2>1, <2>2
           DEF Ledger!Check, Ledger!Asks, Ledger!Usable, Ledger!Answer, Ledger!TicketOf, Valid
    <2> QED
        BY <2>3 DEF Ledger!Next
<1>8. CASE r.kind = "redeem"
    <2>1. AnswerOf(c)' = IF b[r.id].uses = Unlimited THEN "ok" ELSE "accepted"
        BY <1>1, <1>2, <1>8 DEF Writes, AnswerOf
    <2>2. b[r.id] # NoTicket /\ Valid(b[r.id], r.remote)
        BY <1>1, <1>8 DEF Accepts
    <2>3. Ledger!Accept(c)
        BY <1>3, <1>4, <1>8, <2>1, <2>2
           DEF Ledger!Accept, Ledger!Asks, Ledger!Usable, Ledger!Answer, Ledger!TicketOf, Valid
    <2> QED
        BY <2>3 DEF Ledger!Next
<1>9. CASE r.kind = "load"
    <2>1. AnswerOf(c)' = "ok"
        BY <1>1, <1>2, <1>9 DEF Writes, AnswerOf
    <2>2. Ledger!List(c)
        BY <1>3, <1>4, <1>9, <2>1 DEF Ledger!List, Ledger!Asks, Ledger!Answer
    <2> QED
        BY <2>2 DEF Ledger!Next
<1> QED
    BY <1>5, <1>6, <1>7, <1>8, <1>9

LEMMA BodyImplements ==
    ASSUME ServiceInv, NEW c \in Calls, Body(c)
    PROVE  [Ledger!Next]_Ledger!vars
<1> USE DEF ServiceInv, StoreInv
<1>1. CASE Load(c) \/ OpenTmp(c) \/ FillTmp(c) \/ LoadError(c) \/ Refuse(c) \/ TmpError(c)
              \/ RenameError(c)
    <2>1. PICK s \in {"apply", "fillTmp", "rename", "err"} :
              /\ To(c, s)
              /\ s = "apply" => stage[c] = "load"
              /\ s \in {"fillTmp", "rename"} => stage[c] \in {"openTmp", "fillTmp"}
        BY <1>1 DEF Load, OpenTmp, FillTmp, LoadError, Refuse, TmpError, RenameError, InBody
    <2>2. /\ stage[c] \in {"load", "apply", "openTmp", "fillTmp", "rename"} /\ pc[c] = "held"
          /\ UNCHANGED <<pc, request, now, file>>
        BY <1>1 DEF Load, OpenTmp, FillTmp, LoadError, Refuse, TmpError, RenameError, InBody, lockVars
    <2>3. stage'[c] = s /\ \A d \in Calls \ {c} : stage'[d] = stage[d] /\ pc'[d] = pc[d]
        BY <2>1, <2>2 DEF To, StoreTypeOK
    <2>4. [d \in Calls |-> AnswerOf(d)]' =
              [[d \in Calls |-> AnswerOf(d)] EXCEPT ![c] = AnswerOf(c)']
        BY <2>2, <2>3, AnswersAfter
    <2>5. AnswerOf(c) \in {"pending", "accepted"} /\ UNCHANGED <<BookIn(file), now, request>>
        BY <2>2 DEF AnswerOf, BookIn
    <2>6. CASE s = "err"
        <3>1. AnswerOf(c)' = "err"
            BY <2>2, <2>3, <2>6 DEF AnswerOf
        <3>2. Ledger!Fail(c)
            BY <2>4, <2>5, <3>1 DEF Ledger!Fail, Ledger!Answer
        <3> QED
            BY <3>2 DEF Ledger!Next
    <2>7. CASE s # "err"
        <3>1. AnswerOf(c)' = AnswerOf(c)
            BY <2>1, <2>2, <2>3, <2>7 DEF AnswerOf
        <3> QED
            BY <2>4, <2>5, <3>1 DEF Ledger!vars
    <2> QED
        BY <2>6, <2>7
<1> QED
    BY <1>1, ApplyImplements, RenameImplements DEF Body

LEMMA StoreStepImplements == ServiceInv /\ [StoreNext]_vars => [Ledger!Next]_Ledger!vars
<1> SUFFICES ASSUME ServiceInv, [StoreNext]_vars PROVE [Ledger!Next]_Ledger!vars
    OBVIOUS
<1>1. ASSUME NEW c \in Calls, Return(c) PROVE UNCHANGED Ledger!vars
    <2>1. /\ pc[c] = "held" /\ pc'[c] = "dropFiles" /\ UNCHANGED <<file, stage, request, now>>
          /\ \A d \in Calls \ {c} : pc'[d] = pc[d]
        BY <1>1 DEF Return, EndBody, Goto, ServiceInv, StoreInv, StoreTypeOK, LockTypeOK
    <2>2. \A d \in Calls : AnswerOf(d)' = AnswerOf(d)
        BY <2>1 DEF AnswerOf
    <2> QED
        BY <2>1, <2>2 DEF Ledger!vars, BookIn
<1>2. CASE UNCHANGED vars
    BY <1>2 DEF vars, lockVars, storeVars, Ledger!vars, AnswerOf, BookIn
<1>3. CASE Tick
    <2>1. Ledger!Tick
        BY <1>3 DEF Tick, lockVars, Ledger!Tick, AnswerOf, BookIn
    <2> QED
        BY <2>1 DEF Ledger!Next
<1> QED
    BY <1>1, <1>2, <1>3, LockImplements, BodyImplements DEF StoreNext

\* Behind one service at a time, load, change and rename are one atomic step:
\* the store is the ledger, with crashes only leaving requests unanswered.
THEOREM StoreImplementsLedger ==
    ASSUME IsFiniteSet(Calls), OneService
    PROVE  StoreSpec => ImplementsLedger
<1>1. StoreInit => Ledger!Init
    <2> SUFFICES ASSUME StoreInit PROVE Ledger!Init
        OBVIOUS
    <2>1. \A c \in Calls : AnswerOf(c) = "pending"
        BY DEF StoreInit, LockInit, AnswerOf
    <2> QED
        BY <2>1 DEF Ledger!Init
<1>2. ServiceInv /\ [StoreNext]_vars => [Ledger!Next]_Ledger!vars
    BY StoreStepImplements
<1> QED
    BY <1>1, <1>2, ServiceInvariant, PTL DEF StoreSpec, Ledger!Spec, ImplementsLedger
=============================================================================
