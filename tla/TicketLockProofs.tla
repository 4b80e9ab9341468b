-------------------------- MODULE TicketLockProofs --------------------------
(***************************************************************************)
(* Proofs about TicketLock, for any calls, processes, pids and units.      *)
(***************************************************************************)
EXTENDS TicketLock, TLAPS

\* The mutex of a process knows the call that is past it.
MutexKnowsHolder == \A c \in Calls : Inside(c) => mutex[ProcOf[c]] = c

LockInv == LockTypeOK /\ MutexKnowsHolder

LEMMA LockTypeInit == LockInit => LockTypeOK
<1> SUFFICES ASSUME LockInit PROVE LockTypeOK
    OBVIOUS
<1>1. status \in [Procs -> {"new", "up", "down"}] /\ mutex \in [Procs -> Calls \cup {Nobody}]
    BY DEF LockInit
<1>2. text \in [LockFiles -> Procs \cup {Absent, Empty}]
    BY DEF LockInit
<1>3. pc \in [Calls -> Steps]
    BY DEF LockInit, Steps, Outside
<1> QED
    BY <1>1, <1>2, <1>3 DEF LockInit, LockTypeOK

LEMMA LockTypeStep == LockTypeOK /\ [LockNext]_lockVars => LockTypeOK'
<1> SUFFICES ASSUME LockTypeOK, [LockNext]_lockVars PROVE LockTypeOK'
    OBVIOUS
<1> USE LockAssumption DEF LockTypeOK
<1>1. CASE UNCHANGED lockVars
    BY <1>1 DEF lockVars
<1>2. ASSUME NEW p \in Procs, ProcessStep(p) PROVE LockTypeOK'
    BY <1>2 DEF ProcessStep, StartProcess, StopProcess
<1>3. ASSUME NEW c \in Calls, Begin(c) \/ EndBody(c) \/ ReadOwner(c) \/ ReadPid(c)
      PROVE LockTypeOK'
    BY <1>3 DEF Begin, EndBody, ReadOwner, ReadPid, Goto, Steps, Outside, RemoveSteps
<1>12. ASSUME NEW c \in Calls, ReadError(c) PROVE LockTypeOK'
    BY <1>12 DEF ReadError, Goto, Steps, RemoveSteps
<1>4. ASSUME NEW c \in Calls, LockMutex(c) PROVE LockTypeOK'
    BY <1>4 DEF LockMutex, Goto, Steps
<1>11. ASSUME NEW c \in Calls, Mkdir(c) PROVE LockTypeOK'
    <2>1. /\ dir' \in BOOLEAN
          /\ UNCHANGED <<status, mutex, text, linked, robbed, left>>
        BY <1>11 DEF Mkdir
    <2>2. pc' = [pc EXCEPT ![c] = "readOwner"] \/ pc' = [pc EXCEPT ![c] = "openPid"]
        BY <1>11 DEF Mkdir, Goto
    <2> QED
        BY <2>1, <2>2 DEF Steps, CreateSteps
<1>5. ASSUME NEW c \in Calls, MkdirError(c) PROVE LockTypeOK'
    BY <1>5 DEF MkdirError, Leave, Goto, Steps, Outside
<1>6. ASSUME NEW c \in Calls, OpenLockFile(c) PROVE LockTypeOK'
    BY <1>6 DEF OpenLockFile, Goto, FileAt, AfterCreateStep, LockFiles, Steps, Outside, CreateSteps
<1>7. ASSUME NEW c \in Calls, WriteLockFile(c) PROVE LockTypeOK'
    BY <1>7 DEF WriteLockFile, Goto, FileAt, AfterCreateStep, LockFiles, Steps, Outside, CreateSteps
<1>8. ASSUME NEW c \in Calls, WriteOwnerError(c) PROVE LockTypeOK'
    BY <1>8 DEF WriteOwnerError, Goto, Steps, RemoveSteps
<1>9. ASSUME NEW c \in Calls, RemoveFiles(c) PROVE LockTypeOK'
    <2>1. /\ text' \in [LockFiles -> Procs \cup {Absent, Empty}] /\ linked' \subseteq Calls
          /\ UNCHANGED <<status, dir, robbed, left>>
        BY <1>9 DEF RemoveFiles, Unlink
    <2>2. pc' \in [Calls -> Steps] /\ mutex' \in [Procs -> Calls \cup {Nobody}]
        BY <1>9 DEF RemoveFiles, Leave, Goto, RmdirOf, AfterRemove, RemoveSteps, RmdirSteps,
            Steps, Outside
    <2> QED
        BY <2>1, <2>2
<1>13. ASSUME NEW c \in Calls, RemoveError(c) PROVE LockTypeOK'
    <2>1. /\ text' \in [LockFiles -> Procs \cup {Absent, Empty}] /\ linked' \subseteq Calls
          /\ UNCHANGED <<status, dir, robbed>> /\ left' \subseteq Calls
        BY <1>13 DEF RemoveError, Unlink
    <2>2. pc' \in [Calls -> Steps] /\ mutex' \in [Procs -> Calls \cup {Nobody}]
        BY <1>13 DEF RemoveError, Leave, Goto, AfterRemove, RemoveSteps, RmdirSteps, Steps, Outside
    <2> QED
        BY <2>1, <2>2
<1>10. ASSUME NEW c \in Calls, RemoveDir(c) PROVE LockTypeOK'
    BY <1>10 DEF RemoveDir, Leave, Goto, AfterRemove, RmdirSteps, Steps, Outside
<1> QED
    BY <1>1, <1>2, <1>3, <1>4, <1>5, <1>6, <1>7, <1>8, <1>9, <1>10, <1>11, <1>12, <1>13
       DEF LockNext, LockStep

\* Where a step can take the call it belongs to, and what it does to the mutex;
\* every other call stays where it is.
LEMMA LockMoves ==
    ASSUME LockTypeOK, NEW c \in Calls, Begin(c) \/ LockStep(c) \/ EndBody(c)
    PROVE  /\ \A d \in Calls \ {c} : pc'[d] = pc[d]
           /\ \/ mutex[ProcOf[c]] = Nobody /\ mutex' = [mutex EXCEPT ![ProcOf[c]] = c]
              \/ Inside(c) /\ mutex' = mutex
              \/ Inside(c) /\ ~Inside(c)' /\ mutex' = [mutex EXCEPT ![ProcOf[c]] = Nobody]
              \/ ~Inside(c)' /\ mutex' = mutex
<1> USE LockAssumption DEF LockTypeOK, Inside
<1>1. CASE Begin(c)
    BY <1>1 DEF Begin, Goto, Outside
<1>2. CASE LockMutex(c)
    BY <1>2 DEF LockMutex, Goto
<1>3. CASE Mkdir(c)
    BY <1>3 DEF Mkdir, Goto, Outside
<1>4. CASE MkdirError(c)
    BY <1>4 DEF MkdirError, Leave, Goto, Outside
<1>5. CASE OpenLockFile(c) \/ WriteLockFile(c) \/ WriteOwnerError(c)
    BY <1>5 DEF OpenLockFile, WriteLockFile, WriteOwnerError, CreateSteps, Goto, Outside
<1>6. CASE ReadOwner(c) \/ ReadPid(c) \/ ReadError(c) \/ EndBody(c)
    BY <1>6 DEF ReadOwner, ReadPid, ReadError, EndBody, Goto, Outside
<1>7. CASE RemoveFiles(c)
    BY <1>7 DEF RemoveFiles, Leave, Goto, RemoveSteps, RmdirOf, AfterRemove, Outside
<1>8. CASE RemoveDir(c)
    BY <1>8 DEF RemoveDir, Leave, Goto, RmdirSteps, AfterRemove, Outside
<1>9. CASE RemoveError(c)
    BY <1>9 DEF RemoveError, Leave, Goto, RemoveSteps, RmdirSteps, AfterRemove, Outside
<1> QED
    BY <1>1, <1>2, <1>3, <1>4, <1>5, <1>6, <1>7, <1>8, <1>9 DEF LockStep

\* Only a running process takes a step of its call, and who was robbed or has left
\* a lock behind stays known.
LEMMA LockRuns ==
    ASSUME NEW c \in Calls, Begin(c) \/ LockStep(c) \/ EndBody(c)
    PROVE  /\ Up(ProcOf[c]) /\ status' = status
           /\ robbed \subseteq robbed' /\ left \subseteq left'
<1>1. CASE RemoveDir(c) \/ RemoveError(c)
    BY <1>1 DEF RemoveDir, RemoveError
<1>2. CASE ~(RemoveDir(c) \/ RemoveError(c))
    BY <1>2 DEF LockStep, Begin, EndBody, LockMutex, Mkdir, MkdirError, OpenLockFile, WriteLockFile,
        WriteOwnerError, ReadOwner, ReadPid, ReadError, RemoveFiles
<1> QED
    BY <1>1, <1>2

LEMMA MutexInit == LockInit => MutexKnowsHolder
BY DEF LockInit, MutexKnowsHolder, Inside, Outside

LEMMA MutexStep == LockInv /\ [LockNext]_lockVars => MutexKnowsHolder'
<1> SUFFICES ASSUME LockInv, [LockNext]_lockVars PROVE MutexKnowsHolder'
    OBVIOUS
<1> USE LockAssumption DEF LockInv
<1>1. CASE UNCHANGED lockVars
    BY <1>1 DEF lockVars, MutexKnowsHolder, Inside
<1>2. ASSUME NEW p \in Procs, ProcessStep(p) PROVE MutexKnowsHolder'
    BY <1>2 DEF ProcessStep, StartProcess, StopProcess, MutexKnowsHolder, Inside
<1>3. ASSUME NEW c \in Calls, Begin(c) \/ LockStep(c) \/ EndBody(c)
      PROVE MutexKnowsHolder'
    <2> SUFFICES ASSUME NEW d \in Calls, Inside(d)' PROVE mutex'[ProcOf[d]] = d
        BY DEF MutexKnowsHolder
    <2>1. d # c => Inside(d) /\ mutex[ProcOf[d]] = d
        BY <1>3, LockMoves DEF MutexKnowsHolder, Inside
    <2>2. Inside(c) => mutex[ProcOf[c]] = c
        BY DEF MutexKnowsHolder
    <2> QED
        BY <1>3, <2>1, <2>2, LockMoves DEF LockTypeOK
<1> QED
    BY <1>1, <1>2, <1>3 DEF LockNext

\* Types, and the mutex names the one call of its process that is past it: the
\* invariant that every step of the lock keeps.
THEOREM LockInvariant == LockSpec => []LockInv
<1>1. LockInit => LockInv
    BY LockTypeInit, MutexInit DEF LockInv
<1>2. LockInv /\ [LockNext]_lockVars => LockInv'
    BY LockTypeStep, MutexStep DEF LockInv
<1> QED
    BY <1>1, <1>2, PTL DEF LockSpec

\* Type correctness of the lock protocol: processes may contend, crash and be
\* restarted in any way.
THEOREM LockTypeCorrect == LockSpec => []LockTypeOK
BY LockInvariant, PTL DEF LockInv

\* `_guard` keeps the calls of one process apart, whatever other processes do
\* to the lock directory.
THEOREM InProcessExclusion == LockSpec => []OneCallPerProcess
<1>1. LockInv => OneCallPerProcess
    BY DEF LockInv, MutexKnowsHolder, OneCallPerProcess
<1> QED
    BY <1>1, LockInvariant, PTL

\* A call that has written its owner, or is about to, has not yet removed it: it
\* leaves these steps by RemoveFiles, which clears every file, or by RemoveError,
\* which puts it among those who left.
Owning == CreateSteps \cup {"held", "undoFiles", "dropFiles"}

OwnersAtWork ==
    \A f \in LockFiles : text[f] \in Procs =>
        /\ status[text[f]] # "new"
        /\ Up(text[f]) => \E c \in Calls : ProcOf[c] = text[f] /\ (pc[c] \in Owning \/ c \in left)

\* A step of c that names no new owner, with c owning after it, or known to have
\* left, if it was owning before.
LEMMA OwnerMoves ==
    ASSUME LockTypeOK, OwnersAtWork, NEW c \in Calls,
           status' = status, left \subseteq left',
           \A f \in LockFiles : text'[f] \in Procs => text'[f] = text[f],
           \A d \in Calls \ {c} : pc'[d] = pc[d],
           pc[c] \in Owning => pc'[c] \in Owning \/ c \in left'
    PROVE  OwnersAtWork'
<1> SUFFICES ASSUME NEW f \in LockFiles, text'[f] \in Procs
             PROVE  /\ status'[text'[f]] # "new"
                    /\ Up(text[f])' => \E d \in Calls :
                          ProcOf[d] = text'[f] /\ (pc'[d] \in Owning \/ d \in left')
    BY DEF OwnersAtWork
<1>1. text'[f] = text[f] /\ status[text[f]] # "new"
    BY DEF OwnersAtWork
<1>2. CASE Up(text[f])
    <2>1. PICK d \in Calls : ProcOf[d] = text[f] /\ (pc[d] \in Owning \/ d \in left)
        BY <1>1, <1>2 DEF OwnersAtWork
    <2> QED
        BY <1>1, <2>1
<1> QED
    BY <1>1, <1>2 DEF Up

LEMMA OwnersStep == LockTypeOK /\ OwnersAtWork /\ [LockNext]_lockVars => OwnersAtWork'
<1> SUFFICES ASSUME LockTypeOK, OwnersAtWork, [LockNext]_lockVars PROVE OwnersAtWork'
    OBVIOUS
<1> USE LockAssumption DEF LockTypeOK
<1>1. CASE UNCHANGED lockVars
    BY <1>1 DEF lockVars, OwnersAtWork, Up
<1>2. ASSUME NEW p \in Procs, ProcessStep(p) PROVE OwnersAtWork'
    BY <1>2 DEF ProcessStep, StartProcess, StopProcess, OwnersAtWork, Up
<1>3. ASSUME NEW c \in Calls, \/ Begin(c) \/ LockMutex(c) \/ Mkdir(c) \/ MkdirError(c)
                              \/ ReadOwner(c) \/ ReadPid(c) \/ ReadError(c)
      PROVE OwnersAtWork'
    <2>1. pc[c] \notin Owning /\ UNCHANGED <<status, text, left>>
        BY <1>3 DEF Begin, LockMutex, Mkdir, MkdirError, ReadOwner, ReadPid, ReadError, Owning,
            CreateSteps
    <2>2. \A d \in Calls \ {c} : pc'[d] = pc[d]
        BY <1>3, LockMoves DEF LockStep
    <2> QED
        BY <2>1, <2>2, OwnerMoves
<1>4. ASSUME NEW c \in Calls, WriteOwnerError(c) \/ EndBody(c) PROVE OwnersAtWork'
    <2>1. pc'[c] \in {"undoFiles", "dropFiles"} /\ UNCHANGED <<status, text, left>>
        BY <1>4 DEF WriteOwnerError, EndBody, Goto
    <2>2. \A d \in Calls \ {c} : pc'[d] = pc[d]
        BY <1>4, LockMoves DEF LockStep
    <2> QED
        BY <2>1, <2>2, OwnerMoves DEF Owning
<1>5. ASSUME NEW c \in Calls, OpenLockFile(c) \/ WriteLockFile(c) PROVE OwnersAtWork'
    <2>1. /\ pc'[c] \in Owning /\ Up(ProcOf[c]) /\ UNCHANGED <<status, left>>
          /\ \A d \in Calls \ {c} : pc'[d] = pc[d]
        BY <1>5 DEF OpenLockFile, WriteLockFile, Goto, AfterCreateStep, Owning, CreateSteps
    <2>2. \A f \in LockFiles : text'[f] \in {text[f], Empty, ProcOf[c]}
        BY <1>5 DEF OpenLockFile, WriteLockFile
    <2>3. \A f \in LockFiles : text'[f] \in Procs => text'[f] = text[f] \/ text'[f] = ProcOf[c]
        BY <2>2
    <2>4. ProcOf[c] \in Procs /\ status[ProcOf[c]] # "new"
        BY <2>1 DEF Up
    <2> QED
        <3> SUFFICES ASSUME NEW f \in LockFiles, text'[f] \in Procs
                     PROVE  /\ status'[text'[f]] # "new"
                            /\ Up(text[f])' =>
                                 \E d \in Calls : ProcOf[d] = text'[f] /\ (pc'[d] \in Owning \/ d \in left')
            BY DEF OwnersAtWork
        <3>1. CASE text'[f] = ProcOf[c]
            BY <2>1, <2>4, <3>1
        <3>2. CASE text'[f] = text[f]
            <4>1. status[text[f]] # "new"
                BY <3>2 DEF OwnersAtWork
            <4>2. ASSUME Up(text[f])
                  PROVE  \E d \in Calls : ProcOf[d] = text'[f] /\ (pc'[d] \in Owning \/ d \in left')
                <5>1. PICK d \in Calls : ProcOf[d] = text[f] /\ (pc[d] \in Owning \/ d \in left)
                    BY <3>2, <4>2 DEF OwnersAtWork
                <5> QED
                    BY <2>1, <3>2, <5>1
            <4> QED
                BY <2>1, <3>2, <4>1, <4>2 DEF Up
        <3> QED
            BY <2>3, <3>1, <3>2
<1>6. ASSUME NEW c \in Calls, RemoveFiles(c) PROVE OwnersAtWork'
    <2>1. \A f \in LockFiles : text'[f] = Absent
        BY <1>6 DEF RemoveFiles, Unlink
    <2> QED
        BY <2>1 DEF OwnersAtWork
<1>7. ASSUME NEW c \in Calls, RemoveDir(c) PROVE OwnersAtWork'
    <2>1. pc[c] \notin Owning /\ UNCHANGED <<status, text, left>>
        BY <1>7 DEF RemoveDir, RmdirSteps, Owning, CreateSteps
    <2>2. \A d \in Calls \ {c} : pc'[d] = pc[d]
        BY <1>7, LockMoves DEF LockStep
    <2> QED
        BY <2>1, <2>2, OwnerMoves
<1>8. ASSUME NEW c \in Calls, RemoveError(c) PROVE OwnersAtWork'
    <2>1. /\ status' = status /\ left \subseteq left'
          /\ pc[c] \in {"undoFiles", "dropFiles"} => c \in left'
        BY <1>8 DEF RemoveError
    <2>2. \A f \in LockFiles : text'[f] \in Procs => text'[f] = text[f]
        BY <1>8 DEF RemoveError, Unlink
    <2>3. \A d \in Calls \ {c} : pc'[d] = pc[d]
        BY <1>8, LockMoves DEF LockStep
    <2>4. pc[c] \in Owning => pc[c] \in {"undoFiles", "dropFiles"}
        BY <1>8 DEF RemoveError, RemoveSteps, RmdirSteps, Owning, CreateSteps
    <2> QED
        BY <2>1, <2>2, <2>3, <2>4, OwnerMoves
<1> QED
    BY <1>1, <1>2, <1>3, <1>4, <1>5, <1>6, <1>7, <1>8 DEF LockNext, LockStep

\* An owner text that names a running process belongs to a call of that process
\* that has not yet begun to remove it, or whose removal failed: a lock that nobody
\* will drop is a dead process's, which remove_stale_ticket_store_lock recognises,
\* or the one a failed remove_dir_all left.
THEOREM NoLockIsOrphaned == LockSpec => []NoOrphanLock
<1>1. LockInit => OwnersAtWork
    BY LockAssumption DEF LockInit, OwnersAtWork
<1>2. LockTypeOK /\ OwnersAtWork /\ [LockNext]_lockVars => OwnersAtWork'
    BY OwnersStep
<1>3. OwnersAtWork => NoOrphanLock
    BY DEF OwnersAtWork, NoOrphanLock, Owning, CreateSteps, Inside, Outside
<1> QED
    BY <1>1, <1>2, <1>3, LockTypeCorrect, PTL DEF LockSpec

-----------------------------------------------------------------------------
\* A process that has not started has made no call.
IdleBefore == \A c \in Calls : status[ProcOf[c]] = "new" => pc[c] = "idle"

\* The directory is that of the one owner that has not been robbed.
OwnersApart ==
    /\ \A c \in Calls : Owns(c) /\ c \notin robbed => dir
    /\ \A c, d \in Calls : Owns(c) /\ Owns(d) /\ c # d => robbed \cap {c, d} # {}

LEMMA IdleStep == LockTypeOK /\ IdleBefore /\ [LockNext]_lockVars => IdleBefore'
<1> SUFFICES ASSUME LockTypeOK, IdleBefore, [LockNext]_lockVars PROVE IdleBefore'
    OBVIOUS
<1> USE LockAssumption DEF LockTypeOK, IdleBefore
<1>1. CASE UNCHANGED lockVars
    BY <1>1 DEF lockVars
<1>2. ASSUME NEW p \in Procs, ProcessStep(p) PROVE IdleBefore'
    BY <1>2 DEF ProcessStep, StartProcess, StopProcess, Up
<1>3. ASSUME NEW c \in Calls, Begin(c) \/ LockStep(c) \/ EndBody(c) PROVE IdleBefore'
    BY <1>3, LockMoves, LockRuns DEF Up
<1> QED
    BY <1>1, <1>2, <1>3 DEF LockNext

\* A step of c that makes no new owner and takes no directory away.
LEMMA ApartMoves ==
    ASSUME OwnersApart, NEW c \in Calls, status' = status, dir => dir', robbed \subseteq robbed',
           \A d \in Calls \ {c} : pc'[d] = pc[d],
           pc'[c] \in CreateSteps \cup {"held"} => pc[c] \in CreateSteps \cup {"held"}
    PROVE  OwnersApart'
<1>1. \A d \in Calls : Owns(d)' => Owns(d)
    BY DEF Owns, Up
<1> QED
    BY <1>1 DEF OwnersApart

LEMMA ApartStep == LockTypeOK /\ IdleBefore /\ OwnersApart /\ [LockNext]_lockVars => OwnersApart'
<1> SUFFICES ASSUME LockTypeOK, IdleBefore, OwnersApart, [LockNext]_lockVars PROVE OwnersApart'
    OBVIOUS
<1> USE LockAssumption DEF LockTypeOK
<1>1. CASE UNCHANGED lockVars
    BY <1>1 DEF lockVars, OwnersApart, Owns, Up
<1>2. ASSUME NEW p \in Procs, ProcessStep(p) PROVE OwnersApart'
    <2>1. \A c \in Calls : Owns(c)' => Owns(c)
        BY <1>2 DEF ProcessStep, StartProcess, StopProcess, IdleBefore, Owns, Up, CreateSteps
    <2>2. UNCHANGED <<dir, robbed>>
        BY <1>2 DEF ProcessStep, StartProcess, StopProcess
    <2> QED
        BY <2>1, <2>2 DEF OwnersApart
<1>3. ASSUME NEW c \in Calls, \/ Begin(c) \/ LockMutex(c) \/ MkdirError(c) \/ WriteOwnerError(c)
                              \/ ReadOwner(c) \/ ReadPid(c) \/ ReadError(c) \/ EndBody(c)
      PROVE OwnersApart'
    <2>1. UNCHANGED <<status, dir, robbed>> /\ pc'[c] \notin CreateSteps \cup {"held"}
        BY <1>3 DEF Begin, LockMutex, MkdirError, WriteOwnerError, ReadOwner, ReadPid, ReadError,
            EndBody, Leave, Goto, CreateSteps
    <2>2. \A d \in Calls \ {c} : pc'[d] = pc[d]
        BY <1>3, LockMoves DEF LockStep
    <2> QED
        BY <2>1, <2>2, ApartMoves
<1>4. ASSUME NEW c \in Calls, OpenLockFile(c) \/ WriteLockFile(c) PROVE OwnersApart'
    <2>1. UNCHANGED <<status, dir, robbed>> /\ pc[c] \in CreateSteps
        BY <1>4 DEF OpenLockFile, WriteLockFile, CreateSteps
    <2>2. \A d \in Calls \ {c} : pc'[d] = pc[d]
        BY <1>4, LockMoves DEF LockStep
    <2> QED
        BY <2>1, <2>2, ApartMoves
<1>5. ASSUME NEW c \in Calls, RemoveFiles(c) \/ RemoveError(c) PROVE OwnersApart'
    <2>1. UNCHANGED <<status, dir, robbed>>
        BY <1>5 DEF RemoveFiles, RemoveError
    <2>2. pc'[c] \notin CreateSteps \cup {"held"}
        BY <1>5 DEF RemoveFiles, RemoveError, Leave, Goto, RemoveSteps, RmdirSteps, RmdirOf,
            AfterRemove, CreateSteps
    <2>3. \A d \in Calls \ {c} : pc'[d] = pc[d]
        BY <1>5, LockMoves DEF LockStep
    <2> QED
        BY <2>1, <2>2, <2>3, ApartMoves
<1>6. ASSUME NEW c \in Calls, RemoveDir(c) PROVE OwnersApart'
    <2>1. status' = status /\ pc'[c] \notin CreateSteps \cup {"held"}
        BY <1>6 DEF RemoveDir, Leave, Goto, RmdirSteps, AfterRemove, CreateSteps
    <2>2. \A d \in Calls \ {c} : pc'[d] = pc[d]
        BY <1>6, LockMoves DEF LockStep
    <2>3. CASE dir /\ ~dir'
        <3>1. robbed' = robbed \cup {d \in Calls : Owns(d)}
            BY <1>6, <2>3 DEF RemoveDir
        <3>2. \A d \in Calls : Owns(d)' => d \in robbed'
            BY <2>1, <2>2, <3>1 DEF Owns, Up
        <3> QED
            BY <3>2 DEF OwnersApart
    <2>4. CASE ~(dir /\ ~dir')
        <3>1. robbed' = robbed /\ (dir => dir')
            BY <1>6, <2>4 DEF RemoveDir
        <3> QED
            BY <2>1, <2>2, <3>1, ApartMoves
    <2> QED
        BY <2>3, <2>4
\* A directory that create_dir makes is nobody's: every owner there is has been robbed.
<1>7. ASSUME NEW c \in Calls, Mkdir(c) PROVE OwnersApart'
    <2>1. dir' /\ UNCHANGED <<status, robbed>>
        BY <1>7 DEF Mkdir
    <2>2. \A d \in Calls \ {c} : pc'[d] = pc[d]
        BY <1>7, LockMoves DEF LockStep
    <2>3. CASE dir
        <3>1. pc'[c] = "readOwner"
            BY <1>7, <2>3 DEF Mkdir, Goto
        <3> QED
            BY <2>1, <2>2, <3>1, ApartMoves DEF CreateSteps
    <2>4. CASE ~dir
        <3>1. \A d \in Calls \ {c} : Owns(d)' => d \in robbed
            BY <2>1, <2>2, <2>4 DEF OwnersApart, Owns, Up
        <3> QED
            BY <2>1, <3>1 DEF OwnersApart
    <2> QED
        BY <2>3, <2>4
<1> QED
    BY <1>1, <1>2, <1>3, <1>4, <1>5, <1>6, <1>7 DEF LockNext, LockStep

\* Whatever crashes and whatever fails, two running calls are in their bodies at once
\* only when one of them has lost its directory to another's removal: create_dir lets
\* one caller in, and nothing but a removal ends that.
THEOREM LockExcludes == LockSpec => []AtMostOneHolder
<1>1. LockInit => IdleBefore /\ OwnersApart
    BY DEF LockInit, IdleBefore, OwnersApart, Owns, CreateSteps
<1>2. LockTypeOK /\ IdleBefore /\ OwnersApart /\ [LockNext]_lockVars => IdleBefore' /\ OwnersApart'
    BY IdleStep, ApartStep
<1>3. OwnersApart => AtMostOneHolder
    BY DEF OwnersApart, AtMostOneHolder, Holds, Owns
<1> QED
    BY <1>1, <1>2, <1>3, LockTypeCorrect, PTL DEF LockSpec
=============================================================================
