------------------------------ MODULE KeysProofs ------------------------------
(***************************************************************************)
(* The key files for any number of clients, of `key show` and of starts of *)
(* the server, each of which may stop at any step: there is one key for    *)
(* all of them, clients share it only when a lock was taken from one that  *)
(* lives, and a server signs as it announces.                              *)
(***************************************************************************)
EXTENDS Keys, TLAPS

\* Which kinds of process are at which steps.
PlacesInv ==
    \A p \in Procs :
        /\ pc[p] \in LockSteps \cup {"using"} => Builds(p)
        /\ pc[p] \in ServeSteps \cup {"serving"} => Serves(p)
        /\ pc[p] = "read" => file[File(p)] # Absent

\* A step that an action gives is one of its kind.
LEMMA GotoIs ==
  ASSUME TypeOK, NEW p \in Procs, NEW step \in Steps, Goto(p, step)
  PROVE  /\ pc' \in [Procs -> Steps]
         /\ \A q \in Procs : pc'[q] = IF q = p THEN step ELSE pc[q]
  BY DEF TypeOK, Goto

LEMMA InitTypes == Init => TypeOK /\ PlacesInv
  BY KeysAssumption DEF Init, TypeOK, PlacesInv, Steps, LockSteps, KeySteps, ServeSteps,
     Contents, Absent, Empty, Owners

LEMMA StartKeepsTypes ==
  ASSUME TypeOK, PlacesInv, NEW p \in Procs, Start(p)
  PROVE  TypeOK' /\ PlacesInv'
  <1>1. PICK step \in {"lock", "look", "pair"} :
            /\ Goto(p, step)
            /\ step = "lock" => Builds(p)
            /\ step = "pair" => Serves(p)
        BY DEF Start
  <1>2. step \in Steps  BY DEF Steps, LockSteps, KeySteps, ServeSteps
  <1>3. pc' \in [Procs -> Steps] /\ \A q \in Procs : pc'[q] = IF q = p THEN step ELSE pc[q]
        BY <1>1, <1>2, GotoIs
  <1>4. TypeOK'  BY <1>3 DEF TypeOK, Start, lock, pair
  <1>5. PlacesInv'
        BY <1>1, <1>3 DEF PlacesInv, Start, Builds, Serves, File, LockSteps, ServeSteps
  <1> QED  BY <1>4, <1>5

LEMMA StopKeepsTypes ==
  ASSUME TypeOK, PlacesInv, NEW p \in Procs, Stop(p)
  PROVE  TypeOK' /\ PlacesInv'
  BY DEF TypeOK, PlacesInv, Stop, lock, pair, Builds, Serves, File

\* Every other action is a move of one process to a step of its kind, and no file
\* goes away.
LEMMA MoveKeepsPlaces ==
  ASSUME TypeOK, PlacesInv, NEW p \in Procs, NEW step \in Steps, Goto(p, step),
         role' = role,
         \A o \in Owners : file[o] # Absent => file'[o] # Absent,
         step \in LockSteps \cup {"using"} => Builds(p),
         step \in ServeSteps \cup {"serving"} => Serves(p),
         step = "read" => file'[File(p)] # Absent
  PROVE  PlacesInv'
  <1>1. \A q \in Procs : File(q) \in Owners /\ File(q)' = File(q)
        BY DEF File, Owners, Serves
  <1>2. \A q \in Procs : pc'[q] = IF q = p THEN step ELSE pc[q]  BY GotoIs
  <1> QED  BY <1>1, <1>2 DEF PlacesInv, Builds, Serves

\* What the key steps do to the files: they make them, write them, and leave them.
LEMMA KeyStepFiles ==
  ASSUME TypeOK, PlacesInv, NEW p \in Procs, KeyStep(p)
  PROVE  /\ File(p) \in Owners
         /\ file' \in [Owners -> Contents]
         /\ \A o \in Owners : file[o] # Absent => file'[o] # Absent
         /\ key' \in [Procs -> Procs \cup {None}]
  <1>1. File(p) \in Owners  BY DEF File, Owners
  <1>2. p # Absent  BY KeysAssumption
  <1>3. CASE Look(p) \/ CreateKey(p)
        BY <1>1, <1>3 DEF TypeOK, Look, CreateKey, Contents, Absent, Empty
  <1>4. CASE WriteKey(p)
        BY <1>1, <1>2, <1>4 DEF TypeOK, WriteKey, Contents
  <1>5. CASE ReadKey(p)
    <2>1. file[File(p)] \in Contents /\ file[File(p)] # Absent
          BY <1>1, <1>5 DEF TypeOK, PlacesInv, ReadKey, At
    <2> QED  BY <1>1, <1>5, <2>1 DEF TypeOK, ReadKey, Contents
  <1> QED  BY <1>1, <1>3, <1>4, <1>5 DEF KeyStep

LEMMA LockKeepsTypes ==
  ASSUME TypeOK, PlacesInv, NEW p \in Procs, LockStep(p)
  PROVE  TypeOK' /\ PlacesInv'
  <1> USE DEF At, Steps, LockSteps, KeySteps, ServeSteps
  <1>0. Builds(p)  BY DEF PlacesInv, LockStep, CreateLock, ReadOwner, RemoveLock
  <1>1. PICK step \in {"lock", "look", "owner", "unlink"} : Goto(p, step)
        BY DEF LockStep, CreateLock, ReadOwner, RemoveLock
  <1>2. pc' \in [Procs -> Steps]  BY <1>1, GotoIs
  <1>3. link' \in Procs \cup {None} /\ robbed' \subseteq Procs
        BY DEF TypeOK, LockStep, CreateLock, ReadOwner, RemoveLock, Unlink, lock
  <1>4. UNCHANGED <<fixed, file, key, pair, addr>>
        BY DEF LockStep, CreateLock, ReadOwner, RemoveLock
  <1>5. TypeOK'  BY <1>2, <1>3, <1>4 DEF TypeOK, fixed, pair
  <1>6. PlacesInv'  BY <1>0, <1>1, <1>4, MoveKeepsPlaces DEF fixed
  <1> QED  BY <1>5, <1>6

LEMMA AfterKeyIs ==
  ASSUME TypeOK, NEW p \in Procs
  PROVE  /\ AfterKey(p) \in {"using", "done", "announce"}
         /\ AfterKey(p) = "using" => Builds(p)
         /\ AfterKey(p) = "announce" => Serves(p)
  BY DEF AfterKey

LEMMA AfterKeyGoto ==
  ASSUME TypeOK, NEW p \in Procs, Goto(p, AfterKey(p))
  PROVE  \A q \in Procs : pc'[q] = IF q = p THEN AfterKey(p) ELSE pc[q]
  <1>1. AfterKey(p) \in Steps  BY AfterKeyIs DEF Steps, ServeSteps
  <1> QED  BY <1>1 DEF Goto, TypeOK

LEMMA KeyKeepsTypes ==
  ASSUME TypeOK, PlacesInv, NEW p \in Procs, KeyStep(p)
  PROVE  TypeOK' /\ PlacesInv'
  <1> USE DEF At, Steps, LockSteps, KeySteps, ServeSteps
  <1>1. PICK step \in {"create", "read", "write", "failed", "using", "done", "announce"} :
            /\ Goto(p, step)
            /\ step = "using" => Builds(p)
            /\ step = "announce" => Serves(p)
            /\ step = "read" => file[File(p)] # Absent
    <2>1. CASE Look(p)  BY <2>1 DEF Look
    <2>2. CASE CreateKey(p)  BY <2>2 DEF CreateKey
    <2>3. CASE WriteKey(p) \/ ReadKey(p)
      <3>1. Goto(p, AfterKey(p)) \/ Goto(p, "failed")  BY <2>3 DEF WriteKey, ReadKey, Leave
      <3> QED  BY <3>1, AfterKeyIs
    <2> QED  BY <2>1, <2>2, <2>3 DEF KeyStep
  <1>2. pc' \in [Procs -> Steps]  BY <1>1, GotoIs
  <1>3. link' \in Procs \cup {None} /\ robbed' \subseteq Procs
        BY DEF TypeOK, KeyStep, Look, CreateKey, WriteKey, ReadKey, Leave, Unlink, lock
  <1>4. UNCHANGED <<fixed, pair, addr>>
        BY DEF KeyStep, Look, CreateKey, WriteKey, ReadKey
  <1>5. TypeOK'  BY <1>2, <1>3, <1>4, KeyStepFiles DEF TypeOK, fixed, pair
  <1>6. PlacesInv'  BY <1>1, <1>4, KeyStepFiles, MoveKeepsPlaces DEF fixed
  <1> QED  BY <1>5, <1>6

LEMMA ServeKeepsTypes ==
  ASSUME TypeOK, PlacesInv, NEW p \in Procs, ServeStep(p)
  PROVE  TypeOK' /\ PlacesInv'
  <1> USE DEF At, Steps, LockSteps, KeySteps, ServeSteps
  <1>0. UNCHANGED <<fixed, lock, file, key>>
        BY DEF ServeStep, LookAtPair, Generate, GenerateFails, Protect, CheckPair, SaveAddress
  <1>1. Serves(p)
        BY DEF PlacesInv, ServeStep, LookAtPair, Generate, GenerateFails, Protect, CheckPair,
               SaveAddress
  <1>2. pc' = pc \/ \E step \in {"check", "generate", "protect", "failed", "look", "serving"} :
                       Goto(p, step)
        BY DEF ServeStep, LookAtPair, Generate, GenerateFails, Protect, CheckPair, SaveAddress
  <1>3. pc' \in [Procs -> Steps]  BY <1>2, GotoIs DEF TypeOK
  <1>4. secret' \in Contents /\ private' \in BOOLEAN /\ public' \in Contents
        BY DEF TypeOK, ServeStep, LookAtPair, Generate, GenerateFails, Protect, CheckPair,
               SaveAddress, pair, Contents
  <1>5. addr' \in Procs \cup {None}
        BY DEF TypeOK, ServeStep, LookAtPair, Generate, GenerateFails, Protect, CheckPair,
               SaveAddress
  <1>6. TypeOK'  BY <1>0, <1>3, <1>4, <1>5 DEF TypeOK, fixed, lock
  <1>7. PlacesInv'
    <2>1. CASE pc' = pc  BY <2>1, <1>0 DEF PlacesInv, Builds, Serves, File, fixed
    <2>2. CASE \E step \in {"check", "generate", "protect", "failed", "look", "serving"} :
                  Goto(p, step)
          BY <2>2, <1>0, <1>1, MoveKeepsPlaces DEF fixed
    <2> QED  BY <1>2, <2>1, <2>2
  <1> QED  BY <1>6, <1>7

LEMMA EndBuildKeepsTypes ==
  ASSUME TypeOK, PlacesInv, NEW p \in Procs, EndBuild(p)
  PROVE  TypeOK' /\ PlacesInv'
  <1>1. Goto(p, "done") /\ UNCHANGED <<fixed, file, key, pair, addr>>  BY DEF EndBuild, Leave
  <1>2. "done" \in Steps  BY DEF Steps
  <1>3. pc' \in [Procs -> Steps]  BY <1>1, <1>2, GotoIs
  <1>4. link' \in Procs \cup {None} /\ robbed' \subseteq Procs
        BY DEF TypeOK, EndBuild, Leave, Unlink, lock
  <1>5. TypeOK'  BY <1>1, <1>3, <1>4 DEF TypeOK, fixed, pair
  <1>6. PlacesInv'
        BY <1>1, <1>2, MoveKeepsPlaces DEF fixed, LockSteps, ServeSteps
  <1> QED  BY <1>5, <1>6

LEMMA NextKeepsTypes == TypeOK /\ PlacesInv /\ [Next]_vars => TypeOK' /\ PlacesInv'
  <1> SUFFICES ASSUME TypeOK, PlacesInv, [Next]_vars  PROVE TypeOK' /\ PlacesInv'
      OBVIOUS
  <1>1. CASE UNCHANGED vars
        BY <1>1 DEF TypeOK, PlacesInv, vars, Builds, Serves, File
  <1>2. CASE Next
        BY <1>2, StartKeepsTypes, StopKeepsTypes, LockKeepsTypes, KeyKeepsTypes, ServeKeepsTypes,
           EndBuildKeepsTypes DEF Next, Run
  <1> QED  BY <1>1, <1>2

\* Types, and every process at a step of its kind.
THEOREM KeysTypeCorrect == Spec => []TypeOK
  <1>1. TypeOK /\ PlacesInv /\ [Next]_vars => TypeOK' /\ PlacesInv'  BY NextKeepsTypes
  <1> QED  BY <1>1, InitTypes, PTL DEF Spec

-----------------------------------------------------------------------------
\* One key for all.  A file that is open and not written is one process's, which
\* may have stopped; a file that holds a key holds it for good.
KeyInv ==
    /\ \A p \in Procs : pc[p] = "write" => file[File(p)] = Empty
    /\ \A p, q \in Procs : pc[p] = "write" /\ pc[q] = "write" /\ File(p) = File(q) => p = q
    /\ \A p \in Procs : key[p] # None => file[File(p)] = key[p]
    /\ \A p \in Procs : pc[p] = "announce" => key[p] # None
    /\ addr # None => file["server"] = addr

LEMMA InitKeys == Init => KeyInv
  BY DEF Init, KeyInv

LEMMA FilesStay ==
  ASSUME UNCHANGED role
  PROVE  \A p \in Procs : File(p) \in Owners /\ File(p)' = File(p)
  BY DEF File, Owners, Serves

\* A step that leaves the files and keys alone, to a step that is none of the two.
LEMMA MoveKeepsKeys ==
  ASSUME TypeOK, KeyInv, NEW p \in Procs, NEW step \in Steps, Goto(p, step),
         role' = role, file' = file, key' = key, addr' = addr,
         step \notin {"write", "announce"}
  PROVE  KeyInv'
  <1>1. \A q \in Procs : File(q)' = File(q)  BY FilesStay
  <1>2. \A q \in Procs : pc'[q] \in {pc[q], step}  BY GotoIs
  <1>3. file' = file /\ key' = key /\ addr' = addr  OBVIOUS
  <1> QED  BY <1>1, <1>2, <1>3 DEF KeyInv

LEMMA KeyStepKeepsKeys ==
  ASSUME TypeOK, PlacesInv, KeyInv, NEW p \in Procs, KeyStep(p)
  PROVE  KeyInv'
  <1> USE DEF At, Steps, KeySteps
  <1>0. UNCHANGED <<role, addr>>
        BY DEF KeyStep, Look, CreateKey, WriteKey, ReadKey, fixed
  <1>1. \A q \in Procs : File(q) \in Owners /\ File(q)' = File(q)  BY <1>0, FilesStay
  <1>2. Absent # Empty /\ \A q \in Procs : q \notin {None, Absent, Empty}
        BY KeysAssumption DEF Absent, Empty
  <1>3. \A q \in Procs : key[q] \in Procs \cup {None}  BY DEF TypeOK
  <1>4. addr \in Procs \cup {None}  BY DEF TypeOK
  <1>5. CASE Look(p)
    <2>1. PICK step \in {"create", "read"} : Goto(p, step)  BY <1>5 DEF Look
    <2> QED  BY <1>5, <2>1, MoveKeepsKeys DEF Look, fixed
  <1>6. CASE CreateKey(p) /\ file[File(p)] = Absent
    <2>1. file' = [file EXCEPT ![File(p)] = Empty] /\ key' = key /\ Goto(p, "write")
          BY <1>6 DEF CreateKey
    <2>2. \A q \in Procs : pc'[q] = IF q = p THEN "write" ELSE pc[q]  BY <2>1, GotoIs
    <2>3. \A o \in Owners : file'[o] = IF o = File(p) THEN Empty ELSE file[o]
          BY <2>1 DEF TypeOK
    <2>4. \A q \in Procs : File(q) = File(p) => pc[q] # "write" /\ key[q] = None
          BY <1>2, <1>3, <1>6 DEF KeyInv
    <2>5. addr # None => File(p) # "server"  BY <1>2, <1>4, <1>6 DEF KeyInv
    <2> QED  BY <1>0, <1>1, <2>1, <2>2, <2>3, <2>4, <2>5 DEF KeyInv, Owners
  <1>7. CASE CreateKey(p) /\ file[File(p)] # Absent
    <2>1. Goto(p, "read") /\ UNCHANGED <<file, key>>  BY <1>7 DEF CreateKey
    <2> QED  BY <1>0, <2>1, MoveKeepsKeys
  <1>8. CASE WriteKey(p)
    <2>1. /\ file' = [file EXCEPT ![File(p)] = p] /\ key' = [key EXCEPT ![p] = p]
          /\ pc[p] = "write" /\ Goto(p, AfterKey(p))
          BY <1>8 DEF WriteKey
    <2>2. \A q \in Procs : pc'[q] = IF q = p THEN AfterKey(p) ELSE pc[q]
          BY <2>1, AfterKeyGoto
    <2>3. \A o \in Owners : file'[o] = IF o = File(p) THEN p ELSE file[o]
          BY <2>1 DEF TypeOK
    <2>4. \A q \in Procs : key'[q] = IF q = p THEN p ELSE key[q]  BY <2>1 DEF TypeOK
    <2>5. \A q \in Procs : File(q) = File(p) => key[q] = None /\ (pc[q] = "write" => q = p)
          BY <1>2, <1>3, <2>1 DEF KeyInv
    <2>6. addr # None => File(p) # "server"  BY <1>2, <1>4, <2>1 DEF KeyInv
    <2>7. AfterKey(p) # "write"  BY AfterKeyIs
    <2> QED  BY <1>0, <1>1, <1>2, <2>1, <2>2, <2>3, <2>4, <2>5, <2>6, <2>7 DEF KeyInv, Owners
  <1>9. CASE ReadKey(p) /\ file[File(p)] = Empty
    <2>1. Goto(p, "failed") /\ UNCHANGED <<file, key>>  BY <1>9 DEF ReadKey, Leave
    <2> QED  BY <1>0, <2>1, MoveKeepsKeys
  <1>10. CASE ReadKey(p) /\ file[File(p)] # Empty
    <2>1. /\ key' = [key EXCEPT ![p] = file[File(p)]] /\ file' = file
          /\ pc[p] = "read" /\ Goto(p, AfterKey(p))
          BY <1>10 DEF ReadKey
    <2>2. \A q \in Procs : pc'[q] = IF q = p THEN AfterKey(p) ELSE pc[q]
          BY <2>1, AfterKeyGoto
    <2>3. \A q \in Procs : key'[q] = IF q = p THEN file[File(p)] ELSE key[q]
          BY <2>1 DEF TypeOK
    <2>4. file[File(p)] \in Procs
          BY <1>1, <1>10, <2>1 DEF TypeOK, PlacesInv, Contents
    <2>5. AfterKey(p) # "write"  BY AfterKeyIs
    <2> QED  BY <1>0, <1>1, <1>2, <2>1, <2>2, <2>3, <2>4, <2>5 DEF KeyInv
  <1> QED  BY <1>5, <1>6, <1>7, <1>8, <1>9, <1>10 DEF KeyStep

LEMMA NextKeepsKeys ==
  ASSUME TypeOK, PlacesInv, KeyInv, [Next]_vars
  PROVE  KeyInv'
  <1> USE DEF Steps, LockSteps, KeySteps, ServeSteps
  <1>1. CASE UNCHANGED vars  BY <1>1, FilesStay DEF KeyInv, vars
  <1>2. ASSUME NEW p \in Procs, Start(p)  PROVE KeyInv'
    <2>1. PICK step \in {"lock", "look", "pair"} : Goto(p, step)  BY <1>2 DEF Start
    <2> QED  BY <1>2, <2>1, MoveKeepsKeys DEF Start
  <1>3. ASSUME NEW p \in Procs, Stop(p)  PROVE KeyInv'
        BY <1>3, FilesStay DEF KeyInv, Stop
  <1>4. ASSUME NEW p \in Procs, LockStep(p)  PROVE KeyInv'
    <2>1. PICK step \in {"lock", "look", "owner", "unlink"} : Goto(p, step)
          BY <1>4 DEF LockStep, CreateLock, ReadOwner, RemoveLock
    <2>2. UNCHANGED <<role, file, key, addr>>
          BY <1>4 DEF LockStep, CreateLock, ReadOwner, RemoveLock, fixed
    <2> QED  BY <2>1, <2>2, MoveKeepsKeys
  <1>5. ASSUME NEW p \in Procs, KeyStep(p)  PROVE KeyInv'
        BY <1>5, KeyStepKeepsKeys
  <1>6. ASSUME NEW p \in Procs, ServeStep(p), ~SaveAddress(p)  PROVE KeyInv'
    <2>1. UNCHANGED <<role, file, key, addr>>
          BY <1>6 DEF ServeStep, LookAtPair, Generate, GenerateFails, Protect, CheckPair, fixed
    <2>2. pc' = pc \/ \E step \in {"check", "generate", "protect", "failed", "look"} :
                         Goto(p, step)
          BY <1>6 DEF ServeStep, LookAtPair, Generate, GenerateFails, Protect, CheckPair
    <2>3. CASE pc' = pc  BY <2>1, <2>3, FilesStay DEF KeyInv
    <2> QED  BY <2>1, <2>2, <2>3, MoveKeepsKeys
  <1>7. ASSUME NEW p \in Procs, SaveAddress(p)  PROVE KeyInv'
    <2>1. /\ pc[p] = "announce" /\ addr' = key[p] /\ Goto(p, "serving")
          /\ UNCHANGED <<role, file, key>>
          BY <1>7 DEF SaveAddress, At, fixed
    <2>2. \A q \in Procs : pc'[q] = IF q = p THEN "serving" ELSE pc[q]  BY <2>1, GotoIs
    <2>3. File(p) = "server"  BY <2>1 DEF PlacesInv, File
    <2> QED  BY <2>1, <2>2, <2>3, FilesStay DEF KeyInv
  <1>8. ASSUME NEW p \in Procs, EndBuild(p)  PROVE KeyInv'
    <2>1. Goto(p, "done") /\ UNCHANGED <<role, file, key, addr>>
          BY <1>8 DEF EndBuild, Leave, fixed
    <2> QED  BY <2>1, MoveKeepsKeys
  <1> QED  BY <1>1, <1>2, <1>3, <1>4, <1>5, <1>6, <1>7, <1>8 DEF Next, Run

\* However many first users there are, and whichever of them stopped, all have the
\* key that is in the file; and tickets name the server's.
THEOREM KeyIsShared == Spec => []OneKeyForAll
  <1>1. TypeOK /\ PlacesInv /\ KeyInv /\ [Next]_vars => TypeOK' /\ PlacesInv' /\ KeyInv'
        BY NextKeepsTypes, NextKeepsKeys
  <1>2. KeyInv => OneKeyForAll  BY DEF KeyInv, OneKeyForAll
  <1> QED  BY <1>1, <1>2, InitTypes, InitKeys, PTL DEF Spec

-----------------------------------------------------------------------------
\* The lock.  A client at work has its lock, or was robbed of it.
LockInv == \A p \in Procs : Holds(p) => link = p \/ p \in robbed

\* Whoever takes the lock away, from a client that lives, is remembered.
LEMMA UnlinkRemembers ==
  ASSUME NEW p \in Procs, Unlink(p), NEW q \in Procs, q # p, Up(q), link = q \/ q \in robbed
  PROVE  link' = q \/ q \in robbed'
  <1>1. CASE q \in robbed  BY <1>1 DEF Unlink
  <1>2. CASE link = q  BY <1>2, KeysAssumption DEF Unlink
  <1> QED  BY <1>1, <1>2

\* A step of p that leaves the lock alone, or takes it away, and does not give p
\* the key.
LEMMA LeaveKeepsLock ==
  ASSUME TypeOK, LockInv, NEW p \in Procs, NEW step \in Steps, Goto(p, step),
         status' = status, role' = role,
         Holds(p)' => link' = p,
         Unlink(p) \/ (link' = link /\ robbed' = robbed)
  PROVE  LockInv'
  <1>1. SUFFICES ASSUME NEW q \in Procs, q # p, Holds(q)'  PROVE link' = q \/ q \in robbed'
        BY DEF LockInv
  <1>2. pc'[q] = pc[q]  BY <1>1, GotoIs
  <1>3. Holds(q) /\ Up(q)  BY <1>1, <1>2 DEF Holds, Up, Builds
  <1>4. link = q \/ q \in robbed  BY <1>3 DEF LockInv
  <1> QED  BY <1>1, <1>3, <1>4, UnlinkRemembers

\* A step of a process that is at work, or is no client, within its work.
LEMMA WorkKeepsLock ==
  ASSUME TypeOK, LockInv, UNCHANGED <<fixed, lock>>,
         NEW p \in Procs, NEW step \in Steps, Goto(p, step),
         step \in KeySteps \cup {"using"} => Holds(p) \/ ~Builds(p)
  PROVE  LockInv'
  <1>1. SUFFICES ASSUME NEW q \in Procs, Holds(q)'  PROVE link' = q \/ q \in robbed'
        BY DEF LockInv
  <1>2. pc'[q] = IF q = p THEN step ELSE pc[q]  BY GotoIs
  <1>3. Holds(q)  BY <1>1, <1>2 DEF Holds, Up, Builds, fixed
  <1> QED  BY <1>3 DEF LockInv, lock

LEMMA NextKeepsLock ==
  ASSUME TypeOK, PlacesInv, LockInv, [Next]_vars
  PROVE  LockInv'
  <1> USE DEF Steps, LockSteps, KeySteps, ServeSteps
  <1>1. CASE UNCHANGED vars  BY <1>1 DEF LockInv, Holds, Up, Builds, vars
  <1>2. ASSUME NEW p \in Procs, Start(p)  PROVE LockInv'
    <2>1. PICK step \in {"lock", "look", "pair"} :
              Goto(p, step) /\ (Builds(p) => step = "lock")
          BY <1>2 DEF Start
    <2>2. SUFFICES ASSUME NEW q \in Procs, Holds(q)'  PROVE link' = q \/ q \in robbed'
          BY DEF LockInv
    <2>3. pc'[q] = IF q = p THEN step ELSE pc[q]  BY <2>1, GotoIs
    <2>4. role' = role /\ UNCHANGED lock /\ status' = [status EXCEPT ![p] = "up"]
          BY <1>2 DEF Start
    <2>5. Holds(q)  BY <2>1, <2>2, <2>3, <2>4 DEF Holds, Up, Builds, TypeOK
    <2> QED  BY <2>4, <2>5 DEF LockInv, lock
  <1>3. ASSUME NEW p \in Procs, Stop(p)  PROVE LockInv'
    <2>1. \A q \in Procs : Holds(q)' => Holds(q)
          BY <1>3 DEF Stop, Holds, Up, Builds, TypeOK
    <2> QED  BY <1>3, <2>1 DEF Stop, LockInv, lock
  <1>4. ASSUME NEW p \in Procs, LockStep(p)  PROVE LockInv'
    <2>1. CASE CreateLock(p) /\ link = None
      <3>1. link' = p /\ robbed' = robbed /\ Goto(p, "look") /\ UNCHANGED fixed
            BY <2>1 DEF CreateLock
      <3>2. SUFFICES ASSUME NEW q \in Procs, q # p, Holds(q)'  PROVE q \in robbed'
            BY <3>1 DEF LockInv
      <3>3. pc'[q] = pc[q]  BY <3>1, <3>2, GotoIs
      <3>4. Holds(q)  BY <3>1, <3>2, <3>3 DEF Holds, Up, Builds, fixed
      <3> QED  BY <2>1, <3>1, <3>4, KeysAssumption DEF LockInv
    <2>2. CASE (CreateLock(p) /\ link # None) \/ ReadOwner(p)
      <3>1. PICK step \in LockSteps : Goto(p, step)  BY <2>2 DEF CreateLock, ReadOwner
      <3>2. UNCHANGED <<fixed, lock>>  BY <2>2 DEF CreateLock, ReadOwner, lock
      <3> QED  BY <3>1, <3>2, WorkKeepsLock
    <2>3. CASE RemoveLock(p)
      <3>1. Unlink(p) /\ Goto(p, "lock") /\ status' = status /\ role' = role
            BY <2>3 DEF RemoveLock, fixed
      <3>2. pc'[p] = "lock"  BY <3>1, GotoIs
      <3> QED  BY <3>1, <3>2, LeaveKeepsLock DEF Holds
    <2> QED  BY <1>4, <2>1, <2>2, <2>3 DEF LockStep
  <1>5. ASSUME NEW p \in Procs, Leave(p, "failed") \/ Leave(p, "done"), UNCHANGED fixed
        PROVE  LockInv'
    <2>1. PICK step \in {"failed", "done"} : Goto(p, step)  BY <1>5 DEF Leave
    <2>2. pc'[p] = step  BY <2>1, GotoIs
    <2>3. Unlink(p) \/ (link' = link /\ robbed' = robbed)  BY <1>5 DEF Leave, lock
    <2> QED  BY <1>5, <2>1, <2>2, <2>3, LeaveKeepsLock DEF Holds, fixed
  <1>6. ASSUME NEW p \in Procs, KeyStep(p)  PROVE LockInv'
    <2>1. CASE Leave(p, "failed") /\ UNCHANGED fixed  BY <1>5, <2>1
    <2>2. CASE UNCHANGED <<fixed, lock>> /\ \E step \in Steps : Goto(p, step)
      <3>1. pc[p] \in KeySteps /\ Up(p)
            BY <1>6 DEF KeyStep, Look, CreateKey, WriteKey, ReadKey, At
      <3>2. Holds(p) \/ ~Builds(p)  BY <3>1 DEF Holds
      <3> QED  BY <2>2, <3>2, WorkKeepsLock
    <2>3. AfterKey(p) \in Steps  BY AfterKeyIs
    <2> QED  BY <1>6, <2>1, <2>2, <2>3 DEF KeyStep, Look, CreateKey, WriteKey, ReadKey
  <1>7. ASSUME NEW p \in Procs, ServeStep(p)  PROVE LockInv'
    <2>1. UNCHANGED <<fixed, lock>>
          BY <1>7 DEF ServeStep, LookAtPair, Generate, GenerateFails, Protect, CheckPair,
                      SaveAddress
    <2>2. pc' = pc \/ \E step \in Steps : Goto(p, step)
          BY <1>7 DEF ServeStep, LookAtPair, Generate, GenerateFails, Protect, CheckPair,
                      SaveAddress
    <2>3. Serves(p)
          BY <1>7 DEF PlacesInv, ServeStep, LookAtPair, Generate, GenerateFails, Protect,
                      CheckPair, SaveAddress, At
    <2>4. ~Builds(p)  BY <2>3 DEF Serves, Builds
    <2>5. CASE pc' = pc  BY <2>1, <2>5 DEF LockInv, Holds, Up, Builds, fixed, lock
    <2> QED  BY <2>1, <2>2, <2>4, <2>5, WorkKeepsLock
  <1>8. ASSUME NEW p \in Procs, EndBuild(p)  PROVE LockInv'
        BY <1>5, <1>8 DEF EndBuild
  <1> QED  BY <1>1, <1>2, <1>3, <1>4, <1>6, <1>7, <1>8 DEF Next, Run

\* Two clients use the key file at once only after one of them was robbed.
THEOREM KeyFileExclusion == Spec => []SharedOnlyIfRobbed
  <1>1. Init => LockInv  BY DEF Init, LockInv, Holds, Up
  <1>2. TypeOK /\ PlacesInv /\ LockInv /\ [Next]_vars => TypeOK' /\ PlacesInv' /\ LockInv'
        BY NextKeepsTypes, NextKeepsLock
  <1>3. LockInv => SharedOnlyIfRobbed  BY DEF LockInv, SharedOnlyIfRobbed
  <1> QED  BY <1>1, <1>2, <1>3, InitTypes, PTL DEF Spec

-----------------------------------------------------------------------------
\* The signing pair.
Halves(m) == secret \in {Absent, Empty, m} /\ public \in {Absent, Empty, m}

\* What a start of the server has made sure of past CheckPair.
GoodPair == private /\ public \in Procs /\ secret \in {Empty, public}

\* One server at a time, and both halves are by one process, which is the one that
\* generates them, if one does.
PairInv ==
    /\ \A p, q \in Procs : Serves(p) /\ Serves(q) /\ Up(p) /\ Up(q) => p = q
    /\ \E m \in Procs \cup {None} : Halves(m)
    /\ \A p \in Procs : Up(p) =>
           /\ pc[p] = "generate" => Halves(p)
           /\ pc[p] = "protect" => secret = p /\ public = p
           /\ pc[p] = "check" => secret # Absent /\ public # Absent
           /\ Serves(p) /\ pc[p] \in KeySteps \cup {"announce", "serving"} => GoodPair

LEMMA InitPair == Init => PairInv
  BY DEF Init, PairInv, Halves, Up

\* A step of any process that leaves the pair alone, not to one of the places that
\* say something of it unless they say it already.
LEMMA MoveKeepsPair ==
  ASSUME TypeOK, PairInv, NEW p \in Procs, NEW step \in Steps, Goto(p, step),
         UNCHANGED <<fixed, pair>>,
         step = "generate" => Halves(p),
         step # "protect",
         step = "check" => secret # Absent /\ public # Absent,
         Serves(p) /\ step \in KeySteps \cup {"announce", "serving"} => GoodPair
  PROVE  PairInv'
  <1>1. \A q \in Procs : pc'[q] = IF q = p THEN step ELSE pc[q]  BY GotoIs
  <1>2. role' = role /\ status' = status /\ secret' = secret /\ public' = public
        /\ private' = private
        BY DEF fixed, pair
  <1>3. \A q \in Procs : /\ Up(q)' = Up(q) /\ Serves(q)' = Serves(q)
                          /\ Halves(q)' = Halves(q)
        BY <1>2 DEF Up, Serves, Halves
  <1>4. GoodPair' = GoodPair  BY <1>2 DEF GoodPair
  <1>5. (\E m \in Procs \cup {None} : Halves(m))'  BY <1>2 DEF PairInv, Halves
  <1> QED  BY <1>1, <1>2, <1>3, <1>4, <1>5 DEF PairInv

LEMMA GenerateKeepsPair ==
  ASSUME TypeOK, PlacesInv, PairInv, NEW p \in Procs, Generate(p)
  PROVE  PairInv'
  <1>1. Up(p) /\ pc[p] = "generate" /\ Serves(p) /\ Halves(p)
        BY DEF Generate, At, PlacesInv, PairInv, ServeSteps
  <1>2. UNCHANGED <<status, role>>  BY DEF Generate, fixed
  <1>3. \A q \in Procs : Up(q)' = Up(q) /\ Serves(q)' = Serves(q)
        BY <1>2 DEF Up, Serves
  <1>4. Halves(p)'  BY <1>1 DEF Generate, Halves, pair, Absent, Empty
  <1>5. \A q \in Procs : Up(q) /\ Serves(q) => q = p  BY <1>1 DEF PairInv
  <1>6. \A q \in Procs : pc'[q] = IF q = p THEN pc'[p] ELSE pc[q]
        BY DEF Generate, Goto, TypeOK
  <1>7. pc'[p] = "generate" \/ (pc'[p] = "protect" /\ secret' = p /\ public' = p)
        BY <1>1 DEF Generate, Goto, TypeOK, pair
  <1>8. \A q \in Procs : q # p /\ Up(q) => ~Serves(q) /\ pc[q] \notin ServeSteps
        BY <1>5 DEF PlacesInv
  <1> QED  BY <1>1, <1>3, <1>4, <1>5, <1>6, <1>7, <1>8 DEF PairInv, KeySteps, ServeSteps

LEMMA NextKeepsPair ==
  ASSUME TypeOK, PlacesInv, PairInv, [Next]_vars
  PROVE  PairInv'
  <1> USE DEF Steps, LockSteps, KeySteps, ServeSteps
  <1>1. CASE UNCHANGED vars
        BY <1>1 DEF PairInv, vars, Up, Serves, Halves, GoodPair
  <1>2. ASSUME NEW p \in Procs, Start(p)  PROVE PairInv'
    <2>1. PICK step \in {"lock", "look", "pair"} :
              Goto(p, step) /\ (Serves(p) => step = "pair")
          BY <1>2 DEF Start, Builds, Serves
    <2>2. \A q \in Procs : pc'[q] = IF q = p THEN step ELSE pc[q]  BY <2>1, GotoIs
    <2>3. /\ UNCHANGED <<role, secret, public, private>>
          /\ status' = [status EXCEPT ![p] = "up"]
          /\ Serves(p) => \A q \in Procs : Serves(q) => ~Up(q)
          BY <1>2 DEF Start, pair
    <2>4. \A q \in Procs : /\ Up(q)' <=> (q = p \/ Up(q))
                            /\ Serves(q)' = Serves(q)
          BY <2>3 DEF Up, Serves, TypeOK
    <2>5. /\ GoodPair' = GoodPair
          /\ \A q \in Procs : Halves(q)' = Halves(q)
          /\ (\E m \in Procs \cup {None} : Halves(m))'
          BY <2>3 DEF GoodPair, Halves, PairInv
    <2> QED  BY <2>1, <2>2, <2>3, <2>4, <2>5 DEF PairInv
  <1>3. ASSUME NEW p \in Procs, Stop(p)  PROVE PairInv'
    <2>1. \A q \in Procs : (Up(q)' => Up(q)) /\ Serves(q)' = Serves(q)
          BY <1>3 DEF Stop, Up, Serves, TypeOK
    <2>2. UNCHANGED <<pc, secret, public, private>>  BY <1>3 DEF Stop, pair
    <2>3. /\ GoodPair' = GoodPair
          /\ \A q \in Procs : Halves(q)' = Halves(q)
          /\ (\E m \in Procs \cup {None} : Halves(m))'
          BY <2>2 DEF GoodPair, Halves, PairInv
    <2> QED  BY <2>1, <2>2, <2>3 DEF PairInv
  <1>4. ASSUME NEW p \in Procs, LockStep(p)  PROVE PairInv'
    <2>1. PICK step \in {"lock", "look", "owner", "unlink"} : Goto(p, step)
          BY <1>4 DEF LockStep, CreateLock, ReadOwner, RemoveLock
    <2>2. UNCHANGED <<fixed, pair>>
          BY <1>4 DEF LockStep, CreateLock, ReadOwner, RemoveLock
    <2>3. ~Serves(p)
          BY <1>4 DEF PlacesInv, LockStep, CreateLock, ReadOwner, RemoveLock, At, Builds, Serves
    <2> QED  BY <2>1, <2>2, <2>3, MoveKeepsPair
  <1>5. ASSUME NEW p \in Procs, KeyStep(p)  PROVE PairInv'
    <2>1. UNCHANGED <<fixed, pair>>
          BY <1>5 DEF KeyStep, Look, CreateKey, WriteKey, ReadKey
    <2>2. PICK step \in {"create", "read", "write", "failed", "using", "done", "announce"} :
              Goto(p, step)
      <3>1. \/ \E step \in {"create", "read", "write", "failed"} : Goto(p, step)
            \/ Goto(p, AfterKey(p))
            BY <1>5 DEF KeyStep, Look, CreateKey, WriteKey, ReadKey, Leave
      <3> QED  BY <3>1, AfterKeyIs
    <2>3. Up(p) /\ pc[p] \in KeySteps
          BY <1>5 DEF KeyStep, Look, CreateKey, WriteKey, ReadKey, At
    <2>4. Serves(p) => GoodPair  BY <2>3 DEF PairInv
    <2> QED  BY <2>1, <2>2, <2>4, MoveKeepsPair
  <1>6. ASSUME NEW p \in Procs, LookAtPair(p)  PROVE PairInv'
    <2>1. PICK step \in {"check", "generate", "failed"} :
              /\ Goto(p, step)
              /\ step = "check" => secret # Absent /\ public # Absent
              /\ step = "generate" => secret = Absent /\ public = Absent
          BY <1>6 DEF LookAtPair
    <2>2. UNCHANGED <<fixed, pair>>  BY <1>6 DEF LookAtPair
    <2> QED  BY <2>1, <2>2, MoveKeepsPair DEF Halves
  <1>7. ASSUME NEW p \in Procs, Generate(p)  PROVE PairInv'
        BY <1>7, GenerateKeepsPair
  <1>8. ASSUME NEW p \in Procs, GenerateFails(p)  PROVE PairInv'
        BY <1>8, MoveKeepsPair DEF GenerateFails
  <1>9. ASSUME NEW p \in Procs, Protect(p)  PROVE PairInv'
    <2>1. /\ Up(p) /\ pc[p] = "protect" /\ private' = TRUE /\ Goto(p, "check")
          /\ UNCHANGED <<status, role, secret, public>>
          BY <1>9 DEF Protect, At, fixed
    <2>2. secret = p /\ public = p /\ Serves(p)  BY <2>1 DEF PairInv, PlacesInv
    <2>3. secret # Absent /\ public # Absent  BY <2>2, KeysAssumption
    <2>4. \A q \in Procs : /\ Up(q)' = Up(q) /\ Serves(q)' = Serves(q)
                            /\ Halves(q)' = Halves(q)
          BY <2>1 DEF Up, Serves, Halves
    <2>5. GoodPair => GoodPair'  BY <2>1 DEF GoodPair
    <2>6. (\E m \in Procs \cup {None} : Halves(m))'  BY <2>1 DEF PairInv, Halves
    <2>7. \A q \in Procs : pc'[q] = IF q = p THEN "check" ELSE pc[q]  BY <2>1, GotoIs
    <2> QED  BY <2>1, <2>3, <2>4, <2>5, <2>6, <2>7 DEF PairInv
  <1>10. ASSUME NEW p \in Procs, CheckPair(p)  PROVE PairInv'
    <2>1. PICK step \in {"look", "failed"} :
              Goto(p, step) /\ (step = "look" => private /\ public # Empty)
          BY <1>10 DEF CheckPair
    <2>2. UNCHANGED <<fixed, pair>>  BY <1>10 DEF CheckPair
    <2>3. secret # Absent /\ public # Absent  BY <1>10 DEF CheckPair, At, PairInv
    <2>4. PICK m \in Procs \cup {None} : Halves(m)  BY DEF PairInv
    <2>5. private /\ public # Empty => GoodPair
          BY <2>3, <2>4 DEF GoodPair, Halves, TypeOK, Contents
    <2> QED  BY <2>1, <2>2, <2>5, MoveKeepsPair
  <1>11. ASSUME NEW p \in Procs, SaveAddress(p)  PROVE PairInv'
    <2>1. Up(p) /\ pc[p] = "announce" /\ Goto(p, "serving") /\ UNCHANGED <<fixed, pair>>
          BY <1>11 DEF SaveAddress, At
    <2>2. Serves(p) => GoodPair  BY <2>1 DEF PairInv
    <2> QED  BY <2>1, <2>2, MoveKeepsPair
  <1>12. ASSUME NEW p \in Procs, EndBuild(p)  PROVE PairInv'
        BY <1>12, MoveKeepsPair DEF EndBuild, Leave
  <1> QED
      BY <1>1, <1>2, <1>3, <1>4, <1>5, <1>6, <1>7, <1>8, <1>9, <1>10, <1>11, <1>12
      DEF Next, Run, ServeStep

\* Whatever a stopped start left of the pair, no server serves with half of it, with
\* halves of two, or with a secret that others can read.
THEOREM PairIsWhole == Spec => []SignsAsAnnounced
  <1>1. TypeOK /\ PlacesInv /\ PairInv /\ [Next]_vars => TypeOK' /\ PlacesInv' /\ PairInv'
        BY NextKeepsTypes, NextKeepsPair
  <1>2. PlacesInv /\ PairInv => SignsAsAnnounced
        BY DEF PlacesInv, PairInv, SignsAsAnnounced, GoodPair, At
  <1> QED  BY <1>1, <1>2, InitTypes, InitPair, PTL DEF Spec
=============================================================================
