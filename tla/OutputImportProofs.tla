-------------------------- MODULE OutputImportProofs --------------------------
(***************************************************************************)
(* The import of outputs, for any closure, any sharing of NAR files, any   *)
(* trust, number of parallel fetches and size of a batch: Nix reads only a *)
(* whole mirror, imports only what is trusted, and success means that all  *)
(* of it is in the store and that nothing is left behind.                  *)
(***************************************************************************)
EXTENDS OutputImport, FiniteSetTheorems, TLAPS

LEMMA ImportInitTypes == Init => TypeOK
  <1> SUFFICES ASSUME Init  PROVE TypeOK
      OBVIOUS
  <1>1. at \in Places /\ method \in Methods  BY DEF Init, Places, Methods
  <1>2. meta \in [Paths -> TaskStates] /\ payload \in [Paths -> TaskStates]
        BY DEF Init, TaskStates
  <1>3. written \in [Paths -> 0..Chunks]  BY ImportAssumption DEF Init
  <1>4. holds \in [NarFiles -> SUBSET AllChunks]  BY DEF Init
  <1> QED  BY <1>1, <1>2, <1>3, <1>4 DEF Init, TypeOK

\* The tasks of the mirror.
LEMMA TaskKeepsTypes ==
  ASSUME TypeOK, NEW p \in Paths, Task(p) \/ TaskFails(p)
  PROVE  TypeOK'
  <1> USE DEF TaskStates, Fetching
  <1>1. UNCHANGED <<inputs, at, method, dir, server, http, helper, copying>>
        BY DEF Task, TaskFails, GetMetadataPermit, GetNarPermit, OpenStream, WriteNarinfo,
               CreateNar, WriteNar
  <1>2. meta' \in [Paths -> TaskStates] /\ payload' \in [Paths -> TaskStates]
        BY DEF TypeOK, Task, TaskFails, GetMetadataPermit, GetNarPermit, OpenStream,
               WriteNarinfo, CreateNar, WriteNar
  <1>3. written' \in [Paths -> 0..Chunks]
        BY ImportAssumption DEF TypeOK, Task, TaskFails, GetMetadataPermit, GetNarPermit,
               OpenStream, WriteNarinfo, CreateNar, WriteNar
  <1>4. info' \subseteq Paths
        BY DEF TypeOK, Task, TaskFails, GetMetadataPermit, GetNarPermit, OpenStream,
               WriteNarinfo, CreateNar, WriteNar
  <1>5. holds' \in [NarFiles -> SUBSET AllChunks]
    <2>1. narOf[p] \in NarFiles  BY DEF TypeOK
    <2>2. CASE CreateNar(p)  BY <2>1, <2>2 DEF TypeOK, CreateNar
    <2>3. CASE WriteNar(p) /\ written[p] < Chunks
      <3>1. written[p] + 1 \in AllChunks  BY <2>3, ImportAssumption DEF TypeOK, AllChunks
      <3> QED  BY <2>1, <2>3, <3>1 DEF TypeOK, WriteNar
    <2>4. CASE holds' = holds  BY <2>4 DEF TypeOK
    <2> QED
        BY <2>2, <2>3, <2>4 DEF Task, TaskFails, GetMetadataPermit, GetNarPermit, OpenStream,
           WriteNarinfo, WriteNar
  <1> QED  BY <1>1, <1>2, <1>3, <1>4, <1>5 DEF TypeOK, inputs, copying

LEMMA DroppedTypes ==
  ASSUME TypeOK
  PROVE  /\ Dropped(meta) \in [Paths -> TaskStates]
         /\ Dropped(payload) \in [Paths -> TaskStates]
  BY DEF Dropped, TypeOK, TaskStates

\* The client.
LEMMA ClientKeepsTypes ==
  ASSUME TypeOK, Client \/ LocalStepFails \/ Interrupt
  PROVE  TypeOK'
  <1> USE DEF Places, Ended
  <1>1. CASE Begin
    <2>1. ImportMethod \in Methods  BY DEF ImportMethod, Methods
    <2>2. meta' \in [Paths -> TaskStates]
      <3>1. meta' = meta \/ meta' = [p \in Paths |-> "waiting"]  BY <1>1 DEF Begin
      <3>2. [p \in Paths |-> "waiting"] \in [Paths -> TaskStates]  BY DEF TaskStates
      <3> QED  BY <3>1, <3>2 DEF TypeOK
    <2>3. at' \in Places /\ method' \in Methods /\ dir' \in {"none", "present", "gone", "stuck"}
          BY <1>1, <2>1 DEF Begin, TypeOK
    <2>4. UNCHANGED <<inputs, payload, written, info, holds, server, http, helper, copying>>
          BY <1>1 DEF Begin
    <2> QED  BY <2>2, <2>3, <2>4 DEF TypeOK, inputs, copying
  <1>2. ASSUME NEW p \in Paths, JoinMetadata(p) \/ JoinNar(p)  PROVE TypeOK'
        BY <1>2 DEF JoinMetadata, JoinNar, TypeOK, inputs, copying, TaskStates
  <1>3. CASE JoinError \/ LocalStepFails \/ Interrupt
    <2>1. /\ meta' \in [Paths -> TaskStates]
          /\ payload' \in [Paths -> TaskStates]
          BY <1>3, DroppedTypes DEF JoinError, LocalStepFails, Interrupt, TypeOK
    <2>2. /\ UNCHANGED <<inputs, method, written, info, holds, dir, helper, copying>>
          /\ at' \in {"failed", "interrupted"}
          /\ server' \in {server, "stopped"} /\ http' \subseteq http
          BY <1>3 DEF JoinError, LocalStepFails, Interrupt
    <2> QED  BY <2>1, <2>2 DEF TypeOK, inputs, copying
  <1>4. CASE FinishMirror
        BY <1>4 DEF FinishMirror, TypeOK, inputs, tasks, copying
  <1>5. CASE StartServer
        BY <1>5 DEF StartServer, TypeOK, inputs, tasks
  <1>6. CASE AskHelper \/ ReadAnswer \/ FinishCopy
        BY <1>6 DEF AskHelper, ReadAnswer, FinishCopy, TypeOK, inputs, tasks, copying
  <1>7. CASE Shutdown \/ JoinServer
        BY <1>7 DEF Shutdown, JoinServer, TypeOK, inputs, tasks, copying
  <1>8. CASE Cleanup
        BY <1>8 DEF Cleanup, TypeOK, inputs, tasks, copying
  <1> QED  BY <1>1, <1>2, <1>3, <1>4, <1>5, <1>6, <1>7, <1>8 DEF Client

\* The helper, Nix, and the HTTP server.
LEMMA CopyKeepsTypes ==
  ASSUME TypeOK, Helper \/ HelperStops \/ AcceptFails
         \/ \E p \in Paths : Ask(p) \/ ServeFile(p) \/ HttpFails(p)
  PROVE  TypeOK'
  <1>1. CASE Helper \/ HelperStops \/ AcceptFails
        BY <1>1 DEF Helper, CheckRequest, AnswerRequest, HelperStops, AcceptFails, TypeOK,
           inputs, tasks, copying
  <1>2. ASSUME NEW p \in Paths, Ask(p) \/ HttpFails(p)  PROVE TypeOK'
        BY <1>2 DEF Ask, HttpFails, TypeOK, inputs, tasks, copying
  <1>3. ASSUME NEW p \in Paths, ServeFile(p)  PROVE TypeOK'
        BY <1>3 DEF ServeFile, TypeOK, inputs, tasks
  <1> QED  BY <1>1, <1>2, <1>3

LEMMA NixKeepsTypes ==
  ASSUME TypeOK, Nix
  PROVE  TypeOK'
  <1>1. CASE StartBatch  BY <1>1 DEF StartBatch, TypeOK, inputs, tasks
  <1>2. CASE EndBatch  BY <1>2 DEF EndBatch, TypeOK, inputs, tasks
  <1>3. CASE NixFails  BY <1>3 DEF NixFails, TypeOK, inputs, tasks
  <1> QED  BY <1>1, <1>2, <1>3 DEF Nix

LEMMA ImportNextTypes == TypeOK /\ [Next]_vars => TypeOK'
  <1> SUFFICES ASSUME TypeOK, [Next]_vars  PROVE TypeOK'
      OBVIOUS
  <1>1. CASE UNCHANGED vars  BY <1>1 DEF TypeOK, vars
  <1>2. CASE Next
        BY <1>2, TaskKeepsTypes, ClientKeepsTypes, CopyKeepsTypes, NixKeepsTypes DEF Next
  <1> QED  BY <1>1, <1>2

\* Types; and Nix is given only what is left of the paths to import.
THEOREM ImportTypeCorrect == Spec => []TypeOK
  BY ImportInitTypes, ImportNextTypes, PTL DEF Spec

-----------------------------------------------------------------------------
\* Only trusted imports: what each way to Nix has checked.
TrustInv ==
    /\ method = "pass key" => trust.user
    /\ method = "key trusted" => trust.key
    /\ helper \in {"asked", "copying", "ok"} => trust.open
    /\ helper \in {"copying", "ok"} => trust.listed
    /\ nix # "idle" \/ imported # {} => trust.user \/ trust.key \/ (trust.open /\ trust.listed)

LEMMA NextKeepsTrust == TypeOK /\ TrustInv /\ [Next]_vars => TrustInv'
  <1> SUFFICES ASSUME TypeOK, TrustInv, [Next]_vars  PROVE TrustInv'
      OBVIOUS
  <1>1. CASE UNCHANGED vars  BY <1>1 DEF TrustInv, vars
  <1>2. ASSUME NEW p \in Paths,
               Task(p) \/ TaskFails(p) \/ Ask(p) \/ ServeFile(p) \/ HttpFails(p)
        PROVE  TrustInv'
    <2>1. UNCHANGED <<trust, method, helper, nix, imported>>
          BY <1>2 DEF Task, TaskFails, GetMetadataPermit, GetNarPermit, OpenStream, WriteNarinfo,
             CreateNar, WriteNar, Ask, ServeFile, HttpFails, inputs, copying
    <2> QED  BY <2>1 DEF TrustInv
  <1>3. CASE Begin
        BY <1>3 DEF Begin, ImportMethod, TrustInv, inputs, copying
  <1>4. CASE AskHelper  BY <1>4 DEF AskHelper, TrustInv, inputs, copying
  <1>5. CASE Helper \/ HelperStops
        BY <1>5 DEF Helper, CheckRequest, AnswerRequest, HelperStops, TrustInv, inputs, copying
  <1>6. CASE StartBatch  BY <1>6 DEF StartBatch, Copies, TrustInv, inputs
  <1>7. CASE EndBatch \/ NixFails  BY <1>7 DEF EndBatch, NixFails, TrustInv, inputs
  <1>8. ASSUME \/ \E p \in Paths : JoinMetadata(p) \/ JoinNar(p)
               \/ JoinError \/ FinishMirror \/ StartServer \/ ReadAnswer \/ FinishCopy
               \/ Shutdown \/ JoinServer \/ Cleanup
               \/ LocalStepFails \/ AcceptFails \/ Interrupt
        PROVE  TrustInv'
    <2>1. UNCHANGED <<trust, method, helper, nix, imported>>
          BY <1>8 DEF JoinMetadata, JoinNar, JoinError, FinishMirror, StartServer, ReadAnswer,
             FinishCopy, Shutdown, JoinServer, Cleanup, LocalStepFails, AcceptFails, Interrupt,
             inputs, copying
    <2> QED  BY <2>1 DEF TrustInv
  <1> QED  BY <1>1, <1>2, <1>3, <1>4, <1>5, <1>6, <1>7, <1>8 DEF Next, Client, Nix

\* Nothing is imported without a trusted user, a trusted key, or the helper with the
\* key in its list, also in batches, and also after the client was interrupted.
THEOREM ImportsAreTrusted == Spec => []OnlyTrustedImports
  <1>1. Init => TrustInv  BY DEF Init, TrustInv
  <1>2. TrustInv => OnlyTrustedImports  BY DEF TrustInv, OnlyTrustedImports
  <1> QED  BY <1>1, <1>2, NextKeepsTrust, ImportInitTypes, ImportNextTypes, PTL DEF Spec

-----------------------------------------------------------------------------
\* The mirror is whole.  Of the tasks that write the NAR files of one name, the one
\* that created the file last leaves all that it writes in it: the others are past
\* their own creation, and only add.
Created == {"writing", "done", "joined"}

LastCreator(p, q) ==
    /\ narOf[q] = narOf[p]
    /\ payload[q] \in Created \cup {"failed", "dropped"}
    /\ 1..written[q] \subseteq holds[narOf[p]]

\* Everything of the mirror is there, and all of its tasks are joined.
Settled ==
    \A p \in Paths : /\ meta[p] = "joined"
                     /\ payload[p] \in {"none", "joined"}

MirrorInv ==
    /\ \A p \in Paths : meta[p] \in {"done", "joined"} => p \in info
    /\ \A p \in Paths : meta[p] = "joined" /\ p \in copy => payload[p] # "none"
    /\ \A p \in Paths : meta[p] # "joined" => payload[p] = "none"
    /\ \A p \in Paths : payload[p] \in {"none", "waiting", "opening", "fetching"} => written[p] = 0
    /\ \A p \in Paths : payload[p] \in {"done", "joined"} => written[p] = Chunks
    /\ \A p \in Paths : payload[p] \in Created => \E q \in Paths : LastCreator(p, q)
    /\ at \in {"start", "mirroring", "mirrored"} => server = "none"
    /\ at = "mirrored" \/ server = "listening" => Settled
    /\ at = "start" => \A p \in Paths : meta[p] = "none"

LEMMA InitMirror == Init => MirrorInv
  BY DEF Init, MirrorInv, Created

\* A mirror whose tasks are all joined holds every NAR in full.
LEMMA SettledIsWhole ==
  ASSUME TypeOK, MirrorInv, Settled
  PROVE  info = Paths /\ \A p \in copy : holds[narOf[p]] = AllChunks
  <1>1. info = Paths  BY DEF TypeOK, MirrorInv, Settled
  <1>2. ASSUME NEW p \in copy  PROVE holds[narOf[p]] = AllChunks
    <2>1. p \in Paths /\ payload[p] = "joined"
          BY DEF TypeOK, MirrorInv, Settled
    <2>2. PICK q \in Paths : LastCreator(p, q)  BY <2>1 DEF MirrorInv, Created
    <2>3. payload[q] = "joined"  BY <2>2 DEF LastCreator, Settled, Created
    <2>4. written[q] = Chunks  BY <2>3 DEF MirrorInv
    <2>5. holds[narOf[p]] \subseteq AllChunks  BY <2>1 DEF TypeOK
    <2> QED  BY <2>2, <2>4, <2>5 DEF LastCreator, AllChunks
  <1> QED  BY <1>1, <1>2

\* No task of a settled mirror has anything left to do.
LEMMA SettledTasks ==
  ASSUME Settled, NEW p \in Paths
  PROVE  ~Task(p) /\ ~TaskFails(p)
  BY DEF Settled, Task, TaskFails, GetMetadataPermit, GetNarPermit, OpenStream, WriteNarinfo,
     CreateNar, WriteNar, Fetching

\* A task that gets on without writing its NAR.
LEMMA FetchKeepsMirror ==
  ASSUME TypeOK, MirrorInv, NEW p \in Paths,
         \/ GetMetadataPermit(p) \/ GetNarPermit(p) \/ OpenStream(p) \/ WriteNarinfo(p)
         \/ TaskFails(p)
  PROVE  MirrorInv'
  <1> USE DEF GetMetadataPermit, GetNarPermit, OpenStream, WriteNarinfo, TaskFails, Fetching
  <1>1. UNCHANGED <<copy, narOf, at, server, written, holds>>  BY DEF inputs
  <1>2. \A q \in Paths : /\ q # p => meta'[q] = meta[q] /\ payload'[q] = payload[q]
                         /\ meta'[q] = "joined" <=> meta[q] = "joined"
                         /\ payload'[q] = "none" <=> payload[q] = "none"
        BY DEF TypeOK
  <1>3. \A q \in Paths : meta'[q] \in {"done", "joined"} => q \in info'
        BY DEF TypeOK, MirrorInv
  <1>4. \A q \in Paths : \/ payload'[q] = payload[q]
                         \/ /\ payload[q] \in {"waiting", "opening"}
                            /\ payload'[q] \in {"opening", "fetching"}
                         \/ payload'[q] = "failed"
        BY DEF TypeOK
  <1>5. \A q, r \in Paths : LastCreator(q, r) => LastCreator(q, r)'
        BY <1>1, <1>4 DEF LastCreator, Created
  <1>6. (\A q \in Paths : payload[q] \in Created => \E r \in Paths : LastCreator(q, r))'
        BY <1>1, <1>4, <1>5 DEF MirrorInv, Created
  <1>7. ~Settled  BY SettledTasks DEF Task
  <1>8. meta[p] # "none" \/ payload[p] # "none"  OBVIOUS
  <1>9. at # "start" /\ at # "mirrored" /\ server # "listening"
        BY <1>7, <1>8 DEF MirrorInv
  <1>10. (\A q \in Paths : meta[q] = "joined" /\ q \in copy => payload[q] # "none")'
        BY <1>1, <1>2 DEF MirrorInv
  <1>11. (\A q \in Paths : payload[q] \in {"none", "waiting", "opening", "fetching"} => written[q] = 0)'
        BY <1>1, <1>4 DEF MirrorInv
  <1>12. (\A q \in Paths : payload[q] \in {"done", "joined"} => written[q] = Chunks)'
        BY <1>1, <1>4 DEF MirrorInv
  <1>13. (\A q \in Paths : meta[q] # "joined" => payload[q] = "none")'
        BY <1>2 DEF MirrorInv
  <1> HIDE DEF GetMetadataPermit, GetNarPermit, OpenStream, WriteNarinfo, TaskFails, Fetching
  <1> QED  BY <1>1, <1>3, <1>6, <1>9, <1>10, <1>11, <1>12, <1>13 DEF MirrorInv

\* The one that creates the file is the last creator from then on, for all of them.
LEMMA CreateKeepsMirror ==
  ASSUME TypeOK, MirrorInv, NEW p \in Paths, CreateNar(p)
  PROVE  MirrorInv'
  <1>1. /\ payload[p] = "fetching" /\ payload' = [payload EXCEPT ![p] = "writing"]
        /\ holds' = [holds EXCEPT ![narOf[p]] = {}]
        /\ UNCHANGED <<copy, narOf, at, meta, written, info, server>>
        BY DEF CreateNar, inputs
  <1>2. \A q \in Paths : payload'[q] = IF q = p THEN "writing" ELSE payload[q]
        BY <1>1 DEF TypeOK
  <1>3. \A n \in NarFiles : holds'[n] = IF n = narOf[p] THEN {} ELSE holds[n]
        BY <1>1 DEF TypeOK
  <1>4. \A q \in Paths : narOf[q] \in NarFiles  BY DEF TypeOK
  <1>5. written[p] = 0  BY <1>1 DEF MirrorInv
  <1>6. LastCreator(p, p)'
        BY <1>1, <1>2, <1>5 DEF LastCreator, Created
  <1>7. \A q, r \in Paths : LastCreator(q, r) /\ narOf[q] # narOf[p] => LastCreator(q, r)'
        BY <1>1, <1>2, <1>3, <1>4 DEF LastCreator, Created
  <1>8. \A q \in Paths : narOf[q] = narOf[p] => LastCreator(q, p)'
        BY <1>1, <1>6 DEF LastCreator
  <1>9. (\A q \in Paths : payload[q] \in Created => \E r \in Paths : LastCreator(q, r))'
    <2>1. SUFFICES ASSUME NEW q \in Paths, payload'[q] \in Created
                   PROVE  \E r \in Paths : LastCreator(q, r)'
          OBVIOUS
    <2>2. CASE narOf[q] = narOf[p]  BY <2>2, <1>8
    <2>3. CASE narOf[q] # narOf[p]
      <3>1. payload[q] \in Created  BY <2>1, <2>3, <1>2
      <3> QED  BY <3>1, <2>3, <1>7 DEF MirrorInv
    <2> QED  BY <2>2, <2>3
  <1>10. ~Settled  BY SettledTasks DEF Task
  <1>11. at # "start" /\ at # "mirrored" /\ server # "listening"
        BY <1>1, <1>10 DEF MirrorInv
  <1> QED  BY <1>1, <1>2, <1>9, <1>11 DEF MirrorInv

\* Whoever writes only adds, and what the last creator has written is there.
LEMMA WriteKeepsMirror ==
  ASSUME TypeOK, MirrorInv, NEW p \in Paths, WriteNar(p)
  PROVE  MirrorInv'
  <1>1. ~Settled  BY SettledTasks DEF Task
  <1>2. payload[p] = "writing" /\ UNCHANGED <<copy, narOf, at, meta, info, server>>
        BY DEF WriteNar, inputs
  <1>3. at # "start" /\ at # "mirrored" /\ server # "listening"
        BY <1>1, <1>2 DEF MirrorInv
  <1>4. CASE written[p] < Chunks
    <2>1. /\ payload' = payload
          /\ \A q \in Paths : written'[q] = IF q = p THEN written[p] + 1 ELSE written[q]
          /\ \A n \in NarFiles : holds'[n] = IF n = narOf[p] THEN holds[n] \cup {written[p] + 1}
                                              ELSE holds[n]
          BY <1>4 DEF WriteNar, TypeOK
    <2>2. \A q \in Paths : narOf[q] \in NarFiles /\ written[q] \in Nat
          BY ImportAssumption DEF TypeOK
    <2>3. 1..(written[p] + 1) = (1..written[p]) \cup {written[p] + 1}  BY <2>2
    <2>4. ASSUME NEW q \in Paths, NEW r \in Paths, LastCreator(q, r)
          PROVE  LastCreator(q, r)'
      <3>1. narOf'[q] = narOf[q] /\ narOf[r] = narOf[q] /\ narOf'[r] = narOf[r]
            BY <1>2, <2>4 DEF LastCreator
      <3>2. holds[narOf[q]] \subseteq holds'[narOf[q]]  BY <2>1, <2>2
      <3>3. 1..written'[r] \subseteq holds'[narOf[q]]
        <4>1. CASE r = p  BY <4>1, <2>1, <2>2, <2>3, <2>4, <3>1, <3>2 DEF LastCreator
        <4>2. CASE r # p  BY <4>2, <2>1, <2>4, <3>2 DEF LastCreator
        <4> QED  BY <4>1, <4>2
      <3> QED  BY <2>1, <2>4, <3>1, <3>3 DEF LastCreator
    <2>5. (\A q \in Paths : payload[q] \in Created => \E r \in Paths : LastCreator(q, r))'
          BY <2>1, <2>4 DEF MirrorInv
    <2> QED  BY <1>2, <1>3, <2>1, <2>5 DEF MirrorInv
  <1>5. CASE ~(written[p] < Chunks)
    <2>1. /\ \A q \in Paths : payload'[q] = IF q = p THEN "done" ELSE payload[q]
          /\ UNCHANGED <<written, holds>>
          BY <1>5 DEF WriteNar, TypeOK
    <2>2. written[p] = Chunks  BY <1>5, ImportAssumption DEF TypeOK
    <2>3. \A q, r \in Paths : LastCreator(q, r) => LastCreator(q, r)'
          BY <1>2, <2>1 DEF LastCreator, Created
    <2>4. (\A q \in Paths : payload[q] \in Created => \E r \in Paths : LastCreator(q, r))'
          BY <1>2, <2>1, <2>3 DEF MirrorInv, Created
    <2> QED  BY <1>2, <1>3, <2>1, <2>2, <2>4 DEF MirrorInv
  <1> QED  BY <1>4, <1>5

LEMMA JoinKeepsMirror ==
  ASSUME TypeOK, MirrorInv, NEW p \in Paths, JoinMetadata(p) \/ JoinNar(p)
  PROVE  MirrorInv'
  <1>1. at = "mirroring" /\ UNCHANGED <<copy, narOf, at, written, info, holds, server>>
        BY DEF JoinMetadata, JoinNar, inputs
  <1>2. /\ \A q \in Paths : meta'[q] = meta[q] \/ (meta[q] = "done" /\ meta'[q] = "joined")
        /\ \A q \in Paths : \/ payload'[q] = payload[q]
                            \/ payload[q] = "done" /\ payload'[q] = "joined"
                            \/ payload[q] = "none" /\ payload'[q] = "waiting" /\ meta'[q] = "joined"
        /\ \A q \in Paths : meta'[q] = "joined" /\ q \in copy /\ meta[q] # "joined" =>
               payload'[q] = "waiting"
        BY DEF JoinMetadata, JoinNar, TypeOK, MirrorInv
  <1>3. \A q, r \in Paths : LastCreator(q, r) => LastCreator(q, r)'
        BY <1>1, <1>2 DEF LastCreator, Created
  <1>4. (\A q \in Paths : payload[q] \in Created => \E r \in Paths : LastCreator(q, r))'
        BY <1>1, <1>2, <1>3 DEF MirrorInv, Created
  <1>5. server # "listening"  BY <1>1 DEF MirrorInv
  <1>6. (\A q \in Paths : meta[q] = "joined" /\ q \in copy => payload[q] # "none")'
        BY <1>1, <1>2 DEF MirrorInv
  <1>7. (\A q \in Paths : meta[q] # "joined" => payload[q] = "none")'
        BY <1>1, <1>2 DEF MirrorInv
  <1> QED  BY <1>1, <1>2, <1>4, <1>5, <1>6, <1>7 DEF MirrorInv

\* The end of a mirror: its tasks drop, and nothing listens any more.
LEMMA DropKeepsMirror ==
  ASSUME TypeOK, MirrorInv,
         UNCHANGED <<copy, narOf, written, info, holds>>,
         meta' = Dropped(meta), payload' \in {payload, Dropped(payload)},
         at' \in {"failed", "interrupted"}, server' # "listening"
  PROVE  MirrorInv'
  <1>1. \A q \in Paths : /\ meta'[q] = meta[q] \/ (meta[q] # "joined" /\ meta'[q] = "dropped")
                         /\ payload'[q] = payload[q] \/ (payload[q] # "none" /\ payload'[q] = "dropped")
        BY DEF Dropped
  <1>2. \A q, r \in Paths : LastCreator(q, r) => LastCreator(q, r)'
        BY <1>1 DEF LastCreator, Created
  <1>3. (\A q \in Paths : payload[q] \in Created => \E r \in Paths : LastCreator(q, r))'
        BY <1>1, <1>2 DEF MirrorInv, Created
  <1>4. (\A q \in Paths : meta[q] \in {"done", "joined"} => q \in info)'
        BY <1>1 DEF MirrorInv
  <1>5. (\A q \in Paths : meta[q] = "joined" /\ q \in copy => payload[q] # "none")'
        BY <1>1 DEF MirrorInv
  <1>6. (\A q \in Paths : meta[q] # "joined" => payload[q] = "none")'
        BY <1>1 DEF MirrorInv
  <1>7. (\A q \in Paths : payload[q] \in {"none", "waiting", "opening", "fetching"} => written[q] = 0)'
        BY <1>1 DEF MirrorInv
  <1>8. (\A q \in Paths : payload[q] \in {"done", "joined"} => written[q] = Chunks)'
        BY <1>1 DEF MirrorInv
  <1> QED  BY <1>3, <1>4, <1>5, <1>6, <1>7, <1>8 DEF MirrorInv

\* Steps that leave the mirror alone.
LEMMA RestKeepsMirror ==
  ASSUME MirrorInv, UNCHANGED <<copy, narOf, tasks>>,
         at' = "start" => at = "start",
         at' \in {"start", "mirroring", "mirrored"} => at \in {"start", "mirroring", "mirrored"} /\ server' = server,
         at' = "mirrored" \/ server' = "listening" => Settled
  PROVE  MirrorInv'
  <1>1. meta' = meta /\ payload' = payload /\ written' = written /\ info' = info /\ holds' = holds
        /\ copy' = copy /\ narOf' = narOf
        BY DEF tasks
  <1>2. \A q, r \in Paths : LastCreator(q, r)' <=> LastCreator(q, r)
        BY <1>1 DEF LastCreator
  <1>3. Settled' <=> Settled  BY <1>1 DEF Settled
  <1> QED  BY <1>1, <1>2, <1>3 DEF MirrorInv

LEMMA NextKeepsMirror ==
  ASSUME TypeOK, MirrorInv, [Next]_vars
  PROVE  MirrorInv'
  <1>1. CASE UNCHANGED vars
        BY <1>1, RestKeepsMirror DEF vars, tasks, MirrorInv
  <1>2. ASSUME NEW p \in Paths, Task(p) \/ TaskFails(p)  PROVE MirrorInv'
        BY <1>2, FetchKeepsMirror, CreateKeepsMirror, WriteKeepsMirror DEF Task
  <1>3. ASSUME NEW p \in Paths, JoinMetadata(p) \/ JoinNar(p)  PROVE MirrorInv'
        BY <1>3, JoinKeepsMirror
  <1>4. CASE Begin
    <2>1. CASE at' = "failed"
      <3>1. UNCHANGED <<copy, narOf, tasks, server>>
            BY <1>4, <2>1 DEF Begin, inputs, tasks
      <3>2. server' # "listening"  BY <1>4, <3>1 DEF Begin, MirrorInv
      <3> QED  BY <2>1, <3>1, <3>2, RestKeepsMirror
    <2>2. CASE at' = "mirroring"
      <3>1. /\ at = "start" /\ meta' = [p \in Paths |-> "waiting"]
            /\ UNCHANGED <<copy, narOf, payload, written, info, holds, server>>
            BY <1>4, <2>2 DEF Begin, inputs
      <3>2. \A p \in Paths : payload[p] = "none"  BY <3>1 DEF MirrorInv
      <3>3. \A p \in Paths : meta'[p] = "waiting"  BY <3>1
      <3> QED  BY <2>2, <3>1, <3>2, <3>3 DEF MirrorInv, Created
    <2> QED  BY <1>4, <2>1, <2>2 DEF Begin
  <1>5. CASE JoinError \/ LocalStepFails
    <2>1. /\ UNCHANGED <<copy, narOf, written, info, holds, server>>
          /\ meta' = Dropped(meta) /\ payload' \in {payload, Dropped(payload)}
          /\ at' = "failed" /\ at \in {"mirroring", "mirrored"}
          BY <1>5 DEF JoinError, LocalStepFails, inputs
    <2>2. server' # "listening"  BY <2>1 DEF MirrorInv
    <2> QED  BY <2>1, <2>2, DropKeepsMirror
  <1>6. CASE Interrupt
    <2>1. /\ UNCHANGED <<copy, narOf, written, info, holds>>
          /\ meta' = Dropped(meta) /\ payload' = Dropped(payload) /\ at' = "interrupted"
          BY <1>6 DEF Interrupt, inputs
    <2>2. server' # "listening"  BY <1>6 DEF Interrupt
    <2> QED  BY <2>1, <2>2, DropKeepsMirror
  <1>7. CASE FinishMirror
    <2>1. /\ UNCHANGED <<copy, narOf, tasks, server>> /\ at = "mirroring" /\ at' = "mirrored"
          /\ Settled
          BY <1>7 DEF FinishMirror, inputs, MetadataJoined, Settled
    <2> QED  BY <2>1, RestKeepsMirror
  <1>8. CASE StartServer
    <2>1. UNCHANGED <<copy, narOf, tasks>> /\ at = "mirrored" /\ at' = "copying"
          BY <1>8 DEF StartServer, inputs
    <2>2. Settled  BY <2>1 DEF MirrorInv
    <2> QED  BY <2>1, <2>2, RestKeepsMirror
  <1>9. ASSUME \/ AskHelper \/ ReadAnswer \/ FinishCopy \/ Shutdown \/ JoinServer \/ Cleanup
        PROVE  MirrorInv'
    <2>1. /\ UNCHANGED <<copy, narOf, tasks>>
          /\ at' \notin {"start", "mirroring", "mirrored"}
          /\ server' = "listening" => server = "listening"
          BY <1>9 DEF AskHelper, ReadAnswer, FinishCopy, Shutdown, JoinServer, Cleanup, inputs
    <2>2. server' = "listening" => Settled  BY <2>1 DEF MirrorInv
    <2> QED  BY <2>1, <2>2, RestKeepsMirror
  <1>10. ASSUME \/ \E p \in Paths : Ask(p) \/ ServeFile(p) \/ HttpFails(p)
                \/ Helper \/ Nix \/ HelperStops
         PROVE  MirrorInv'
    <2>1. UNCHANGED <<copy, narOf, tasks, at, server>>
          BY <1>10 DEF Ask, ServeFile, HttpFails, Helper, CheckRequest, AnswerRequest, Nix,
             StartBatch, EndBatch, NixFails, HelperStops, inputs
    <2>2. at = "mirrored" \/ server = "listening" => Settled  BY DEF MirrorInv
    <2> QED  BY <2>1, <2>2, RestKeepsMirror
  <1>11. CASE AcceptFails
    <2>1. /\ UNCHANGED <<copy, narOf, tasks, at>>
          /\ server = "listening" /\ server' = "broken"
          BY <1>11 DEF AcceptFails, inputs
    <2>2. at \notin {"start", "mirroring", "mirrored"}  BY <2>1 DEF MirrorInv
    <2> QED  BY <2>1, <2>2, RestKeepsMirror
  <1> QED
      BY <1>1, <1>2, <1>3, <1>4, <1>5, <1>6, <1>7, <1>8, <1>9, <1>10, <1>11 DEF Next, Client

\* What Nix reads is whole, whichever paths share a NAR and whichever of their tasks
\* emptied the file last.
THEOREM NixReadsWholeMirror == Spec => []MirrorIsWhole
  <1>1. TypeOK /\ MirrorInv /\ [Next]_vars => TypeOK' /\ MirrorInv'
        BY ImportNextTypes, NextKeepsMirror
  <1>2. TypeOK /\ MirrorInv => MirrorIsWhole
    <2> SUFFICES ASSUME TypeOK, MirrorInv, server = "listening"
                 PROVE  info = Paths /\ \A p \in copy : holds[narOf[p]] = AllChunks
        BY DEF MirrorIsWhole
    <2>1. Settled  BY DEF MirrorInv
    <2> QED  BY <2>1, SettledIsWhole
  <1> QED  BY <1>1, <1>2, ImportInitTypes, InitMirror, PTL DEF Spec

-----------------------------------------------------------------------------
\* The life of the directory and of its server.
Before == {"start", "mirroring", "mirrored"}

LifeInv ==
    /\ at \in Before => server = "none"
    /\ at = "start" => dir = "none"
    /\ at = "mirrored" => dir = "present"
    /\ server \in {"listening", "stopping"} =>
           dir = "present" /\ at \in {"copying", "stopping", "copy failed", "stopping failed"}
    /\ http # {} => server \in {"listening", "stopping", "broken"}
    /\ at \in {"done", "failed"} /\ dir = "present" => server = "none"
    /\ at = "done" => dir = "gone"
    /\ at = "mirroring" => dir = "present"

\* Success: what is not in the store is left to import, and nothing is left at the end.
CopyInv ==
    /\ at \in Before => helper = "idle"
    /\ at \notin Before \cup {"failed", "interrupted"} => copy \subseteq left \cup imported
    /\ helper = "ok" => left = {}
    /\ at \in {"stopping", "cleaning", "done"} => left = {}

LEMMA InitLife == Init => LifeInv /\ CopyInv
  BY DEF Init, LifeInv, CopyInv, Before

LEMMA NextKeepsLife ==
  ASSUME TypeOK, LifeInv, [Next]_vars
  PROVE  LifeInv'
  <1> USE DEF Before
  <1>1. CASE UNCHANGED vars  BY <1>1 DEF LifeInv, vars
  <1>2. CASE Begin  BY <1>2 DEF Begin, LifeInv
  <1>3. CASE JoinError \/ FinishMirror \/ LocalStepFails
        BY <1>3 DEF JoinError, FinishMirror, LocalStepFails, LifeInv
  <1>4. CASE StartServer  BY <1>4 DEF StartServer, LifeInv
  <1>5. CASE AskHelper \/ ReadAnswer \/ FinishCopy
        BY <1>5 DEF AskHelper, ReadAnswer, FinishCopy, LifeInv
  <1>6. CASE Shutdown  BY <1>6 DEF Shutdown, LifeInv
  <1>7. CASE JoinServer  BY <1>7 DEF JoinServer, LifeInv
  <1>8. CASE Cleanup  BY <1>8 DEF Cleanup, LifeInv
  <1>9. ASSUME NEW p \in Paths, Ask(p) \/ ServeFile(p) \/ HttpFails(p)  PROVE LifeInv'
        BY <1>9 DEF Ask, ServeFile, HttpFails, LifeInv
  <1>10. CASE AcceptFails  BY <1>10 DEF AcceptFails, LifeInv
  <1>11. CASE Helper \/ Nix \/ HelperStops
         BY <1>11 DEF Helper, CheckRequest, AnswerRequest, Nix, StartBatch, EndBatch, NixFails,
            HelperStops, LifeInv
  <1>12. CASE Interrupt  BY <1>12 DEF Interrupt, LifeInv
  <1>13. ASSUME NEW p \in Paths, Task(p) \/ TaskFails(p) \/ JoinMetadata(p) \/ JoinNar(p)
         PROVE  LifeInv'
    <2>1. UNCHANGED <<at, dir, server, http>>
          BY <1>13 DEF Task, TaskFails, GetMetadataPermit, GetNarPermit, OpenStream,
             WriteNarinfo, CreateNar, WriteNar, JoinMetadata, JoinNar
    <2> QED  BY <2>1 DEF LifeInv
  <1> QED
      BY <1>1, <1>2, <1>3, <1>4, <1>5, <1>6, <1>7, <1>8, <1>9, <1>10, <1>11, <1>12, <1>13
      DEF Next, Client

LEMMA NextKeepsCopy ==
  ASSUME TypeOK, CopyInv, [Next]_vars
  PROVE  CopyInv'
  <1> USE DEF Before, inputs, copying
  <1>1. CASE UNCHANGED vars  BY <1>1 DEF CopyInv, vars
  <1>2. CASE Begin  BY <1>2 DEF Begin, CopyInv
  <1>3. CASE JoinError \/ FinishMirror \/ LocalStepFails
        BY <1>3 DEF JoinError, FinishMirror, LocalStepFails, CopyInv
  <1>4. CASE StartServer  BY <1>4 DEF StartServer, CopyInv
  <1>5. CASE AskHelper \/ ReadAnswer \/ FinishCopy
        BY <1>5 DEF AskHelper, ReadAnswer, FinishCopy, CopyInv
  <1>6. CASE Shutdown \/ JoinServer \/ Cleanup \/ Interrupt
        BY <1>6 DEF Shutdown, JoinServer, Cleanup, Interrupt, CopyInv
  <1>7. CASE Helper \/ HelperStops
        BY <1>7 DEF Helper, CheckRequest, AnswerRequest, HelperStops, CopyInv
  <1>8. CASE StartBatch  BY <1>8 DEF StartBatch, CopyInv
  <1>9. CASE EndBatch  BY <1>9 DEF EndBatch, CopyInv
  <1>10. CASE NixFails  BY <1>10 DEF NixFails, CopyInv
  <1>11. ASSUME \/ AcceptFails
                \/ \E p \in Paths : \/ Task(p) \/ TaskFails(p) \/ JoinMetadata(p) \/ JoinNar(p)
                                    \/ Ask(p) \/ ServeFile(p) \/ HttpFails(p)
         PROVE  CopyInv'
    <2>1. UNCHANGED <<copy, at, helper, left, imported>>
          BY <1>11 DEF AcceptFails, Task, TaskFails, GetMetadataPermit, GetNarPermit, OpenStream,
             WriteNarinfo, CreateNar, WriteNar, JoinMetadata, JoinNar, Ask, ServeFile, HttpFails
    <2> QED  BY <2>1 DEF CopyInv
  <1> QED
      BY <1>1, <1>2, <1>3, <1>4, <1>5, <1>6, <1>7, <1>8, <1>9, <1>10, <1>11 DEF Next, Client, Nix

\* No HTTP task reads a mirror that is being removed.
THEOREM RemovedAfterRequests == Spec => []NoRequestAfterCleanup
  <1>1. TypeOK /\ LifeInv /\ [Next]_vars => TypeOK' /\ LifeInv'
        BY ImportNextTypes, NextKeepsLife
  <1>2. TypeOK /\ LifeInv => NoRequestAfterCleanup
        BY DEF LifeInv, NoRequestAfterCleanup
  <1> QED  BY <1>1, <1>2, ImportInitTypes, InitLife, PTL DEF Spec

\* Success is the import of everything, and of what a failure leaves behind nothing
\* was ever served.
THEOREM ImportEndsAsReported == Spec => []EndsAsReported
  <1>1. TypeOK /\ LifeInv /\ CopyInv /\ [Next]_vars => TypeOK' /\ LifeInv' /\ CopyInv'
        BY ImportNextTypes, NextKeepsLife, NextKeepsCopy
  <1>2. TypeOK /\ LifeInv /\ CopyInv => EndsAsReported
        BY DEF TypeOK, LifeInv, CopyInv, EndsAsReported, SuccessIsWhole, LeftOnlyBeforeServing,
           Before
  <1> QED  BY <1>1, <1>2, ImportInitTypes, InitLife, PTL DEF Spec
=============================================================================
