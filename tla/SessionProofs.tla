----------------------------- MODULE SessionProofs -----------------------------
(***************************************************************************)
(* One build as both sides see it, for any number of connections, any path *)
(* lists and any losses: every request that is taken up is paid for, both  *)
(* sides report the same end, nothing is built on half an upload, the two  *)
(* programs together give what BuildService promises, and they take turns: *)
(* neither reads a message that it does not expect, nor do both wait.      *)
(***************************************************************************)
EXTENDS Session, FiniteSetTheorems, SequenceTheorems, TLAPS

\* What an interrupted connection leaves of a queue is a queue of the same messages.
LEMMA PrefixIn ==
  ASSUME NEW S, NEW q \in Seq(S), NEW r \in Prefixes(q)
  PROVE  r \in Seq(S)
  <1>1. PICK i \in 0..Len(q) : r = SubSeq(q, 1, i)  BY DEF Prefixes
  <1>2. i \in Int /\ Len(q) \in Nat  BY <1>1, LenProperties
  <1>3. \A j \in 1..i : q[j] \in S  BY <1>2, ElementOfSeq
  <1> QED  BY <1>1, <1>2, <1>3, SubSeqProperties

LEMMA ReachedIn ==
  ASSUME NEW S, NEW s \in Sessions, NEW queue, queue[s] \in Seq(S),
         NEW r \in Reached(s, queue)
  PROVE  r \in Seq(S)
  BY PrefixIn DEF Reached

\* The chunks of a list are full but for the last, which holds the rest.
LEMMA ChunksAddUp ==
  ASSUME NEW n \in Nat, n # 0
  PROVE  LET count == (n + ChunkSize - 1) \div ChunkSize
         IN  /\ count \in Nat
             /\ n - (count - 1) * ChunkSize \in Nat
  <1> DEFINE count == (n + ChunkSize - 1) \div ChunkSize
  <1>1. ChunkSize \in Nat \ {0} /\ n + ChunkSize - 1 \in Nat  BY SessionAssumption
  <1>2. count \in Nat /\ count * ChunkSize <= n + ChunkSize - 1
        BY <1>1
  <1>3. (count - 1) * ChunkSize = count * ChunkSize - ChunkSize
        BY <1>1, <1>2
  <1>4. count * ChunkSize \in Nat  BY <1>1, <1>2
  <1>5. n - (count * ChunkSize - ChunkSize) \in Nat  BY <1>1, <1>2, <1>4
  <1> QED  BY <1>2, <1>3, <1>5

LEMMA PathListIn ==
  ASSUME NEW n \in Nat, NEW type \in Kinds
  PROVE  PathList(type, n) \in Seq({m \in Message : m.type = type})
  <1> DEFINE count == IF n = 0 THEN 1 ELSE (n + ChunkSize - 1) \div ChunkSize
             S == {m \in Message : m.type = type}
             e(i) == [type |-> type,
                      paths |-> IF i < count THEN ChunkSize ELSE n - (count - 1) * ChunkSize,
                      flag |-> i = count]
  <1>1. count \in Nat /\ n - (count - 1) * ChunkSize \in Nat
    <2>1. CASE n = 0  BY <2>1, SessionAssumption
    <2>2. CASE n # 0  BY <2>2, ChunksAddUp
    <2> QED  BY <2>1, <2>2
  <1>2. ASSUME NEW i \in 1..count PROVE e(i) \in S
    <2>1. (IF i < count THEN ChunkSize ELSE n - (count - 1) * ChunkSize) \in Nat
          BY <1>1, SessionAssumption
    <2>2. (i = count) \in BOOLEAN  OBVIOUS
    <2> HIDE DEF count
    <2> QED  BY <2>1, <2>2 DEF Message
  <1>3. [i \in 1..count |-> e(i)] \in Seq(S)
    <2> HIDE DEF e, S, count
    <2> QED  BY <1>1, <1>2, IsASeq
  <1> QED  BY <1>3 DEF PathList

-----------------------------------------------------------------------------
\* Types.  What each step that an action is made of does to the queues.

LEMMA ClientReadsIn ==
  ASSUME TypeOK, NEW s \in Sessions, NEW type, ClientReads(s, type)
  PROVE  /\ toClient' \in [Sessions -> Seq(Message)]
         /\ Head(toClient[s]) \in Message
  <1>1. toClient[s] \in Seq(Message) /\ toClient[s] # <<>>  BY DEF TypeOK, ClientReads
  <1>2. Head(toClient[s]) \in Message /\ Tail(toClient[s]) \in Seq(Message)
        BY <1>1, HeadTailProperties
  <1> QED  BY <1>2 DEF TypeOK, ClientReads

LEMMA ServerReadsIn ==
  ASSUME TypeOK, NEW s \in Sessions, NEW type, ServerReads(s, type)
  PROVE  /\ toServer' \in [Sessions -> Seq(Message)]
         /\ Head(toServer[s]) \in Message
  <1>1. toServer[s] \in Seq(Message) /\ toServer[s] # <<>>  BY DEF TypeOK, ServerReads
  <1>2. Head(toServer[s]) \in Message /\ Tail(toServer[s]) \in Seq(Message)
        BY <1>1, HeadTailProperties
  <1> QED  BY <1>2 DEF TypeOK, ServerReads

LEMMA MsgIn ==
  /\ \A type \in Kinds \cup {Length} : Msg(type) \in Message /\ <<Msg(type)>> \in Seq(Message)
  /\ \A b \in BOOLEAN : BuildFinished(b) \in Message /\ <<BuildFinished(b)>> \in Seq(Message)
  BY DEF Msg, BuildFinished, Message, Kinds

LEMMA ListIn ==
  ASSUME NEW n \in Nat, NEW type \in Kinds
  PROVE  PathList(type, n) \in Seq(Message)
  <1>1. {m \in Message : m.type = type} \subseteq Message  OBVIOUS
  <1>2. PathList(type, n) \in Seq({m \in Message : m.type = type})  BY PathListIn
  <1> QED  BY <1>1, <1>2, SeqMonotonic

LEMMA ClientSendsIn ==
  ASSUME TypeOK, NEW s \in Sessions, NEW msgs \in Seq(Message), ClientSends(s, msgs)
  PROVE  toServer' \in [Sessions -> Seq(Message)]
  <1>1. toServer[s] \o msgs \in Seq(Message)  BY ConcatProperties DEF TypeOK
  <1> QED  BY <1>1 DEF TypeOK, ClientSends

LEMMA ServerSendsIn ==
  ASSUME TypeOK, NEW s \in Sessions, NEW msgs \in Seq(Message), ServerSends(s, msgs)
  PROVE  toClient' \in [Sessions -> Seq(Message)]
  <1>1. toClient[s] \o msgs \in Seq(Message)  BY ConcatProperties DEF TypeOK
  <1> QED  BY <1>1 DEF TypeOK, ServerSends

Queues == /\ toServer \in [Sessions -> Seq(Message)]
          /\ toClient \in [Sessions -> Seq(Message)]
          /\ link \in [Sessions -> {"none", "up", "cut"}]

LEMMA ClientHangsUpIn ==
  ASSUME TypeOK, NEW s \in Sessions, ClientHangsUp(s)
  PROVE  Queues'
  <1>1. PICK q \in Reached(s, toServer) : toServer' = [toServer EXCEPT ![s] = q]
        BY DEF ClientHangsUp
  <1>2. q \in Seq(Message)  BY ReachedIn DEF TypeOK
  <1> QED  BY <1>1, <1>2 DEF TypeOK, Queues, ClientHangsUp, Cut

LEMMA ServerHangsUpIn ==
  ASSUME TypeOK, NEW s \in Sessions, ServerHangsUp(s)
  PROVE  Queues'
  <1>1. PICK q \in Reached(s, toClient) : toClient' = [toClient EXCEPT ![s] = q]
        BY DEF ServerHangsUp
  <1>2. q \in Seq(Message)  BY ReachedIn DEF TypeOK
  <1> QED  BY <1>1, <1>2 DEF TypeOK, Queues, ServerHangsUp, Cut

LEMMA PlacesIn ==
  ASSUME TypeOK, NEW s \in Sessions
  PROVE  /\ \A place \in ClientPlaces : ClientGoes(s, place) => cli' \in [Sessions -> ClientPlaces]
         /\ \A place \in ServerPlaces : ServerGoes(s, place) => srv' \in [Sessions -> ServerPlaces]
  BY DEF TypeOK, ClientGoes, ServerGoes

LEMMA ExtendedIn ==
  ASSUME NEW list \in [chunks : Nat, paths : Nat], NEW m \in Message
  PROVE  Extended(list, m) \in [chunks : Nat, paths : Nat]
  BY DEF Extended, Message

LEMMA LeaveKeepsTypes ==
  ASSUME TypeOK, NEW s \in Sessions, NEW place \in ClientPlaces, Leave(s, place)
  PROVE  TypeOK'
  <1>1. Queues' /\ cli' \in [Sessions -> ClientPlaces]
        BY ClientHangsUpIn, PlacesIn DEF Leave
  <1>2. upload' \in [Sessions -> {"none", "open", "whole", "short"}]
        BY DEF TypeOK, Leave, Exported
  <1> QED  BY <1>1, <1>2 DEF TypeOK, Queues, Leave, lists, cache, ticket, policy

LEMMA ClientKeepsTypes ==
  ASSUME TypeOK, NEW s \in Sessions, Client(s) \/ GiveUp(s)
  PROVE  TypeOK'
  <1> USE DEF lists, cache, ticket, policy
  <1>1. CASE FindLocalOutputs(s)
    <2>1. cli' \in [Sessions -> ClientPlaces]
          BY <1>1, PlacesIn DEF FindLocalOutputs, ClientPlaces, ClientEnds
    <2> QED  BY <1>1, <2>1 DEF TypeOK, FindLocalOutputs
  <1>2. CASE ResolveOutputs(s)
    <2>1. cli' \in [Sessions -> ClientPlaces]
          BY <1>2, PlacesIn DEF ResolveOutputs, ClientPlaces, ClientBusy
    <2> QED  BY <1>2, <2>1 DEF TypeOK, ResolveOutputs
  <1>3. CASE Open(s)
    <2>1. cli' \in [Sessions -> ClientPlaces] /\ srv' \in [Sessions -> ServerPlaces]
          BY <1>3, PlacesIn DEF Open, ClientPlaces, ClientReading, ServerPlaces, ServerReading
    <2>2. <<Msg("Hello"), AuthMessage(s)>> \in Seq(Message)
          BY MsgIn DEF AuthMessage, Kinds
    <2>3. toServer' \in [Sessions -> Seq(Message)] /\ link' \in [Sessions -> {"none", "up", "cut"}]
          BY <1>3, <2>2 DEF TypeOK, Open
    <2> QED  BY <1>3, <2>1, <2>3 DEF TypeOK, Open
  <1>4. CASE ReadAuthOk(s)
    <2>1. cli' \in [Sessions -> ClientPlaces] /\ toClient' \in [Sessions -> Seq(Message)]
          BY <1>4, PlacesIn, ClientReadsIn DEF ReadAuthOk, ClientPlaces, ClientBusy
    <2> QED  BY <1>4, <2>1 DEF TypeOK, ReadAuthOk
  <1>5. CASE Preflight(s)
    <2>1. cli' \in [Sessions -> ClientPlaces]
          BY <1>5, PlacesIn DEF Preflight, ClientPlaces, ClientBusy
    <2> QED  BY <1>5, <2>1 DEF TypeOK, Preflight
  <1>6. CASE SendBuildRequest(s)
    <2>1. PICK n \in ClosureSizes : ClientSends(s, <<Msg("BuildRequest")>> \o PathList("BuildPaths", n))
          BY <1>6 DEF SendBuildRequest
    <2>2. n \in Nat  BY SessionAssumption DEF ClosureSizes
    <2>3. <<Msg("BuildRequest")>> \o PathList("BuildPaths", n) \in Seq(Message)
          BY <2>2, MsgIn, ListIn, ConcatProperties DEF Kinds
    <2>4. cli' \in [Sessions -> ClientPlaces] /\ toServer' \in [Sessions -> Seq(Message)]
          BY <1>6, <2>1, <2>3, PlacesIn, ClientSendsIn DEF SendBuildRequest, ClientPlaces, ClientReading
    <2> QED  BY <1>6, <2>4 DEF TypeOK, SendBuildRequest
  <1>7. CASE ReadBuildQueued(s)
    <2>1. cli' \in [Sessions -> ClientPlaces] /\ toClient' \in [Sessions -> Seq(Message)]
          BY <1>7, PlacesIn, ClientReadsIn DEF ReadBuildQueued, ClientPlaces, ClientReading
    <2> QED  BY <1>7, <2>1 DEF TypeOK, ReadBuildQueued
  <1>8. CASE ReadChunk(s)
    <2>1. toClient' \in [Sessions -> Seq(Message)] /\ Head(toClient[s]) \in Message
          BY <1>8, ClientReadsIn DEF ReadChunk
    <2>2. Extended(cliList[s], Head(toClient[s])) \in [chunks : Nat, paths : Nat]
          BY <2>1, ExtendedIn DEF TypeOK
    <2>3. cliList' = [cliList EXCEPT ![s] = Extended(@, Head(toClient[s]))]
          BY <1>8 DEF ReadChunk
    <2>4. cliList' \in [Sessions -> [chunks : Nat, paths : Nat]]
          BY <2>2, <2>3 DEF TypeOK
    <2> QED  BY <1>8, <2>1, <2>4 DEF TypeOK, ReadChunk
  <1>9. CASE ReadMissingPaths(s)
    <2>1. cli' \in [Sessions -> ClientPlaces] /\ toClient' \in [Sessions -> Seq(Message)]
          BY <1>9, PlacesIn, ClientReadsIn DEF ReadMissingPaths, ClientPlaces, ClientReading
    <2> QED  BY <1>9, <2>1 DEF TypeOK, ReadMissingPaths, NoChunks
  <1>10. CASE ReadUploadReady(s)
    <2>1. cli' \in [Sessions -> ClientPlaces] /\ toClient' \in [Sessions -> Seq(Message)]
          BY <1>10, PlacesIn, ClientReadsIn DEF ReadUploadReady, ClientPlaces, ClientBusy
    <2> QED  BY <1>10, <2>1 DEF TypeOK, ReadUploadReady
  <1>11. CASE FinishUpload(s)
    <2>1. cli' \in [Sessions -> ClientPlaces]
          BY <1>11, PlacesIn DEF FinishUpload, ClientPlaces, ClientReading
    <2> QED  BY <1>11, <2>1 DEF TypeOK, FinishUpload, Exported
  <1>12. CASE ReadBuildMessage(s)
    <2>1. toClient' \in [Sessions -> Seq(Message)]  BY <1>12, ClientReadsIn DEF ReadBuildMessage
    <2> QED  BY <1>12, <2>1 DEF TypeOK, ReadBuildMessage
  <1>13. CASE ReadBuildFinished(s)
    <2>1. Queues'
      <3>1. CASE ClientReads(s, "BuildFinished") /\ UNCHANGED <<link, toServer>>
            BY <3>1, ClientReadsIn DEF TypeOK, Queues
      <3>2. CASE ClientHangsUp(s)  BY <3>2, ClientHangsUpIn
      <3> QED  BY <1>13, <3>1, <3>2 DEF ReadBuildFinished
    <2>2. cli' \in [Sessions -> ClientPlaces]
          BY <1>13, PlacesIn DEF ReadBuildFinished, ClientPlaces, ClientReading, ClientEnds
    <2> QED  BY <1>13, <2>1, <2>2 DEF TypeOK, Queues, ReadBuildFinished
  <1>14. CASE RequestOutputs(s)
    <2>1. PICK n \in ListSizes : ClientSends(s, PathList("OutputRequest", n))
          BY <1>14 DEF RequestOutputs, SomeOf
    <2>2. PathList("OutputRequest", n) \in Seq(Message)
          BY SessionAssumption, ListIn DEF Kinds
    <2>3. /\ cli' \in [Sessions -> ClientPlaces] /\ toClient' \in [Sessions -> Seq(Message)]
          /\ toServer' \in [Sessions -> Seq(Message)]
          BY <1>14, <2>1, <2>2, PlacesIn, ClientReadsIn, ClientSendsIn
          DEF RequestOutputs, ClientPlaces, ClientReading
    <2> QED  BY <1>14, <2>3 DEF TypeOK, RequestOutputs, NoChunks
  <1>15. CASE ReadOutputCacheReady(s)
    <2>1. cli' \in [Sessions -> ClientPlaces] /\ toClient' \in [Sessions -> Seq(Message)]
          BY <1>15, PlacesIn, ClientReadsIn DEF ReadOutputCacheReady, ClientPlaces, ClientBusy
    <2> QED  BY <1>15, <2>1 DEF TypeOK, ReadOutputCacheReady
  <1>16. CASE OpenCacheStream(s)
    BY <1>16 DEF TypeOK, OpenCacheStream
  <1>17. CASE SendOutputCacheDone(s)
    <2>1. <<Msg(Length), Msg("OutputCacheDone")>> \in Seq(Message)
          BY MsgIn DEF Kinds
    <2>2. /\ cli' \in [Sessions -> ClientPlaces] /\ toServer' \in [Sessions -> Seq(Message)]
          BY <1>17, <2>1, PlacesIn, ClientSendsIn
          DEF SendOutputCacheDone, ClientPlaces, ClientReading
    <2>3. imported' \in [Sessions -> BOOLEAN]  BY <1>17 DEF TypeOK, SendOutputCacheDone
    <2> QED  BY <1>17, <2>2, <2>3 DEF TypeOK, SendOutputCacheDone
  <1>18. CASE ReadDone(s)
    <2>1. cli' \in [Sessions -> ClientPlaces] /\ Queues'
          BY <1>18, PlacesIn, ClientHangsUpIn DEF ReadDone, ClientPlaces, ClientEnds
    <2> QED  BY <1>18, <2>1 DEF TypeOK, Queues, ReadDone
  <1>19. CASE SeeError(s) \/ PathListTimeout(s) \/ SendFails(s) \/ GiveUp(s)
    BY <1>19, LeaveKeepsTypes
    DEF SeeError, PathListTimeout, SendFails, GiveUp, ClientPlaces, ClientEnds
  <1> QED
    BY <1>1, <1>2, <1>3, <1>4, <1>5, <1>6, <1>7, <1>8, <1>9, <1>10, <1>11, <1>12, <1>13,
       <1>14, <1>15, <1>16, <1>17, <1>18, <1>19
    DEF Client

LEMMA DropKeepsTypes ==
  ASSUME TypeOK, NEW s \in Sessions, Drop(s)
  PROVE  TypeOK'
  <1>1. Queues' /\ srv' \in [Sessions -> ServerPlaces]
        BY ServerHangsUpIn, PlacesIn DEF Drop, ServerPlaces, ServerEnds
  <1> QED  BY <1>1 DEF TypeOK, Queues, Drop, lists, cache, ticket, policy

LEMMA FailRunKeepsTypes ==
  ASSUME TypeOK, NEW s \in Sessions, FailRun(s), toServer' \in [Sessions -> Seq(Message)]
  PROVE  TypeOK'
  <1>1. srv' \in [Sessions -> ServerPlaces]
        BY PlacesIn DEF FailRun, ServerPlaces
  <1>2. /\ stream' \in [Sessions -> {"none", "asked", "task", "answered", "broken", "joined", "lost"}]
        /\ srvList' \in [Sessions -> [chunks : Nat, paths : Nat]]
        /\ result' \in [Sessions -> {"none", "success", "failed", "error"}]
        /\ doneRead' \in [Sessions -> {"none", "part", "garbled", "starved"}]
        BY DEF TypeOK, FailRun, NoChunks
  <1> QED  BY <1>1, <1>2 DEF TypeOK, FailRun, ticket, policy

\* The handler up to the queue.
LEMMA AuthKeepsTypes ==
  ASSUME TypeOK, NEW s \in Sessions,
         \/ ReadHello(s) \/ AuthorizeTrusted(s) \/ AuthorizeTicket(s)
         \/ BadLimit(s) \/ RefuseAuth(s)
  PROVE  TypeOK'
  <1> USE DEF lists, cache, ticket, policy
  <1>1. CASE ReadHello(s)
    <2>1. srv' \in [Sessions -> ServerPlaces] /\ toServer' \in [Sessions -> Seq(Message)]
          BY <1>1, PlacesIn, ServerReadsIn DEF ReadHello, ServerPlaces, ServerReading
    <2> QED  BY <1>1, <2>1 DEF TypeOK, ReadHello
  <1>2. CASE AuthorizeTrusted(s) \/ AuthorizeTicket(s)
    <2>1. srv' \in [Sessions -> ServerPlaces] /\ toServer' \in [Sessions -> Seq(Message)]
          BY <1>2, PlacesIn, ServerReadsIn
          DEF AuthorizeTrusted, AuthorizeTicket, ServerPlaces, ServerReading
    <2>2. toClient' \in [Sessions -> Seq(Message)]
          BY <1>2, MsgIn, ServerSendsIn DEF AuthorizeTrusted, AuthorizeTicket, Kinds
    <2> QED  BY <1>2, <2>1, <2>2 DEF TypeOK, AuthorizeTrusted, AuthorizeTicket
  <1>3. CASE BadLimit(s)
    BY <1>3, DropKeepsTypes DEF BadLimit
  <1>4. CASE RefuseAuth(s)
    <2>1. srv' \in [Sessions -> ServerPlaces] /\ toServer' \in [Sessions -> Seq(Message)]
          BY <1>4, PlacesIn, ServerReadsIn DEF RefuseAuth, ServerPlaces
    <2>2. toClient' \in [Sessions -> Seq(Message)]
          BY <1>4, MsgIn, ServerSendsIn DEF RefuseAuth, Kinds
    <2> QED  BY <1>4, <2>1, <2>2 DEF TypeOK, RefuseAuth
  <1> QED  BY <1>1, <1>2, <1>3, <1>4

LEMMA RequestKeepsTypes ==
  ASSUME TypeOK, NEW s \in Sessions,
         \/ ReadBuildRequest(s) \/ ReadBuildPaths(s) \/ RefuseRequest(s) \/ Redeem(s)
         \/ RefuseTicket(s) \/ SendBuildQueued(s) \/ Start(s)
  PROVE  TypeOK'
  <1> USE DEF lists, cache, ticket, policy
  <1>1. CASE ReadBuildRequest(s)
    <2>1. srv' \in [Sessions -> ServerPlaces] /\ toServer' \in [Sessions -> Seq(Message)]
          BY <1>1, PlacesIn, ServerReadsIn DEF ReadBuildRequest, ServerPlaces, ServerReading
    <2> QED  BY <1>1, <2>1 DEF TypeOK, ReadBuildRequest
  <1>2. CASE ReadBuildPaths(s)
    <2>1. toServer' \in [Sessions -> Seq(Message)] /\ Head(toServer[s]) \in Message
          BY <1>2, ServerReadsIn DEF ReadBuildPaths
    <2>2. Extended(srvList[s], Head(toServer[s])) \in [chunks : Nat, paths : Nat]
          BY <2>1, ExtendedIn DEF TypeOK
    <2>3. srvList' = [srvList EXCEPT ![s] = Extended(@, Head(toServer[s]))]
          BY <1>2 DEF ReadBuildPaths
    <2>4. srvList' \in [Sessions -> [chunks : Nat, paths : Nat]]
          BY <2>2, <2>3 DEF TypeOK
    <2>5. srv' \in [Sessions -> ServerPlaces]
          BY <1>2 DEF TypeOK, ReadBuildPaths, ServerPlaces
    <2> QED  BY <1>2, <2>1, <2>4, <2>5 DEF TypeOK, ReadBuildPaths
  <1>3. CASE RefuseRequest(s)
    <2>1. srv' \in [Sessions -> ServerPlaces] /\ toServer' \in [Sessions -> Seq(Message)]
          BY <1>3, PlacesIn, ServerReadsIn DEF RefuseRequest, ServerPlaces
    <2>2. toClient' \in [Sessions -> Seq(Message)]
          BY <1>3, MsgIn, ServerSendsIn DEF RefuseRequest, Kinds
    <2> QED  BY <1>3, <2>1, <2>2 DEF TypeOK, RefuseRequest
  <1>4. CASE Redeem(s)
    <2>1. srv' \in [Sessions -> ServerPlaces]
          BY <1>4, PlacesIn DEF Redeem, ServerPlaces
    <2>2. uses' \in Nat  BY <1>4 DEF TypeOK, Redeem, CheckTicket
    <2> QED  BY <1>4, <2>1, <2>2 DEF TypeOK, Redeem
  <1>5. CASE RefuseTicket(s)
    <2>1. srv' \in [Sessions -> ServerPlaces] /\ toClient' \in [Sessions -> Seq(Message)]
          BY <1>5, PlacesIn, MsgIn, ServerSendsIn DEF RefuseTicket, ServerPlaces, Kinds
    <2> QED  BY <1>5, <2>1 DEF TypeOK, RefuseTicket
  <1>6. CASE SendBuildQueued(s)
    <2>1. srv' \in [Sessions -> ServerPlaces] /\ toClient' \in [Sessions -> Seq(Message)]
          BY <1>6, PlacesIn, MsgIn, ServerSendsIn DEF SendBuildQueued, ServerPlaces, Kinds
    <2> QED  BY <1>6, <2>1 DEF TypeOK, SendBuildQueued
  <1>7. CASE Start(s)
    <2>1. srv' \in [Sessions -> ServerPlaces]
          BY <1>7, PlacesIn DEF Start, ServerPlaces, Running
    <2> QED  BY <1>7, <2>1 DEF TypeOK, Start
  <1> QED  BY <1>1, <1>2, <1>3, <1>4, <1>5, <1>6, <1>7

\* The handler once it has a permit.
LEMMA BuildKeepsTypes ==
  ASSUME TypeOK, NEW s \in Sessions,
         \/ SendMissingPaths(s) \/ OfferUpload(s) \/ AcceptUpload(s) \/ ImportInputs(s)
         \/ SendBuildStarted(s) \/ SendLog(s) \/ FinishBuild(s) \/ SendOutputClosure(s)
  PROVE  TypeOK'
  <1> USE DEF lists, cache, ticket, policy
  <1>1. CASE SendMissingPaths(s)
    <2>1. PICK n \in SomeOf(srvList[s].paths) :
              /\ missing' = [missing EXCEPT ![s] = n]
              /\ ServerSends(s, PathList("MissingPaths", n))
              /\ ServerGoes(s, IF n = 0 THEN "start build" ELSE "offer")
          BY <1>1 DEF SendMissingPaths
    <2>2. n \in Nat  BY SessionAssumption DEF SomeOf
    <2>3. PathList("MissingPaths", n) \in Seq(Message)  BY <2>2, ListIn DEF Kinds
    <2>4. srv' \in [Sessions -> ServerPlaces] /\ toClient' \in [Sessions -> Seq(Message)]
          BY <2>1, <2>3, PlacesIn, ServerSendsIn DEF ServerPlaces, Running
    <2>5. missing' \in [Sessions -> Nat]  BY <2>1, <2>2 DEF TypeOK
    <2> QED  BY <1>1, <2>4, <2>5 DEF TypeOK, SendMissingPaths, NoChunks
  <1>2. CASE OfferUpload(s)
    <2>1. srv' \in [Sessions -> ServerPlaces] /\ toClient' \in [Sessions -> Seq(Message)]
          BY <1>2, PlacesIn, MsgIn, ServerSendsIn DEF OfferUpload, ServerPlaces, Running, Kinds
    <2> QED  BY <1>2, <2>1 DEF TypeOK, OfferUpload
  <1>3. CASE AcceptUpload(s) \/ ImportInputs(s)
    <2>1. srv' \in [Sessions -> ServerPlaces]
          BY <1>3, PlacesIn DEF AcceptUpload, ImportInputs, ServerPlaces, Running
    <2> QED  BY <1>3, <2>1 DEF TypeOK, AcceptUpload, ImportInputs
  <1>4. CASE SendBuildStarted(s)
    <2>1. srv' \in [Sessions -> ServerPlaces] /\ toClient' \in [Sessions -> Seq(Message)]
          BY <1>4, PlacesIn, MsgIn, ServerSendsIn DEF SendBuildStarted, ServerPlaces, Running, Kinds
    <2> QED  BY <1>4, <2>1 DEF TypeOK, SendBuildStarted
  <1>5. CASE SendLog(s)
    <2>1. toClient' \in [Sessions -> Seq(Message)]
          BY <1>5, MsgIn, ServerSendsIn DEF SendLog, Kinds
    <2> QED  BY <1>5, <2>1 DEF TypeOK, SendLog
  <1>6. CASE FinishBuild(s)
    <2>1. PICK success \in BOOLEAN :
              /\ ServerSends(s, <<BuildFinished(success)>>)
              /\ result' = IF success THEN result ELSE [result EXCEPT ![s] = "failed"]
              /\ ServerGoes(s, IF success THEN "exporting" ELSE "record")
          BY <1>6 DEF FinishBuild
    <2>2. srv' \in [Sessions -> ServerPlaces] /\ toClient' \in [Sessions -> Seq(Message)]
          BY <2>1, PlacesIn, MsgIn, ServerSendsIn DEF ServerPlaces, Running
    <2>3. result' \in [Sessions -> {"none", "success", "failed", "error"}]  BY <2>1 DEF TypeOK
    <2> QED  BY <1>6, <2>2, <2>3 DEF TypeOK, FinishBuild
  <1>7. CASE SendOutputClosure(s)
    <2>1. PICK n \in ClosureSizes : ServerSends(s, PathList("OutputClosure", n))
          BY <1>7 DEF SendOutputClosure
    <2>2. PathList("OutputClosure", n) \in Seq(Message)
          BY SessionAssumption, ListIn DEF ClosureSizes, Kinds
    <2>3. srv' \in [Sessions -> ServerPlaces] /\ toClient' \in [Sessions -> Seq(Message)]
          BY <1>7, <2>1, <2>2, PlacesIn, ServerSendsIn DEF SendOutputClosure, ServerPlaces, Running
    <2> QED  BY <1>7, <2>3 DEF TypeOK, SendOutputClosure
  <1> QED  BY <1>1, <1>2, <1>3, <1>4, <1>5, <1>6, <1>7

\* The handler from the list of wanted outputs to its end.
LEMMA ExportKeepsTypes ==
  ASSUME TypeOK, NEW s \in Sessions,
         \/ ReadOutputRequest(s) \/ AcceptStream(s) \/ JoinTask(s) \/ ServeFile(s)
         \/ ReadLength(s) \/ ReadOutputCacheDone(s) \/ FinishExport(s)
         \/ Record(s) \/ Close(s)
  PROVE  TypeOK'
  <1> USE DEF lists, cache, ticket, policy
  <1>1. CASE ReadOutputRequest(s)
    <2>1. toServer' \in [Sessions -> Seq(Message)] /\ Head(toServer[s]) \in Message
          BY <1>1, ServerReadsIn DEF ReadOutputRequest
    <2> DEFINE list == Extended(srvList[s], Head(toServer[s]))
    <2>2. list \in [chunks : Nat, paths : Nat]
          BY <2>1, ExtendedIn DEF TypeOK
    <2>3. \/ /\ srvList' = [srvList EXCEPT ![s] = list]
             /\ UNCHANGED <<srv, toClient, result>>
          \/ /\ srvList' = [srvList EXCEPT ![s] = NoChunks]
             /\ \/ /\ ServerSends(s, <<Msg("Done")>>)
                   /\ result' = [result EXCEPT ![s] = "success"]
                   /\ ServerGoes(s, "record")
                \/ /\ ServerSends(s, <<Msg("OutputCacheReady")>>)
                   /\ ServerGoes(s, "serving")
                   /\ UNCHANGED result
          BY <1>1 DEF ReadOutputRequest
    <2> HIDE DEF list
    <2>4. /\ srv' \in [Sessions -> ServerPlaces] /\ toClient' \in [Sessions -> Seq(Message)]
          /\ result' \in [Sessions -> {"none", "success", "failed", "error"}]
          BY <2>3, PlacesIn, MsgIn, ServerSendsIn DEF TypeOK, ServerPlaces, Running, ServerReading, Kinds
    <2>5. NoChunks \in [chunks : Nat, paths : Nat]  BY DEF NoChunks
    <2>6. srvList' \in [Sessions -> [chunks : Nat, paths : Nat]]
          BY <2>2, <2>3, <2>5 DEF TypeOK
    <2> QED  BY <1>1, <2>1, <2>4, <2>6 DEF TypeOK, ReadOutputRequest
  <1>2. CASE AcceptStream(s) \/ JoinTask(s) \/ ServeFile(s)
    <2>1. doneRead' \in [Sessions -> {"none", "part", "garbled", "starved"}]
      <3>1. DropRead(s) \/ UNCHANGED doneRead  BY <1>2 DEF AcceptStream, JoinTask, ServeFile
      <3>2. DropRead(s) => doneRead' \in [Sessions -> {"none", "part", "garbled", "starved"}]
            BY DEF TypeOK, DropRead
      <3> QED  BY <3>1, <3>2 DEF TypeOK
    <2>2. stream' \in [Sessions -> {"none", "asked", "task", "answered", "broken", "joined", "lost"}]
      <3>1. \E v \in {"task", "answered", "broken", "joined", "lost"} :
                stream' = [stream EXCEPT ![s] = v]
            BY <1>2 DEF AcceptStream, JoinTask, ServeFile
      <3> QED  BY <3>1 DEF TypeOK
    <2>3. UNCHANGED <<cli, srv, link, toServer, toClient, lists, missing, upload, imported, result, ticket, policy, busy, crashes>>
          BY <1>2 DEF AcceptStream, JoinTask, ServeFile
    <2> QED  BY <2>1, <2>2, <2>3, ZenonT(60) DEF TypeOK
  <1>3. CASE ReadLength(s)
    <2>1. toServer' \in [Sessions -> Seq(Message)]  BY <1>3, ServerReadsIn DEF ReadLength
    <2> QED  BY <1>3, <2>1 DEF TypeOK, ReadLength
  <1>4. CASE ReadOutputCacheDone(s)
    <2>1. srv' \in [Sessions -> ServerPlaces] /\ toServer' \in [Sessions -> Seq(Message)]
          BY <1>4, PlacesIn, ServerReadsIn DEF ReadOutputCacheDone, ServerPlaces, Running
    <2> QED  BY <1>4, <2>1 DEF TypeOK, ReadOutputCacheDone
  <1>5. CASE FinishExport(s)
    <2>1. srv' \in [Sessions -> ServerPlaces] /\ toClient' \in [Sessions -> Seq(Message)]
          BY <1>5, PlacesIn, MsgIn, ServerSendsIn DEF FinishExport, ServerPlaces, Kinds
    <2> QED  BY <1>5, <2>1 DEF TypeOK, FinishExport
  <1>6. CASE Record(s)
    <2>1. toClient' = toClient \/ ServerSends(s, <<Msg("Error")>>)  BY <1>6 DEF Record
    <2>2. srv' \in [Sessions -> ServerPlaces] /\ toClient' \in [Sessions -> Seq(Message)]
          BY <1>6, <2>1, PlacesIn, MsgIn, ServerSendsIn DEF TypeOK, Record, ServerPlaces, Kinds
    <2> QED  BY <1>6, <2>2 DEF TypeOK, Record
  <1>7. CASE Close(s)
    <2>1. Queues' /\ srv' \in [Sessions -> ServerPlaces]
          BY <1>7, ServerHangsUpIn, PlacesIn DEF Close, ServerPlaces, ServerEnds
    <2> QED  BY <1>7, <2>1 DEF TypeOK, Queues, Close
  <1> QED  BY <1>1, <1>2, <1>3, <1>4, <1>5, <1>6, <1>7

LEMMA FailureKeepsTypes ==
  ASSUME TypeOK, NEW s \in Sessions,
         Garbled(s) \/ ServerTimeout(s) \/ StepFails(s) \/ NixFails(s)
  PROVE  TypeOK'
  <1>1. ASSUME FailRun(s), UNCHANGED toServer PROVE TypeOK'
        BY <1>1, FailRunKeepsTypes DEF TypeOK
  <1>2. CASE Garbled(s)
        BY <1>2, ServerReadsIn, FailRunKeepsTypes DEF Garbled
  <1>3. CASE ServerTimeout(s)
    <2>1. \/ Drop(s)
          \/ FailRun(s) /\ UNCHANGED toServer
          \/ /\ ServerSends(s, <<Msg("Error")>>)
             /\ ServerGoes(s, "closing")
             /\ UNCHANGED <<cli, link, toServer, lists, missing, upload, cache, result, ticket, policy, busy, crashes>>
          BY <1>3 DEF ServerTimeout
    <2>2. ASSUME ServerSends(s, <<Msg("Error")>>), ServerGoes(s, "closing"),
                 UNCHANGED <<cli, link, toServer, lists, missing, upload, cache, result, ticket, policy, busy, crashes>>
          PROVE  TypeOK'
      <3>1. srv' \in [Sessions -> ServerPlaces] /\ toClient' \in [Sessions -> Seq(Message)]
            BY <2>2, PlacesIn, MsgIn, ServerSendsIn DEF ServerPlaces, Kinds
      <3> QED  BY <2>2, <3>1 DEF TypeOK, lists, cache, ticket, policy
    <2> QED  BY <1>1, <2>1, <2>2, DropKeepsTypes
  <1>4. CASE StepFails(s)
        BY <1>1, <1>4, DropKeepsTypes DEF StepFails
  <1>5. CASE NixFails(s)
        BY <1>1, <1>5 DEF NixFails
  <1> QED  BY <1>2, <1>3, <1>4, <1>5

\* Nobody's step: the network, other clients, a revocation and a crash.
LEMMA SurroundingsKeepTypes ==
  ASSUME TypeOK,
         \/ \E s \in Sessions : Lose(s)
         \/ Revoke \/ OtherRedeems \/ OtherStarts \/ OtherEnds \/ Crash
  PROVE  TypeOK'
  <1> USE DEF lists, cache, ticket, policy
  <1>1. ASSUME NEW s \in Sessions, Lose(s) PROVE TypeOK'
    <2>1. PICK q \in Reached(s, toServer) : toServer' = [toServer EXCEPT ![s] = q]
          BY <1>1 DEF Lose
    <2>2. PICK r \in Reached(s, toClient) : toClient' = [toClient EXCEPT ![s] = r]
          BY <1>1 DEF Lose
    <2>3. q \in Seq(Message) /\ r \in Seq(Message)  BY ReachedIn DEF TypeOK
    <2> QED  BY <1>1, <2>1, <2>2, <2>3 DEF TypeOK, Lose, Cut
  <1>2. CASE Revoke \/ OtherRedeems \/ OtherEnds
    <2>1. CASE Revoke  BY <2>1 DEF TypeOK, Revoke
    <2>2. CASE OtherRedeems  BY <2>2 DEF TypeOK, OtherRedeems, CheckTicket
    <2>3. CASE OtherEnds
      <3>1. busy' \in 0..MaxBuilds  BY <2>3, SessionAssumption DEF TypeOK, OtherEnds
      <3> QED  BY <2>3, <3>1 DEF TypeOK, OtherEnds
    <2> QED  BY <1>2, <2>1, <2>2, <2>3
  <1>3. CASE OtherStarts
    <2>1. Admitted \subseteq Sessions  BY DEF Admitted
    <2>2. Cardinality(Admitted) \in Nat
          BY <2>1, SessionAssumption, FS_Subset, FS_CardinalityType
    <2>3. busy' \in 0..MaxBuilds  BY <1>3, <2>2, SessionAssumption DEF TypeOK, OtherStarts
    <2> QED  BY <1>3, <2>3 DEF TypeOK, OtherStarts
  <1>4. CASE Crash
    <2>1. \A s \in Sessions : toClient'[s] \in Reached(s, toClient)  BY <1>4 DEF Crash
    <2>2. DOMAIN toClient' = Sessions /\ toClient' = [s \in Sessions |-> toClient'[s]]
          BY <1>4 DEF Crash
    <2>3. \A s \in Sessions : toClient'[s] \in Seq(Message)
          BY <2>1, ReachedIn DEF TypeOK
    <2>4. toClient' \in [Sessions -> Seq(Message)]  BY <2>2, <2>3
    <2>5. srv' \in [Sessions -> ServerPlaces]
          BY <1>4 DEF TypeOK, Crash, ServerPlaces, ServerEnds
    <2>6. <<>> \in Seq(Message)  BY EmptySeq
    <2>7. toServer' \in [Sessions -> Seq(Message)]  BY <1>4, <2>6 DEF Crash
    <2>8. link' \in [Sessions -> {"none", "up", "cut"}]  BY <1>4 DEF TypeOK, Crash
    <2>9. busy' \in 0..MaxBuilds /\ crashes' \in 0..MaxCrashes
          BY <1>4, SessionAssumption DEF TypeOK, Crash
    <2> QED  BY <1>4, <2>4, <2>5, <2>7, <2>8, <2>9 DEF TypeOK, Crash
  <1> QED  BY <1>1, <1>2, <1>3, <1>4

\* TypeOK: the two sides are at places of their code, the queues hold messages,
\* and no count is below zero or busy beyond the permits.
THEOREM SessionTypeCorrect == Spec => []TypeOK
  <1>1. Init => TypeOK
    <2> SUFFICES ASSUME Init PROVE TypeOK  OBVIOUS
    <2>1. <<>> \in Seq(Message)  BY EmptySeq
    <2>2. "start" \in ClientPlaces /\ "none" \in ServerPlaces
          BY DEF ClientPlaces, ClientBusy, ServerPlaces
    <2>3. NoChunks \in [chunks : Nat, paths : Nat]  BY DEF NoChunks
    <2>4. limit \in [Sessions -> SUBSET Limits]  BY DEF Init
    <2>5. busy \in 0..MaxBuilds /\ crashes \in 0..MaxCrashes /\ uses \in Nat
          BY SessionAssumption DEF Init
    <2> QED  BY <2>1, <2>2, <2>3, <2>4, <2>5 DEF Init, TypeOK
  <1>2. TypeOK /\ [Next]_vars => TypeOK'
    <2> SUFFICES ASSUME TypeOK, [Next]_vars PROVE TypeOK'  OBVIOUS
    <2>1. CASE UNCHANGED vars
          BY <2>1 DEF TypeOK, vars
    <2>2. ASSUME NEW s \in Sessions, Handler(s) \/ SendLog(s) \/ NixFails(s) PROVE TypeOK'
          BY <2>2, AuthKeepsTypes, RequestKeepsTypes, BuildKeepsTypes, ExportKeepsTypes,
             FailureKeepsTypes
          DEF Handler
    <2> QED  BY <2>1, <2>2, ClientKeepsTypes, SurroundingsKeepTypes DEF Next
  <1> QED  BY <1>1, <1>2, PTL DEF Spec

-----------------------------------------------------------------------------
\* Payment.  A handler that asks has not been taken up; past the authorization it
\* has a trusted client or one that shows the ticket, for only such a client sends
\* AuthTicket; and the uses add up.

Asking == {"none", "hello", "auth", "request", "paths", "redeem"}
Authorized == {"request", "paths", "redeem"}
Honest(s) == {m \in Message :
    m.type # "Error" /\ (m.type = "AuthTicket" => s \in ticketed)}

HonestQueues == \A s \in Sessions : toServer[s] \in Seq(Honest(s))

PaymentInv ==
    /\ \A s \in Sessions :
           /\ cli[s] \in {"start", "opening"} => srv[s] = "none"
           /\ srv[s] \in Asking => s \notin taken /\ result[s] = "none"
           /\ srv[s] \in Authorized => s \in trusted \cup ticketed
    /\ PaidFor

LEMMA HonestMessages ==
  ASSUME NEW s \in Sessions, NEW n \in Nat
  PROVE  /\ <<Msg("Hello"), AuthMessage(s)>> \in Seq(Honest(s))
         /\ <<Msg("BuildRequest")>> \o PathList("BuildPaths", n) \in Seq(Honest(s))
         /\ PathList("OutputRequest", n) \in Seq(Honest(s))
         /\ <<Msg(Length), Msg("OutputCacheDone")>> \in Seq(Honest(s))
         /\ <<>> \in Seq(Honest(s))
  <1>1. Msg("Hello") \in Honest(s) /\ AuthMessage(s) \in Honest(s)
        BY DEF Honest, AuthMessage, Msg, Message, Kinds
  <1>2. Msg("BuildRequest") \in Honest(s)  BY DEF Honest, Msg, Message, Kinds
  <1>3. \A type \in {"BuildPaths", "OutputRequest"} : PathList(type, n) \in Seq(Honest(s))
    <2> TAKE type \in {"BuildPaths", "OutputRequest"}
    <2>1. {m \in Message : m.type = type} \subseteq Honest(s)  BY DEF Honest
    <2>2. PathList(type, n) \in Seq({m \in Message : m.type = type})  BY PathListIn DEF Kinds
    <2> QED  BY <2>1, <2>2, SeqMonotonic
  <1>4. <<Msg("BuildRequest")>> \in Seq(Honest(s))  BY <1>2
  <1>5. <<Msg("BuildRequest")>> \o PathList("BuildPaths", n) \in Seq(Honest(s))
        BY <1>3, <1>4, ConcatProperties
  <1>6. Msg(Length) \in Honest(s) /\ Msg("OutputCacheDone") \in Honest(s)
        BY DEF Honest, Msg, Message, Kinds, Length
  <1>7. <<>> \in Seq(Honest(s))  BY EmptySeq
  <1> QED  BY <1>1, <1>3, <1>5, <1>6, <1>7

\* What the steps on the client's queue do for any set of messages.
LEMMA ToServer ==
  ASSUME TypeOK, NEW s \in Sessions, HonestQueues,
         UNCHANGED ticketed,
         \/ UNCHANGED toServer
         \/ \E type \in Kinds \cup {Length} : ServerReads(s, type)
         \/ \E msgs \in Seq(Honest(s)) : ClientSends(s, msgs)
         \/ ClientHangsUp(s) \/ ServerHangsUp(s)
         \/ toServer' \in {[toServer EXCEPT ![s] = q] : q \in Reached(s, toServer)}
  PROVE  HonestQueues'
  <1>1. Honest(s)' = Honest(s) /\ \A t \in Sessions : Honest(t)' = Honest(t)
        BY DEF Honest
  <1>2. ASSUME NEW q \in Seq(Honest(s)), toServer' = [toServer EXCEPT ![s] = q]
        PROVE  HonestQueues'
    <2>1. \A t \in Sessions : toServer'[t] = IF t = s THEN q ELSE toServer[t]
          BY <1>2 DEF TypeOK
    <2> QED  BY <1>1, <2>1 DEF HonestQueues
  <1>3. toServer[s] \in Seq(Honest(s))  BY DEF HonestQueues
  <1>4. CASE UNCHANGED toServer  BY <1>1, <1>4 DEF HonestQueues
  <1>5. ASSUME NEW type, ServerReads(s, type) PROVE HonestQueues'
    <2>1. Tail(toServer[s]) \in Seq(Honest(s))
          BY <1>3, <1>5, HeadTailProperties DEF ServerReads
    <2> QED  BY <1>2, <1>5, <2>1 DEF ServerReads
  <1>6. ASSUME NEW msgs \in Seq(Honest(s)), ClientSends(s, msgs) PROVE HonestQueues'
    <2>1. toServer[s] \o msgs \in Seq(Honest(s))  BY <1>3, ConcatProperties
    <2> QED  BY <1>2, <1>6, <2>1 DEF ClientSends
  <1>7. ASSUME toServer' \in {[toServer EXCEPT ![s] = q] : q \in Reached(s, toServer)}
        PROVE  HonestQueues'
    <2>1. PICK q \in Reached(s, toServer) : toServer' = [toServer EXCEPT ![s] = q]
          BY <1>7
    <2>2. q \in Seq(Honest(s))  BY <1>3, ReachedIn
    <2> QED  BY <1>2, <2>1, <2>2
  <1>8. CASE ServerHangsUp(s)
    <2>1. <<>> \in Seq(Honest(s))  BY EmptySeq
    <2> QED  BY <1>2, <1>8, <2>1 DEF ServerHangsUp
  <1>9. CASE ClientHangsUp(s)  BY <1>7, <1>9 DEF ClientHangsUp
  <1> QED  BY <1>4, <1>5, <1>6, <1>7, <1>8, <1>9

LEMMA ClientIsHonest ==
  ASSUME TypeOK, HonestQueues, NEW s \in Sessions, Client(s) \/ GiveUp(s)
  PROVE  HonestQueues'
  <1> USE DEF policy, ticket, cache, lists
  <1>1. CASE Open(s)
    <2>1. \A t \in Sessions : toServer'[t] = IF t = s THEN <<Msg("Hello"), AuthMessage(s)>>
                                             ELSE toServer[t]
          BY <1>1 DEF Open, TypeOK
    <2>2. \A t \in Sessions : Honest(t)' = Honest(t)  BY <1>1 DEF Open, Honest
    <2> QED  BY <2>1, <2>2, HonestMessages DEF HonestQueues
  <1>2. CASE SendBuildRequest(s)
    <2>1. PICK n \in ClosureSizes : ClientSends(s, <<Msg("BuildRequest")>> \o PathList("BuildPaths", n))
          BY <1>2 DEF SendBuildRequest
    <2>2. n \in Nat  BY SessionAssumption DEF ClosureSizes
    <2> QED  BY <1>2, <2>1, <2>2, HonestMessages, ToServer DEF SendBuildRequest
  <1>3. CASE RequestOutputs(s)
    <2>1. PICK n \in ListSizes : ClientSends(s, PathList("OutputRequest", n))
          BY <1>3 DEF RequestOutputs, SomeOf
    <2> QED  BY <1>3, <2>1, SessionAssumption, HonestMessages, ToServer DEF RequestOutputs
  <1>4. CASE SendOutputCacheDone(s)
    BY <1>4, HonestMessages, ToServer DEF SendOutputCacheDone
  <1>5. CASE ReadBuildFinished(s) \/ ReadDone(s)
    BY <1>5, ToServer DEF ReadBuildFinished, ReadDone
  <1>6. CASE SeeError(s) \/ PathListTimeout(s) \/ SendFails(s) \/ GiveUp(s)
    BY <1>6, ToServer DEF SeeError, PathListTimeout, SendFails, GiveUp, Leave
  <1>7. CASE \/ FindLocalOutputs(s) \/ ResolveOutputs(s) \/ ReadAuthOk(s) \/ Preflight(s)
             \/ ReadBuildQueued(s) \/ ReadChunk(s) \/ ReadMissingPaths(s) \/ ReadUploadReady(s)
             \/ FinishUpload(s) \/ ReadBuildMessage(s) \/ ReadOutputCacheReady(s)
             \/ OpenCacheStream(s)
    <2>1. UNCHANGED <<toServer, ticketed>>
          BY <1>7
          DEF FindLocalOutputs, ResolveOutputs, ReadAuthOk, Preflight, ReadBuildQueued,
              ReadChunk, ReadMissingPaths, ReadUploadReady, FinishUpload, ReadBuildMessage,
              ReadOutputCacheReady, OpenCacheStream
    <2> QED  BY <2>1, ToServer
  <1> QED  BY <1>1, <1>2, <1>3, <1>4, <1>5, <1>6, <1>7 DEF Client

LEMMA HandlerIsHonest ==
  ASSUME TypeOK, HonestQueues, NEW s \in Sessions, Handler(s) \/ SendLog(s) \/ NixFails(s)
  PROVE  HonestQueues'
  <1> USE DEF policy, ticket, cache, lists
  <1>1. CASE \/ ReadHello(s) \/ AuthorizeTrusted(s) \/ AuthorizeTicket(s) \/ RefuseAuth(s)
             \/ ReadBuildRequest(s) \/ ReadBuildPaths(s) \/ RefuseRequest(s)
    <2>1. UNCHANGED ticketed /\ \E type \in Kinds \cup {Length} : ServerReads(s, type)
          BY <1>1
          DEF ReadHello, AuthorizeTrusted, AuthorizeTicket, RefuseAuth, ReadBuildRequest,
              ReadBuildPaths, RefuseRequest, Kinds
    <2> QED  BY <2>1, ToServer
  <1>2. CASE ReadOutputRequest(s) \/ ReadLength(s) \/ ReadOutputCacheDone(s) \/ Garbled(s)
    <2>1. UNCHANGED ticketed /\ \E type \in Kinds \cup {Length} : ServerReads(s, type)
          BY <1>2
          DEF ReadOutputRequest, ReadLength, ReadOutputCacheDone, Garbled, FailRun, Kinds
    <2> QED  BY <2>1, ToServer
  <1>3. CASE \/ BadLimit(s) \/ Close(s) \/ ServerTimeout(s) \/ StepFails(s) \/ NixFails(s)
    <2>1. UNCHANGED ticketed /\ (UNCHANGED toServer \/ ServerHangsUp(s))
          BY <1>3 DEF BadLimit, Close, Drop, ServerTimeout, StepFails, NixFails, FailRun
    <2> QED  BY <2>1, ToServer
  <1>4. CASE \/ Redeem(s) \/ RefuseTicket(s) \/ SendBuildQueued(s) \/ Start(s)
             \/ SendMissingPaths(s) \/ OfferUpload(s) \/ AcceptUpload(s) \/ ImportInputs(s)
             \/ SendBuildStarted(s) \/ SendLog(s) \/ FinishBuild(s) \/ SendOutputClosure(s)
             \/ AcceptStream(s) \/ JoinTask(s) \/ ServeFile(s) \/ FinishExport(s) \/ Record(s)
    <2>1. UNCHANGED <<toServer, ticketed>>
          BY <1>4
          DEF Redeem, RefuseTicket, SendBuildQueued, Start, SendMissingPaths, OfferUpload,
              AcceptUpload, ImportInputs, SendBuildStarted, SendLog, FinishBuild,
              SendOutputClosure, AcceptStream, JoinTask, ServeFile, FinishExport, Record
    <2> QED  BY <2>1, ToServer
  <1> QED  BY <1>1, <1>2, <1>3, <1>4 DEF Handler

LEMMA HonestInvariant == Spec => []HonestQueues
  <1>1. Init => HonestQueues
    <2>1. \A s \in Sessions : <<>> \in Seq(Honest(s))  BY EmptySeq
    <2> QED  BY <2>1 DEF Init, HonestQueues
  <1>2. TypeOK /\ HonestQueues /\ [Next]_vars => HonestQueues'
    <2> SUFFICES ASSUME TypeOK, HonestQueues, [Next]_vars PROVE HonestQueues'  OBVIOUS
    <2> USE DEF policy, ticket, cache, lists
    <2>1. ASSUME NEW s \in Sessions, Lose(s) PROVE HonestQueues'
          BY <2>1, ToServer DEF Lose
    <2>2. CASE Revoke \/ OtherRedeems \/ OtherStarts \/ OtherEnds
          BY <2>2 DEF Revoke, OtherRedeems, OtherStarts, OtherEnds, HonestQueues, Honest
    <2>3. CASE Crash
      <3>1. \A s \in Sessions : toServer'[s] = <<>>  BY <2>3 DEF Crash
      <3>2. \A s \in Sessions : <<>> \in Seq(Honest(s)')  BY EmptySeq
      <3> QED  BY <3>1, <3>2 DEF HonestQueues
    <2>4. CASE UNCHANGED vars  BY <2>4 DEF vars, HonestQueues, Honest
    <2> QED  BY <2>1, <2>2, <2>3, <2>4, ClientIsHonest, HandlerIsHonest DEF Next
  <1> QED  BY <1>1, <1>2, SessionTypeCorrect, PTL DEF Spec

LEMMA ClientMovesPaid ==
  ASSUME TypeOK, PaymentInv,
         UNCHANGED <<srv, result, trusted, ticketed, uses, taken, others>>,
         \A s \in Sessions : cli'[s] \in {"start", "opening"} => cli[s] \in {"start", "opening"}
  PROVE  PaymentInv'
  BY DEF PaymentInv, PaidFor, TakenUp

\* The handler moves on, of a request that was not taken up or of one that was.
LEMMA HandlerMovesPaid ==
  ASSUME TypeOK, PaymentInv, NEW s \in Sessions, NEW place \in ServerPlaces,
         ServerGoes(s, place),
         UNCHANGED <<cli, trusted, ticketed, uses, taken, others>>,
         \/ UNCHANGED result
         \/ s \in taken /\ \E r \in {"success", "failed", "error"} : result' = [result EXCEPT ![s] = r],
         srv[s] # "none",
         place \in Asking => place # "none" /\ srv[s] \in Asking,
         place \in Authorized => s \in trusted \cup ticketed,
         place \in {"enqueue", "waiting", "record"} \cup Running => s \in taken
  PROVE  PaymentInv'
  <1>1. \A t \in Sessions : srv'[t] = IF t = s THEN place ELSE srv[t]
        BY DEF TypeOK, ServerGoes
  <1>2. \A t \in Sessions : t # s => result'[t] = result[t]
        BY DEF TypeOK
  <1>3. s \notin taken => result'[s] = "none"
        BY DEF TypeOK, PaymentInv, PaidFor, TakenUp
  <1>4. ASSUME NEW t \in Sessions
        PROVE  /\ cli[t] \in {"start", "opening"} => srv'[t] = "none"
               /\ srv'[t] \in Asking => t \notin taken /\ result'[t] = "none"
               /\ srv'[t] \in Authorized => t \in trusted \cup ticketed
        BY <1>1, <1>2, <1>3 DEF PaymentInv
  <1>5. \A t \in Sessions : TakenUp(t)' => t \in taken
        BY <1>1, <1>2, <1>3 DEF PaymentInv, PaidFor, TakenUp
  <1> QED  BY <1>4, <1>5 DEF PaymentInv, PaidFor

LEMMA FailRunPaid ==
  ASSUME TypeOK, PaymentInv, NEW s \in Sessions, srv[s] \in Running, FailRun(s)
  PROVE  PaymentInv'
  <1>1. s \in taken  BY DEF PaymentInv, PaidFor, TakenUp
  <1>2. "record" \in ServerPlaces /\ "record" \notin Asking /\ "record" \notin Authorized
        BY DEF ServerPlaces, Asking, Authorized
  <1>3. srv[s] # "none"  BY DEF Running
  <1> QED  BY <1>1, <1>2, <1>3, HandlerMovesPaid DEF FailRun, ticket, policy

LEMMA DropPaid ==
  ASSUME TypeOK, PaymentInv, NEW s \in Sessions, srv[s] # "none", Drop(s)
  PROVE  PaymentInv'
  BY HandlerMovesPaid
  DEF Drop, ServerPlaces, ServerEnds, Asking, Authorized, Running, ticket, policy

\* AuthorizeTrusted and AuthorizeTicket: who is let in can pay or need not.
LEMMA AuthorizePaid ==
  ASSUME TypeOK, HonestQueues, PaymentInv, NEW s \in Sessions,
         AuthorizeTrusted(s) \/ AuthorizeTicket(s)
  PROVE  PaymentInv'
  <1>1. s \in trusted \cup ticketed
    <2>1. CASE AuthorizeTrusted(s)  BY <2>1 DEF AuthorizeTrusted, Named
    <2>2. CASE AuthorizeTicket(s)
      <3>1. toServer[s] \in Seq(Honest(s)) /\ toServer[s] # <<>>
            /\ Head(toServer[s]).type = "AuthTicket"
            BY <2>2 DEF AuthorizeTicket, ServerReads, HonestQueues
      <3>2. Head(toServer[s]) \in Honest(s)  BY <3>1, HeadTailProperties
      <3> QED  BY <3>1, <3>2 DEF Honest
    <2> QED  BY <2>1, <2>2
  <1>2. /\ srv[s] = "auth" /\ ServerGoes(s, "request")
        /\ UNCHANGED <<cli, result, trusted, ticketed, uses, taken, others>>
        BY DEF AuthorizeTrusted, AuthorizeTicket, ticket, policy
  <1>3. "request" \in ServerPlaces /\ "request" \notin Running /\ "request" # "none"
        /\ "auth" \in Asking
        BY DEF ServerPlaces, ServerReading, Running, Asking
  <1> QED  BY <1>1, <1>2, <1>3, HandlerMovesPaid

\* redeem_ticket_if_needed: one use, of a session that has not spent one.
LEMMA RedeemPaid ==
  ASSUME TypeOK, PaymentInv, NEW s \in Sessions, Redeem(s)
  PROVE  PaymentInv'
  <1>1. /\ s \notin taken /\ result[s] = "none" /\ s \in trusted \cup ticketed
        /\ cli[s] \notin {"start", "opening"}
        BY DEF PaymentInv, Redeem, Asking, Authorized
  <1>2. /\ taken' = taken \cup {s}
        /\ UNCHANGED <<cli, result, trusted, ticketed, others>>
        BY DEF Redeem, policy
  <1>3. \A t \in Sessions : srv'[t] = IF t = s THEN "enqueue" ELSE srv[t]
        BY DEF Redeem, TypeOK, ServerGoes
  <1>4. "enqueue" \notin Asking /\ "enqueue" \notin Authorized
        BY DEF Asking, Authorized
  <1>5. \A t \in Sessions :
            /\ cli'[t] \in {"start", "opening"} => srv'[t] = "none"
            /\ srv'[t] \in Asking => t \notin taken' /\ result'[t] = "none"
            /\ srv'[t] \in Authorized => t \in trusted' \cup ticketed'
            /\ TakenUp(t)' => t \in taken'
        BY <1>1, <1>2, <1>3, <1>4 DEF PaymentInv, PaidFor, TakenUp
  <1>6. taken' \subseteq trusted' \cup ticketed'
        BY <1>1, <1>2 DEF PaymentInv, PaidFor
  <1> DEFINE P == taken \cap ticketed
  <1>7. IsFiniteSet(P) /\ Cardinality(P) \in Nat
    <2>1. P \subseteq Sessions  BY DEF TypeOK
    <2> QED  BY <2>1, SessionAssumption, FS_Subset, FS_CardinalityType
  <1>8. uses' + others' + Cardinality(taken' \cap ticketed') = TicketUses
    <2>1. uses + others + Cardinality(P) = TicketUses  BY DEF PaymentInv, PaidFor
    <2>2. CASE s \notin ticketed /\ UNCHANGED uses
      <3>1. taken' \cap ticketed' = P  BY <1>2, <2>2
      <3> QED  BY <1>2, <2>1, <2>2, <3>1
    <2>3. CASE s \in ticketed /\ uses' = uses - 1
      <3>1. taken' \cap ticketed' = P \cup {s} /\ s \notin P  BY <1>1, <1>2, <2>3
      <3>2. Cardinality(taken' \cap ticketed') = Cardinality(P) + 1
            BY <1>7, <3>1, FS_AddElement
      <3> HIDE DEF P
      <3> QED  BY <1>2, <1>7, <2>1, <2>3, <3>2, SessionAssumption DEF TypeOK
    <2> QED  BY <2>2, <2>3 DEF Redeem
  <1> QED  BY <1>5, <1>6, <1>8 DEF PaymentInv, PaidFor

LEMMA ClientPays ==
  ASSUME TypeOK, PaymentInv, NEW s \in Sessions, Client(s) \/ GiveUp(s)
  PROVE  PaymentInv'
  <1> USE DEF policy, ticket, cache, lists
  <1>1. CASE Open(s)
    <2>1. srv[s] = "none" /\ s \notin taken /\ result[s] = "none"
          BY <1>1 DEF PaymentInv, Open, Asking
    <2>2. \A t \in Sessions : /\ srv'[t] = IF t = s THEN "hello" ELSE srv[t]
                              /\ cli'[t] = IF t = s THEN "await auth" ELSE cli[t]
          BY <1>1 DEF Open, TypeOK, ServerGoes, ClientGoes
    <2>3. UNCHANGED <<result, trusted, ticketed, uses, taken, others>>  BY <1>1 DEF Open
    <2>4. "hello" \notin Authorized /\ "hello" \notin Running
          BY DEF Authorized, Running
    <2> QED  BY <2>1, <2>2, <2>3, <2>4 DEF PaymentInv, PaidFor, TakenUp
  <1>2. CASE Client(s) /\ ~Open(s)
    <2>1. UNCHANGED <<srv, result, trusted, ticketed, uses, taken, others>>
          BY <1>2
          DEF Client, FindLocalOutputs, ResolveOutputs, ReadAuthOk, Preflight, SendBuildRequest,
              ReadBuildQueued, ReadChunk, ReadMissingPaths, ReadUploadReady, FinishUpload,
              ReadBuildMessage, ReadBuildFinished, RequestOutputs, ReadOutputCacheReady,
              OpenCacheStream, SendOutputCacheDone, ReadDone, SeeError, PathListTimeout,
              SendFails, Leave
    <2>2. \/ UNCHANGED cli
          \/ cli[s] = "start" /\ ClientGoes(s, "opening")
          \/ \E place \in ClientPlaces \ {"start", "opening"} : ClientGoes(s, place)
      <3>1. CASE \/ FindLocalOutputs(s) \/ ResolveOutputs(s) \/ ReadAuthOk(s) \/ Preflight(s)
                 \/ SendBuildRequest(s) \/ ReadBuildQueued(s) \/ ReadUploadReady(s)
                 \/ FinishUpload(s) \/ RequestOutputs(s) \/ ReadOutputCacheReady(s)
                 \/ SendOutputCacheDone(s)
            BY <3>1
            DEF FindLocalOutputs, ResolveOutputs, ReadAuthOk, Preflight, SendBuildRequest,
                ReadBuildQueued, ReadUploadReady, FinishUpload, RequestOutputs,
                ReadOutputCacheReady, SendOutputCacheDone, ClientPlaces, ClientReading,
                ClientBusy, ClientEnds
      <3>2. CASE ReadMissingPaths(s)
        <4>1. ClientGoes(s, "await build") \/ ClientGoes(s, "await upload")
              BY <3>2 DEF ReadMissingPaths
        <4> QED  BY <4>1 DEF ClientPlaces, ClientReading
      <3>3. CASE ReadBuildFinished(s)
        <4>1. ClientGoes(s, "await closure") \/ ClientGoes(s, "build failed")
              BY <3>3 DEF ReadBuildFinished
        <4> QED  BY <4>1 DEF ClientPlaces, ClientReading, ClientEnds
      <3>4. CASE ReadDone(s)
        <4>1. ClientGoes(s, "success") \/ ClientGoes(s, "failed")  BY <3>4 DEF ReadDone
        <4> QED  BY <4>1 DEF ClientPlaces, ClientEnds
      <3>5. CASE SeeError(s) \/ PathListTimeout(s) \/ SendFails(s)
        <4>1. ClientGoes(s, "failed")
              BY <3>5 DEF SeeError, PathListTimeout, SendFails, Leave
        <4> QED  BY <4>1 DEF ClientPlaces, ClientEnds
      <3>6. CASE ReadChunk(s) \/ ReadBuildMessage(s) \/ OpenCacheStream(s)
            BY <3>6 DEF ReadChunk, ReadBuildMessage, OpenCacheStream
      <3> QED  BY <1>2, <3>1, <3>2, <3>3, <3>4, <3>5, <3>6 DEF Client
    <2>3. \A t \in Sessions : cli'[t] \in {"start", "opening"} => cli[t] \in {"start", "opening"}
          BY <2>2 DEF ClientGoes, TypeOK
    <2> QED  BY <2>1, <2>3, ClientMovesPaid
  <1>3. CASE GiveUp(s)
    <2>1. UNCHANGED <<srv, result, trusted, ticketed, uses, taken, others>>
          BY <1>3 DEF GiveUp, Leave
    <2>2. \A t \in Sessions : cli'[t] \in {"start", "opening"} => cli[t] \in {"start", "opening"}
          BY <1>3 DEF GiveUp, Leave, ClientGoes, TypeOK
    <2> QED  BY <2>1, <2>2, ClientMovesPaid
  <1> QED  BY <1>1, <1>2, <1>3

LEMMA HandlerPays ==
  ASSUME TypeOK, HonestQueues, PaymentInv, NEW s \in Sessions,
         Handler(s) \/ SendLog(s) \/ NixFails(s)
  PROVE  PaymentInv'
  <1> USE DEF policy, ticket, cache, lists
  <1> DEFINE Same == UNCHANGED <<cli, trusted, ticketed, uses, taken, others>>
  <1>1. CASE ReadHello(s) \/ ReadBuildRequest(s)
    <2>1. PICK place \in {"auth", "paths"} :
              /\ ServerGoes(s, place) /\ Same /\ UNCHANGED result
              /\ srv[s] \in {"hello", "request"} /\ (place = "paths" => srv[s] = "request")
          BY <1>1 DEF ReadHello, ReadBuildRequest
    <2>2. /\ place \in ServerPlaces /\ place \notin Running /\ srv[s] \in Asking
          /\ place \in Authorized => s \in trusted \cup ticketed
          BY <2>1 DEF ServerPlaces, ServerReading, Running, Asking, Authorized, PaymentInv
    <2> QED  BY <2>1, <2>2, HandlerMovesPaid
  <1>2. CASE AuthorizeTrusted(s) \/ AuthorizeTicket(s)  BY <1>2, AuthorizePaid
  <1>3. CASE BadLimit(s)  BY <1>3, DropPaid DEF BadLimit
  <1>4. CASE RefuseAuth(s) \/ RefuseRequest(s) \/ RefuseTicket(s) \/ Record(s)
    <2>1. ServerGoes(s, "closing") /\ Same /\ UNCHANGED result /\ srv[s] # "none"
          BY <1>4 DEF RefuseAuth, RefuseRequest, RefuseTicket, Record
    <2>2. /\ "closing" \in ServerPlaces /\ "closing" \notin Running
          /\ "closing" \notin Asking /\ "closing" \notin Authorized
          BY DEF ServerPlaces, Running, Asking, Authorized
    <2> QED  BY <2>1, <2>2, HandlerMovesPaid
  <1>5. CASE ReadBuildPaths(s)
    <2>1. PICK place \in {"paths", "redeem"} : srv' = [srv EXCEPT ![s] = place]
      <3>1. srv[s] = "paths"  BY <1>5 DEF ReadBuildPaths
      <3>2. CASE Head(toServer[s]).flag
            BY <1>5, <3>2 DEF ReadBuildPaths
      <3>3. CASE ~Head(toServer[s]).flag
        <4>1. srv' = srv  BY <1>5, <3>3 DEF ReadBuildPaths
        <4>2. [srv EXCEPT ![s] = "paths"] = srv  BY <3>1 DEF TypeOK
        <4> QED  BY <4>1, <4>2
      <3> QED  BY <3>2, <3>3
    <2>2. Same /\ UNCHANGED result /\ srv[s] = "paths"  BY <1>5 DEF ReadBuildPaths
    <2>3. /\ place \in ServerPlaces /\ place \notin Running /\ srv[s] \in Asking
          /\ s \in trusted \cup ticketed
          BY <2>2 DEF ServerPlaces, ServerReading, Running, Asking, Authorized, PaymentInv
    <2> QED  BY <2>1, <2>2, <2>3, HandlerMovesPaid DEF ServerGoes
  <1>6. CASE Redeem(s)  BY <1>6, RedeemPaid
  <1>7. CASE \/ SendBuildQueued(s) \/ Start(s) \/ SendMissingPaths(s) \/ OfferUpload(s)
             \/ AcceptUpload(s) \/ ImportInputs(s) \/ SendBuildStarted(s) \/ FinishBuild(s)
             \/ SendOutputClosure(s) \/ ReadOutputCacheDone(s) \/ FinishExport(s)
    <2>1. srv[s] \in {"enqueue", "waiting"} \cup Running
          BY <1>7
          DEF SendBuildQueued, Start, SendMissingPaths, OfferUpload, AcceptUpload, ImportInputs,
              SendBuildStarted, FinishBuild, SendOutputClosure, ReadOutputCacheDone,
              FinishExport, Running
    <2>2. s \in taken /\ srv[s] # "none"  BY <2>1 DEF PaymentInv, PaidFor, TakenUp, Running
    <2>3. Same
          BY <1>7
          DEF SendBuildQueued, Start, SendMissingPaths, OfferUpload, AcceptUpload, ImportInputs,
              SendBuildStarted, FinishBuild, SendOutputClosure, ReadOutputCacheDone,
              FinishExport
    <2>4. PICK place \in {"waiting", "record"} \cup Running : ServerGoes(s, place)
          BY <1>7
          DEF SendBuildQueued, Start, SendMissingPaths, OfferUpload, AcceptUpload, ImportInputs,
              SendBuildStarted, FinishBuild, SendOutputClosure, ReadOutputCacheDone,
              FinishExport, Running
    <2>5. \/ UNCHANGED result
          \/ \E r \in {"success", "failed", "error"} : result' = [result EXCEPT ![s] = r]
          BY <1>7
          DEF SendBuildQueued, Start, SendMissingPaths, OfferUpload, AcceptUpload, ImportInputs,
              SendBuildStarted, FinishBuild, SendOutputClosure, ReadOutputCacheDone,
              FinishExport
    <2>6. place \in ServerPlaces /\ place \notin Asking /\ place \notin Authorized
          BY DEF ServerPlaces, Running, Asking, Authorized
    <2> QED  BY <2>2, <2>3, <2>4, <2>5, <2>6, HandlerMovesPaid
  <1>8. CASE ReadOutputRequest(s)
    <2>1. srv[s] = "await request" /\ Same  BY <1>8 DEF ReadOutputRequest
    <2>2. s \in taken  BY <2>1 DEF PaymentInv, PaidFor, TakenUp, Running
    <2>3. \/ UNCHANGED <<srv, result>>
          \/ ServerGoes(s, "record") /\ result' = [result EXCEPT ![s] = "success"]
          \/ ServerGoes(s, "serving") /\ UNCHANGED result
          BY <1>8 DEF ReadOutputRequest
    <2>4. \A place \in {"record", "serving"} :
              place \in ServerPlaces /\ place \notin Asking /\ place \notin Authorized
          BY DEF ServerPlaces, ServerReading, Asking, Authorized
    <2>5. CASE UNCHANGED <<srv, result>>
          BY <2>1, <2>5 DEF PaymentInv, PaidFor, TakenUp
    <2> QED  BY <2>1, <2>2, <2>3, <2>4, <2>5, HandlerMovesPaid
  <1>9. CASE SendLog(s) \/ AcceptStream(s) \/ JoinTask(s) \/ ServeFile(s) \/ ReadLength(s)
    <2>1. Same /\ UNCHANGED <<srv, result>>
          BY <1>9 DEF SendLog, AcceptStream, JoinTask, ServeFile, ReadLength
    <2> QED  BY <2>1 DEF PaymentInv, PaidFor, TakenUp
  <1>10. CASE Close(s)
    <2>1. ServerGoes(s, "ended") /\ Same /\ UNCHANGED result /\ srv[s] # "none"
          BY <1>10 DEF Close
    <2>2. /\ "ended" \in ServerPlaces /\ "ended" \notin Running
          /\ "ended" \notin Asking /\ "ended" \notin Authorized
          BY DEF ServerPlaces, ServerEnds, Running, Asking, Authorized
    <2> QED  BY <2>1, <2>2, HandlerMovesPaid
  <1>11. CASE Garbled(s) \/ NixFails(s)
    BY <1>11, FailRunPaid DEF Garbled, NixFails, Running
  <1>12. CASE ServerTimeout(s)
    <2>1. CASE srv[s] \in {"hello", "auth", "request", "paths"} /\ Drop(s)
          BY <2>1, DropPaid
    <2>2. CASE srv[s] \in {"accept upload", "import inputs", "await request"} /\ FailRun(s)
          BY <2>2, FailRunPaid DEF Running
    <2>3. CASE srv[s] = "paths" /\ ServerGoes(s, "closing") /\ Same /\ UNCHANGED result
      <3>1. /\ "closing" \in ServerPlaces /\ "closing" \notin Running
            /\ "closing" \notin Asking /\ "closing" \notin Authorized
            BY DEF ServerPlaces, Running, Asking, Authorized
      <3> QED  BY <2>3, <3>1, HandlerMovesPaid
    <2> QED  BY <1>12, <2>1, <2>2, <2>3 DEF ServerTimeout
  <1>13. CASE StepFails(s)
    <2>1. CASE srv[s] \in Running /\ FailRun(s)  BY <2>1, FailRunPaid
    <2>2. CASE srv[s] # "none" /\ Drop(s)  BY <2>2, DropPaid
    <2> QED  BY <1>13, <2>1, <2>2 DEF StepFails, Running
  <1> QED
    BY <1>1, <1>2, <1>3, <1>4, <1>5, <1>6, <1>7, <1>8, <1>9, <1>10, <1>11, <1>12, <1>13
    DEF Handler

\* PaymentInv is inductive, given what the queues hold.
LEMMA PaymentInvariant == Spec => []PaymentInv
  <1>1. Init => PaymentInv
    <2> SUFFICES ASSUME Init PROVE PaymentInv  OBVIOUS
    <2>1. Cardinality(taken \cap ticketed) = 0
      <3>1. taken \cap ticketed = {}  BY DEF Init
      <3> QED  BY <3>1, FS_EmptySet
    <2>2. \A s \in Sessions : srv[s] = "none" /\ result[s] = "none" /\ ~TakenUp(s)
          BY DEF Init, TakenUp, Running
    <2>3. uses + others + Cardinality(taken \cap ticketed) = TicketUses
          BY <2>1, SessionAssumption DEF Init
    <2> QED  BY <2>2, <2>3 DEF Init, PaymentInv, PaidFor, Authorized
  <1>2. TypeOK /\ HonestQueues /\ PaymentInv /\ [Next]_vars => PaymentInv'
    <2> SUFFICES ASSUME TypeOK, HonestQueues, PaymentInv, [Next]_vars PROVE PaymentInv'  OBVIOUS
    <2> USE DEF policy, ticket, cache, lists
    <2>1. ASSUME NEW s \in Sessions, Lose(s) PROVE PaymentInv'
          BY <2>1, ClientMovesPaid DEF Lose
    <2>2. CASE Revoke \/ OtherStarts \/ OtherEnds
          BY <2>2, ClientMovesPaid DEF Revoke, OtherStarts, OtherEnds
    <2>3. CASE OtherRedeems
      <3> DEFINE n == Cardinality(taken \cap ticketed)
      <3>1. taken \cap ticketed \subseteq Sessions  BY DEF TypeOK
      <3>2. n \in Nat  BY <3>1, SessionAssumption, FS_Subset, FS_CardinalityType
      <3>3. uses + others + n = TicketUses  BY DEF PaymentInv, PaidFor
      <3>4. UNCHANGED <<cli, srv, result, taken, trusted, ticketed>>
            /\ uses' = uses - 1 /\ others' = others + 1
            BY <2>3 DEF OtherRedeems
      <3>5. uses' + others' + n = TicketUses
        <4> HIDE DEF n
        <4> QED  BY <3>2, <3>3, <3>4 DEF TypeOK
      <3> QED  BY <3>4, <3>5 DEF PaymentInv, PaidFor, TakenUp
    <2>4. CASE Crash
      <3>1. \A s \in Sessions :
                srv'[s] = IF srv[s] \in {"none", "ended"} THEN srv[s] ELSE "down"
            BY <2>4 DEF Crash
      <3>2. UNCHANGED <<cli, result, trusted, ticketed, uses, taken, others>>
            BY <2>4 DEF Crash
      <3> QED  BY <3>1, <3>2 DEF PaymentInv, PaidFor, TakenUp, Asking, Authorized, Running
    <2>5. CASE UNCHANGED vars  BY <2>5, ClientMovesPaid DEF vars
    <2> QED  BY <2>1, <2>2, <2>3, <2>4, <2>5, ClientPays, HandlerPays DEF Next
  <1> QED  BY <1>1, <1>2, SessionTypeCorrect, HonestInvariant, PTL DEF Spec

\* PaidFor: a request that is queued, builds or has an outcome is a trusted
\* client's or has spent one use, and the uses add up, whoever else spends them and
\* whatever is lost between the check and the redeem.
THEOREM RequestsArePaidFor == Spec => []PaidFor
  <1>1. PaymentInv => PaidFor  BY DEF PaymentInv
  <1> QED  BY <1>1, PaymentInvariant, PTL

-----------------------------------------------------------------------------
\* Truth.  What the builder has told the client, read or not, is how the request
\* ended; and a request that has ended is not at work, so it ends once.

Unfinished == {"enqueue", "waiting"} \cup Running

Truthful(s) == {m \in Message :
    /\ m.type = "Done" => result[s] = "success"
    /\ m.type = "BuildFinished" /\ ~m.flag => result[s] = "failed"}

TruthInv ==
    /\ \A s \in Sessions :
           /\ toClient[s] \in Seq(Truthful(s))
           /\ result[s] # "none" => srv[s] \notin Unfinished
    /\ SuccessIsShared

\* The messages that say nothing of the end are always true.
LEMMA NeutralMessages ==
  ASSUME NEW s \in Sessions
  PROVE  /\ \A type \in Kinds \ {"Done", "BuildFinished"} : <<Msg(type)>> \in Seq(Truthful(s))
         /\ \A n \in Nat : \A type \in {"MissingPaths", "OutputClosure"} :
                PathList(type, n) \in Seq(Truthful(s))
         /\ <<BuildFinished(TRUE)>> \in Seq(Truthful(s))
         /\ result[s] = "success" => <<Msg("Done")>> \in Seq(Truthful(s))
         /\ result[s] = "failed" => <<BuildFinished(FALSE)>> \in Seq(Truthful(s))
  <1>1. \A type \in Kinds \ {"Done", "BuildFinished"} : Msg(type) \in Truthful(s)
        BY DEF Truthful, Msg, Message
  <1>2. ASSUME NEW n \in Nat, NEW type \in {"MissingPaths", "OutputClosure"}
        PROVE  PathList(type, n) \in Seq(Truthful(s))
    <2>1. {m \in Message : m.type = type} \subseteq Truthful(s)  BY DEF Truthful
    <2>2. PathList(type, n) \in Seq({m \in Message : m.type = type})  BY PathListIn DEF Kinds
    <2> QED  BY <2>1, <2>2, SeqMonotonic
  <1>3. /\ BuildFinished(TRUE) \in Truthful(s)
        /\ result[s] = "success" => Msg("Done") \in Truthful(s)
        /\ result[s] = "failed" => BuildFinished(FALSE) \in Truthful(s)
        BY DEF Truthful, Msg, BuildFinished, Message, Kinds
  <1>4. \A m \in Truthful(s) : <<m>> \in Seq(Truthful(s))  OBVIOUS
  <1> QED  BY <1>1, <1>2, <1>3, <1>4

\* A step of the client: it reads, or closes the connection.
LEMMA ClientBelieves ==
  ASSUME TypeOK, TruthInv, NEW s \in Sessions,
         UNCHANGED result,
         UNCHANGED srv \/ (ServerGoes(s, "hello") /\ srv[s] = "none"),
         \/ UNCHANGED toClient
         \/ \E type \in Kinds : ClientReads(s, type)
         \/ ClientHangsUp(s),
         \A t \in Sessions : cli'[t] # cli[t] =>
             /\ cli'[t] = "success" => result[t] = "success"
             /\ cli'[t] = "build failed" => result[t] = "failed"
  PROVE  TruthInv'
  <1>1. \A t \in Sessions : Truthful(t)' = Truthful(t)  BY DEF Truthful
  <1>2. \A t \in Sessions : toClient'[t] \in Seq(Truthful(t))
    <2>1. CASE UNCHANGED toClient  BY <2>1 DEF TruthInv
    <2>2. ASSUME NEW type, ClientReads(s, type)
          PROVE  \A t \in Sessions : toClient'[t] \in Seq(Truthful(t))
      <3>1. Tail(toClient[s]) \in Seq(Truthful(s))
            BY <2>2, HeadTailProperties DEF TruthInv, ClientReads
      <3> QED  BY <2>2, <3>1 DEF TypeOK, TruthInv, ClientReads
    <2>3. CASE ClientHangsUp(s)
      <3>1. <<>> \in Seq(Truthful(s))  BY EmptySeq
      <3> QED  BY <2>3, <3>1 DEF TypeOK, TruthInv, ClientHangsUp
    <2> QED  BY <2>1, <2>2, <2>3
  <1>3. \A t \in Sessions : result'[t] # "none" => srv'[t] \notin Unfinished
        BY ZenonT(60) DEF TypeOK, TruthInv, ServerGoes, Unfinished, Running
  <1>4. SuccessIsShared'
        BY DEF TruthInv, SuccessIsShared
  <1> QED  BY <1>1, <1>2, <1>3, <1>4 DEF TruthInv

\* A step of the handler: it sends what is true after the step, and gives a
\* result once.
LEMMA HandlerTells ==
  ASSUME TypeOK, TruthInv, NEW s \in Sessions,
         UNCHANGED cli,
         \/ UNCHANGED result
         \/ /\ result[s] = "none"
            /\ \E r \in {"success", "failed", "error"} : result' = [result EXCEPT ![s] = r],
         \A t \in Sessions \ {s} : srv'[t] = srv[t],
         srv'[s] \in Unfinished => result'[s] = "none",
         \/ UNCHANGED toClient
         \/ \E msgs \in Seq(Truthful(s)') : ServerSends(s, msgs)
         \/ ServerHangsUp(s)
  PROVE  TruthInv'
  <1>1. \A t \in Sessions : result[t] # "none" => result'[t] = result[t]
        BY DEF TypeOK
  <1>2. \A t \in Sessions : t # s => result'[t] = result[t]  BY DEF TypeOK
  <1>3. \A t \in Sessions : Truthful(t) \subseteq Truthful(t)'
        BY <1>1 DEF Truthful
  <1>4. \A t \in Sessions : toClient[t] \in Seq(Truthful(t)')
        BY <1>3, SeqMonotonic DEF TruthInv
  <1>5. \A t \in Sessions : toClient'[t] \in Seq(Truthful(t)')
    <2>1. CASE UNCHANGED toClient  BY <1>4, <2>1
    <2>2. ASSUME NEW msgs \in Seq(Truthful(s)'), ServerSends(s, msgs)
          PROVE  \A t \in Sessions : toClient'[t] \in Seq(Truthful(t)')
      <3>1. toClient[s] \o msgs \in Seq(Truthful(s)')  BY <1>4, ConcatProperties
      <3>2. \A t \in Sessions : toClient'[t] = IF t = s THEN toClient[s] \o msgs ELSE toClient[t]
            BY <2>2 DEF TypeOK, ServerSends
      <3> QED  BY <1>4, <3>1, <3>2
    <2>3. CASE ServerHangsUp(s)
      <3>1. PICK q \in Reached(s, toClient) : toClient' = [toClient EXCEPT ![s] = q]
            BY <2>3 DEF ServerHangsUp
      <3>2. q \in Seq(Truthful(s)')  BY <1>4, <3>1, ReachedIn
      <3>3. \A t \in Sessions : toClient'[t] = IF t = s THEN q ELSE toClient[t]
            BY <3>1 DEF TypeOK
      <3> QED  BY <1>4, <3>2, <3>3
    <2> QED  BY <2>1, <2>2, <2>3
  <1>6. \A t \in Sessions : result'[t] # "none" => srv'[t] \notin Unfinished
        BY <1>2 DEF TruthInv
  <1>7. SuccessIsShared'
        BY <1>1 DEF TruthInv, SuccessIsShared
  <1> QED  BY <1>5, <1>6, <1>7 DEF TruthInv

LEMMA ClientKeepsTruth ==
  ASSUME TypeOK, PaymentInv, TruthInv, NEW s \in Sessions, Client(s) \/ GiveUp(s)
  PROVE  TruthInv'
  <1> USE DEF policy, ticket, cache, lists
  <1> DEFINE Modest == \A t \in Sessions :
                 cli'[t] # cli[t] => cli'[t] \notin {"success", "build failed"}
  <1>1. CASE \/ FindLocalOutputs(s) \/ ResolveOutputs(s) \/ Preflight(s) \/ FinishUpload(s)
             \/ OpenCacheStream(s) \/ SendBuildRequest(s) \/ SendOutputCacheDone(s)
    <2>1. UNCHANGED <<result, srv, toClient>>
          BY <1>1 DEF FindLocalOutputs, ResolveOutputs, Preflight, FinishUpload,
                      OpenCacheStream, SendBuildRequest, SendOutputCacheDone
    <2>2. Modest
          BY <1>1, ZenonT(60) DEF FindLocalOutputs, ResolveOutputs, Preflight, FinishUpload,
                      OpenCacheStream, SendBuildRequest, SendOutputCacheDone, ClientGoes, TypeOK
    <2> QED  BY <2>1, <2>2, ClientBelieves
  <1>2. CASE Open(s)
    <2>1. /\ UNCHANGED <<result, toClient>> /\ ServerGoes(s, "hello")
          /\ srv[s] = "none"
          BY <1>2 DEF Open, PaymentInv
    <2>2. Modest  BY <1>2 DEF Open, ClientGoes, TypeOK
    <2> QED  BY <2>1, <2>2, ClientBelieves
  <1>3. CASE \/ ReadAuthOk(s) \/ ReadBuildQueued(s) \/ ReadUploadReady(s)
             \/ ReadOutputCacheReady(s) \/ ReadBuildMessage(s) \/ RequestOutputs(s)
    <2>1. UNCHANGED <<result, srv>> /\ \E type \in Kinds : ClientReads(s, type)
          BY <1>3 DEF ReadAuthOk, ReadBuildQueued, ReadUploadReady, ReadOutputCacheReady,
                      ReadBuildMessage, RequestOutputs, Kinds
    <2>2. UNCHANGED cli \/ \E place \in ClientPlaces \ {"success", "build failed"} : ClientGoes(s, place)
          BY <1>3 DEF ReadAuthOk, ReadBuildQueued, ReadUploadReady, ReadOutputCacheReady,
                      ReadBuildMessage, RequestOutputs, ClientPlaces, ClientReading, ClientBusy
    <2>3. Modest  BY <2>2 DEF ClientGoes, TypeOK
    <2> QED  BY <2>1, <2>3, ClientBelieves
  <1>4. CASE ReadChunk(s)
    <2>1. UNCHANGED <<result, srv, cli>> /\ \E type \in Kinds : ClientReads(s, type)
          BY <1>4 DEF ReadChunk, Kinds
    <2> QED  BY <2>1, ClientBelieves
  <1>5. CASE ReadMissingPaths(s)
    <2>1. UNCHANGED <<result, srv>> /\ \E type \in Kinds : ClientReads(s, type)
          BY <1>5 DEF ReadMissingPaths, Kinds
    <2>2. ClientGoes(s, "await build") \/ ClientGoes(s, "await upload")
          BY <1>5 DEF ReadMissingPaths
    <2>3. Modest  BY <2>2 DEF ClientGoes, TypeOK
    <2> QED  BY <2>1, <2>3, ClientBelieves
  <1>6. CASE ReadBuildFinished(s)
    <2>1. /\ toClient[s] # <<>> /\ toClient[s] \in Seq(Truthful(s))
          /\ Head(toClient[s]).type = "BuildFinished"
          BY <1>6 DEF ReadBuildFinished, TruthInv
    <2>2. Head(toClient[s]) \in Truthful(s)  BY <2>1, HeadTailProperties
    <2>3. ~Head(toClient[s]).flag => result[s] = "failed"  BY <2>1, <2>2 DEF Truthful
    <2>4. UNCHANGED <<result, srv>>  BY <1>6 DEF ReadBuildFinished
    <2>5. CASE Head(toClient[s]).flag
      <3>1. ClientReads(s, "BuildFinished") /\ ClientGoes(s, "await closure")
            BY <1>6, <2>5 DEF ReadBuildFinished
      <3>2. Modest  BY <3>1 DEF ClientGoes, TypeOK
      <3> QED  BY <2>4, <3>1, <3>2, ClientBelieves DEF Kinds
    <2>6. CASE ~Head(toClient[s]).flag
      <3>1. ClientHangsUp(s) /\ ClientGoes(s, "build failed")
            BY <1>6, <2>6 DEF ReadBuildFinished
      <3>2. \A t \in Sessions : cli'[t] # cli[t] => t = s /\ cli'[t] = "build failed"
            BY <3>1 DEF ClientGoes, TypeOK
      <3> QED  BY <2>3, <2>4, <2>6, <3>1, <3>2, ClientBelieves
    <2> QED  BY <2>5, <2>6
  <1>7. CASE ReadDone(s)
    <2>1. /\ toClient[s] # <<>> /\ toClient[s] \in Seq(Truthful(s))
          /\ Head(toClient[s]).type = "Done"
          BY <1>7 DEF ReadDone, TruthInv
    <2>2. Head(toClient[s]) \in Truthful(s)  BY <2>1, HeadTailProperties
    <2>3. result[s] = "success"  BY <2>1, <2>2 DEF Truthful
    <2>4. UNCHANGED <<result, srv>> /\ ClientHangsUp(s)  BY <1>7 DEF ReadDone
    <2>5. ClientGoes(s, "success") \/ ClientGoes(s, "failed")  BY <1>7 DEF ReadDone
    <2>6. \A t \in Sessions : cli'[t] # cli[t] => t = s /\ cli'[t] # "build failed"
          BY <2>5 DEF ClientGoes, TypeOK
    <2> QED  BY <2>3, <2>4, <2>6, ClientBelieves
  <1>8. CASE SeeError(s) \/ PathListTimeout(s) \/ SendFails(s) \/ GiveUp(s)
    <2>1. Leave(s, "failed")
          BY <1>8 DEF SeeError, PathListTimeout, SendFails, GiveUp
    <2>2. UNCHANGED <<result, srv>> /\ ClientHangsUp(s)  BY <2>1 DEF Leave
    <2>3. Modest  BY <2>1 DEF Leave, ClientGoes, TypeOK
    <2> QED  BY <2>2, <2>3, ClientBelieves
  <1> QED  BY <1>1, <1>2, <1>3, <1>4, <1>5, <1>6, <1>7, <1>8 DEF Client

LEMMA HandlerKeepsTruth ==
  ASSUME TypeOK, PaymentInv, TruthInv, NEW s \in Sessions,
         Handler(s) \/ SendLog(s) \/ NixFails(s)
  PROVE  TruthInv'
  <1> USE DEF policy, ticket, cache, lists
  <1> DEFINE Goes(place) == /\ srv'[s] = place
                            /\ \A t \in Sessions \ {s} : srv'[t] = srv[t]
  <1>0. \A place \in ServerPlaces : ServerGoes(s, place) => Goes(place)
        BY DEF TypeOK, ServerGoes
  <1>a. ASSUME UNCHANGED cli, Drop(s) \/ Close(s) PROVE TruthInv'
    <2>1. ServerGoes(s, "ended") /\ UNCHANGED result /\ ServerHangsUp(s)
          BY <1>a DEF Drop, Close
    <2>2. "ended" \in ServerPlaces /\ "ended" \notin Unfinished
          BY DEF ServerPlaces, ServerEnds, Unfinished, Running
    <2> QED  BY <1>0, <1>a, <2>1, <2>2, HandlerTells
  <1>b. ASSUME srv[s] \in Running, FailRun(s) PROVE TruthInv'
    <2>1. /\ ServerGoes(s, "record") /\ UNCHANGED <<cli, toClient>>
          /\ result' = [result EXCEPT ![s] = "error"]
          BY <1>b DEF FailRun
    <2>2. result[s] = "none"  BY <1>b DEF TruthInv, Unfinished
    <2>3. "record" \in ServerPlaces /\ "record" \notin Unfinished
          BY DEF ServerPlaces, Unfinished, Running
    <2> QED  BY <1>0, <2>1, <2>2, <2>3, HandlerTells
  <1>c. ASSUME UNCHANGED <<cli, result>>,
               \E place \in ServerPlaces : ServerGoes(s, place) /\ place \notin Unfinished,
               UNCHANGED toClient
               \/ \E type \in Kinds \ {"Done", "BuildFinished"} : ServerSends(s, <<Msg(type)>>)
        PROVE  TruthInv'
    <2>1. Truthful(s)' = Truthful(s)  BY <1>c DEF Truthful
    <2>2. \A type \in Kinds \ {"Done", "BuildFinished"} : <<Msg(type)>> \in Seq(Truthful(s)')
          BY <2>1, NeutralMessages
    <2>3. PICK place \in ServerPlaces : ServerGoes(s, place) /\ place \notin Unfinished
          BY <1>c
    <2>4. srv'[s] \notin Unfinished /\ \A t \in Sessions \ {s} : srv'[t] = srv[t]
          BY <1>0, <2>3
    <2> QED  BY <1>c, <2>2, <2>4, HandlerTells
  <1>d. ASSUME UNCHANGED <<cli, result>>, result[s] = "none",
               \A t \in Sessions \ {s} : srv'[t] = srv[t],
               \/ UNCHANGED toClient
               \/ \E type \in Kinds \ {"Done", "BuildFinished"} : ServerSends(s, <<Msg(type)>>)
               \/ \E n \in Nat : \E type \in {"MissingPaths", "OutputClosure"} :
                      ServerSends(s, PathList(type, n))
        PROVE  TruthInv'
    <2>1. Truthful(s)' = Truthful(s)  BY <1>d DEF Truthful
    <2>2. /\ \A type \in Kinds \ {"Done", "BuildFinished"} : <<Msg(type)>> \in Seq(Truthful(s)')
          /\ \A n \in Nat : \A type \in {"MissingPaths", "OutputClosure"} :
                 PathList(type, n) \in Seq(Truthful(s)')
          BY <2>1, NeutralMessages
    <2>3. UNCHANGED toClient \/ \E msgs \in Seq(Truthful(s)') : ServerSends(s, msgs)
          BY <1>d, <2>2
    <2> QED  BY <1>d, <2>3, HandlerTells
  <1>1. CASE \/ ReadHello(s) \/ AuthorizeTrusted(s) \/ AuthorizeTicket(s)
             \/ RefuseAuth(s) \/ ReadBuildRequest(s) \/ RefuseRequest(s) \/ RefuseTicket(s)
    <2>1. PICK place \in {"auth", "request", "closing", "paths"} : ServerGoes(s, place)
          BY <1>1 DEF ReadHello, AuthorizeTrusted, AuthorizeTicket, RefuseAuth,
                      ReadBuildRequest, RefuseRequest, RefuseTicket
    <2>2. place \in ServerPlaces /\ place \notin Unfinished
          BY DEF ServerPlaces, ServerReading, Unfinished, Running
    <2>3. /\ UNCHANGED <<cli, result>>
          /\ \/ UNCHANGED toClient
             \/ \E type \in Kinds \ {"Done", "BuildFinished"} : ServerSends(s, <<Msg(type)>>)
          BY <1>1 DEF ReadHello, AuthorizeTrusted, AuthorizeTicket, RefuseAuth,
                      ReadBuildRequest, RefuseRequest, RefuseTicket, Kinds
    <2> QED  BY <1>c, <2>1, <2>2, <2>3
  <1>2. CASE BadLimit(s)  BY <1>2, <1>a DEF BadLimit, Drop
  <1>3. CASE ReadBuildPaths(s) \/ Redeem(s)
    <2>1. result[s] = "none"
          BY <1>3 DEF ReadBuildPaths, Redeem, PaymentInv, Asking
    <2>2. /\ UNCHANGED <<cli, result, toClient>>
          /\ \A t \in Sessions \ {s} : srv'[t] = srv[t]
          BY <1>3 DEF ReadBuildPaths, Redeem, ServerGoes, TypeOK
    <2> QED  BY <1>d, <2>1, <2>2
  <1>4. CASE \/ SendBuildQueued(s) \/ Start(s) \/ OfferUpload(s) \/ AcceptUpload(s)
             \/ ImportInputs(s) \/ SendBuildStarted(s) \/ ReadOutputCacheDone(s)
             \/ SendLog(s) \/ AcceptStream(s) \/ ReadLength(s)
    <2>1. result[s] = "none"
          BY <1>4 DEF SendBuildQueued, Start, OfferUpload, AcceptUpload, ImportInputs,
                      SendBuildStarted, ReadOutputCacheDone, SendLog, AcceptStream, ReadLength,
                      TruthInv, Unfinished, Running
    <2>2. /\ UNCHANGED <<cli, result>>
          /\ \/ UNCHANGED toClient
             \/ \E type \in Kinds \ {"Done", "BuildFinished"} : ServerSends(s, <<Msg(type)>>)
          BY <1>4 DEF SendBuildQueued, Start, OfferUpload, AcceptUpload, ImportInputs,
                      SendBuildStarted, ReadOutputCacheDone, SendLog, AcceptStream, ReadLength,
                      Kinds
    <2>3. \A t \in Sessions \ {s} : srv'[t] = srv[t]
          BY <1>4 DEF SendBuildQueued, Start, OfferUpload, AcceptUpload, ImportInputs,
                      SendBuildStarted, ReadOutputCacheDone, SendLog, AcceptStream, ReadLength,
                      ServerGoes, TypeOK
    <2> QED  BY <1>d, <2>1, <2>2, <2>3
  <1>5. CASE JoinTask(s) \/ ServeFile(s)
    <2>1. result[s] = "none"
          BY <1>5 DEF JoinTask, ServeFile, TruthInv, Unfinished, Running
    <2>2. UNCHANGED <<cli, srv, result, toClient>>  BY <1>5 DEF JoinTask, ServeFile
    <2> QED  BY <1>d, <2>1, <2>2
  <1>6. CASE SendMissingPaths(s)
    <2>1. PICK n \in SomeOf(srvList[s].paths) :
              /\ ServerSends(s, PathList("MissingPaths", n))
              /\ ServerGoes(s, IF n = 0 THEN "start build" ELSE "offer")
          BY <1>6 DEF SendMissingPaths
    <2>2. n \in Nat  BY SessionAssumption DEF SomeOf
    <2>3. \A t \in Sessions \ {s} : srv'[t] = srv[t]  BY <2>1 DEF ServerGoes, TypeOK
    <2>4. result[s] = "none" /\ UNCHANGED <<cli, result>>
          BY <1>6 DEF SendMissingPaths, TruthInv, Unfinished, Running
    <2> QED  BY <1>d, <2>1, <2>2, <2>3, <2>4
  <1>7. CASE SendOutputClosure(s)
    <2>1. PICK n \in ClosureSizes : ServerSends(s, PathList("OutputClosure", n))
          BY <1>7 DEF SendOutputClosure
    <2>2. n \in Nat  BY SessionAssumption DEF ClosureSizes
    <2>3. \A t \in Sessions \ {s} : srv'[t] = srv[t]
          BY <1>7 DEF SendOutputClosure, ServerGoes, TypeOK
    <2>4. result[s] = "none" /\ UNCHANGED <<cli, result>>
          BY <1>7 DEF SendOutputClosure, TruthInv, Unfinished, Running
    <2> QED  BY <1>d, <2>1, <2>2, <2>3, <2>4
  <1>8. CASE FinishBuild(s)
    <2>1. PICK success \in BOOLEAN :
              /\ ServerSends(s, <<BuildFinished(success)>>)
              /\ result' = IF success THEN result ELSE [result EXCEPT ![s] = "failed"]
              /\ ServerGoes(s, IF success THEN "exporting" ELSE "record")
          BY <1>8 DEF FinishBuild
    <2>2. result[s] = "none" /\ UNCHANGED cli
          BY <1>8 DEF FinishBuild, TruthInv, Unfinished, Running
    <2>3. \A t \in Sessions \ {s} : srv'[t] = srv[t]  BY <2>1 DEF ServerGoes, TypeOK
    <2>4. CASE success
      <3>1. Truthful(s)' = Truthful(s)  BY <2>1, <2>4 DEF Truthful
      <3>2. <<BuildFinished(TRUE)>> \in Seq(Truthful(s)')  BY <3>1, NeutralMessages
      <3> QED  BY <2>1, <2>2, <2>3, <2>4, <3>2, HandlerTells
    <2>5. CASE ~success
      <3>1. result'[s] = "failed" /\ srv'[s] = "record"
            BY <2>1, <2>5 DEF TypeOK, ServerGoes
      <3>2. <<BuildFinished(FALSE)>> \in Seq(Truthful(s)')
            BY <3>1 DEF Truthful, BuildFinished, Message, Kinds
      <3>3. srv'[s] \notin Unfinished  BY <3>1 DEF Unfinished, Running
      <3> QED  BY <2>1, <2>2, <2>3, <2>5, <3>2, <3>3, HandlerTells
    <2> QED  BY <2>4, <2>5
  <1>9. ASSUME UNCHANGED cli, srv[s] \in Running, ServerGoes(s, "record"),
               ServerSends(s, <<Msg("Done")>>), result' = [result EXCEPT ![s] = "success"]
        PROVE  TruthInv'
    <2>1. result[s] = "none"  BY <1>9 DEF TruthInv, Unfinished
    <2>2. result'[s] = "success" /\ srv'[s] = "record"  BY <1>9 DEF TypeOK, ServerGoes
    <2>3. <<Msg("Done")>> \in Seq(Truthful(s)')
          BY <2>2 DEF Truthful, Msg, Message, Kinds
    <2>4. srv'[s] \notin Unfinished  BY <2>2 DEF Unfinished, Running
    <2>5. \A t \in Sessions \ {s} : srv'[t] = srv[t]  BY <1>9 DEF ServerGoes, TypeOK
    <2> QED  BY <1>9, <2>1, <2>3, <2>4, <2>5, HandlerTells
  <1>10. CASE ReadOutputRequest(s)
    <2>1. srv[s] = "await request" /\ UNCHANGED cli  BY <1>10 DEF ReadOutputRequest
    <2>2. result[s] = "none" /\ srv[s] \in Running
          BY <2>1 DEF TruthInv, Unfinished, Running
    <2>3. \/ UNCHANGED <<srv, toClient, result>>
          \/ /\ ServerSends(s, <<Msg("Done")>>) /\ ServerGoes(s, "record")
             /\ result' = [result EXCEPT ![s] = "success"]
          \/ /\ ServerSends(s, <<Msg("OutputCacheReady")>>) /\ ServerGoes(s, "serving")
             /\ UNCHANGED result
          BY <1>10 DEF ReadOutputRequest
    <2>4. ServerGoes(s, "serving") => \A t \in Sessions \ {s} : srv'[t] = srv[t]
          BY DEF ServerGoes, TypeOK
    <2> QED  BY <1>9, <1>d, <2>1, <2>2, <2>3, <2>4 DEF Kinds
  <1>11. CASE FinishExport(s)
    <2>1. srv[s] \in Running  BY <1>11 DEF FinishExport, Running
    <2> QED  BY <1>9, <1>11, <2>1 DEF FinishExport
  <1>12. CASE Record(s)
    <2>1. /\ ServerGoes(s, "closing") /\ UNCHANGED <<cli, result>>
          /\ UNCHANGED toClient \/ ServerSends(s, <<Msg("Error")>>)
          BY <1>12 DEF Record
    <2>2. "closing" \in ServerPlaces /\ "closing" \notin Unfinished
          BY DEF ServerPlaces, Unfinished, Running
    <2> QED  BY <1>c, <2>1, <2>2 DEF Kinds
  <1>13. CASE Close(s)  BY <1>13, <1>a DEF Close
  <1>14. CASE Garbled(s) \/ NixFails(s)  BY <1>14, <1>b DEF Garbled, NixFails, Running
  <1>15. CASE ServerTimeout(s)
    <2>1. CASE Drop(s)  BY <2>1, <1>a DEF Drop
    <2>2. CASE srv[s] \in {"accept upload", "import inputs", "await request"} /\ FailRun(s)
          BY <2>2, <1>b DEF Running
    <2>3. CASE /\ ServerSends(s, <<Msg("Error")>>) /\ ServerGoes(s, "closing")
               /\ UNCHANGED <<cli, result>>
      <3>1. "closing" \in ServerPlaces /\ "closing" \notin Unfinished
            BY DEF ServerPlaces, Unfinished, Running
      <3> QED  BY <1>c, <2>3, <3>1 DEF Kinds
    <2> QED  BY <1>15, <2>1, <2>2, <2>3 DEF ServerTimeout
  <1>16. CASE StepFails(s)
    <2>1. CASE srv[s] \in Running /\ FailRun(s)  BY <2>1, <1>b
    <2>2. CASE Drop(s)  BY <2>2, <1>a DEF Drop
    <2> QED  BY <1>16, <2>1, <2>2 DEF StepFails, Running
  <1> QED
    BY <1>1, <1>2, <1>3, <1>4, <1>5, <1>6, <1>7, <1>8, <1>10, <1>11, <1>12, <1>13,
       <1>14, <1>15, <1>16
    DEF Handler

LEMMA TruthInvariant == Spec => []TruthInv
  <1>1. Init => TruthInv
    <2> SUFFICES ASSUME Init PROVE TruthInv  OBVIOUS
    <2>1. \A s \in Sessions : <<>> \in Seq(Truthful(s))  BY EmptySeq
    <2> QED  BY <2>1 DEF Init, TruthInv, SuccessIsShared
  <1>2. TypeOK /\ PaymentInv /\ TruthInv /\ [Next]_vars => TruthInv'
    <2> SUFFICES ASSUME TypeOK, PaymentInv, TruthInv, [Next]_vars PROVE TruthInv'  OBVIOUS
    <2> USE DEF policy, ticket, cache, lists
    <2>0. ASSUME UNCHANGED <<cli, result>>,
                 \A s \in Sessions : srv'[s] \in Unfinished => srv'[s] = srv[s],
                 \A s \in Sessions : toClient'[s] \in Reached(s, toClient) \cup {toClient[s]}
          PROVE  TruthInv'
      <3>1. \A s \in Sessions : Truthful(s)' = Truthful(s)  BY <2>0 DEF Truthful
      <3>2. \A s \in Sessions : toClient'[s] \in Seq(Truthful(s))
            BY <2>0, ReachedIn DEF TruthInv
      <3> QED  BY <2>0, <3>1, <3>2 DEF TruthInv, SuccessIsShared
    <2>1. ASSUME NEW s \in Sessions, Lose(s) PROVE TruthInv'
      <3>1. PICK q \in Reached(s, toClient) : toClient' = [toClient EXCEPT ![s] = q]
            BY <2>1 DEF Lose
      <3>2. \A t \in Sessions : toClient'[t] \in Reached(t, toClient) \cup {toClient[t]}
            BY <3>1 DEF TypeOK
      <3> QED  BY <2>0, <2>1, <3>2 DEF Lose
    <2>2. CASE Revoke \/ OtherRedeems \/ OtherStarts \/ OtherEnds
      <3>1. UNCHANGED <<cli, result, srv, toClient>>
            BY <2>2 DEF Revoke, OtherRedeems, OtherStarts, OtherEnds
      <3> QED  BY <2>0, <3>1
    <2>3. CASE Crash
      <3>1. \A s \in Sessions : srv'[s] = IF srv[s] \in {"none", "ended"} THEN srv[s] ELSE "down"
            BY <2>3 DEF Crash
      <3>2. UNCHANGED <<cli, result>> /\ \A s \in Sessions : toClient'[s] \in Reached(s, toClient)
            BY <2>3 DEF Crash
      <3> QED  BY <2>0, <3>1, <3>2 DEF Unfinished, Running
    <2>4. CASE UNCHANGED vars
      <3>1. UNCHANGED <<cli, result, srv, toClient>>  BY <2>4 DEF vars
      <3> QED  BY <2>0, <3>1
    <2> QED  BY <2>1, <2>2, <2>3, <2>4, ClientKeepsTruth, HandlerKeepsTruth DEF Next
  <1> QED  BY <1>1, <1>2, SessionTypeCorrect, PaymentInvariant, PTL DEF Spec

\* SuccessIsShared: a client that reports outputs, or a failed build, has the
\* builder on its side, whatever was lost between them and whoever crashed.
THEOREM BothSidesAgree == Spec => []SuccessIsShared
  <1>1. TruthInv => SuccessIsShared  BY DEF TruthInv
  <1> QED  BY <1>1, TruthInvariant, PTL

-----------------------------------------------------------------------------
\* Refinement.  stage is what the builder's variables say of a request, report
\* what the client ended with.

Quiet == Service!Next \/ UNCHANGED Service!vars

LEMMA ServiceStutters ==
  ASSUME UNCHANGED <<cli, result, taken, uses, revoked, trusted, ticketed>>
  PROVE  Quiet
  BY DEF Quiet, Service!vars, stage, report

LEMMA ClientReports ==
  ASSUME TypeOK, SuccessIsShared', NEW s \in Sessions,
         UNCHANGED <<result, taken, uses, revoked, trusted, ticketed>>,
         cli[s] \notin ClientEnds,
         \E place \in ClientPlaces : ClientGoes(s, place)
  PROVE  Quiet
  <1>1. PICK place \in ClientPlaces : ClientGoes(s, place)  OBVIOUS
  <1>2. \A t \in Sessions : cli'[t] = IF t = s THEN place ELSE cli[t]
        BY <1>1 DEF TypeOK, ClientGoes
  <1>3. UNCHANGED stage  BY DEF stage
  <1>4. CASE place \notin ClientEnds
    <2>1. UNCHANGED report  BY <1>2, <1>4 DEF report
    <2> QED  BY <1>3, <2>1 DEF Quiet, Service!vars
  <1>5. CASE place \in ClientEnds
    <2>1. report[s] = "none"  BY DEF report
    <2>2. report' = [report EXCEPT ![s] = place]
          BY <1>2, <1>5 DEF report
    <2>3. place \in Service!Reports \ {"none"}
          BY <1>5 DEF ClientEnds, Service!Reports
    <2>4. /\ place = "success" => stage[s] = "success"
          /\ place = "build failed" => stage[s] = "failed"
          BY <1>2 DEF SuccessIsShared, stage
    <2>5. Service!Report(s)  BY <1>3, <2>1, <2>2, <2>3, <2>4 DEF Service!Report
    <2> QED  BY <2>5 DEF Quiet, Service!Next
  <1> QED  BY <1>4, <1>5

LEMMA HandlerEnds ==
  ASSUME TypeOK, NEW s \in Sessions, NEW r \in {"success", "failed", "error"},
         s \in taken, result[s] = "none", result' = [result EXCEPT ![s] = r],
         UNCHANGED <<cli, taken, uses, revoked, trusted, ticketed>>
  PROVE  Quiet
  <1>1. \A t \in Sessions : result'[t] = IF t = s THEN r ELSE result[t]  BY DEF TypeOK
  <1>2. stage[s] = "taken"  BY DEF stage
  <1>3. stage' = [stage EXCEPT ![s] = r]  BY <1>1 DEF stage
  <1>4. UNCHANGED report  BY DEF report
  <1>5. Service!End(s)  BY <1>2, <1>3, <1>4 DEF Service!End
  <1> QED  BY <1>5 DEF Quiet, Service!Next

LEMMA RedeemTakes ==
  ASSUME TypeOK, PaymentInv, NEW s \in Sessions, Redeem(s)
  PROVE  Quiet
  <1>1. s \notin taken /\ result[s] = "none" /\ s \in trusted \cup ticketed
        BY DEF PaymentInv, Redeem, Asking, Authorized
  <1>2. stage[s] = "asked"  BY <1>1 DEF stage
  <1>3. taken' = taken \cup {s} /\ UNCHANGED <<cli, result, revoked, trusted, ticketed>>
        BY DEF Redeem, policy
  <1>4. stage' = [stage EXCEPT ![s] = "taken"]  BY <1>1, <1>3 DEF stage
  <1>5. UNCHANGED report  BY <1>3 DEF report
  <1>6. IF s \in ticketed THEN uses > 0 /\ ~revoked /\ uses' = uses - 1
        ELSE s \in trusted /\ UNCHANGED uses
        BY <1>1 DEF Redeem, CheckTicket
  <1>7. Service!Take(s)  BY <1>2, <1>3, <1>4, <1>5, <1>6 DEF Service!Take
  <1> QED  BY <1>7 DEF Quiet, Service!Next

LEMMA ClientImplements ==
  ASSUME TypeOK, SuccessIsShared', NEW s \in Sessions, Client(s) \/ GiveUp(s)
  PROVE  Quiet
  <1> USE DEF policy, ticket, cache, lists
  <1>1. UNCHANGED <<result, taken, uses, revoked, trusted, ticketed>>
        BY DEF Client, FindLocalOutputs, ResolveOutputs, Open, ReadAuthOk, Preflight,
               SendBuildRequest, ReadBuildQueued, ReadChunk, ReadMissingPaths, ReadUploadReady,
               FinishUpload, ReadBuildMessage, ReadBuildFinished, RequestOutputs,
               ReadOutputCacheReady, OpenCacheStream, SendOutputCacheDone, ReadDone, SeeError,
               PathListTimeout, SendFails, GiveUp, Leave
  <1>2. CASE \/ FindLocalOutputs(s) \/ ResolveOutputs(s) \/ Open(s) \/ ReadAuthOk(s)
             \/ Preflight(s) \/ SendBuildRequest(s) \/ ReadBuildQueued(s) \/ ReadUploadReady(s)
             \/ FinishUpload(s) \/ RequestOutputs(s) \/ ReadOutputCacheReady(s)
             \/ SendOutputCacheDone(s)
    <2>1. cli[s] \notin ClientEnds /\ \E place \in ClientPlaces : ClientGoes(s, place)
          BY <1>2
          DEF FindLocalOutputs, ResolveOutputs, Open, ReadAuthOk, Preflight, SendBuildRequest,
              ReadBuildQueued, ReadUploadReady, FinishUpload, RequestOutputs,
              ReadOutputCacheReady, SendOutputCacheDone, ClientPlaces, ClientReading,
              ClientBusy, ClientEnds
    <2> QED  BY <1>1, <2>1, ClientReports
  <1>3. CASE ReadMissingPaths(s)
    <2>1. cli[s] \notin ClientEnds /\ (ClientGoes(s, "await build") \/ ClientGoes(s, "await upload"))
          BY <1>3 DEF ReadMissingPaths, ClientEnds
    <2> QED  BY <1>1, <2>1, ClientReports DEF ClientPlaces, ClientReading
  <1>4. CASE ReadBuildFinished(s)
    <2>1. cli[s] \notin ClientEnds /\ (ClientGoes(s, "await closure") \/ ClientGoes(s, "build failed"))
          BY <1>4 DEF ReadBuildFinished, ClientEnds
    <2> QED  BY <1>1, <2>1, ClientReports DEF ClientPlaces, ClientReading, ClientEnds
  <1>5. CASE ReadDone(s)
    <2>1. cli[s] \notin ClientEnds /\ (ClientGoes(s, "success") \/ ClientGoes(s, "failed"))
          BY <1>5 DEF ReadDone, ClientEnds
    <2> QED  BY <1>1, <2>1, ClientReports DEF ClientPlaces, ClientEnds
  <1>6. CASE SeeError(s) \/ PathListTimeout(s) \/ SendFails(s) \/ GiveUp(s)
    <2>1. cli[s] \notin ClientEnds /\ ClientGoes(s, "failed")
          BY <1>6 DEF SeeError, PathListTimeout, SendFails, GiveUp, Leave, ClientReading, ClientEnds
    <2> QED  BY <1>1, <2>1, ClientReports DEF ClientPlaces, ClientEnds
  <1>7. CASE ReadChunk(s) \/ ReadBuildMessage(s) \/ OpenCacheStream(s)
    <2>1. UNCHANGED cli  BY <1>7 DEF ReadChunk, ReadBuildMessage, OpenCacheStream
    <2> QED  BY <1>1, <2>1, ServiceStutters
  <1> QED  BY <1>2, <1>3, <1>4, <1>5, <1>6, <1>7 DEF Client

LEMMA HandlerImplements ==
  ASSUME TypeOK, PaymentInv, TruthInv, NEW s \in Sessions,
         Handler(s) \/ SendLog(s) \/ NixFails(s)
  PROVE  Quiet
  <1> USE DEF policy, ticket, cache, lists
  <1> DEFINE Rest == UNCHANGED <<cli, taken, uses, revoked, trusted, ticketed>>
  <1>a. srv[s] \in Running => s \in taken /\ result[s] = "none"
        BY DEF PaymentInv, PaidFor, TakenUp, TruthInv, Unfinished
  <1>b. ASSUME srv[s] \in Running, FailRun(s) PROVE Quiet
    <2>1. Rest /\ result' = [result EXCEPT ![s] = "error"]  BY <1>b DEF FailRun
    <2> QED  BY <1>a, <1>b, <2>1, HandlerEnds
  <1>c. ASSUME Drop(s) PROVE Quiet
    <2>1. Rest /\ UNCHANGED result  BY <1>c DEF Drop
    <2> QED  BY <2>1, ServiceStutters
  <1>1. CASE \/ ReadHello(s) \/ AuthorizeTrusted(s) \/ AuthorizeTicket(s) \/ RefuseAuth(s)
             \/ ReadBuildRequest(s) \/ ReadBuildPaths(s) \/ RefuseRequest(s)
             \/ RefuseTicket(s) \/ SendBuildQueued(s) \/ Start(s) \/ SendMissingPaths(s)
             \/ OfferUpload(s) \/ AcceptUpload(s) \/ ImportInputs(s) \/ SendBuildStarted(s)
             \/ SendLog(s) \/ SendOutputClosure(s)
    <2>1. Rest /\ UNCHANGED result
          BY <1>1
          DEF ReadHello, AuthorizeTrusted, AuthorizeTicket, RefuseAuth, ReadBuildRequest,
              ReadBuildPaths, RefuseRequest, RefuseTicket, SendBuildQueued, Start,
              SendMissingPaths, OfferUpload, AcceptUpload, ImportInputs, SendBuildStarted,
              SendLog, SendOutputClosure
    <2> QED  BY <2>1, ServiceStutters
  <1>2. CASE \/ AcceptStream(s) \/ JoinTask(s) \/ ServeFile(s) \/ ReadLength(s)
             \/ ReadOutputCacheDone(s) \/ Record(s) \/ Close(s)
    <2>1. Rest /\ UNCHANGED result
          BY <1>2
          DEF AcceptStream, JoinTask, ServeFile, ReadLength, ReadOutputCacheDone, Record, Close
    <2> QED  BY <2>1, ServiceStutters
  <1>3. CASE Redeem(s)  BY <1>3, RedeemTakes
  <1>4. CASE FinishBuild(s)
    <2>1. srv[s] \in Running /\ Rest  BY <1>4 DEF FinishBuild, Running
    <2>2. UNCHANGED result \/ result' = [result EXCEPT ![s] = "failed"]
          BY <1>4 DEF FinishBuild
    <2> QED  BY <1>a, <2>1, <2>2, HandlerEnds, ServiceStutters
  <1>5. CASE ReadOutputRequest(s) \/ FinishExport(s)
    <2>1. srv[s] \in Running /\ Rest
          BY <1>5 DEF ReadOutputRequest, FinishExport, Running
    <2>2. UNCHANGED result \/ result' = [result EXCEPT ![s] = "success"]
          BY <1>5 DEF ReadOutputRequest, FinishExport
    <2> QED  BY <1>a, <2>1, <2>2, HandlerEnds, ServiceStutters
  <1>6. CASE BadLimit(s)  BY <1>6, <1>c DEF BadLimit
  <1>7. CASE Garbled(s) \/ NixFails(s)  BY <1>7, <1>b DEF Garbled, NixFails, Running
  <1>8. CASE ServerTimeout(s)
    <2>1. CASE srv[s] \in {"accept upload", "import inputs", "await request"} /\ FailRun(s)
          BY <2>1, <1>b DEF Running
    <2>2. CASE Rest /\ UNCHANGED result  BY <2>2, ServiceStutters
    <2> QED  BY <1>8, <1>c, <2>1, <2>2 DEF ServerTimeout
  <1>9. CASE StepFails(s)
    <2>1. CASE srv[s] \in Running /\ FailRun(s)  BY <2>1, <1>b
    <2> QED  BY <1>9, <1>c, <2>1 DEF StepFails, Running
  <1> QED
    BY <1>1, <1>2, <1>3, <1>4, <1>5, <1>6, <1>7, <1>8, <1>9
    DEF Handler

\* ImplementsService: both programs together, over any loss and any crash of the
\* server, take a request up once and for its price, end it once, and report only
\* what the builder knows, too.
THEOREM SessionIsService == Spec => ImplementsService
  <1>1. Init => Service!Init
    <2> SUFFICES ASSUME Init PROVE Service!Init  OBVIOUS
    <2>1. stage = [s \in Sessions |-> "asked"]  BY DEF Init, stage
    <2>2. report = [s \in Sessions |-> "none"]  BY DEF Init, report, ClientEnds
    <2> QED  BY <2>1, <2>2 DEF Init, Service!Init
  <1>2. TypeOK /\ PaymentInv /\ TruthInv /\ TruthInv' /\ [Next]_vars => [Service!Next]_(Service!vars)
    <2> SUFFICES ASSUME TypeOK, PaymentInv, TruthInv, TruthInv', [Next]_vars PROVE Quiet
        BY DEF Quiet
    <2> USE DEF policy, ticket, cache, lists
    <2>1. SuccessIsShared'  BY DEF TruthInv
    <2>2. CASE UNCHANGED vars
      <3>1. UNCHANGED <<cli, result, taken, uses, revoked, trusted, ticketed>>  BY <2>2 DEF vars
      <3> QED  BY <3>1, ServiceStutters
    <2>3. ASSUME NEW s \in Sessions, Lose(s) PROVE Quiet
      <3>1. UNCHANGED <<cli, result, taken, uses, revoked, trusted, ticketed>>  BY <2>3 DEF Lose
      <3> QED  BY <3>1, ServiceStutters
    <2>4. CASE OtherStarts \/ OtherEnds \/ Crash
      <3>1. UNCHANGED <<cli, result, taken, uses, revoked, trusted, ticketed>>
            BY <2>4 DEF OtherStarts, OtherEnds, Crash
      <3> QED  BY <3>1, ServiceStutters
    <2>5. CASE Revoke
      <3>1. UNCHANGED <<stage, report>>  BY <2>5 DEF Revoke, stage, report
      <3>2. Service!Revoke  BY <2>5, <3>1 DEF Revoke, Service!Revoke
      <3> QED  BY <3>2 DEF Quiet, Service!Next
    <2>6. CASE OtherRedeems
      <3>1. UNCHANGED <<stage, report>>  BY <2>6 DEF OtherRedeems, stage, report
      <3>2. Service!Spend  BY <2>6, <3>1 DEF OtherRedeems, CheckTicket, Service!Spend
      <3> QED  BY <3>2 DEF Quiet, Service!Next
    <2> QED
      BY <2>1, <2>2, <2>3, <2>4, <2>5, <2>6, ClientImplements, HandlerImplements DEF Next
  <1>3. Spec => Service!Spec
    BY <1>1, <1>2, SessionTypeCorrect, PaymentInvariant, TruthInvariant, PTL
    DEF Spec, Service!Spec
  <1> QED  BY <1>3 DEF ImplementsService

-----------------------------------------------------------------------------
\* The upload.  The client opens one stream and is past it when it has finished
\* it, so what the builder has found whole stays whole.

BeforeUpload == {"start", "opening", "await auth", "preflight", "preparing",
                 "await queued", "await missing", "await upload"}
PastInputs == {"start build", "realise", "exporting", "await request", "serving", "draining"}

Complete(s) ==
    \/ missing[s] = 0
    \/ upload[s] = "whole" /\ \A text \in limit[s] : missing[s] <= text.number * text.unit

UploadInv ==
    \A s \in Sessions :
        /\ cli[s] \in BeforeUpload => upload[s] = "none"
        /\ cli[s] = "uploading" => upload[s] = "open"
        /\ srv[s] \in PastInputs => Complete(s)

\* A step of the client that does not touch the stream does not go back to it.
LEMMA ClientMovesUpload ==
  ASSUME TypeOK, UploadInv, NEW s \in Sessions,
         UNCHANGED <<upload, missing, limit>>,
         UNCHANGED srv \/ ServerGoes(s, "hello"),
         \/ UNCHANGED cli
         \/ \E place \in ClientPlaces :
                /\ ClientGoes(s, place)
                /\ place \in BeforeUpload => cli[s] \in BeforeUpload
                /\ place # "uploading"
  PROVE  UploadInv'
  <1>1. \A t \in Sessions : /\ cli'[t] \in BeforeUpload => cli[t] \in BeforeUpload
                            /\ cli'[t] = "uploading" => cli[t] = "uploading"
        BY DEF TypeOK, ClientGoes
  <1>2. \A t \in Sessions : srv'[t] \in PastInputs => srv[t] \in PastInputs
        BY DEF TypeOK, ServerGoes, PastInputs
  <1> QED  BY <1>1, <1>2 DEF UploadInv, Complete

LEMMA LeaveKeepsUpload ==
  ASSUME TypeOK, UploadInv, NEW s \in Sessions, Leave(s, "failed")
  PROVE  UploadInv'
  <1>1. \A t \in Sessions : cli'[t] = IF t = s THEN "failed" ELSE cli[t]
        BY DEF TypeOK, Leave, ClientGoes
  <1>2. \A t \in Sessions :
            upload'[t] = IF t = s /\ upload[t] = "open" THEN "short" ELSE upload[t]
        BY DEF TypeOK, Leave, Exported
  <1>3. UNCHANGED <<srv, missing, limit>>  BY DEF Leave, policy
  <1> QED  BY <1>1, <1>2, <1>3 DEF UploadInv, Complete, BeforeUpload

LEMMA ClientKeepsUpload ==
  ASSUME TypeOK, UploadInv, NEW s \in Sessions, Client(s) \/ GiveUp(s)
  PROVE  UploadInv'
  <1> USE DEF policy, ticket, cache, lists
  <1>1. CASE \/ FindLocalOutputs(s) \/ ResolveOutputs(s) \/ ReadAuthOk(s) \/ Preflight(s)
             \/ SendBuildRequest(s) \/ ReadBuildQueued(s) \/ RequestOutputs(s)
             \/ ReadOutputCacheReady(s) \/ SendOutputCacheDone(s)
    <2>1. UNCHANGED <<upload, missing, limit, srv>>
          BY <1>1
          DEF FindLocalOutputs, ResolveOutputs, ReadAuthOk, Preflight, SendBuildRequest,
              ReadBuildQueued, RequestOutputs, ReadOutputCacheReady, SendOutputCacheDone
    <2>2. \E place \in ClientPlaces :
              /\ ClientGoes(s, place)
              /\ place \in BeforeUpload => cli[s] \in BeforeUpload
              /\ place # "uploading"
          BY <1>1
          DEF FindLocalOutputs, ResolveOutputs, ReadAuthOk, Preflight, SendBuildRequest,
              ReadBuildQueued, RequestOutputs, ReadOutputCacheReady, SendOutputCacheDone,
              ClientPlaces, ClientReading, ClientBusy, ClientEnds, BeforeUpload
    <2> QED  BY <2>1, <2>2, ClientMovesUpload
  <1>2. CASE Open(s)
    <2>1. /\ UNCHANGED <<upload, missing, limit>> /\ ServerGoes(s, "hello")
          /\ cli[s] = "opening" /\ ClientGoes(s, "await auth")
          BY <1>2 DEF Open
    <2> QED  BY <2>1, ClientMovesUpload DEF ClientPlaces, ClientReading, BeforeUpload
  <1>3. CASE ReadMissingPaths(s)
    <2>1. /\ UNCHANGED <<upload, missing, limit, srv>> /\ cli[s] = "await missing"
          /\ ClientGoes(s, "await build") \/ ClientGoes(s, "await upload")
          BY <1>3 DEF ReadMissingPaths
    <2> QED  BY <2>1, ClientMovesUpload DEF ClientPlaces, ClientReading, BeforeUpload
  <1>4. CASE ReadUploadReady(s)
    <2>1. \A t \in Sessions :
              /\ upload'[t] = IF t = s THEN "open" ELSE upload[t]
              /\ cli'[t] = IF t = s THEN "uploading" ELSE cli[t]
          BY <1>4 DEF TypeOK, ReadUploadReady, ClientGoes
    <2>2. upload[s] = "none" /\ UNCHANGED <<missing, limit, srv>>
          BY <1>4 DEF UploadInv, ReadUploadReady, BeforeUpload
    <2> QED  BY <2>1, <2>2 DEF UploadInv, Complete, BeforeUpload
  <1>5. CASE FinishUpload(s)
    <2>1. \A t \in Sessions :
              /\ upload'[t] = IF t = s THEN "whole" ELSE upload[t]
              /\ cli'[t] = IF t = s THEN "await build" ELSE cli[t]
          BY <1>5 DEF TypeOK, FinishUpload, Exported, ClientGoes
    <2>2. upload[s] = "open" /\ UNCHANGED <<missing, limit, srv>>
          BY <1>5 DEF UploadInv, FinishUpload
    <2> QED  BY <2>1, <2>2 DEF UploadInv, Complete, BeforeUpload
  <1>6. CASE ReadBuildFinished(s)
    <2>1. /\ UNCHANGED <<upload, missing, limit, srv>>
          /\ ClientGoes(s, "await closure") \/ ClientGoes(s, "build failed")
          BY <1>6 DEF ReadBuildFinished
    <2> QED  BY <2>1, ClientMovesUpload DEF ClientPlaces, ClientReading, ClientEnds, BeforeUpload
  <1>7. CASE ReadDone(s)
    <2>1. /\ UNCHANGED <<upload, missing, limit, srv>>
          /\ ClientGoes(s, "success") \/ ClientGoes(s, "failed")
          BY <1>7 DEF ReadDone
    <2> QED  BY <2>1, ClientMovesUpload DEF ClientPlaces, ClientEnds, BeforeUpload
  <1>8. CASE ReadChunk(s) \/ ReadBuildMessage(s) \/ OpenCacheStream(s)
    <2>1. UNCHANGED <<upload, missing, limit, srv, cli>>
          BY <1>8 DEF ReadChunk, ReadBuildMessage, OpenCacheStream
    <2> QED  BY <2>1, ClientMovesUpload
  <1>9. CASE SeeError(s) \/ PathListTimeout(s) \/ SendFails(s) \/ GiveUp(s)
    BY <1>9, LeaveKeepsUpload DEF SeeError, PathListTimeout, SendFails, GiveUp
  <1> QED  BY <1>1, <1>2, <1>3, <1>4, <1>5, <1>6, <1>7, <1>8, <1>9 DEF Client

\* A step of the handler that does not look at the inputs.
LEMMA HandlerMovesUpload ==
  ASSUME TypeOK, UploadInv, NEW s \in Sessions,
         UNCHANGED <<cli, upload, missing, limit>>,
         \/ UNCHANGED srv
         \/ \E place \in ServerPlaces :
                /\ ServerGoes(s, place)
                /\ place \in PastInputs => srv[s] \in PastInputs \/ Complete(s)
  PROVE  UploadInv'
  <1>1. \A t \in Sessions : srv'[t] \in PastInputs => srv[t] \in PastInputs \/ Complete(t)
        BY DEF TypeOK, ServerGoes
  <1> QED  BY <1>1 DEF UploadInv, Complete

LEMMA ImportChecksUpload ==
  ASSUME TypeOK, NEW s \in Sessions, ImportInputs(s)
  PROVE  Complete(s)
  <1>1. upload[s] = "whole" /\ WithinUploadLimit(s)  BY DEF ImportInputs
  <1>2. missing[s] \in Nat /\ limit[s] \subseteq Limits  BY DEF TypeOK
  <1>3. ASSUME NEW text \in limit[s] PROVE missing[s] <= text.number * text.unit
    <2> DEFINE max == text.number * text.unit
    <2>1. text.number \in Nat /\ text.unit \in Nat
          BY <1>2, SessionAssumption
    <2>2. max \in Nat  BY <2>1
    <2>3. (IF missing[s] > max THEN max + 1 ELSE missing[s]) <= max
          BY <1>1 DEF WithinUploadLimit
    <2> HIDE DEF max
    <2>4. missing[s] <= max  BY <1>2, <2>2, <2>3
    <2> QED  BY <2>4 DEF max
  <1> QED  BY <1>1, <1>3 DEF Complete

LEMMA HandlerKeepsUpload ==
  ASSUME TypeOK, UploadInv, NEW s \in Sessions, Handler(s) \/ SendLog(s) \/ NixFails(s)
  PROVE  UploadInv'
  <1> USE DEF policy, ticket, cache, lists
  <1> DEFINE Rest == UNCHANGED <<cli, upload, missing, limit>>
  <1>0. \A place \in {"record", "ended", "closing"} :
            ServerGoes(s, place) => \E q \in ServerPlaces : ServerGoes(s, q) /\ q \notin PastInputs
    <2>1. {"record", "ended", "closing"} \subseteq ServerPlaces
          BY DEF ServerPlaces, ServerEnds
    <2>2. "record" \notin PastInputs /\ "ended" \notin PastInputs /\ "closing" \notin PastInputs
          BY DEF PastInputs
    <2> QED  BY <2>1, <2>2
  <1>a. ASSUME FailRun(s) PROVE UploadInv'
    <2>1. Rest /\ ServerGoes(s, "record")  BY <1>a DEF FailRun
    <2> QED  BY <1>0, <2>1, HandlerMovesUpload
  <1>b. ASSUME Drop(s) \/ Close(s) PROVE UploadInv'
    <2>1. Rest /\ ServerGoes(s, "ended")  BY <1>b DEF Drop, Close
    <2> QED  BY <1>0, <2>1, HandlerMovesUpload
  <1>1. CASE \/ ReadHello(s) \/ AuthorizeTrusted(s) \/ AuthorizeTicket(s) \/ RefuseAuth(s)
             \/ ReadBuildRequest(s) \/ RefuseRequest(s) \/ RefuseTicket(s) \/ Redeem(s)
             \/ SendBuildQueued(s) \/ Start(s) \/ OfferUpload(s) \/ AcceptUpload(s)
    <2>1. Rest
          BY <1>1
          DEF ReadHello, AuthorizeTrusted, AuthorizeTicket, RefuseAuth, ReadBuildRequest,
              RefuseRequest, RefuseTicket, Redeem, SendBuildQueued, Start, OfferUpload,
              AcceptUpload
    <2>2. \E place \in ServerPlaces \ PastInputs : ServerGoes(s, place)
          BY <1>1
          DEF ReadHello, AuthorizeTrusted, AuthorizeTicket, RefuseAuth, ReadBuildRequest,
              RefuseRequest, RefuseTicket, Redeem, SendBuildQueued, Start, OfferUpload,
              AcceptUpload, ServerPlaces, ServerReading, Running, PastInputs
    <2> QED  BY <2>1, <2>2, HandlerMovesUpload
  <1>2. CASE ReadBuildPaths(s)
    <2>1. Rest /\ (UNCHANGED srv \/ srv' = [srv EXCEPT ![s] = "redeem"])
          BY <1>2 DEF ReadBuildPaths
    <2> QED  BY <2>1, HandlerMovesUpload DEF ServerGoes, ServerPlaces, PastInputs
  <1>3. CASE SendMissingPaths(s)
    <2>1. PICK n \in SomeOf(srvList[s].paths) :
              /\ missing' = [missing EXCEPT ![s] = n]
              /\ ServerGoes(s, IF n = 0 THEN "start build" ELSE "offer")
          BY <1>3 DEF SendMissingPaths
    <2>2. \A t \in Sessions :
              /\ missing'[t] = IF t = s THEN n ELSE missing[t]
              /\ srv'[t] = IF t = s THEN IF n = 0 THEN "start build" ELSE "offer" ELSE srv[t]
          BY <2>1 DEF TypeOK, ServerGoes
    <2>3. UNCHANGED <<cli, upload, limit>>  BY <1>3 DEF SendMissingPaths
    <2> QED  BY <2>2, <2>3 DEF UploadInv, Complete, PastInputs
  <1>4. CASE ImportInputs(s)
    <2>1. Rest /\ ServerGoes(s, "start build")  BY <1>4 DEF ImportInputs
    <2>2. "start build" \in ServerPlaces  BY DEF ServerPlaces, Running
    <2> QED  BY <1>4, <2>1, <2>2, ImportChecksUpload, HandlerMovesUpload
  <1>5. CASE \/ SendBuildStarted(s) \/ FinishBuild(s) \/ SendOutputClosure(s)
             \/ ReadOutputCacheDone(s) \/ FinishExport(s)
    <2>1. Rest /\ srv[s] \in PastInputs
          BY <1>5
          DEF SendBuildStarted, FinishBuild, SendOutputClosure, ReadOutputCacheDone,
              FinishExport, PastInputs
    <2>2. \E place \in ServerPlaces : ServerGoes(s, place)
          BY <1>5
          DEF SendBuildStarted, FinishBuild, SendOutputClosure, ReadOutputCacheDone,
              FinishExport, ServerPlaces, Running
    <2> QED  BY <2>1, <2>2, HandlerMovesUpload
  <1>6. CASE ReadOutputRequest(s)
    <2>1. Rest /\ srv[s] \in PastInputs  BY <1>6 DEF ReadOutputRequest, PastInputs
    <2>2. UNCHANGED srv \/ ServerGoes(s, "record") \/ ServerGoes(s, "serving")
          BY <1>6 DEF ReadOutputRequest
    <2> QED  BY <2>1, <2>2, HandlerMovesUpload DEF ServerPlaces, ServerReading
  <1>7. CASE SendLog(s) \/ AcceptStream(s) \/ JoinTask(s) \/ ServeFile(s) \/ ReadLength(s)
    <2>1. Rest /\ UNCHANGED srv
          BY <1>7 DEF SendLog, AcceptStream, JoinTask, ServeFile, ReadLength
    <2> QED  BY <2>1, HandlerMovesUpload
  <1>8. CASE Record(s)
    <2>1. Rest /\ ServerGoes(s, "closing")  BY <1>8 DEF Record
    <2> QED  BY <1>0, <2>1, HandlerMovesUpload
  <1>9. CASE BadLimit(s) \/ Close(s) \/ Garbled(s) \/ NixFails(s)
    BY <1>9, <1>a, <1>b DEF BadLimit, Garbled, NixFails
  <1>10. CASE ServerTimeout(s)
    <2>1. CASE Rest /\ ServerGoes(s, "closing")
          BY <1>0, <2>1, HandlerMovesUpload
    <2> QED  BY <1>10, <1>a, <1>b, <2>1 DEF ServerTimeout
  <1>11. CASE StepFails(s)
    BY <1>11, <1>a, <1>b DEF StepFails
  <1> QED
    BY <1>1, <1>2, <1>3, <1>4, <1>5, <1>6, <1>7, <1>8, <1>9, <1>10, <1>11
    DEF Handler

LEMMA UploadInvariant == Spec => []UploadInv
  <1>1. Init => UploadInv
    BY DEF Init, UploadInv, PastInputs
  <1>2. TypeOK /\ UploadInv /\ [Next]_vars => UploadInv'
    <2> SUFFICES ASSUME TypeOK, UploadInv, [Next]_vars PROVE UploadInv'  OBVIOUS
    <2> USE DEF policy, ticket, cache, lists
    <2>0. ASSUME UNCHANGED <<cli, upload, missing, limit>>,
                 \A s \in Sessions : srv'[s] \in PastInputs => srv'[s] = srv[s]
          PROVE  UploadInv'
          BY <2>0 DEF UploadInv, Complete
    <2>1. ASSUME NEW s \in Sessions, Lose(s) PROVE UploadInv'
          BY <2>0, <2>1 DEF Lose
    <2>2. CASE Revoke \/ OtherRedeems \/ OtherStarts \/ OtherEnds \/ UNCHANGED vars
          BY <2>0, <2>2 DEF Revoke, OtherRedeems, OtherStarts, OtherEnds, vars
    <2>3. CASE Crash
      <3>1. \A s \in Sessions : srv'[s] = IF srv[s] \in {"none", "ended"} THEN srv[s] ELSE "down"
            BY <2>3 DEF Crash
      <3>2. UNCHANGED <<cli, upload, missing, limit>>  BY <2>3 DEF Crash
      <3> QED  BY <2>0, <3>1, <3>2 DEF PastInputs
    <2> QED  BY <2>1, <2>2, <2>3, ClientKeepsUpload, HandlerKeepsUpload DEF Next
  <1> QED  BY <1>1, <1>2, SessionTypeCorrect, PTL DEF Spec

\* BuildsOnWholeInputs: nothing is built before every input is there, and no upload
\* beyond the limit is used, however the upload was interrupted.
THEOREM InputsAreWhole == Spec => []BuildsOnWholeInputs
  <1>1. UploadInv => BuildsOnWholeInputs
    BY DEF UploadInv, Complete, PastInputs, BuildsOnWholeInputs
  <1> QED  BY <1>1, UploadInvariant, PTL

-----------------------------------------------------------------------------
\* Turns.  Each side decides for itself what comes next.  They agree because the
\* messages of a queue are in turn, each one the message that the one before it
\* calls for, from what the reader waits for to what the writer is about to write.

\* A chunk of a path list that was cut by path_chunks::write.
Full(m) ==
    /\ m.paths <= ChunkSize
    /\ ~m.flag => m.paths = ChunkSize

\* The turn that a message is for.  An error may come at any time.
Due(turn, m) ==
    \/ m.type = "Error"
    \/ turn = "auth" /\ m.type = "AuthOk"
    \/ turn = "queued" /\ m.type = "BuildQueued"
    \/ turn = "missing" /\ m.type = "MissingPaths" /\ Full(m)
    \/ turn = "more missing" /\ m.type = "MissingPaths" /\ Full(m) /\ m.paths # 0
    \/ turn = "upload" /\ m.type = "InputUploadReady"
    \/ turn = "build" /\ m.type \in {"BuildStarted", "NixLog", "BuildFinished"}
    \/ turn = "closure" /\ m.type = "OutputClosure" /\ Full(m)
    \/ turn = "cache" /\ m.type \in {"OutputCacheReady", "Done"}
    \/ turn = "done" /\ m.type = "Done"
    \/ turn = "hello" /\ m.type = "Hello"
    \/ turn = "credentials" /\ m.type \in {"AuthTrustedClient", "AuthTicket"}
    \/ turn = "request" /\ m.type = "BuildRequest"
    \/ turn = "paths" /\ m.type = "BuildPaths"
    \/ turn = "outputs" /\ m.type = "OutputRequest" /\ Full(m)
    \/ turn = "cache done" /\ m.type \in {Length, "OutputCacheDone"}

\* The turn that comes after a message.
After(m) ==
    CASE m.type = "AuthOk" -> "queued"
      [] m.type = "BuildQueued" -> "missing"
      [] m.type = "MissingPaths" /\ ~m.flag -> "more missing"
      [] m.type = "MissingPaths" /\ m.flag -> IF m.paths = 0 THEN "build" ELSE "upload"
      [] m.type \in {"InputUploadReady", "BuildStarted", "NixLog"} -> "build"
      [] m.type = "BuildFinished" -> IF m.flag THEN "closure" ELSE "end"
      [] m.type = "OutputClosure" -> IF m.flag THEN "cache" ELSE "closure"
      [] m.type = "OutputCacheReady" -> "done"
      [] m.type = "Hello" -> "credentials"
      [] m.type \in {"AuthTrustedClient", "AuthTicket"} -> "request"
      [] m.type = "BuildRequest" -> "paths"
      [] m.type = "BuildPaths" -> IF m.flag THEN "outputs" ELSE "paths"
      [] m.type = "OutputRequest" -> IF m.flag THEN "cache done" ELSE "outputs"
      [] m.type \in {Length, "OutputCacheDone"} -> "cache done"
      [] OTHER -> "end"

\* A queue whose messages come in turn, and the turn it ends with.
InTurn(turn, q) ==
    \A i \in 1..Len(q) : Due(IF i = 1 THEN turn ELSE After(q[i - 1]), q[i])
LastTurn(turn, q) == IF q = <<>> THEN turn ELSE After(q[Len(q)])

\* What the client at a place, with so much of a list, reads next ...
Awaits(place, list) ==
    CASE place \in {"start", "opening", "await auth"} -> "auth"
      [] place \in {"preflight", "preparing", "await queued"} -> "queued"
      [] place = "await missing" -> IF list = NoChunks THEN "missing" ELSE "more missing"
      [] place = "await upload" -> "upload"
      [] place \in {"uploading", "await build"} -> "build"
      [] place = "await closure" -> "closure"
      [] place = "await cache" -> "cache"
      [] place \in {"importing", "await done"} -> "done"
      [] OTHER -> "end"

\* ... and what it writes next.
Asks(place) ==
    CASE place \in {"await auth", "preflight", "preparing"} -> "request"
      [] place \in {"await queued", "await missing", "await upload", "uploading",
                    "await build", "await closure"} -> "outputs"
      [] OTHER -> "cache done"

\* What the handler reads next ...
Listens(place) ==
    CASE place = "hello" -> "hello"
      [] place = "auth" -> "credentials"
      [] place = "request" -> "request"
      [] place = "paths" -> "paths"
      [] place \in {"redeem", "enqueue", "waiting", "checking", "offer", "accept upload",
                    "import inputs", "start build", "realise", "exporting",
                    "await request"} -> "outputs"
      [] place = "serving" -> "cache done"
      [] OTHER -> "end"

\* ... and what it writes next.
Tells(place) ==
    CASE place \in {"hello", "auth"} -> "auth"
      [] place \in {"request", "paths", "redeem", "enqueue"} -> "queued"
      [] place \in {"waiting", "checking"} -> "missing"
      [] place = "offer" -> "upload"
      [] place \in {"accept upload", "import inputs", "start build", "realise"} -> "build"
      [] place = "exporting" -> "closure"
      [] place = "await request" -> "cache"
      [] place \in {"serving", "draining"} -> "done"
      [] OTHER -> "end"

\* The connection is there from Open until one of the two ends.
LinkInv ==
    \A s \in Sessions :
        /\ cli[s] \in {"start", "opening"} => link[s] = "none"
        /\ link[s] = "none" => /\ toClient[s] = <<>> /\ srv[s] = "none"
                               /\ cliList[s] = NoChunks /\ srvList[s] = NoChunks
        /\ link[s] = "up" => cli[s] \notin ClientEnds

\* What the client has not read is in turn, and while the connection is up ends
\* with the turn that the handler has.
ClientInTurn(s) ==
    LET turn == Awaits(cli[s], cliList[s])
    IN  /\ InTurn(turn, toClient[s])
        /\ link[s] = "up" /\ Tells(srv[s]) # "end" => LastTurn(turn, toClient[s]) = Tells(srv[s])

ListRead(s) ==
    IF cli[s] \in {"await missing", "await closure"}
    THEN cliList[s].paths = cliList[s].chunks * ChunkSize
    ELSE cliList[s] = NoChunks

ClientTurns ==
    \A s \in Sessions : cli[s] \notin ClientEnds => ClientInTurn(s) /\ ListRead(s)

\* What the handler has not read, likewise.
ServerInTurn(s) ==
    /\ InTurn(Listens(srv[s]), toServer[s])
    /\ link[s] = "up" => LastTurn(Listens(srv[s]), toServer[s]) = Asks(cli[s])

ServerTurns == \A s \in Sessions : Listens(srv[s]) # "end" => ServerInTurn(s)

\* What the client asks for of the outputs, it asks for once, when the handler
\* waits for it, and it is within the limits.
Asked == {"await cache", "importing", "await done"}
Offered == {"await request", "serving", "draining", "record", "closing", "ended", "down"}
Uploading == {"offer", "accept upload", "import inputs", "start build", "realise", "exporting"}

Holds(q, type) == \E i \in 1..Len(q) : q[i].type = type

RequestFits(s) ==
    /\ cli[s] \notin Asked \cup ClientEnds => srvList[s] = NoChunks
    /\ srvList[s].paths = srvList[s].chunks * ChunkSize
    /\ \A i \in 1..Len(toServer[s]) : toServer[s][i].type = "OutputRequest" =>
           /\ srvList[s].chunks + i <= MaxChunks
           /\ (srvList[s].chunks + i - 1) * ChunkSize + toServer[s][i].paths <= MaxPaths

OutputsFit(s) ==
    /\ cli[s] \in Asked => srv[s] \in Offered
    /\ Holds(toClient[s], "OutputClosure") => srv[s] \in Offered
    /\ Holds(toServer[s], "OutputRequest") => cli[s] \in Asked \cup ClientEnds
    /\ srv[s] \in Uploading => srvList[s] = NoChunks
    /\ srv[s] = "await request" => RequestFits(s)

OutputsInv == \A s \in Sessions : OutputsFit(s)

TurnsInv == LinkInv /\ ClientTurns /\ ServerTurns /\ OutputsInv

LEMMA EmptyQueue ==
  ASSUME NEW q \in Seq(Message)
  PROVE  q = <<>> <=> Len(q) = 0
  BY EmptySeq

\* Queues.  Reading, losing the end, and writing keep a queue in turn.
LEMMA TurnHead ==
  ASSUME NEW turn, NEW q \in Seq(Message), q # <<>>, InTurn(turn, q)
  PROVE  /\ Due(turn, Head(q)) /\ Head(q) \in Message
         /\ InTurn(After(Head(q)), Tail(q))
         /\ LastTurn(After(Head(q)), Tail(q)) = LastTurn(turn, q)
  <1> DEFINE r == Tail(q)
             m == Head(q)
  <1>1. /\ Len(q) \in Nat /\ Len(q) # 0
        /\ m = q[1] /\ m \in Message
        /\ r \in Seq(Message) /\ Len(r) = Len(q) - 1
        /\ \A i \in 1..Len(r) : r[i] = q[i + 1]
        BY HeadTailProperties, LenProperties, EmptySeq
  <1>2. r = <<>> <=> Len(r) = 0  BY <1>1, EmptyQueue
  <1> HIDE DEF r, m
  <1>3. Due(turn, m)  BY <1>1 DEF InTurn
  <1>4. ASSUME NEW i \in 1..Len(r) PROVE Due(IF i = 1 THEN After(m) ELSE After(r[i - 1]), r[i])
    <2>1. i + 1 \in 1..Len(q) /\ i + 1 # 1 /\ i + 1 - 1 = i  BY <1>1
    <2>2. Due(After(q[i]), q[i + 1])  BY <2>1 DEF InTurn
    <2>3. i # 1 => r[i - 1] = q[i]
      <3>1. i # 1 => i - 1 \in 1..Len(r) /\ i - 1 + 1 = i  BY <1>1
      <3> QED  BY <1>1, <3>1
    <2> QED  BY <1>1, <2>2, <2>3
  <1>5. LastTurn(After(m), r) = LastTurn(turn, q)
    <2>1. CASE Len(r) = 0
      <3>1. Len(q) = 1  BY <1>1, <2>1
      <3> QED  BY <1>1, <1>2, <2>1, <3>1 DEF LastTurn
    <2>2. CASE Len(r) # 0
      <3>1. Len(r) \in 1..Len(r) /\ Len(r) + 1 = Len(q)  BY <1>1, <2>2
      <3>2. r[Len(r)] = q[Len(q)]  BY <1>1, <3>1
      <3> QED  BY <1>2, <2>2, <3>2 DEF LastTurn
    <2> QED  BY <2>1, <2>2
  <1>6. InTurn(After(m), r)  BY <1>4 DEF InTurn
  <1> QED  BY <1>1, <1>3, <1>5, <1>6 DEF m, r

LEMMA TurnPrefix ==
  ASSUME NEW turn, NEW q \in Seq(Message), InTurn(turn, q), NEW r \in Prefixes(q)
  PROVE  InTurn(turn, r)
  <1>1. PICK n \in 0..Len(q) : r = SubSeq(q, 1, n)  BY DEF Prefixes
  <1>2. n \in Int /\ Len(q) \in Nat  BY <1>1, LenProperties
  <1>3. \A i \in 1..n : q[i] \in Message  BY <1>2, ElementOfSeq
  <1>4. Len(r) = n /\ \A i \in 1..n : r[i] = q[i]
    <2>1. /\ Len(r) = IF 1 <= n THEN n - 1 + 1 ELSE 0
          /\ \A i \in 1..(n - 1 + 1) : r[i] = q[1 + i - 1]
          BY <1>1, <1>2, <1>3, SubSeqProperties
    <2> QED  BY <1>2, <2>1
  <1> QED  BY <1>2, <1>4 DEF InTurn

LEMMA TurnConcat ==
  ASSUME NEW turn, NEW q \in Seq(Message), NEW r \in Seq(Message),
         InTurn(turn, q), InTurn(LastTurn(turn, q), r)
  PROVE  InTurn(turn, q \o r) /\ LastTurn(turn, q \o r) = LastTurn(LastTurn(turn, q), r)
  <1> DEFINE t == q \o r
  <1>1. /\ Len(q) \in Nat /\ Len(r) \in Nat /\ t \in Seq(Message)
        /\ Len(t) = Len(q) + Len(r)
        /\ \A i \in 1..(Len(q) + Len(r)) : t[i] = IF i <= Len(q) THEN q[i] ELSE r[i - Len(q)]
        BY ConcatProperties, LenProperties
  <1>2. /\ q = <<>> <=> Len(q) = 0
        /\ r = <<>> <=> Len(r) = 0
        /\ t = <<>> <=> Len(t) = 0
        BY <1>1, EmptySeq
  <1> HIDE DEF t
  <1>3. ASSUME NEW i \in 1..Len(t) PROVE Due(IF i = 1 THEN turn ELSE After(t[i - 1]), t[i])
    <2>1. CASE i <= Len(q)
      <3>1. i \in 1..Len(q) /\ t[i] = q[i]  BY <1>1, <2>1
      <3>2. i # 1 => t[i - 1] = q[i - 1]  BY <1>1, <3>1, SMTT(30)
      <3> QED  BY <3>1, <3>2 DEF InTurn
    <2>2. CASE i = Len(q) + 1
      <3>1. 1 \in 1..Len(r) /\ t[i] = r[1]  BY <1>1, <2>2
      <3>2. Due(LastTurn(turn, q), r[1])  BY <3>1 DEF InTurn
      <3>3. i # 1 => Len(q) # 0 /\ t[i - 1] = q[Len(q)]  BY <1>1, <2>2
      <3>4. i = 1 => Len(q) = 0  BY <1>1, <2>2
      <3> QED  BY <1>2, <3>1, <3>2, <3>3, <3>4 DEF LastTurn
    <2>3. CASE i > Len(q) + 1
      <3>1. i - Len(q) \in 1..Len(r) /\ t[i] = r[i - Len(q)] /\ i - Len(q) # 1 /\ i # 1
            BY <1>1, <2>3
      <3>2. i - 1 \in 1..(Len(q) + Len(r)) /\ ~(i - 1 <= Len(q)) /\ i - 1 - Len(q) = i - Len(q) - 1
            BY <1>1, <2>3
      <3>3. t[i - 1] = r[i - Len(q) - 1]  BY <1>1, <3>2
      <3> QED  BY <3>1, <3>3 DEF InTurn
    <2> QED  BY <1>1, <2>1, <2>2, <2>3
  <1>4. LastTurn(turn, t) = LastTurn(LastTurn(turn, q), r)
    <2>1. CASE Len(r) = 0
      <3>1. Len(q) # 0 => Len(q) \in 1..(Len(q) + Len(r)) /\ t[Len(q)] = q[Len(q)]
            BY <1>1
      <3> QED  BY <1>1, <1>2, <2>1, <3>1 DEF LastTurn
    <2>2. CASE Len(r) # 0
      <3>1. t[Len(t)] = r[Len(r)]
        <4>1. Len(t) \in 1..(Len(q) + Len(r)) /\ ~(Len(t) <= Len(q)) /\ Len(t) - Len(q) = Len(r)
              BY <1>1, <2>2
        <4> QED  BY <1>1, <4>1
      <3> QED  BY <1>1, <1>2, <2>2, <3>1 DEF LastTurn
    <2> QED  BY <2>1, <2>2
  <1> QED  BY <1>3, <1>4 DEF InTurn, t

LEMMA TurnOne ==
  ASSUME NEW turn, NEW m \in Message, Due(turn, m)
  PROVE  InTurn(turn, <<m>>) /\ LastTurn(turn, <<m>>) = After(m)
  <1>1. Len(<<m>>) = 1 /\ <<m>>[1] = m /\ <<m>> # <<>>  OBVIOUS
  <1>2. \A i \in 1..Len(<<m>>) : i = 1  BY <1>1
  <1> QED  BY <1>1, <1>2 DEF InTurn, LastTurn

\* Multiples of the chunk size.
LEMMA Multiples ==
  ASSUME NEW i \in Nat, NEW j \in Nat
  PROVE  /\ i * ChunkSize \in Nat
         /\ (i + 1) * ChunkSize = i * ChunkSize + ChunkSize
         /\ i < j => i * ChunkSize + ChunkSize <= j * ChunkSize
         /\ i * ChunkSize < j * ChunkSize => i < j
  <1>1. ChunkSize \in Nat /\ ChunkSize >= 1  BY SessionAssumption
  <1>2. i * ChunkSize \in Nat /\ (i + 1) * ChunkSize = i * ChunkSize + ChunkSize  BY <1>1
  <1>3. ASSUME NEW k \in Nat, NEW l \in Nat, k <= l PROVE k * ChunkSize <= l * ChunkSize
    <2>1. l - k \in Nat /\ (l - k) * ChunkSize \in Nat  BY <1>1, <1>3
    <2>2. (l - k) * ChunkSize = l * ChunkSize - k * ChunkSize  BY <1>1
    <2>3. l * ChunkSize \in Nat /\ k * ChunkSize \in Nat  BY <1>1
    <2> QED  BY <2>1, <2>2, <2>3
  <1>4. i < j => i * ChunkSize + ChunkSize <= j * ChunkSize
    <2>1. i < j => i + 1 <= j /\ i + 1 \in Nat  OBVIOUS
    <2> QED  BY <1>2, <1>3, <2>1
  <1>5. i * ChunkSize < j * ChunkSize => i < j
    <2>1. j <= i => j * ChunkSize <= i * ChunkSize  BY <1>3
    <2>2. i * ChunkSize \in Nat /\ j * ChunkSize \in Nat  BY <1>1
    <2> QED  BY <2>1, <2>2
  <1> QED  BY <1>2, <1>4, <1>5

\* How many chunks a list is cut into, and the size of the last.
Chunks(n) == IF n = 0 THEN 1 ELSE (n + ChunkSize - 1) \div ChunkSize

LEMMA ChunkCount ==
  ASSUME NEW n \in Nat
  PROVE  /\ Chunks(n) \in Nat \ {0}
         /\ n - (Chunks(n) - 1) * ChunkSize \in 0..ChunkSize
         /\ n - (Chunks(n) - 1) * ChunkSize = 0 <=> n = 0
         /\ n = 0 => Chunks(n) = 1
         /\ \A k \in Nat : n <= (k + 1) * ChunkSize => Chunks(n) <= k + 1
  <1>1. ChunkSize \in Nat /\ ChunkSize >= 1  BY SessionAssumption
  <1>2. CASE n = 0  BY <1>1, <1>2 DEF Chunks
  <1>3. CASE n # 0
    <2> DEFINE c == (n + ChunkSize - 1) \div ChunkSize
    <2>1. /\ c \in Nat
          /\ c * ChunkSize <= n + ChunkSize - 1
          /\ n + ChunkSize - 1 < c * ChunkSize + ChunkSize
          BY <1>1
    <2>2. Chunks(n) = c  BY <1>3 DEF Chunks
    <2> HIDE DEF c
    <2>3. c * ChunkSize \in Nat  BY <2>1, Multiples
    <2>4. c # 0  BY <1>1, <1>3, <2>1
    <2>5. c - 1 \in Nat /\ (c - 1) * ChunkSize = c * ChunkSize - ChunkSize
      <3>1. c - 1 \in Nat /\ c - 1 + 1 = c  BY <2>1, <2>4
      <3>2. c * ChunkSize = (c - 1) * ChunkSize + ChunkSize /\ (c - 1) * ChunkSize \in Nat
            BY <3>1, Multiples
      <3> QED  BY <1>1, <3>1, <3>2
    <2>6. /\ n - (c - 1) * ChunkSize \in 0..ChunkSize
          /\ n - (c - 1) * ChunkSize # 0
          BY <1>1, <2>1, <2>3, <2>5
    <2>7. ASSUME NEW k \in Nat, n <= (k + 1) * ChunkSize PROVE c <= k + 1
      <3>1. k + 1 \in Nat /\ k + 2 \in Nat /\ k + 1 + 1 = k + 2  OBVIOUS
      <3>2. (k + 2) * ChunkSize = (k + 1) * ChunkSize + ChunkSize /\ (k + 1) * ChunkSize \in Nat
            BY <3>1, Multiples
      <3>3. c * ChunkSize < (k + 2) * ChunkSize  BY <1>1, <2>1, <2>3, <2>7, <3>2
      <3>4. c < k + 2  BY <2>1, <3>1, <3>3, Multiples
      <3> QED  BY <2>1, <3>4
    <2> QED  BY <1>3, <2>1, <2>2, <2>4, <2>6, <2>7
  <1> QED  BY <1>2, <1>3

\* path_chunks::write, chunk by chunk: only the last is flagged, the others are full, and
\* only the one chunk of an empty list names no path.
LEMMA PathListIs ==
  ASSUME NEW n \in Nat, NEW type \in Kinds, NEW q, q = PathList(type, n)
  PROVE  /\ q \in Seq(Message)
         /\ Len(q) = Chunks(n)
         /\ \A i \in 1..Chunks(n) :
                /\ q[i].type = type
                /\ q[i].flag <=> i = Chunks(n)
                /\ Full(q[i])
                /\ q[i].paths = 0 <=> n = 0
  <1>1. q \in Seq(Message)  BY ListIn
  <1>2. ChunkSize \in Nat /\ ChunkSize >= 1  BY SessionAssumption
  <1>3. /\ Chunks(n) \in Nat \ {0}
        /\ n - (Chunks(n) - 1) * ChunkSize \in 0..ChunkSize
        /\ n - (Chunks(n) - 1) * ChunkSize = 0 <=> n = 0
        /\ n = 0 => Chunks(n) = 1
        BY ChunkCount
  <1>4. q = [i \in 1..Chunks(n) |->
                [type |-> type,
                 paths |-> IF i < Chunks(n) THEN ChunkSize ELSE n - (Chunks(n) - 1) * ChunkSize,
                 flag |-> i = Chunks(n)]]
        BY DEF PathList, Chunks
  <1>5. Len(q) = Chunks(n)  BY <1>1, <1>3, <1>4, LenProperties
  <1>6. ASSUME NEW i \in 1..Chunks(n)
        PROVE  /\ q[i].type = type
               /\ q[i].flag <=> i = Chunks(n)
               /\ Full(q[i])
               /\ q[i].paths = 0 <=> n = 0
    <2>1. /\ q[i].type = type
          /\ q[i].paths = IF i < Chunks(n) THEN ChunkSize ELSE n - (Chunks(n) - 1) * ChunkSize
          /\ q[i].flag = (i = Chunks(n))
          BY <1>4
    <2>1a. q[i].flag <=> i = Chunks(n)  BY <2>1, Zenon
    <2>2. CASE i = Chunks(n)
      <3>1. q[i].paths \in 0..ChunkSize /\ (q[i].paths = 0 <=> n = 0)  BY <1>3, <2>1, <2>2
      <3> QED  BY <1>2, <2>1, <2>1a, <2>2, <3>1 DEF Full
    <2>3. CASE i < Chunks(n)
      <3>1. q[i].paths = ChunkSize /\ ~q[i].flag /\ n # 0  BY <1>3, <2>1, <2>1a, <2>3
      <3> QED  BY <1>2, <2>1, <2>1a, <2>3, <3>1 DEF Full
    <2> QED  BY <1>3, <2>2, <2>3
  <1> QED  BY <1>1, <1>5, <1>6

\* The paths of a list's first chunks are among the list's.
LEMMA PathListFits ==
  ASSUME NEW n \in Nat, NEW type \in Kinds, NEW q, q = PathList(type, n),
         NEW i \in 1..Chunks(n)
  PROVE  q[i].paths \in Nat /\ (i - 1) * ChunkSize + q[i].paths <= n
  <1>1. ChunkSize \in Nat /\ ChunkSize >= 1  BY SessionAssumption
  <1>2. /\ Chunks(n) \in Nat \ {0}
        /\ n - (Chunks(n) - 1) * ChunkSize \in 0..ChunkSize
        BY ChunkCount
  <1>3. q = [j \in 1..Chunks(n) |->
                [type |-> type,
                 paths |-> IF j < Chunks(n) THEN ChunkSize ELSE n - (Chunks(n) - 1) * ChunkSize,
                 flag |-> j = Chunks(n)]]
        BY DEF PathList, Chunks
  <1>4. q[i].paths = IF i < Chunks(n) THEN ChunkSize ELSE n - (Chunks(n) - 1) * ChunkSize
        BY <1>3
  <1>5. CASE i = Chunks(n)
    <2>1. q[i].paths = n - (i - 1) * ChunkSize  BY <1>2, <1>4, <1>5
    <2>2. i - 1 \in Nat /\ (i - 1) * ChunkSize \in Nat
      <3>1. i - 1 \in Nat  OBVIOUS
      <3> QED  BY <3>1, Multiples
    <2>3. q[i].paths \in Nat  BY <1>1, <1>2, <1>5, <2>1
    <2> QED  BY <2>1, <2>2, <2>3
  <1>6. CASE i < Chunks(n)
    <2>1. q[i].paths = ChunkSize  BY <1>4, <1>6
    <2>2. i - 1 \in Nat /\ Chunks(n) - 1 \in Nat /\ i - 1 < Chunks(n) - 1  BY <1>2, <1>6
    <2>3. /\ (i - 1) * ChunkSize + ChunkSize <= (Chunks(n) - 1) * ChunkSize
          /\ (Chunks(n) - 1) * ChunkSize \in Nat /\ (i - 1) * ChunkSize \in Nat
          BY <2>2, Multiples
    <2> QED  BY <1>1, <1>2, <2>1, <2>3
  <1> QED  BY <1>2, <1>5, <1>6

\* The turns of a message, kind by kind.
LEMMA AfterIs ==
  ASSUME NEW m
  PROVE  /\ m.type = "AuthOk" => After(m) = "queued"
         /\ m.type = "BuildQueued" => After(m) = "missing"
         /\ m.type = "MissingPaths" =>
                /\ ~m.flag => After(m) = "more missing"
                /\ m.flag => After(m) = IF m.paths = 0 THEN "build" ELSE "upload"
         /\ m.type \in {"InputUploadReady", "BuildStarted", "NixLog"} => After(m) = "build"
         /\ m.type = "BuildFinished" =>
                /\ m.flag => After(m) = "closure"
                /\ ~m.flag => After(m) = "end"
         /\ m.type = "OutputClosure" =>
                /\ m.flag => After(m) = "cache"
                /\ ~m.flag => After(m) = "closure"
         /\ m.type = "OutputCacheReady" => After(m) = "done"
         /\ m.type = "Hello" => After(m) = "credentials"
         /\ m.type \in {"AuthTrustedClient", "AuthTicket"} => After(m) = "request"
         /\ m.type = "BuildRequest" => After(m) = "paths"
         /\ m.type = "BuildPaths" =>
                /\ m.flag => After(m) = "outputs"
                /\ ~m.flag => After(m) = "paths"
         /\ m.type = "OutputRequest" =>
                /\ m.flag => After(m) = "cache done"
                /\ ~m.flag => After(m) = "outputs"
         /\ m.type \in {Length, "OutputCacheDone"} => After(m) = "cache done"
  BY DEF After, Length

LEMMA TurnList ==
  ASSUME NEW n \in Nat
  PROVE  /\ InTurn("paths", PathList("BuildPaths", n))
         /\ LastTurn("paths", PathList("BuildPaths", n)) = "outputs"
         /\ InTurn("missing", PathList("MissingPaths", n))
         /\ LastTurn("missing", PathList("MissingPaths", n)) = IF n = 0 THEN "build" ELSE "upload"
         /\ InTurn("closure", PathList("OutputClosure", n))
         /\ LastTurn("closure", PathList("OutputClosure", n)) = "cache"
         /\ InTurn("outputs", PathList("OutputRequest", n))
         /\ LastTurn("outputs", PathList("OutputRequest", n)) = "cache done"
  <1>1. Chunks(n) \in Nat \ {0} /\ (n = 0 => Chunks(n) = 1)  BY ChunkCount
  <1>2. ASSUME NEW type \in Kinds, NEW q, q = PathList(type, n)
        PROVE  /\ Len(q) = Chunks(n) /\ q # <<>>
               /\ \A i \in 1..Chunks(n) :
                    /\ q[i].type = type /\ (q[i].flag <=> i = Chunks(n)) /\ Full(q[i])
                    /\ (q[i].paths = 0 <=> n = 0)
                    /\ i # 1 => /\ q[i - 1].type = type /\ ~q[i - 1].flag
                                /\ n # 0
    <2>1. /\ q \in Seq(Message) /\ Len(q) = Chunks(n)
          /\ \A i \in 1..Chunks(n) :
                 /\ q[i].type = type /\ (q[i].flag <=> i = Chunks(n)) /\ Full(q[i])
                 /\ (q[i].paths = 0 <=> n = 0)
          BY <1>2, PathListIs
    <2>2. q # <<>>  BY <1>1, <2>1, EmptyQueue
    <2>3. ASSUME NEW i \in 1..Chunks(n), i # 1
          PROVE  q[i - 1].type = type /\ ~q[i - 1].flag /\ n # 0
      <3>1. i - 1 \in 1..Chunks(n) /\ i - 1 # Chunks(n)  BY <1>1, <2>3
      <3> QED  BY <1>1, <2>1, <2>3, <3>1
    <2> QED  BY <2>1, <2>2, <2>3
  <1>3. /\ InTurn("paths", PathList("BuildPaths", n))
        /\ LastTurn("paths", PathList("BuildPaths", n)) = "outputs"
    <2> DEFINE q == PathList("BuildPaths", n)
    <2>1. "BuildPaths" \in Kinds  BY DEF Kinds
    <2>2. /\ Len(q) = Chunks(n) /\ q # <<>>
          /\ \A i \in 1..Chunks(n) :
               /\ q[i].type = "BuildPaths" /\ (q[i].flag <=> i = Chunks(n)) /\ Full(q[i])
               /\ (q[i].paths = 0 <=> n = 0)
               /\ i # 1 => /\ q[i - 1].type = "BuildPaths" /\ ~q[i - 1].flag
                           /\ n # 0
          BY <1>2, <2>1
    <2> HIDE DEF q
    <2>3. Chunks(n) \in 1..Chunks(n)  BY <1>1
    <2>4. ASSUME NEW i \in 1..Chunks(n)
          PROVE  Due(IF i = 1 THEN "paths" ELSE After(q[i - 1]), q[i])
      <3>1. i # 1 => After(q[i - 1]) = "paths"  BY <2>2, AfterIs
      <3>2. Due("paths", q[i]) /\ (i # 1 => Due("paths", q[i]))  BY <2>2 DEF Due
      <3> QED  BY <3>1, <3>2
    <2>5. LastTurn("paths", q) = "outputs"  BY <2>2, <2>3, AfterIs DEF LastTurn
    <2> QED  BY <2>2, <2>4, <2>5 DEF q, InTurn
  <1>4. /\ InTurn("missing", PathList("MissingPaths", n))
        /\ LastTurn("missing", PathList("MissingPaths", n)) = IF n = 0 THEN "build" ELSE "upload"
    <2> DEFINE q == PathList("MissingPaths", n)
    <2>1. "MissingPaths" \in Kinds  BY DEF Kinds
    <2>2. /\ Len(q) = Chunks(n) /\ q # <<>>
          /\ \A i \in 1..Chunks(n) :
               /\ q[i].type = "MissingPaths" /\ (q[i].flag <=> i = Chunks(n)) /\ Full(q[i])
               /\ (q[i].paths = 0 <=> n = 0)
               /\ i # 1 => /\ q[i - 1].type = "MissingPaths" /\ ~q[i - 1].flag
                           /\ n # 0
          BY <1>2, <2>1
    <2> HIDE DEF q
    <2>3. Chunks(n) \in 1..Chunks(n)  BY <1>1
    <2>4. ASSUME NEW i \in 1..Chunks(n)
          PROVE  Due(IF i = 1 THEN "missing" ELSE After(q[i - 1]), q[i])
      <3>1. i # 1 => After(q[i - 1]) = "more missing"  BY <2>2, AfterIs
      <3>2. Due("missing", q[i]) /\ (i # 1 => Due("more missing", q[i]))  BY <2>2 DEF Due
      <3> QED  BY <3>1, <3>2
    <2>5. LastTurn("missing", q) = IF n = 0 THEN "build" ELSE "upload"
      <3>1. q[Chunks(n)].flag /\ q[Chunks(n)].type = "MissingPaths" /\ (q[Chunks(n)].paths = 0 <=> n = 0)
            BY <2>2, <2>3
      <3>2. After(q[Chunks(n)]) = IF n = 0 THEN "build" ELSE "upload"  BY <3>1, AfterIs
      <3> QED  BY <2>2, <3>2 DEF LastTurn
    <2> QED  BY <2>2, <2>4, <2>5 DEF q, InTurn
  <1>5. /\ InTurn("closure", PathList("OutputClosure", n))
        /\ LastTurn("closure", PathList("OutputClosure", n)) = "cache"
    <2> DEFINE q == PathList("OutputClosure", n)
    <2>1. "OutputClosure" \in Kinds  BY DEF Kinds
    <2>2. /\ Len(q) = Chunks(n) /\ q # <<>>
          /\ \A i \in 1..Chunks(n) :
               /\ q[i].type = "OutputClosure" /\ (q[i].flag <=> i = Chunks(n)) /\ Full(q[i])
               /\ (q[i].paths = 0 <=> n = 0)
               /\ i # 1 => /\ q[i - 1].type = "OutputClosure" /\ ~q[i - 1].flag
                           /\ n # 0
          BY <1>2, <2>1
    <2> HIDE DEF q
    <2>3. Chunks(n) \in 1..Chunks(n)  BY <1>1
    <2>4. ASSUME NEW i \in 1..Chunks(n)
          PROVE  Due(IF i = 1 THEN "closure" ELSE After(q[i - 1]), q[i])
      <3>1. i # 1 => After(q[i - 1]) = "closure"  BY <2>2, AfterIs
      <3>2. Due("closure", q[i]) /\ (i # 1 => Due("closure", q[i]))  BY <2>2 DEF Due
      <3> QED  BY <3>1, <3>2
    <2>5. LastTurn("closure", q) = "cache"  BY <2>2, <2>3, AfterIs DEF LastTurn
    <2> QED  BY <2>2, <2>4, <2>5 DEF q, InTurn
  <1>6. /\ InTurn("outputs", PathList("OutputRequest", n))
        /\ LastTurn("outputs", PathList("OutputRequest", n)) = "cache done"
    <2> DEFINE q == PathList("OutputRequest", n)
    <2>1. "OutputRequest" \in Kinds  BY DEF Kinds
    <2>2. /\ Len(q) = Chunks(n) /\ q # <<>>
          /\ \A i \in 1..Chunks(n) :
               /\ q[i].type = "OutputRequest" /\ (q[i].flag <=> i = Chunks(n)) /\ Full(q[i])
               /\ (q[i].paths = 0 <=> n = 0)
               /\ i # 1 => /\ q[i - 1].type = "OutputRequest" /\ ~q[i - 1].flag
                           /\ n # 0
          BY <1>2, <2>1
    <2> HIDE DEF q
    <2>3. Chunks(n) \in 1..Chunks(n)  BY <1>1
    <2>4. ASSUME NEW i \in 1..Chunks(n)
          PROVE  Due(IF i = 1 THEN "outputs" ELSE After(q[i - 1]), q[i])
      <3>1. i # 1 => After(q[i - 1]) = "outputs"  BY <2>2, AfterIs
      <3>2. Due("outputs", q[i]) /\ (i # 1 => Due("outputs", q[i]))  BY <2>2 DEF Due
      <3> QED  BY <3>1, <3>2
    <2>5. LastTurn("outputs", q) = "cache done"  BY <2>2, <2>3, AfterIs DEF LastTurn
    <2> QED  BY <2>2, <2>4, <2>5 DEF q, InTurn
  <1> QED  BY <1>3, <1>4, <1>5, <1>6

-----------------------------------------------------------------------------
\* What the steps do at their session; all others are as they were.

Elsewhere(s) ==
    \A t \in Sessions \ {s} :
        /\ cli'[t] = cli[t] /\ srv'[t] = srv[t] /\ link'[t] = link[t]
        /\ toServer'[t] = toServer[t] /\ toClient'[t] = toClient[t]
        /\ cliList'[t] = cliList[t] /\ srvList'[t] = srvList[t]

LEMMA ReachedIs ==
  ASSUME NEW s \in Sessions, NEW queue, queue[s] \in Seq(Message), NEW r \in Reached(s, queue)
  PROVE  /\ r \in Seq(Message) /\ Len(r) <= Len(queue[s])
         /\ \A i \in 1..Len(r) : r[i] = queue[s][i]
         /\ \A turn : InTurn(turn, queue[s]) => InTurn(turn, r)
  <1> DEFINE q == queue[s]
  <1>1. CASE link[s] # "up"
    <2>1. r = q /\ Len(q) \in Nat  BY <1>1, LenProperties DEF Reached
    <2> QED  BY <2>1
  <1>2. CASE link[s] = "up"
    <2>1. r \in Prefixes(q)  BY <1>2 DEF Reached
    <2>2. PICK n \in 0..Len(q) : r = SubSeq(q, 1, n)  BY <2>1 DEF Prefixes
    <2>3. n \in Int /\ Len(q) \in Nat  BY <2>2, LenProperties
    <2>4. \A i \in 1..n : q[i] \in Message  BY <2>3, ElementOfSeq
    <2>5. /\ r \in Seq(Message)
          /\ Len(r) = IF 1 <= n THEN n - 1 + 1 ELSE 0
          /\ \A i \in 1..(n - 1 + 1) : r[i] = q[1 + i - 1]
          BY <2>2, <2>3, <2>4, SubSeqProperties
    <2> HIDE DEF q
    <2>6. Len(r) = n /\ \A i \in 1..n : r[i] = q[i]  BY <2>3, <2>5
    <2>7. \A turn : InTurn(turn, q) => InTurn(turn, r)  BY <2>3, <2>6 DEF InTurn
    <2> QED  BY <2>3, <2>5, <2>6, <2>7 DEF q
  <1> QED  BY <1>1, <1>2

LEMMA HangsUpIs ==
  ASSUME TypeOK, NEW s \in Sessions
  PROVE  /\ ClientHangsUp(s) =>
                /\ link' = [link EXCEPT ![s] = IF @ = "up" THEN "cut" ELSE @]
                /\ toClient' = [toClient EXCEPT ![s] = <<>>]
                /\ toServer'[s] \in Reached(s, toServer)
                /\ \A t \in Sessions \ {s} : toServer'[t] = toServer[t]
         /\ ServerHangsUp(s) =>
                /\ link' = [link EXCEPT ![s] = IF @ = "up" THEN "cut" ELSE @]
                /\ toServer' = [toServer EXCEPT ![s] = <<>>]
                /\ toClient'[s] \in Reached(s, toClient)
                /\ \A t \in Sessions \ {s} : toClient'[t] = toClient[t]
  <1>1. ASSUME ClientHangsUp(s)
        PROVE  /\ toServer'[s] \in Reached(s, toServer)
               /\ \A t \in Sessions \ {s} : toServer'[t] = toServer[t]
    <2>1. PICK q \in Reached(s, toServer) : toServer' = [toServer EXCEPT ![s] = q]
          BY <1>1 DEF ClientHangsUp
    <2> QED  BY <2>1 DEF TypeOK
  <1>2. ASSUME ServerHangsUp(s)
        PROVE  /\ toClient'[s] \in Reached(s, toClient)
               /\ \A t \in Sessions \ {s} : toClient'[t] = toClient[t]
    <2>1. PICK q \in Reached(s, toClient) : toClient' = [toClient EXCEPT ![s] = q]
          BY <1>2 DEF ServerHangsUp
    <2> QED  BY <2>1 DEF TypeOK
  <1> QED  BY <1>1, <1>2 DEF ClientHangsUp, ServerHangsUp, Cut

LEMMA ClientHangsUpElsewhere ==
  ASSUME TypeOK, NEW s \in Sessions, ClientHangsUp(s),
         UNCHANGED <<srv, cliList, srvList>>, NEW place, ClientGoes(s, place)
  PROVE  Elsewhere(s)
  <1>1. \A t \in Sessions \ {s} : /\ link'[t] = link[t] /\ toClient'[t] = toClient[t]
                                  /\ toServer'[t] = toServer[t]
    <2>1. /\ link' = [link EXCEPT ![s] = IF @ = "up" THEN "cut" ELSE @]
          /\ toClient' = [toClient EXCEPT ![s] = <<>>]
          /\ \A t \in Sessions \ {s} : toServer'[t] = toServer[t]
          BY HangsUpIs
    <2> QED  BY <2>1 DEF TypeOK
  <1>2. \A t \in Sessions \ {s} : cli'[t] = cli[t]  BY DEF ClientGoes, TypeOK
  <1> QED  BY <1>1, <1>2 DEF Elsewhere

LEMMA ServerHangsUpElsewhere ==
  ASSUME TypeOK, NEW s \in Sessions, Drop(s) \/ Close(s)
  PROVE  /\ Elsewhere(s) /\ UNCHANGED <<cli, cliList>>
         /\ link'[s] = IF link[s] = "up" THEN "cut" ELSE link[s]
  <1>1. ServerHangsUp(s) /\ ServerGoes(s, "ended") /\ UNCHANGED <<cli, cliList, srvList>>
        BY DEF Drop, Close, lists
  <1>2. /\ link'[s] = IF link[s] = "up" THEN "cut" ELSE link[s]
        /\ \A t \in Sessions \ {s} : /\ link'[t] = link[t] /\ toClient'[t] = toClient[t]
                                     /\ toServer'[t] = toServer[t]
        BY <1>1, HangsUpIs DEF TypeOK
  <1>3. \A t \in Sessions \ {s} : srv'[t] = srv[t]  BY <1>1 DEF ServerGoes, TypeOK
  <1> QED  BY <1>1, <1>2, <1>3 DEF Elsewhere

LEMMA ClientElsewhere ==
  ASSUME TypeOK, NEW s \in Sessions, Client(s) \/ GiveUp(s)
  PROVE  Elsewhere(s)
  <1> USE DEF lists
  <1>1. CASE \/ FindLocalOutputs(s) \/ ResolveOutputs(s) \/ Open(s) \/ ReadAuthOk(s)
             \/ Preflight(s) \/ ReadBuildQueued(s)
    BY <1>1, ZenonT(60)
    DEF FindLocalOutputs, ResolveOutputs, Open, ReadAuthOk, Preflight, ReadBuildQueued,
        ClientGoes, ServerGoes, ClientReads, TypeOK, Elsewhere
  <1>1a. CASE \/ ReadUploadReady(s) \/ FinishUpload(s) \/ ReadBuildMessage(s)
              \/ ReadOutputCacheReady(s) \/ OpenCacheStream(s) \/ SendOutputCacheDone(s)
    BY <1>1a
    DEF ReadUploadReady, FinishUpload, ReadBuildMessage, ReadOutputCacheReady,
        OpenCacheStream, SendOutputCacheDone, ClientGoes, ClientReads,
        ClientSends, TypeOK, Elsewhere
  <1>2. CASE SendBuildRequest(s) \/ ReadChunk(s) \/ ReadMissingPaths(s) \/ RequestOutputs(s)
    BY <1>2
    DEF SendBuildRequest, ReadChunk, ReadMissingPaths, RequestOutputs, ClientGoes,
        ClientReads, ClientSends, TypeOK, Elsewhere
  <1>3. CASE ReadBuildFinished(s) \/ ReadDone(s)
    <2>1. CASE /\ ClientReads(s, "BuildFinished") /\ ClientGoes(s, "await closure")
               /\ UNCHANGED <<srv, link, toServer, cliList, srvList>>
          BY <2>1 DEF ClientGoes, ClientReads, TypeOK, Elsewhere
    <2>2. CASE /\ ClientHangsUp(s) /\ \E place : ClientGoes(s, place)
               /\ UNCHANGED <<srv, cliList, srvList>>
          BY <2>2, ClientHangsUpElsewhere
    <2> QED  BY <1>3, <2>1, <2>2 DEF ReadBuildFinished, ReadDone
  <1>4. CASE SeeError(s) \/ PathListTimeout(s) \/ SendFails(s) \/ GiveUp(s)
    <2>1. Leave(s, "failed")  BY <1>4 DEF SeeError, PathListTimeout, SendFails, GiveUp
    <2> QED  BY <2>1, ClientHangsUpElsewhere DEF Leave
  <1> QED  BY <1>1, <1>1a, <1>2, <1>3, <1>4 DEF Client

\* A step of the handler: the connection is up, or ends with the step.
LEMMA HandlerElsewhere ==
  ASSUME TypeOK, NEW s \in Sessions, Handler(s) \/ SendLog(s) \/ NixFails(s)
  PROVE  /\ Elsewhere(s)
         /\ srv[s] # "none" /\ cli'[s] = cli[s] /\ cliList'[s] = cliList[s]
         /\ \/ link'[s] = link[s]
            \/ link'[s] = IF link[s] = "up" THEN "cut" ELSE link[s]
  <1> USE DEF lists
  <1> DEFINE Goal ==
         /\ Elsewhere(s)
         /\ cli'[s] = cli[s] /\ cliList'[s] = cliList[s]
         /\ \/ link'[s] = link[s]
            \/ link'[s] = IF link[s] = "up" THEN "cut" ELSE link[s]
  <1>0. ASSUME Drop(s) \/ Close(s) PROVE Goal
    BY <1>0, ServerHangsUpElsewhere
  <1>a. ASSUME FailRun(s), UNCHANGED toServer \/ ServerReads(s, "OutputCacheDone") PROVE Goal
    BY <1>a DEF FailRun, ServerGoes, ServerReads, TypeOK, Elsewhere
  <1>b. srv[s] # "none"
    BY DEF Handler, SendLog, NixFails, ReadHello, AuthorizeTrusted, AuthorizeTicket, RefuseAuth,
        ReadBuildRequest, ReadBuildPaths, RefuseRequest, Redeem, RefuseTicket, SendBuildQueued,
        Start, SendMissingPaths, OfferUpload, AcceptUpload, ImportInputs, SendBuildStarted,
        FinishBuild, SendOutputClosure, ReadOutputRequest, AcceptStream, JoinTask, ServeFile,
        ReadLength, ReadOutputCacheDone, FinishExport, Record, BadLimit, Close, Garbled,
        ServerTimeout, StepFails, Running
  <1> SUFFICES Goal  BY <1>b
  <1>1. CASE \/ ReadHello(s) \/ AuthorizeTrusted(s) \/ AuthorizeTicket(s) \/ RefuseAuth(s)
             \/ ReadBuildRequest(s)
    BY <1>1
    DEF ReadHello, AuthorizeTrusted, AuthorizeTicket, RefuseAuth, ReadBuildRequest,
        ServerGoes, ServerReads, ServerSends, TypeOK, Elsewhere
  <1>1a. CASE \/ ReadBuildPaths(s) \/ RefuseRequest(s) \/ Redeem(s)
              \/ RefuseTicket(s) \/ SendBuildQueued(s) \/ Start(s)
    BY <1>1a, SMTT(30)
    DEF ReadBuildPaths, RefuseRequest, Redeem, RefuseTicket, SendBuildQueued, Start,
        ServerGoes, ServerReads, ServerSends, TypeOK, Elsewhere
  <1>2. CASE SendMissingPaths(s) \/ OfferUpload(s) \/ AcceptUpload(s) \/ ImportInputs(s)
    BY <1>2
    DEF SendMissingPaths, OfferUpload, AcceptUpload, ImportInputs, ServerGoes, ServerSends,
        TypeOK, Elsewhere
  <1>2a. CASE \/ SendBuildStarted(s) \/ SendLog(s) \/ FinishBuild(s) \/ SendOutputClosure(s)
    BY <1>2a
    DEF SendBuildStarted, SendLog, FinishBuild, SendOutputClosure, ServerGoes, ServerSends,
        TypeOK, Elsewhere
  <1>3. CASE \/ AcceptStream(s) \/ JoinTask(s) \/ ServeFile(s)
             \/ ReadLength(s) \/ ReadOutputCacheDone(s) \/ FinishExport(s) \/ Record(s)
    BY <1>3
    DEF AcceptStream, JoinTask, ServeFile, ReadLength, ReadOutputCacheDone, FinishExport,
        Record, ServerGoes, ServerReads, ServerSends, TypeOK, Elsewhere
  <1>3a. CASE ReadOutputRequest(s)
    <2>1. /\ UNCHANGED <<cli, link, cliList>>
          /\ toServer' = [toServer EXCEPT ![s] = Tail(@)]
          /\ toClient' = toClient \/ \E msgs : toClient' = [toClient EXCEPT ![s] = @ \o msgs]
          /\ srv' = srv \/ \E place : srv' = [srv EXCEPT ![s] = place]
          /\ \E read : srvList' = [srvList EXCEPT ![s] = read]
          BY <1>3a, Zenon DEF ReadOutputRequest, ServerGoes, ServerReads, ServerSends
    <2>2. \A t \in Sessions \ {s} : toServer'[t] = toServer[t] /\ srvList'[t] = srvList[t]
          BY <2>1 DEF TypeOK
    <2>3. \A t \in Sessions \ {s} : toClient'[t] = toClient[t]  BY <2>1 DEF TypeOK
    <2>4. \A t \in Sessions \ {s} : srv'[t] = srv[t]  BY <2>1 DEF TypeOK
    <2> QED  BY <2>1, <2>2, <2>3, <2>4 DEF Elsewhere
  <1>4. CASE BadLimit(s) \/ Close(s) \/ Garbled(s) \/ NixFails(s)
    BY <1>0, <1>4, <1>a DEF BadLimit, Garbled, NixFails
  <1>5. CASE ServerTimeout(s)
    <2>1. CASE /\ ServerSends(s, <<Msg("Error")>>) /\ ServerGoes(s, "closing")
               /\ UNCHANGED <<cli, link, toServer, lists>>
          BY <2>1 DEF ServerGoes, ServerSends, TypeOK, Elsewhere
    <2> QED  BY <1>0, <1>5, <1>a, <2>1 DEF ServerTimeout
  <1>6. CASE StepFails(s)  BY <1>0, <1>6, <1>a DEF StepFails
  <1> QED  BY <1>1, <1>1a, <1>2, <1>2a, <1>3, <1>3a, <1>4, <1>5, <1>6 DEF Handler

-----------------------------------------------------------------------------
\* The connection.
LEMMA ClientKeepsLink ==
  ASSUME TypeOK, LinkInv, NEW s \in Sessions, Client(s) \/ GiveUp(s)
  PROVE  LinkInv'
  <1> USE DEF lists
  <1> DEFINE Kept ==
         /\ cli'[s] \in {"start", "opening"} => link'[s] = "none"
         /\ link'[s] = "none" => /\ toClient'[s] = <<>> /\ srv'[s] = "none"
                                 /\ cliList'[s] = NoChunks /\ srvList'[s] = NoChunks
         /\ link'[s] = "up" => cli'[s] \notin ClientEnds
  <1>0. /\ cli[s] \in {"start", "opening"} => link[s] = "none"
        /\ link[s] = "none" => /\ toClient[s] = <<>> /\ srv[s] = "none"
                               /\ cliList[s] = NoChunks /\ srvList[s] = NoChunks
        /\ link[s] = "up" => cli[s] \notin ClientEnds
        BY DEF LinkInv
  <1>1. CASE \/ FindLocalOutputs(s) \/ ResolveOutputs(s) \/ Open(s)
    <2>1. Kept
      BY <1>0, <1>1 DEF FindLocalOutputs, ResolveOutputs, Open, ClientGoes, TypeOK, ClientEnds
    <2> QED  BY <2>1, ClientElsewhere DEF Elsewhere, LinkInv
  <1>2. CASE \/ ReadAuthOk(s) \/ ReadBuildQueued(s) \/ ReadChunk(s) \/ ReadMissingPaths(s)
             \/ ReadUploadReady(s) \/ ReadBuildMessage(s) \/ RequestOutputs(s)
             \/ ReadOutputCacheReady(s)
    <2>1. /\ toClient[s] # <<>> /\ link' = link
          /\ cli'[s] \notin {"start", "opening"} \cup ClientEnds
          BY <1>2, ZenonT(60)
          DEF ReadAuthOk, ReadBuildQueued, ReadChunk, ReadMissingPaths, ReadUploadReady,
              ReadBuildMessage, RequestOutputs, ReadOutputCacheReady, ClientReads, ClientSends,
              ClientGoes, TypeOK, ClientEnds
    <2>2. Kept  BY <1>0, <2>1
    <2> QED  BY <2>2, ClientElsewhere DEF Elsewhere, LinkInv
  <1>3. CASE \/ Preflight(s) \/ SendBuildRequest(s) \/ FinishUpload(s) \/ OpenCacheStream(s)
             \/ SendOutputCacheDone(s)
    <2>1. /\ UNCHANGED <<link, srv, toClient, cliList, srvList>>
          /\ cli'[s] \notin {"start", "opening"} \cup ClientEnds
          BY <1>3
          DEF Preflight, SendBuildRequest, FinishUpload, OpenCacheStream, SendOutputCacheDone,
              ClientSends, ClientGoes, TypeOK, ClientEnds
    <2>2. Kept  BY <1>0, <2>1
    <2> QED  BY <2>2, ClientElsewhere DEF Elsewhere, LinkInv
  <1>4. CASE /\ ClientHangsUp(s) /\ UNCHANGED <<srv, cliList, srvList>>
             /\ \E place \in ClientEnds : ClientGoes(s, place)
    <2>1. /\ link' = [link EXCEPT ![s] = IF @ = "up" THEN "cut" ELSE @]
          /\ toClient' = [toClient EXCEPT ![s] = <<>>]
          BY <1>4, HangsUpIs
    <2>2. cli'[s] \in ClientEnds  BY <1>4 DEF ClientGoes, TypeOK
    <2>3. Kept  BY <1>0, <1>4, <2>1, <2>2 DEF TypeOK, ClientEnds
    <2> QED  BY <2>3, ClientElsewhere DEF Elsewhere, LinkInv
  <1>5. CASE ReadBuildFinished(s)
    <2>1. CASE /\ ClientReads(s, "BuildFinished") /\ ClientGoes(s, "await closure")
               /\ UNCHANGED <<srv, link, cliList, srvList>>
      <3>1. /\ toClient[s] # <<>> /\ link' = link
            /\ cli'[s] \notin {"start", "opening"} \cup ClientEnds
            BY <2>1 DEF ClientReads, ClientGoes, TypeOK, ClientEnds
      <3>2. Kept  BY <1>0, <3>1
      <3> QED  BY <3>2, ClientElsewhere DEF Elsewhere, LinkInv
    <2> QED  BY <1>4, <1>5, <2>1 DEF ReadBuildFinished, ClientEnds
  <1>6. CASE ReadDone(s)  BY <1>4, <1>6 DEF ReadDone, ClientEnds
  <1>7. CASE SeeError(s) \/ PathListTimeout(s) \/ SendFails(s) \/ GiveUp(s)
    BY <1>4, <1>7 DEF SeeError, PathListTimeout, SendFails, GiveUp, Leave, ClientEnds
  <1> QED  BY <1>1, <1>2, <1>3, <1>5, <1>6, <1>7 DEF Client

LEMMA HandlerKeepsLink ==
  ASSUME TypeOK, LinkInv, NEW s \in Sessions, Handler(s) \/ SendLog(s) \/ NixFails(s)
  PROVE  LinkInv'
  <1>1. Elsewhere(s)  BY HandlerElsewhere
  <1>2. /\ srv[s] # "none" /\ cli'[s] = cli[s]
        /\ \/ link'[s] = link[s]
           \/ link'[s] = IF link[s] = "up" THEN "cut" ELSE link[s]
        BY HandlerElsewhere
  <1>3. link[s] # "none" /\ cli[s] \notin {"start", "opening"}  BY <1>2 DEF LinkInv
  <1> QED  BY <1>1, <1>2, <1>3 DEF Elsewhere, LinkInv

-----------------------------------------------------------------------------
\* What the client reads.  A step of the client that leaves its turn as it is, or
\* reads the message that the turn is of.
LEMMA ClientReadsInTurn ==
  ASSUME TypeOK, ClientTurns, NEW s \in Sessions, Elsewhere(s),
         srv'[s] = srv[s], link'[s] = link[s],
         cli[s] \notin ClientEnds, cli'[s] \notin ClientEnds,
         \/ /\ toClient'[s] = toClient[s]
            /\ Awaits(cli'[s], cliList'[s]) = Awaits(cli[s], cliList[s])
         \/ /\ toClient[s] # <<>> /\ toClient'[s] = Tail(toClient[s])
            /\ Awaits(cli'[s], cliList'[s]) = After(Head(toClient[s])),
         ListRead(s)'
  PROVE  ClientTurns'
  <1> DEFINE turn == Awaits(cli[s], cliList[s])
             next == Awaits(cli'[s], cliList'[s])
             q == toClient[s]
             r == toClient'[s]
  <1>1. /\ InTurn(turn, q) /\ q \in Seq(Message)
        /\ link[s] = "up" /\ Tells(srv[s]) # "end" => LastTurn(turn, q) = Tells(srv[s])
        BY DEF ClientTurns, ClientInTurn, TypeOK
  <1>2. InTurn(next, r) /\ LastTurn(next, r) = LastTurn(turn, q)
    <2>1. CASE r = q /\ next = turn  BY <1>1, <2>1
    <2>2. CASE q # <<>> /\ r = Tail(q) /\ next = After(Head(q))
          BY <1>1, <2>2, TurnHead
    <2> QED  BY <2>1, <2>2
  <1>3. ClientInTurn(s)'  BY <1>1, <1>2 DEF ClientInTurn
  <1>4. \A t \in Sessions \ {s} :
            (ClientInTurn(t)' <=> ClientInTurn(t)) /\ (ListRead(t)' <=> ListRead(t))
        BY DEF Elsewhere, ClientInTurn, ListRead
  <1> QED  BY <1>3, <1>4 DEF ClientTurns, Elsewhere

\* A client that ends reads no more.
LEMMA ClientEndsInTurn ==
  ASSUME ClientTurns, NEW s \in Sessions, Elsewhere(s), cli'[s] \in ClientEnds
  PROVE  ClientTurns'
  <1>1. \A t \in Sessions \ {s} :
            (ClientInTurn(t)' <=> ClientInTurn(t)) /\ (ListRead(t)' <=> ListRead(t))
        BY DEF Elsewhere, ClientInTurn, ListRead
  <1> QED  BY <1>1 DEF ClientTurns, Elsewhere

\* A step of the handler: it says nothing and leaves its turn, says what its turn
\* is, or reports an error; or messages are lost with the connection.
LEMMA HandlerWritesInTurn ==
  ASSUME TypeOK, ClientTurns, NEW s \in Sessions, Elsewhere(s),
         cli'[s] = cli[s], cliList'[s] = cliList[s],
         \/ /\ toClient'[s] = toClient[s] /\ link'[s] = link[s]
            /\ Tells(srv'[s]) \in {"end", Tells(srv[s])}
         \/ /\ link[s] = "up" /\ link'[s] = link[s] /\ Tells(srv[s]) # "end"
            /\ \E msgs \in Seq(Message) :
                   /\ toClient'[s] = toClient[s] \o msgs
                   /\ InTurn(Tells(srv[s]), msgs)
                   /\ Tells(srv'[s]) \in {"end", LastTurn(Tells(srv[s]), msgs)}
         \/ /\ toClient'[s] = toClient[s] \o <<Msg("Error")>> /\ link'[s] = link[s]
            /\ Tells(srv'[s]) = "end"
         \/ link'[s] # "up" /\ toClient'[s] \in Reached(s, toClient) \cup {toClient[s]}
  PROVE  ClientTurns'
  <1> SUFFICES ASSUME cli[s] \notin ClientEnds PROVE ClientInTurn(s)'
    <2>1. \A t \in Sessions \ {s} :
              (ClientInTurn(t)' <=> ClientInTurn(t)) /\ (ListRead(t)' <=> ListRead(t))
          BY DEF Elsewhere, ClientInTurn, ListRead
    <2>2. ListRead(s)' <=> ListRead(s)  BY DEF ListRead
    <2> QED  BY <2>1, <2>2 DEF ClientTurns, Elsewhere
  <1> DEFINE turn == Awaits(cli[s], cliList[s])
             q == toClient[s]
  <1>1. /\ InTurn(turn, q) /\ q \in Seq(Message)
        /\ link[s] = "up" /\ Tells(srv[s]) # "end" => LastTurn(turn, q) = Tells(srv[s])
        BY DEF ClientTurns, ClientInTurn, TypeOK
  <1>2. Awaits(cli'[s], cliList'[s]) = turn  OBVIOUS
  <1> HIDE DEF turn
  <1>3. CASE /\ toClient'[s] = q /\ link'[s] = link[s]
             /\ Tells(srv'[s]) \in {"end", Tells(srv[s])}
        BY <1>1, <1>2, <1>3 DEF ClientInTurn
  <1>4. ASSUME link[s] = "up", link'[s] = link[s], Tells(srv[s]) # "end",
               NEW msgs \in Seq(Message), toClient'[s] = q \o msgs,
               InTurn(Tells(srv[s]), msgs),
               Tells(srv'[s]) \in {"end", LastTurn(Tells(srv[s]), msgs)}
        PROVE  ClientInTurn(s)'
    <2>1. LastTurn(turn, q) = Tells(srv[s])  BY <1>1, <1>4
    <2>2. InTurn(turn, q \o msgs) /\ LastTurn(turn, q \o msgs) = LastTurn(Tells(srv[s]), msgs)
          BY <1>1, <1>4, <2>1, TurnConcat
    <2> QED  BY <1>2, <1>4, <2>2 DEF ClientInTurn
  <1>5. CASE /\ toClient'[s] = q \o <<Msg("Error")>> /\ link'[s] = link[s]
             /\ Tells(srv'[s]) = "end"
    <2>1. Msg("Error") \in Message /\ <<Msg("Error")>> \in Seq(Message)  BY MsgIn DEF Kinds
    <2>2. Due(LastTurn(turn, q), Msg("Error"))  BY DEF Due, Msg
    <2>3. InTurn(LastTurn(turn, q), <<Msg("Error")>>)  BY <2>1, <2>2, TurnOne
    <2>4. InTurn(turn, q \o <<Msg("Error")>>)  BY <1>1, <2>1, <2>3, TurnConcat
    <2> QED  BY <1>2, <1>5, <2>4 DEF ClientInTurn
  <1>6. CASE link'[s] # "up" /\ toClient'[s] \in Reached(s, toClient) \cup {q}
    <2>1. InTurn(turn, toClient'[s])  BY <1>1, <1>6, ReachedIs
    <2> QED  BY <1>2, <1>6, <2>1 DEF ClientInTurn
  <1> QED  BY <1>3, <1>4, <1>5, <1>6

LEMMA NoChunksIs ==
  NoChunks.paths = 0 /\ NoChunks.chunks = 0 /\ 0 = 0 * ChunkSize
  BY SessionAssumption DEF NoChunks

\* A chunk that is not the last is a full one.
LEMMA ExtendedList ==
  ASSUME NEW list \in [chunks : Nat, paths : Nat], list.paths = list.chunks * ChunkSize,
         NEW m \in Message, Full(m)
  PROVE  /\ Extended(list, m) # NoChunks
         /\ ~m.flag => Extended(list, m).paths = Extended(list, m).chunks * ChunkSize
         /\ Extended(list, m).paths = 0 => list = NoChunks /\ m.paths = 0
         /\ list = NoChunks => Extended(list, m).paths = m.paths
  <1> DEFINE c == list.chunks
  <1>1. c \in Nat /\ list.paths = c * ChunkSize /\ m.paths \in Nat /\ ChunkSize \in Nat /\ ChunkSize >= 1
        BY SessionAssumption DEF Message
  <1>2. Extended(list, m).chunks = c + 1 /\ Extended(list, m).paths = list.paths + m.paths
        BY DEF Extended
  <1>3. c * ChunkSize \in Nat /\ (c + 1) * ChunkSize = c * ChunkSize + ChunkSize  BY <1>1, Multiples
  <1>4. c # 0 => c * ChunkSize # 0
    <2>1. c # 0 => 0 * ChunkSize + ChunkSize <= c * ChunkSize /\ 0 * ChunkSize = 0
          BY <1>1, Multiples, NoChunksIs
    <2> QED  BY <1>1, <1>3, <2>1
  <1>5. c = 0 => list = NoChunks  BY <1>1, <1>3, NoChunksIs DEF NoChunks
  <1> HIDE DEF c
  <1>6. Extended(list, m) # NoChunks  BY <1>1, <1>2, NoChunksIs
  <1>7. ~m.flag => Extended(list, m).paths = Extended(list, m).chunks * ChunkSize
        BY <1>1, <1>2, <1>3 DEF Full
  <1>8. Extended(list, m).paths = 0 => list = NoChunks /\ m.paths = 0
    <2>1. list.paths \in Nat /\ list.paths + m.paths = 0 => list.paths = 0 /\ m.paths = 0
          BY <1>1, <1>3
    <2>2. list.paths = 0 => c = 0  BY <1>1, <1>4
    <2> QED  BY <1>1, <1>2, <1>3, <1>5, <2>1, <2>2
  <1>9. list = NoChunks => Extended(list, m).paths = m.paths  BY <1>1, <1>2, NoChunksIs
  <1> QED  BY <1>6, <1>7, <1>8, <1>9

LEMMA ClientKeepsClientTurns ==
  ASSUME TypeOK, LinkInv, ClientTurns, NEW s \in Sessions, Client(s) \/ GiveUp(s)
  PROVE  ClientTurns'
  <1> USE DEF lists
  <1> DEFINE m == Head(toClient[s])
             list == cliList[s]
             turn == Awaits(cli[s], list)
  <1>0. Elsewhere(s)  BY ClientElsewhere
  <1>e. ASSUME cli'[s] \in ClientEnds PROVE ClientTurns'
    BY <1>0, <1>e, ClientEndsInTurn
  <1>l. list \in [chunks : Nat, paths : Nat]  BY DEF TypeOK
  <1>h. ASSUME toClient[s] # <<>>, cli[s] \notin ClientEnds
        PROVE  Due(turn, m) /\ m \in Message
    <2>1. InTurn(turn, toClient[s])  BY <1>h DEF ClientTurns, ClientInTurn
    <2> QED  BY <1>h, <2>1, TurnHead DEF TypeOK
  <1>1. CASE FindLocalOutputs(s)
    <2>1. cli'[s] \in ClientEnds  BY <1>1 DEF FindLocalOutputs, ClientGoes, TypeOK, ClientEnds
    <2> QED  BY <1>e, <2>1
  <1>2. CASE ResolveOutputs(s) \/ Preflight(s) \/ SendBuildRequest(s) \/ FinishUpload(s)
             \/ OpenCacheStream(s) \/ SendOutputCacheDone(s)
    <2>0. /\ UNCHANGED <<srv, link, toClient, cliList>>
          /\ \/ cli[s] = "start" /\ cli'[s] = "opening"
             \/ cli[s] = "preflight" /\ cli'[s] = "preparing"
             \/ cli[s] = "preparing" /\ cli'[s] = "await queued"
             \/ cli[s] = "uploading" /\ cli'[s] = "await build"
             \/ cli[s] = "importing" /\ cli'[s] \in {"importing", "await done"}
          BY <1>2 DEF ResolveOutputs, Preflight, SendBuildRequest, FinishUpload, OpenCacheStream,
                      SendOutputCacheDone, ClientGoes, TypeOK
    <2>1. /\ cli[s] \notin ClientEnds \cup {"await missing", "await closure"}
          /\ cli'[s] \notin ClientEnds \cup {"await missing", "await closure"}
          /\ Awaits(cli'[s], list) = turn
          BY <2>0 DEF ClientEnds, Awaits
    <2>2. ListRead(s)'  BY <2>0, <2>1 DEF ClientTurns, ListRead
    <2> QED  BY <1>0, <2>0, <2>1, <2>2, ClientReadsInTurn
  <1>3. CASE Open(s)
    <2>1. /\ cli[s] = "opening" /\ cli'[s] = "await auth" /\ srv'[s] = "hello"
          /\ UNCHANGED <<toClient, cliList>>
          BY <1>3 DEF Open, ClientGoes, ServerGoes, TypeOK
    <2>2. toClient[s] = <<>> /\ cli[s] \notin ClientEnds
          BY <2>1 DEF LinkInv, ClientEnds
    <2>3. ListRead(s)' /\ ClientInTurn(s)'
      <3>1. list = NoChunks  BY <2>1, <2>2 DEF ClientTurns, ListRead
      <3>2. Awaits(cli'[s], cliList'[s]) = "auth" /\ Tells(srv'[s]) = "auth"
            BY <2>1 DEF Awaits, Tells
      <3>3. Len(toClient'[s]) = 0  BY <2>1, <2>2, EmptyQueue DEF TypeOK
      <3>4. InTurn("auth", toClient'[s])  BY <3>3 DEF InTurn
      <3> QED  BY <2>1, <2>2, <3>1, <3>2, <3>4 DEF ListRead, ClientInTurn, LastTurn
    <2>4. \A t \in Sessions \ {s} :
              (ClientInTurn(t)' <=> ClientInTurn(t)) /\ (ListRead(t)' <=> ListRead(t))
          BY <1>0 DEF Elsewhere, ClientInTurn, ListRead
    <2> QED  BY <1>0, <2>3, <2>4 DEF ClientTurns, Elsewhere
  \* The message that is read is the one whose turn it is.
  <1>r. ASSUME toClient[s] # <<>>, toClient'[s] = Tail(toClient[s]), UNCHANGED <<srv, link>>,
               cli[s] \notin ClientEnds, cli'[s] \notin ClientEnds,
               Awaits(cli'[s], cliList'[s]) = After(m), ListRead(s)'
        PROVE  ClientTurns'
    BY <1>0, <1>r, ClientReadsInTurn
  <1>4. CASE ReadAuthOk(s) \/ ReadBuildQueued(s) \/ ReadUploadReady(s) \/ ReadBuildMessage(s)
             \/ ReadOutputCacheReady(s)
    <2>1. /\ toClient[s] # <<>> /\ toClient'[s] = Tail(toClient[s])
          /\ UNCHANGED <<srv, link, cliList>>
          BY <1>4 DEF ReadAuthOk, ReadBuildQueued, ReadUploadReady, ReadBuildMessage,
                      ReadOutputCacheReady, ClientReads, TypeOK
    <2>2. \/ m.type = "AuthOk" /\ cli[s] = "await auth" /\ cli'[s] = "preflight"
          \/ m.type = "BuildQueued" /\ cli[s] = "await queued" /\ cli'[s] = "await missing"
          \/ m.type = "InputUploadReady" /\ cli[s] = "await upload" /\ cli'[s] = "uploading"
          \/ m.type \in {"BuildStarted", "NixLog"} /\ cli[s] = "await build" /\ cli'[s] = "await build"
          \/ m.type = "OutputCacheReady" /\ cli[s] = "await cache" /\ cli'[s] = "importing"
          BY <1>4 DEF ReadAuthOk, ReadBuildQueued, ReadUploadReady, ReadBuildMessage,
                      ReadOutputCacheReady, ClientReads, ClientGoes, TypeOK
    <2> HIDE DEF m
    <2>3. list = NoChunks /\ cli[s] \notin ClientEnds
          BY <2>2 DEF ClientTurns, ListRead, ClientEnds
    <2>4. cli'[s] \notin ClientEnds /\ Awaits(cli'[s], cliList'[s]) = After(m)
          BY <2>1, <2>2, <2>3, AfterIs DEF Awaits, ClientEnds
    <2>5. ListRead(s)'  BY <2>1, <2>3, NoChunksIs DEF ListRead
    <2> QED  BY <1>r, <2>1, <2>3, <2>4, <2>5 DEF m
  <1>5. CASE ReadChunk(s)
    <2>1. /\ toClient[s] # <<>> /\ toClient'[s] = Tail(toClient[s])
          /\ UNCHANGED <<cli, srv, link>> /\ ~m.flag
          /\ cliList'[s] = Extended(list, m)
          /\ \/ m.type = "MissingPaths" /\ cli[s] = "await missing"
             \/ m.type = "OutputClosure" /\ cli[s] = "await closure"
      <3>1. PICK type \in {"MissingPaths", "OutputClosure"} :
                /\ cli[s] = IF type = "MissingPaths" THEN "await missing" ELSE "await closure"
                /\ ClientReads(s, type)
                /\ ~m.flag
                /\ cliList' = [cliList EXCEPT ![s] = Extended(@, m)]
                /\ UNCHANGED <<cli, srv, link>>
            BY <1>5 DEF ReadChunk
      <3>2. toClient[s] # <<>> /\ toClient'[s] = Tail(toClient[s]) /\ m.type = type
            BY <3>1 DEF ClientReads, TypeOK
      <3> HIDE DEF m
      <3>3. cliList'[s] = Extended(list, m)  BY <3>1 DEF TypeOK
      <3> QED  BY <3>1, <3>2, <3>3
    <2>2. cli[s] \notin ClientEnds  BY <2>1 DEF ClientEnds
    <2>3. Due(turn, m) /\ m \in Message /\ list.paths = list.chunks * ChunkSize
          BY <1>h, <2>1, <2>2 DEF ClientTurns, ListRead
    <2> HIDE DEF m
    <2>4. Full(m)  BY <2>1, <2>3 DEF Due, Length
    <2>5. cliList'[s] # NoChunks /\ cliList'[s].paths = cliList'[s].chunks * ChunkSize
          BY <1>l, <2>1, <2>3, <2>4, ExtendedList, ZenonT(60)
    <2>6. ListRead(s)'  BY <2>1, <2>5 DEF ListRead
    <2>7. Awaits(cli'[s], cliList'[s]) = After(m)
          BY <2>1, <2>5, AfterIs DEF Awaits
    <2> QED  BY <1>r, <2>1, <2>2, <2>6, <2>7 DEF m
  <1>6. CASE ReadMissingPaths(s)
    <2>1. /\ toClient[s] # <<>> /\ toClient'[s] = Tail(toClient[s])
          /\ UNCHANGED <<srv, link>> /\ m.flag
          /\ cliList'[s] = NoChunks
          /\ m.type = "MissingPaths" /\ cli[s] = "await missing"
          /\ cli'[s] = IF Extended(list, m).paths = 0 THEN "await build" ELSE "await upload"
          BY <1>6 DEF ReadMissingPaths, ClientReads, ClientGoes, TypeOK
    <2>2. cli[s] \notin ClientEnds /\ cli'[s] \notin ClientEnds  BY <2>1 DEF ClientEnds
    <2>3. Due(turn, m) /\ m \in Message /\ list.paths = list.chunks * ChunkSize
          BY <1>h, <2>1, <2>2 DEF ClientTurns, ListRead
    <2>3a. turn = IF list = NoChunks THEN "missing" ELSE "more missing"
          BY <2>1 DEF Awaits
    <2> HIDE DEF m
    <2>4. Full(m) /\ (list # NoChunks => m.paths # 0)  BY <2>1, <2>3, <2>3a DEF Due
    <2>5. Extended(list, m).paths = 0 <=> m.paths = 0
          BY <1>l, <2>3, <2>4, ExtendedList
    <2>6. ListRead(s)'  BY <2>1 DEF ListRead
    <2>7. Awaits(cli'[s], cliList'[s]) = After(m)
          BY <2>1, <2>5, AfterIs DEF Awaits
    <2> QED  BY <1>r, <2>1, <2>2, <2>6, <2>7 DEF m
  <1>7. CASE RequestOutputs(s)
    <2>1. /\ toClient[s] # <<>> /\ toClient'[s] = Tail(toClient[s])
          /\ UNCHANGED <<srv, link>> /\ m.flag
          /\ cliList'[s] = NoChunks
          /\ m.type = "OutputClosure" /\ cli[s] = "await closure" /\ cli'[s] = "await cache"
          BY <1>7 DEF RequestOutputs, ClientReads, ClientGoes, TypeOK
    <2> HIDE DEF m
    <2>2. cli[s] \notin ClientEnds /\ cli'[s] \notin ClientEnds  BY <2>1 DEF ClientEnds
    <2>3. ListRead(s)' /\ Awaits(cli'[s], cliList'[s]) = After(m)
          BY <2>1, AfterIs DEF ListRead, Awaits
    <2> QED  BY <1>r, <2>1, <2>2, <2>3 DEF m
  <1>8. CASE ReadBuildFinished(s)
    <2>1. CASE m.flag
      <3>1. /\ toClient[s] # <<>> /\ toClient'[s] = Tail(toClient[s])
            /\ UNCHANGED <<srv, link, cliList>>
            /\ m.type = "BuildFinished" /\ cli[s] = "await build" /\ cli'[s] = "await closure"
            BY <1>8, <2>1, ZenonT(60) DEF ReadBuildFinished, ClientReads, ClientGoes, TypeOK
      <3> HIDE DEF m
      <3>2. cli[s] \notin ClientEnds /\ cli'[s] \notin ClientEnds /\ list = NoChunks
            BY <3>1 DEF ClientEnds, ClientTurns, ListRead
      <3>3. Awaits(cli'[s], cliList'[s]) = After(m)
            BY <2>1, <3>1, AfterIs DEF Awaits
      <3>4. ListRead(s)'  BY <3>1, <3>2, NoChunksIs DEF ListRead
      <3> QED  BY <1>r, <3>1, <3>2, <3>3, <3>4 DEF m
    <2>2. CASE ~m.flag
      <3>1. cli'[s] \in ClientEnds
            BY <1>8, <2>2 DEF ReadBuildFinished, ClientGoes, TypeOK, ClientEnds
      <3> QED  BY <1>e, <3>1
    <2> QED  BY <2>1, <2>2
  <1>9. CASE ReadDone(s) \/ SeeError(s) \/ PathListTimeout(s) \/ SendFails(s) \/ GiveUp(s)
    <2>1. cli'[s] \in ClientEnds
          BY <1>9 DEF ReadDone, SeeError, PathListTimeout, SendFails, GiveUp, Leave, ClientGoes,
                      TypeOK, ClientEnds
    <2> QED  BY <1>e, <2>1
  <1> QED  BY <1>1, <1>2, <1>3, <1>4, <1>5, <1>6, <1>7, <1>8, <1>9 DEF Client

LEMMA HandlerKeepsClientTurns ==
  ASSUME TypeOK, ClientTurns, NEW s \in Sessions, Handler(s) \/ SendLog(s) \/ NixFails(s)
  PROVE  ClientTurns'
  <1> USE DEF lists
  <1>0. Elsewhere(s) /\ cli'[s] = cli[s] /\ cliList'[s] = cliList[s]  BY HandlerElsewhere
  \* It says nothing, or only what ends its part.
  <1>n. ASSUME toClient'[s] = toClient[s], link'[s] = link[s],
               Tells(srv'[s]) \in {"end", Tells(srv[s])}
        PROVE  ClientTurns'
    BY <1>0, <1>n, HandlerWritesInTurn
  <1>e. ASSUME ServerSends(s, <<Msg("Error")>>), link' = link, Tells(srv'[s]) = "end"
        PROVE  ClientTurns'
    <2>1. toClient'[s] = toClient[s] \o <<Msg("Error")>>  BY <1>e DEF ServerSends, TypeOK
    <2> QED  BY <1>0, <1>e, <2>1, HandlerWritesInTurn
  <1>d. ASSUME Drop(s) \/ Close(s) PROVE ClientTurns'
    <2>1. ServerHangsUp(s)  BY <1>d DEF Drop, Close
    <2>2. toClient'[s] \in Reached(s, toClient)  BY <2>1, HangsUpIs
    <2>3. link'[s] # "up"  BY <1>d, ServerHangsUpElsewhere
    <2> QED  BY <1>0, <2>2, <2>3, HandlerWritesInTurn
  <1>f. ASSUME FailRun(s) PROVE ClientTurns'
    <2>1. toClient' = toClient /\ link' = link /\ srv'[s] = "record"
          BY <1>f DEF FailRun, ServerGoes, TypeOK
    <2>2. Tells(srv'[s]) = "end"  BY <2>1 DEF Tells
    <2> QED  BY <1>n, <2>1, <2>2
  \* It says what its turn is.
  <1>s. ASSUME NEW msgs \in Seq(Message), ServerSends(s, msgs), link' = link,
               Tells(srv[s]) # "end", InTurn(Tells(srv[s]), msgs),
               Tells(srv'[s]) \in {"end", LastTurn(Tells(srv[s]), msgs)}
        PROVE  ClientTurns'
    <2>1. toClient'[s] = toClient[s] \o msgs /\ link[s] = "up"
          BY <1>s DEF ServerSends, TypeOK
    <2> HIDE DEF lists
    <2> QED  BY <1>0, <1>s, <2>1, HandlerWritesInTurn
  <1>m. ASSUME NEW m \in Message, ServerSends(s, <<m>>), link' = link,
               Tells(srv[s]) # "end", Due(Tells(srv[s]), m),
               Tells(srv'[s]) \in {"end", After(m)}
        PROVE  ClientTurns'
    <2>1. <<m>> \in Seq(Message)  OBVIOUS
    <2>2. InTurn(Tells(srv[s]), <<m>>) /\ LastTurn(Tells(srv[s]), <<m>>) = After(m)
          BY <1>m, TurnOne
    <2> QED  BY <1>m, <1>s, <2>1, <2>2
  <1>1. CASE \/ ReadHello(s) \/ ReadBuildRequest(s) \/ ReadBuildPaths(s) \/ Redeem(s) \/ Start(s)
             \/ AcceptUpload(s) \/ ImportInputs(s) \/ AcceptStream(s) \/ JoinTask(s)
             \/ ServeFile(s) \/ ReadLength(s) \/ ReadOutputCacheDone(s)
    <2>1. /\ UNCHANGED <<toClient, link>>
          /\ \/ srv'[s] = srv[s]
             \/ srv[s] = "hello" /\ srv'[s] = "auth"
             \/ srv[s] = "request" /\ srv'[s] = "paths"
             \/ srv[s] = "paths" /\ srv'[s] = "redeem"
             \/ srv[s] = "redeem" /\ srv'[s] = "enqueue"
             \/ srv[s] = "waiting" /\ srv'[s] = "checking"
             \/ srv[s] = "accept upload" /\ srv'[s] = "import inputs"
             \/ srv[s] = "import inputs" /\ srv'[s] = "start build"
             \/ srv[s] = "serving" /\ srv'[s] = "draining"
      BY <1>1 DEF ReadHello, ReadBuildRequest, ReadBuildPaths, Redeem, Start, AcceptUpload,
                  ImportInputs, AcceptStream, JoinTask, ServeFile, ReadLength,
                  ReadOutputCacheDone, ServerGoes, TypeOK
    <2>2. Tells(srv'[s]) = Tells(srv[s])  BY <2>1 DEF Tells
    <2> QED  BY <1>n, <2>1, <2>2
  <1>2. CASE \/ AuthorizeTrusted(s) \/ AuthorizeTicket(s) \/ SendBuildQueued(s) \/ OfferUpload(s)
             \/ SendBuildStarted(s) \/ SendLog(s) \/ FinishExport(s)
    <2>1. PICK type \in Kinds :
              /\ ServerSends(s, <<Msg(type)>>) /\ link' = link
              /\ \/ type = "AuthOk" /\ srv[s] = "auth" /\ srv'[s] = "request"
                 \/ type = "BuildQueued" /\ srv[s] = "enqueue" /\ srv'[s] = "waiting"
                 \/ type = "InputUploadReady" /\ srv[s] = "offer" /\ srv'[s] = "accept upload"
                 \/ type = "BuildStarted" /\ srv[s] = "start build" /\ srv'[s] = "realise"
                 \/ type = "NixLog" /\ srv[s] = "realise" /\ srv'[s] = "realise"
                 \/ type = "Done" /\ srv[s] = "draining" /\ srv'[s] = "record"
      <3>1. CASE AuthorizeTrusted(s) \/ AuthorizeTicket(s)
        <4>1. "AuthOk" \in Kinds  BY DEF Kinds
        <4> QED  BY <3>1, <4>1 DEF AuthorizeTrusted, AuthorizeTicket, ServerGoes, TypeOK
      <3>2. CASE SendBuildQueued(s)
        <4>1. "BuildQueued" \in Kinds  BY DEF Kinds
        <4> QED  BY <3>2, <4>1 DEF SendBuildQueued, ServerGoes, TypeOK
      <3>3. CASE OfferUpload(s)
        <4>1. "InputUploadReady" \in Kinds  BY DEF Kinds
        <4> QED  BY <3>3, <4>1 DEF OfferUpload, ServerGoes, TypeOK
      <3>4. CASE SendBuildStarted(s)
        <4>1. "BuildStarted" \in Kinds  BY DEF Kinds
        <4> QED  BY <3>4, <4>1 DEF SendBuildStarted, ServerGoes, TypeOK
      <3>5. CASE SendLog(s)
        <4>1. "NixLog" \in Kinds  BY DEF Kinds
        <4> QED  BY <3>5, <4>1 DEF SendLog, TypeOK
      <3>6. CASE FinishExport(s)
        <4>1. "Done" \in Kinds  BY DEF Kinds
        <4> QED  BY <3>6, <4>1 DEF FinishExport, ServerGoes, TypeOK
      <3> QED  BY <1>2, <3>1, <3>2, <3>3, <3>4, <3>5, <3>6
    <2>2. Msg(type) \in Message /\ Msg(type).type = type  BY <2>1, MsgIn DEF Msg
    <2>3. Tells(srv[s]) # "end" /\ Due(Tells(srv[s]), Msg(type))
          BY <2>1, <2>2 DEF Tells, Due
    <2>4. Tells(srv'[s]) \in {"end", After(Msg(type))}
          BY <2>1, <2>2, AfterIs DEF Tells
    <2> QED  BY <1>m, <2>1, <2>2, <2>3, <2>4
  <1>3. CASE FinishBuild(s)
    <2>1. PICK success \in BOOLEAN :
              /\ ServerSends(s, <<BuildFinished(success)>>) /\ link' = link
              /\ srv[s] = "realise"
              /\ srv'[s] = IF success THEN "exporting" ELSE "record"
          BY <1>3 DEF FinishBuild, ServerGoes, TypeOK
    <2> DEFINE m == BuildFinished(success)
    <2>2. m \in Message /\ m.type = "BuildFinished"  BY MsgIn DEF BuildFinished
    <2>3. m.flag <=> success  BY Zenon DEF BuildFinished
    <2> HIDE DEF m
    <2>4. Tells(srv[s]) # "end" /\ Due(Tells(srv[s]), m)
          BY <2>1, <2>2 DEF Tells, Due
    <2>5. Tells(srv'[s]) \in {"end", After(m)}
          BY <2>1, <2>2, <2>3, AfterIs DEF Tells
    <2> QED  BY <1>m, <2>1, <2>2, <2>4, <2>5 DEF m
  <1>4. CASE SendMissingPaths(s)
    <2>1. PICK n \in SomeOf(srvList[s].paths) :
              /\ ServerSends(s, PathList("MissingPaths", n)) /\ link' = link
              /\ srv[s] = "checking"
              /\ srv'[s] = IF n = 0 THEN "start build" ELSE "offer"
          BY <1>4 DEF SendMissingPaths, ServerGoes, TypeOK
    <2>2. n \in Nat  BY SessionAssumption DEF SomeOf
    <2>3. "MissingPaths" \in Kinds  BY DEF Kinds
    <2>4. PathList("MissingPaths", n) \in Seq(Message)  BY <2>2, <2>3, ListIn
    <2>5. Tells(srv[s]) = "missing" /\ Tells(srv'[s]) = IF n = 0 THEN "build" ELSE "upload"
          BY <2>1 DEF Tells
    <2>6. /\ InTurn("missing", PathList("MissingPaths", n))
          /\ LastTurn("missing", PathList("MissingPaths", n)) = IF n = 0 THEN "build" ELSE "upload"
          BY <2>2, TurnList
    <2> QED  BY <1>s, <2>1, <2>4, <2>5, <2>6
  <1>5. CASE SendOutputClosure(s)
    <2>1. PICK n \in ClosureSizes :
              /\ ServerSends(s, PathList("OutputClosure", n)) /\ link' = link
              /\ srv[s] = "exporting" /\ srv'[s] = "await request"
          BY <1>5 DEF SendOutputClosure, ServerGoes, TypeOK
    <2>2. n \in Nat  BY SessionAssumption DEF ClosureSizes
    <2>3. "OutputClosure" \in Kinds  BY DEF Kinds
    <2>4. PathList("OutputClosure", n) \in Seq(Message)  BY <2>2, <2>3, ListIn
    <2>5. Tells(srv[s]) = "closure" /\ Tells(srv'[s]) = "cache"  BY <2>1 DEF Tells
    <2>6. /\ InTurn("closure", PathList("OutputClosure", n))
          /\ LastTurn("closure", PathList("OutputClosure", n)) = "cache"
          BY <2>2, TurnList
    <2> QED  BY <1>s, <2>1, <2>4, <2>5, <2>6
  <1>6. CASE ReadOutputRequest(s)
    <2>1. CASE UNCHANGED <<srv, toClient, link>>  BY <1>n, <2>1
    <2>2. CASE /\ srv[s] = "await request" /\ link' = link
               /\ \/ ServerSends(s, <<Msg("Done")>>) /\ srv'[s] = "record"
                  \/ ServerSends(s, <<Msg("OutputCacheReady")>>) /\ srv'[s] = "serving"
      <3>1. PICK type \in {"Done", "OutputCacheReady"} :
                /\ ServerSends(s, <<Msg(type)>>)
                /\ srv'[s] = IF type = "Done" THEN "record" ELSE "serving"
            BY <2>2
      <3>2. Msg(type) \in Message /\ Msg(type).type = type  BY <3>1, MsgIn DEF Msg, Kinds
      <3>3. Tells(srv[s]) # "end" /\ Due(Tells(srv[s]), Msg(type))
            BY <2>2, <3>1, <3>2 DEF Tells, Due
      <3>4. Tells(srv'[s]) \in {"end", After(Msg(type))}
            BY <3>1, <3>2, AfterIs DEF Tells
      <3> QED  BY <1>m, <2>2, <3>1, <3>2, <3>3, <3>4
    <2> QED  BY <1>6, <2>1, <2>2 DEF ReadOutputRequest, ServerGoes, TypeOK
  <1>7. CASE RefuseAuth(s) \/ RefuseRequest(s) \/ RefuseTicket(s)
    <2>1. ServerSends(s, <<Msg("Error")>>) /\ link' = link /\ srv'[s] = "closing"
          BY <1>7 DEF RefuseAuth, RefuseRequest, RefuseTicket, ServerGoes, TypeOK
    <2>2. Tells(srv'[s]) = "end"  BY <2>1 DEF Tells
    <2> QED  BY <1>e, <2>1, <2>2
  <1>8. CASE Record(s)
    <2>1. link' = link /\ srv'[s] = "closing"  BY <1>8 DEF Record, ServerGoes, TypeOK
    <2>2. Tells(srv'[s]) = "end"  BY <2>1 DEF Tells
    <2> QED  BY <1>8, <1>e, <1>n, <2>1, <2>2 DEF Record
  <1>9. CASE Close(s) \/ BadLimit(s)  BY <1>9, <1>d DEF BadLimit
  <1>10. CASE Garbled(s) \/ NixFails(s)  BY <1>10, <1>f DEF Garbled, NixFails
  <1>11. CASE ServerTimeout(s)
    <2>1. CASE ServerSends(s, <<Msg("Error")>>) /\ link' = link /\ ServerGoes(s, "closing")
      <3>1. srv'[s] = "closing"  BY <2>1 DEF ServerGoes, TypeOK
      <3>2. Tells(srv'[s]) = "end"  BY <3>1 DEF Tells
      <3> QED  BY <1>e, <2>1, <3>2
    <2> QED  BY <1>11, <1>d, <1>f, <2>1 DEF ServerTimeout
  <1>12. CASE StepFails(s)  BY <1>12, <1>d, <1>f DEF StepFails
  <1> QED
    BY <1>1, <1>2, <1>3, <1>4, <1>5, <1>6, <1>7, <1>8, <1>9, <1>10, <1>11, <1>12 DEF Handler

-----------------------------------------------------------------------------
\* What the handler reads.  A step of the client leaves its turn as it is, or
\* says what it is the turn of; or messages are lost with the connection.
LEMMA ClientWritesInTurn ==
  ASSUME TypeOK, ServerTurns, NEW s \in Sessions, Elsewhere(s), srv'[s] = srv[s],
         \/ /\ toServer'[s] = toServer[s] /\ link'[s] = link[s]
            /\ Asks(cli'[s]) = Asks(cli[s])
         \/ /\ link[s] = "up" /\ link'[s] = link[s]
            /\ \E msgs \in Seq(Message) :
                   /\ toServer'[s] = toServer[s] \o msgs
                   /\ InTurn(Asks(cli[s]), msgs)
                   /\ Asks(cli'[s]) = LastTurn(Asks(cli[s]), msgs)
         \/ link'[s] # "up" /\ toServer'[s] \in Reached(s, toServer)
  PROVE  ServerTurns'
  <1> SUFFICES ASSUME Listens(srv[s]) # "end" PROVE ServerInTurn(s)'
    <2>1. \A t \in Sessions \ {s} : ServerInTurn(t)' <=> ServerInTurn(t)
          BY DEF Elsewhere, ServerInTurn
    <2> QED  BY <2>1 DEF ServerTurns, Elsewhere
  <1> DEFINE turn == Listens(srv[s])
             q == toServer[s]
  <1>1. /\ InTurn(turn, q) /\ q \in Seq(Message)
        /\ link[s] = "up" => LastTurn(turn, q) = Asks(cli[s])
        BY DEF ServerTurns, ServerInTurn, TypeOK
  <1>2. Listens(srv'[s]) = turn  OBVIOUS
  <1> HIDE DEF turn
  <1>3. CASE /\ toServer'[s] = q /\ link'[s] = link[s] /\ Asks(cli'[s]) = Asks(cli[s])
        BY <1>1, <1>2, <1>3 DEF ServerInTurn
  <1>4. ASSUME link[s] = "up", link'[s] = link[s],
               NEW msgs \in Seq(Message), toServer'[s] = q \o msgs,
               InTurn(Asks(cli[s]), msgs), Asks(cli'[s]) = LastTurn(Asks(cli[s]), msgs)
        PROVE  ServerInTurn(s)'
    <2>1. LastTurn(turn, q) = Asks(cli[s])  BY <1>1, <1>4
    <2>2. InTurn(turn, q \o msgs) /\ LastTurn(turn, q \o msgs) = LastTurn(Asks(cli[s]), msgs)
          BY <1>1, <1>4, <2>1, TurnConcat
    <2> QED  BY <1>2, <1>4, <2>2 DEF ServerInTurn
  <1>5. CASE link'[s] # "up" /\ toServer'[s] \in Reached(s, toServer)
    <2>1. InTurn(turn, toServer'[s])  BY <1>1, <1>5, ReachedIs
    <2> QED  BY <1>2, <1>5, <2>1 DEF ServerInTurn
  <1> QED  BY <1>3, <1>4, <1>5

LEMMA TurnTwo ==
  ASSUME NEW turn, NEW a \in Message, NEW b \in Message, Due(turn, a), Due(After(a), b)
  PROVE  /\ <<a, b>> \in Seq(Message)
         /\ InTurn(turn, <<a, b>>) /\ LastTurn(turn, <<a, b>>) = After(b)
  <1>1. /\ Len(<<a, b>>) = 2 /\ <<a, b>>[1] = a /\ <<a, b>>[2] = b
        /\ <<a, b>> # <<>> /\ <<a, b>> \in Seq(Message)
        OBVIOUS
  <1>2. \A i \in 1..Len(<<a, b>>) : i = 1 \/ (i = 2 /\ i - 1 = 1)  BY <1>1
  <1> QED  BY <1>1, <1>2 DEF InTurn, LastTurn

LEMMA ClientKeepsServerTurns ==
  ASSUME TypeOK, ServerTurns, NEW s \in Sessions, Client(s) \/ GiveUp(s)
  PROVE  ServerTurns'
  <1> USE DEF lists
  <1>0. Elsewhere(s)  BY ClientElsewhere
  <1>n. ASSUME UNCHANGED <<toServer, link, srv>>, Asks(cli'[s]) = Asks(cli[s])
        PROVE  ServerTurns'
    BY <1>0, <1>n, ClientWritesInTurn
  <1>s. ASSUME NEW msgs \in Seq(Message), ClientSends(s, msgs), link' = link, srv' = srv,
               InTurn(Asks(cli[s]), msgs), Asks(cli'[s]) = LastTurn(Asks(cli[s]), msgs)
        PROVE  ServerTurns'
    <2>1. toServer'[s] = toServer[s] \o msgs /\ link[s] = "up"
          BY <1>s DEF ClientSends, TypeOK
    <2> QED  BY <1>0, <1>s, <2>1, ClientWritesInTurn
  <1>h. ASSUME ClientHangsUp(s), srv' = srv PROVE ServerTurns'
    <2>1. /\ link' = [link EXCEPT ![s] = IF @ = "up" THEN "cut" ELSE @]
          /\ toServer'[s] \in Reached(s, toServer)
          BY <1>h, HangsUpIs
    <2>2. link'[s] # "up"  BY <2>1 DEF TypeOK
    <2> QED  BY <1>0, <1>h, <2>1, <2>2, ClientWritesInTurn
  <1>1. CASE \/ FindLocalOutputs(s) \/ ResolveOutputs(s) \/ ReadAuthOk(s) \/ Preflight(s)
             \/ ReadBuildQueued(s) \/ ReadChunk(s) \/ ReadMissingPaths(s) \/ ReadUploadReady(s)
             \/ FinishUpload(s) \/ ReadBuildMessage(s) \/ ReadOutputCacheReady(s)
             \/ OpenCacheStream(s)
    <2>1. /\ UNCHANGED <<toServer, link, srv>>
          /\ \/ cli'[s] = cli[s]
             \/ cli[s] = "start" /\ cli'[s] \in {"local", "opening"}
             \/ cli[s] = "await auth" /\ cli'[s] = "preflight"
             \/ cli[s] = "preflight" /\ cli'[s] = "preparing"
             \/ cli[s] = "await queued" /\ cli'[s] = "await missing"
             \/ cli[s] = "await missing" /\ cli'[s] \in {"await build", "await upload"}
             \/ cli[s] = "await upload" /\ cli'[s] = "uploading"
             \/ cli[s] = "uploading" /\ cli'[s] = "await build"
             \/ cli[s] = "await cache" /\ cli'[s] = "importing"
      BY <1>1
      DEF FindLocalOutputs, ResolveOutputs, ReadAuthOk, Preflight, ReadBuildQueued, ReadChunk,
          ReadMissingPaths, ReadUploadReady, FinishUpload, ReadBuildMessage,
          ReadOutputCacheReady, OpenCacheStream, ClientGoes, TypeOK
    <2>2. Asks(cli'[s]) = Asks(cli[s])  BY <2>1 DEF Asks
    <2> QED  BY <1>n, <2>1, <2>2
  <1>2. CASE Open(s)
    <2>1. /\ cli'[s] = "await auth" /\ srv'[s] = "hello"
          /\ toServer'[s] = <<Msg("Hello"), AuthMessage(s)>>
          BY <1>2 DEF Open, ClientGoes, ServerGoes, TypeOK
    <2> DEFINE a == Msg("Hello")
               b == AuthMessage(s)
    <2>2. /\ a \in Message /\ a.type = "Hello"
          /\ b \in Message /\ b.type \in {"AuthTrustedClient", "AuthTicket"}
          BY MsgIn DEF AuthMessage, Msg, Kinds
    <2> HIDE DEF a, b
    <2>3. After(a) = "credentials" /\ After(b) = "request"  BY <2>2, AfterIs
    <2>4. Due("hello", a) /\ Due(After(a), b)  BY <2>2, <2>3 DEF Due
    <2>5. InTurn("hello", <<a, b>>) /\ LastTurn("hello", <<a, b>>) = "request"
          BY <2>2, <2>3, <2>4, TurnTwo
    <2>6. ServerInTurn(s)'
          BY <2>1, <2>5 DEF ServerInTurn, Listens, Asks, a, b
    <2>7. \A t \in Sessions \ {s} : ServerInTurn(t)' <=> ServerInTurn(t)
          BY <1>0 DEF Elsewhere, ServerInTurn
    <2> QED  BY <1>0, <2>6, <2>7 DEF ServerTurns, Elsewhere
  <1>3. CASE SendBuildRequest(s)
    <2>1. PICK n \in ClosureSizes : ClientSends(s, <<Msg("BuildRequest")>> \o PathList("BuildPaths", n))
          BY <1>3 DEF SendBuildRequest
    <2> DEFINE m == Msg("BuildRequest")
               q == PathList("BuildPaths", n)
    <2>2. n \in Nat /\ "BuildPaths" \in Kinds  BY SessionAssumption DEF ClosureSizes, Kinds
    <2>3. q \in Seq(Message) /\ InTurn("paths", q) /\ LastTurn("paths", q) = "outputs"
          BY <2>2, ListIn, TurnList
    <2>4. m \in Message /\ m.type = "BuildRequest"  BY MsgIn DEF Msg, Kinds
    <2> HIDE DEF m, q
    <2>5. <<m>> \in Seq(Message) /\ InTurn("request", <<m>>) /\ LastTurn("request", <<m>>) = "paths"
      <3>1. Due("request", m)  BY <2>4 DEF Due
      <3>2. After(m) = "paths"  BY <2>4, AfterIs
      <3>3. <<m>> \in Seq(Message)  BY <2>4
      <3> QED  BY <2>4, <3>1, <3>2, <3>3, TurnOne
    <2>6. /\ <<m>> \o q \in Seq(Message)
          /\ InTurn("request", <<m>> \o q) /\ LastTurn("request", <<m>> \o q) = "outputs"
      <3>1. <<m>> \o q \in Seq(Message)  BY <2>3, <2>5, ConcatProperties
      <3> QED  BY <2>3, <2>5, <3>1, TurnConcat
    <2>7. /\ cli[s] = "preparing" /\ cli'[s] = "await queued" /\ UNCHANGED <<link, srv>>
          BY <1>3 DEF SendBuildRequest, ClientGoes, TypeOK
    <2>8. Asks(cli[s]) = "request" /\ Asks(cli'[s]) = "outputs"  BY <2>7 DEF Asks
    <2>9. ClientSends(s, <<m>> \o q)  BY <2>1 DEF m, q
    <2> QED  BY <1>s, <2>6, <2>7, <2>8, <2>9
  <1>4. CASE RequestOutputs(s)
    <2>1. PICK n \in SomeOf(Extended(cliList[s], Head(toClient[s])).paths) :
              ClientSends(s, PathList("OutputRequest", n))
          BY <1>4 DEF RequestOutputs
    <2>2. n \in Nat /\ "OutputRequest" \in Kinds  BY SessionAssumption DEF SomeOf, Kinds
    <2> DEFINE q == PathList("OutputRequest", n)
    <2>3. q \in Seq(Message) /\ InTurn("outputs", q) /\ LastTurn("outputs", q) = "cache done"
          BY <2>2, ListIn, TurnList
    <2>4. /\ cli[s] = "await closure" /\ cli'[s] = "await cache" /\ UNCHANGED <<link, srv>>
          BY <1>4 DEF RequestOutputs, ClientGoes, TypeOK
    <2>5. Asks(cli[s]) = "outputs" /\ Asks(cli'[s]) = "cache done"  BY <2>4 DEF Asks
    <2> QED  BY <1>s, <2>1, <2>3, <2>4, <2>5
  <1>5. CASE SendOutputCacheDone(s)
    <2>1. /\ cli[s] = "importing" /\ cli'[s] = "await done" /\ UNCHANGED <<link, srv>>
          /\ ClientSends(s, <<Msg(Length), Msg("OutputCacheDone")>>)
          BY <1>5 DEF SendOutputCacheDone, ClientGoes, TypeOK
    <2> DEFINE a == Msg(Length)
               b == Msg("OutputCacheDone")
    <2>2. a \in Message /\ a.type = Length /\ b \in Message /\ b.type = "OutputCacheDone"
          BY MsgIn DEF Msg, Kinds
    <2> HIDE DEF a, b
    <2>3. After(a) = "cache done" /\ After(b) = "cache done"  BY <2>2, AfterIs
    <2>4. Due("cache done", a) /\ Due(After(a), b)  BY <2>2, <2>3 DEF Due
    <2>5. /\ <<a, b>> \in Seq(Message)
          /\ InTurn("cache done", <<a, b>>) /\ LastTurn("cache done", <<a, b>>) = "cache done"
          BY <2>2, <2>3, <2>4, TurnTwo
    <2>6. Asks(cli[s]) = "cache done" /\ Asks(cli'[s]) = "cache done"  BY <2>1 DEF Asks
    <2>7. ClientSends(s, <<a, b>>)  BY <2>1 DEF a, b
    <2> QED  BY <1>s, <2>1, <2>5, <2>6, <2>7
  <1>6. CASE ReadBuildFinished(s)
    <2>1. CASE UNCHANGED <<link, toServer, srv>> /\ cli[s] = "await build" /\ ClientGoes(s, "await closure")
      <3>1. cli'[s] = "await closure"  BY <2>1 DEF ClientGoes, TypeOK
      <3>2. Asks(cli'[s]) = Asks(cli[s])  BY <2>1, <3>1 DEF Asks
      <3> QED  BY <1>n, <2>1, <3>2
    <2> QED  BY <1>6, <1>h, <2>1 DEF ReadBuildFinished
  <1>7. CASE ReadDone(s)  BY <1>7, <1>h DEF ReadDone
  <1>8. CASE SeeError(s) \/ PathListTimeout(s) \/ SendFails(s) \/ GiveUp(s)
    BY <1>8, <1>h DEF SeeError, PathListTimeout, SendFails, GiveUp, Leave
  <1> QED  BY <1>1, <1>2, <1>3, <1>4, <1>5, <1>6, <1>7, <1>8 DEF Client

\* A step of the handler: it reads what its turn is of, leaves its turn, or reads
\* no more.
LEMMA HandlerReadsInTurn ==
  ASSUME TypeOK, ServerTurns, NEW s \in Sessions, Elsewhere(s), cli'[s] = cli[s],
         \/ Listens(srv'[s]) = "end"
         \/ /\ toServer'[s] = toServer[s] /\ link'[s] = link[s]
            /\ Listens(srv'[s]) = Listens(srv[s])
         \/ /\ toServer[s] # <<>> /\ toServer'[s] = Tail(toServer[s]) /\ link'[s] = link[s]
            /\ Listens(srv[s]) # "end" /\ Listens(srv'[s]) = After(Head(toServer[s]))
  PROVE  ServerTurns'
  <1> SUFFICES ASSUME Listens(srv'[s]) # "end" PROVE ServerInTurn(s)'
    <2>1. \A t \in Sessions \ {s} : ServerInTurn(t)' <=> ServerInTurn(t)
          BY DEF Elsewhere, ServerInTurn
    <2> QED  BY <2>1 DEF ServerTurns, Elsewhere
  <1> DEFINE turn == Listens(srv[s])
             q == toServer[s]
  <1>1. /\ InTurn(turn, q) /\ q \in Seq(Message)
        /\ link[s] = "up" => LastTurn(turn, q) = Asks(cli[s])
        BY DEF ServerTurns, ServerInTurn, TypeOK
  <1>2. CASE toServer'[s] = q /\ link'[s] = link[s] /\ Listens(srv'[s]) = turn
        BY <1>1, <1>2 DEF ServerInTurn
  <1>3. CASE /\ q # <<>> /\ toServer'[s] = Tail(q) /\ link'[s] = link[s]
             /\ Listens(srv'[s]) = After(Head(q))
    <2>1. /\ InTurn(After(Head(q)), Tail(q))
          /\ LastTurn(After(Head(q)), Tail(q)) = LastTurn(turn, q)
          BY <1>1, <1>3, TurnHead
    <2> QED  BY <1>1, <1>3, <2>1 DEF ServerInTurn
  <1> QED  BY <1>2, <1>3

LEMMA HandlerKeepsServerTurns ==
  ASSUME TypeOK, ServerTurns, NEW s \in Sessions, Handler(s) \/ SendLog(s) \/ NixFails(s)
  PROVE  ServerTurns'
  <1> USE DEF lists
  <1>0. Elsewhere(s) /\ cli'[s] = cli[s]  BY HandlerElsewhere
  <1>n. ASSUME UNCHANGED <<toServer, link>>, Listens(srv'[s]) = Listens(srv[s])
        PROVE  ServerTurns'
    BY <1>0, <1>n, HandlerReadsInTurn
  <1>e. ASSUME Listens(srv'[s]) = "end" PROVE ServerTurns'
    BY <1>0, <1>e, HandlerReadsInTurn
  <1>d. ASSUME srv'[s] \in {"record", "closing", "ended", "draining"} PROVE ServerTurns'
    <2>1. Listens(srv'[s]) = "end"  BY <1>d DEF Listens
    <2> QED  BY <1>e, <2>1
  <1>f. ASSUME Drop(s) \/ Close(s) \/ FailRun(s) PROVE ServerTurns'
    BY <1>d, <1>f DEF Drop, Close, FailRun, ServerGoes, TypeOK
  <1> DEFINE m == Head(toServer[s])
  <1>r. ASSUME toServer[s] # <<>>, toServer'[s] = Tail(toServer[s]), link' = link,
               Listens(srv[s]) # "end", Listens(srv'[s]) = After(m)
        PROVE  ServerTurns'
    BY <1>0, <1>r, HandlerReadsInTurn
  <1>1. CASE \/ ReadHello(s) \/ AuthorizeTrusted(s) \/ AuthorizeTicket(s) \/ ReadBuildRequest(s)
             \/ ReadLength(s) \/ ReadBuildPaths(s)
    <2>1. /\ toServer[s] # <<>> /\ toServer'[s] = Tail(toServer[s]) /\ link' = link
          /\ \/ m.type = "Hello" /\ srv[s] = "hello" /\ srv'[s] = "auth"
             \/ m.type \in {"AuthTrustedClient", "AuthTicket"} /\ srv[s] = "auth" /\ srv'[s] = "request"
             \/ m.type = "BuildRequest" /\ srv[s] = "request" /\ srv'[s] = "paths"
             \/ m.type = Length /\ srv[s] = "serving" /\ srv'[s] = "serving"
             \/ /\ m.type = "BuildPaths" /\ srv[s] = "paths"
                /\ srv'[s] = IF m.flag THEN "redeem" ELSE "paths"
          BY <1>1 DEF ReadHello, AuthorizeTrusted, AuthorizeTicket, ReadBuildRequest, ReadLength,
                      ReadBuildPaths, ServerReads, ServerGoes, TypeOK
    <2> HIDE DEF m
    <2>2. Listens(srv[s]) # "end" /\ Listens(srv'[s]) = After(m)
          BY <2>1, AfterIs DEF Listens
    <2> QED  BY <1>r, <2>1, <2>2
  <1>2. CASE \/ Redeem(s) \/ SendBuildQueued(s) \/ Start(s) \/ SendMissingPaths(s) \/ OfferUpload(s)
             \/ AcceptUpload(s) \/ ImportInputs(s) \/ SendBuildStarted(s) \/ SendLog(s)
             \/ FinishBuild(s) \/ SendOutputClosure(s) \/ AcceptStream(s) \/ JoinTask(s)
             \/ ServeFile(s)
    <2>1. /\ UNCHANGED <<toServer, link>>
          /\ \/ srv'[s] = srv[s] \/ srv'[s] = "record"
             \/ /\ srv[s] \in {"redeem", "enqueue", "waiting", "checking", "offer",
                               "accept upload", "import inputs", "start build", "realise",
                               "exporting"}
                /\ srv'[s] \in {"enqueue", "waiting", "checking", "offer", "accept upload",
                                "import inputs", "start build", "realise", "exporting",
                                "await request"}
          BY <1>2 DEF Redeem, SendBuildQueued, Start, SendMissingPaths, OfferUpload,
                      AcceptUpload, ImportInputs, SendBuildStarted, SendLog, FinishBuild,
                      SendOutputClosure, AcceptStream, JoinTask, ServeFile, ServerGoes, TypeOK
    <2>2. Listens(srv'[s]) = Listens(srv[s]) \/ srv'[s] = "record"  BY <2>1 DEF Listens
    <2> QED  BY <1>d, <1>n, <2>1, <2>2
  <1>3. CASE ReadOutputRequest(s)
    <2>1. /\ toServer[s] # <<>> /\ toServer'[s] = Tail(toServer[s]) /\ link' = link
          /\ m.type = "OutputRequest" /\ srv[s] = "await request"
          /\ ~m.flag => srv'[s] = "await request"
          /\ m.flag => srv'[s] \in {"record", "serving"}
          BY <1>3, ZenonT(60) DEF ReadOutputRequest, ServerReads, ServerGoes, TypeOK
    <2> HIDE DEF m
    <2>2. Listens(srv[s]) # "end" /\ (srv'[s] # "record" => Listens(srv'[s]) = After(m))
          BY <2>1, AfterIs DEF Listens
    <2> QED  BY <1>d, <1>r, <2>1, <2>2
  <1>4. CASE \/ RefuseAuth(s) \/ RefuseRequest(s) \/ RefuseTicket(s) \/ ReadOutputCacheDone(s)
             \/ FinishExport(s) \/ Record(s)
    BY <1>4, <1>d DEF RefuseAuth, RefuseRequest, RefuseTicket, ReadOutputCacheDone, FinishExport,
                      Record, ServerGoes, TypeOK
  <1>5. CASE \/ BadLimit(s) \/ Close(s) \/ Garbled(s) \/ NixFails(s) \/ StepFails(s)
    BY <1>5, <1>f DEF BadLimit, Garbled, NixFails, StepFails
  <1>6. CASE ServerTimeout(s)
    BY <1>6, <1>d, <1>f DEF ServerTimeout, ServerGoes, TypeOK
  <1> QED  BY <1>1, <1>2, <1>3, <1>4, <1>5, <1>6 DEF Handler

-----------------------------------------------------------------------------
\* What the client asks for.  Which kinds of messages a queue holds.
LEMMA HoldsRead ==
  ASSUME NEW q \in Seq(Message), q # <<>>
  PROVE  \A type : Holds(Tail(q), type) => Holds(q, type)
  <1> DEFINE r == Tail(q)
  <1>1. /\ Len(q) \in Nat /\ Len(r) = Len(q) - 1
        /\ \A i \in 1..Len(r) : r[i] = q[i + 1]
        BY HeadTailProperties, LenProperties
  <1> HIDE DEF r
  <1>2. \A i \in 1..Len(r) : i + 1 \in 1..Len(q)  BY <1>1
  <1>3. \A type : Holds(r, type) => Holds(q, type)  BY <1>1, <1>2 DEF Holds
  <1> QED  BY <1>3 DEF r

LEMMA HeadIs ==
  ASSUME NEW q \in Seq(Message), q # <<>>
  PROVE  1 \in 1..Len(q) /\ Head(q) = q[1]
  <1>1. Len(q) \in Nat /\ Len(q) # 0 /\ Head(q) = q[1]
        BY HeadTailProperties, LenProperties, EmptyQueue
  <1> QED  BY <1>1

LEMMA HoldsHead ==
  ASSUME NEW q \in Seq(Message), q # <<>>
  PROVE  Holds(q, Head(q).type)
  BY HeadIs DEF Holds

LEMMA HoldsNone ==
  \A type : ~Holds(<<>>, type)
  BY EmptyQueue, EmptySeq DEF Holds

LEMMA HoldsSent ==
  ASSUME NEW q \in Seq(Message), NEW r \in Seq(Message)
  PROVE  /\ \A type : Holds(q \o r, type) => Holds(q, type) \/ Holds(r, type)
         /\ \A type : ~Holds(r, type) => \A i \in 1..Len(q \o r) :
                (q \o r)[i].type = type => i \in 1..Len(q) /\ (q \o r)[i] = q[i]
  <1> DEFINE t == q \o r
  <1>1. /\ Len(q) \in Nat /\ Len(r) \in Nat
        /\ Len(t) = Len(q) + Len(r)
        /\ \A i \in 1..(Len(q) + Len(r)) : t[i] = IF i <= Len(q) THEN q[i] ELSE r[i - Len(q)]
        BY ConcatProperties, LenProperties
  <1> HIDE DEF t
  <1>2. ASSUME NEW i \in 1..Len(t)
        PROVE  \/ i \in 1..Len(q) /\ t[i] = q[i]
               \/ i - Len(q) \in 1..Len(r) /\ t[i] = r[i - Len(q)]
        BY <1>1
  <1>3. \A type : Holds(t, type) => Holds(q, type) \/ Holds(r, type)  BY <1>2 DEF Holds
  <1>4. \A type : ~Holds(r, type) => \A i \in 1..Len(t) :
            t[i].type = type => i \in 1..Len(q) /\ t[i] = q[i]
        BY <1>2 DEF Holds
  <1> QED  BY <1>3, <1>4 DEF t

LEMMA HoldsReached ==
  ASSUME NEW s \in Sessions, NEW queue, queue[s] \in Seq(Message), NEW r \in Reached(s, queue)
  PROVE  /\ \A type : Holds(r, type) => Holds(queue[s], type)
         /\ \A i \in 1..Len(r) : i \in 1..Len(queue[s]) /\ r[i] = queue[s][i]
  <1>1. /\ Len(r) \in Nat /\ Len(queue[s]) \in Nat /\ Len(r) <= Len(queue[s])
        /\ \A i \in 1..Len(r) : r[i] = queue[s][i]
        BY ReachedIs, LenProperties
  <1> QED  BY <1>1 DEF Holds

LEMMA HoldsOne ==
  ASSUME NEW m \in Message
  PROVE  \A type : Holds(<<m>>, type) => type = m.type
  <1>1. Len(<<m>>) = 1 /\ <<m>>[1] = m  OBVIOUS
  <1>2. \A i \in 1..Len(<<m>>) : i = 1  BY <1>1
  <1> QED  BY <1>1, <1>2 DEF Holds

LEMMA HoldsList ==
  ASSUME NEW n \in Nat, NEW kind \in Kinds
  PROVE  \A type : Holds(PathList(kind, n), type) => type = kind
  BY PathListIs DEF Holds

\* A step of the client that asks for no outputs.
LEMMA ClientAsksNot ==
  ASSUME TypeOK, OutputsInv, NEW s \in Sessions, Elsewhere(s),
         srv'[s] = srv[s], srvList'[s] = srvList[s],
         cli[s] \in Asked \cup ClientEnds => cli'[s] \in Asked \cup ClientEnds,
         cli'[s] \in Asked => cli[s] \in Asked,
         Holds(toClient'[s], "OutputClosure") => Holds(toClient[s], "OutputClosure"),
         \A i \in 1..Len(toServer'[s]) : toServer'[s][i].type = "OutputRequest" =>
             i \in 1..Len(toServer[s]) /\ toServer'[s][i] = toServer[s][i]
  PROVE  OutputsInv'
  <1>1. OutputsFit(s)  BY DEF OutputsInv
  <1>2. Holds(toServer'[s], "OutputRequest") => Holds(toServer[s], "OutputRequest")
        BY DEF Holds
  <1>3. srv[s] = "await request" => RequestFits(s)'
        BY <1>1 DEF OutputsFit, RequestFits
  <1>4. OutputsFit(s)'  BY <1>1, <1>2, <1>3 DEF OutputsFit
  <1>5. \A t \in Sessions \ {s} : OutputsFit(t)' <=> OutputsFit(t)
        BY ZenonT(60) DEF Elsewhere, OutputsFit, RequestFits
  <1> QED  BY <1>4, <1>5 DEF OutputsInv

LEMMA FirstChunks ==
  ASSUME NEW q \in Seq(Message), NEW list, list = NoChunks,
         \A i \in 1..Len(q) : i <= MaxChunks /\ (i - 1) * ChunkSize + q[i].paths <= MaxPaths
  PROVE  \A i \in 1..Len(q) :
             /\ list.chunks + i <= MaxChunks
             /\ (list.chunks + i - 1) * ChunkSize + q[i].paths <= MaxPaths
  <1>1. list.chunks = 0 /\ Len(q) \in Nat  BY LenProperties, NoChunksIs
  <1>2. \A i \in 1..Len(q) : list.chunks + i = i  BY <1>1
  <1> QED  BY <1>1, <1>2

\* The client has read all of the output closure and asks for some of it: the
\* handler waits for that, and has read nothing of it.
LEMMA RequestKeepsOutputs ==
  ASSUME TypeOK, HonestQueues, ClientTurns, ServerTurns, OutputsInv,
         NEW s \in Sessions, RequestOutputs(s)
  PROVE  OutputsInv'
  <1> USE DEF lists
  <1> DEFINE m == Head(toClient[s])
             list == cliList[s]
             read == Extended(list, m)
  <1>1. PICK n \in SomeOf(read.paths) : ClientSends(s, PathList("OutputRequest", n))
        BY DEF RequestOutputs
  <1> DEFINE r == PathList("OutputRequest", n)
             q == toServer[s]
  <1>2. /\ cli[s] = "await closure" /\ cli'[s] = "await cache"
        /\ toClient[s] # <<>> /\ m.type = "OutputClosure" /\ toClient'[s] = Tail(toClient[s])
        /\ WithinLimits(read) /\ srv' = srv /\ srvList' = srvList
        BY DEF RequestOutputs, ClientReads, ClientGoes, TypeOK
  <1>3. link[s] = "up" /\ toServer'[s] = q \o r  BY <1>1 DEF ClientSends, TypeOK
  <1>4. n \in Nat /\ n <= read.paths
        BY <1>1, SessionAssumption DEF SomeOf
  <1>5. OutputsFit(s)  BY DEF OutputsInv
  <1>6. srv[s] \in Offered
    <2>1. toClient[s] \in Seq(Message)  BY DEF TypeOK
    <2>2. Holds(toClient[s], m.type)  BY <1>2, <2>1, HoldsHead
    <2> QED  BY <1>2, <1>5, <2>2 DEF OutputsFit
  <1>7. cli[s] \notin Asked \cup ClientEnds /\ ~Holds(q, "OutputRequest")
        BY <1>2, <1>5 DEF OutputsFit, Asked, ClientEnds
  <1>8. srv[s] = "await request" => q = <<>>
    <2> SUFFICES ASSUME srv[s] = "await request", q # <<>> PROVE FALSE  OBVIOUS
    <2>1. Listens(srv[s]) = "outputs"  BY DEF Listens
    <2>2. InTurn("outputs", q)  BY <2>1 DEF ServerTurns, ServerInTurn
    <2>3. Due("outputs", Head(q)) /\ Head(q).type # "Error"
      <3>1. Due("outputs", Head(q))  BY <2>2, TurnHead DEF TypeOK
      <3>2. Head(q) \in Honest(s)  BY HeadTailProperties DEF HonestQueues
      <3> QED  BY <3>1, <3>2 DEF Honest
    <2>4. Head(q).type = "OutputRequest"  BY <2>3 DEF Due
    <2>5. Holds(q, Head(q).type)
      <3>1. q \in Seq(Message)  BY DEF TypeOK
      <3> QED  BY <3>1, HoldsHead
    <2> QED  BY <1>7, <2>4, <2>5
  <1>9. \A i \in 1..Chunks(n) : i <= MaxChunks /\ (i - 1) * ChunkSize + r[i].paths <= MaxPaths
    <2> DEFINE c == list.chunks
    <2>1. InTurn(Awaits(cli[s], list), toClient[s]) /\ list.paths = c * ChunkSize
          BY <1>2 DEF ClientTurns, ClientInTurn, ListRead, ClientEnds
    <2>2. Due(Awaits(cli[s], list), m) /\ m \in Message
          BY <1>2, <2>1, TurnHead DEF TypeOK
    <2> HIDE DEF m
    <2>3. Full(m)  BY <1>2, <2>2 DEF Due, Awaits, Length
    <2>4. c \in Nat /\ list.paths \in Nat /\ m.paths \in Nat /\ m.paths <= ChunkSize
          BY <2>2, <2>3 DEF TypeOK, Message, Full
    <2>5. read.chunks = c + 1 /\ read.paths = list.paths + m.paths  BY DEF Extended
    <2>6. ChunkSize \in Nat /\ MaxChunks \in Nat /\ MaxPaths \in Nat  BY SessionAssumption
    <2>7. c + 1 <= MaxChunks /\ read.paths <= MaxPaths  BY <1>2, <2>5 DEF WithinLimits
    <2> HIDE DEF c, read, r
    <2>8. c * ChunkSize \in Nat /\ (c + 1) * ChunkSize = c * ChunkSize + ChunkSize
          BY <2>4, Multiples
    <2>9. n <= (c + 1) * ChunkSize
          BY <1>4, <2>1, <2>4, <2>5, <2>6, <2>8
    <2>10. Chunks(n) \in Nat /\ Chunks(n) <= c + 1  BY <1>4, <2>4, <2>9, ChunkCount
    <2>11. \A i \in 1..Chunks(n) : r[i].paths \in Nat /\ (i - 1) * ChunkSize + r[i].paths <= n
          BY <1>4, PathListFits DEF r, Kinds
    <2>12. ASSUME NEW i \in 1..Chunks(n)
           PROVE  i <= MaxChunks /\ (i - 1) * ChunkSize + r[i].paths <= MaxPaths
      <3>1. i - 1 \in Nat /\ (i - 1) * ChunkSize \in Nat
        <4>1. i - 1 \in Nat  OBVIOUS
        <4> QED  BY <4>1, Multiples
      <3> QED  BY <1>4, <2>4, <2>5, <2>6, <2>7, <2>10, <2>11, <3>1
    <2> QED  BY <2>12
  <1>10. srv[s] = "await request" => RequestFits(s)'
    <2> SUFFICES ASSUME srv[s] = "await request" PROVE RequestFits(s)'  OBVIOUS
    <2>1. srvList'[s] = NoChunks  BY <1>2, <1>5, <1>7 DEF OutputsFit, RequestFits
    <2>2. r \in Seq(Message) /\ Len(r) = Chunks(n)
      <3>1. "OutputRequest" \in Kinds  BY DEF Kinds
      <3> QED  BY <1>4, <3>1, PathListIs
    <2>3. toServer'[s] = r  BY <1>3, <1>8, <2>2, ConcatEmptySeq
    <2> HIDE DEF m, list, read, q, r
    <2>4. cli'[s] \in Asked  BY <1>2 DEF Asked
    <2>5. srvList'[s].paths = srvList'[s].chunks * ChunkSize  BY <2>1, NoChunksIs
    <2>6. \A i \in 1..Len(toServer'[s]) :
              /\ srvList'[s].chunks + i <= MaxChunks
              /\ (srvList'[s].chunks + i - 1) * ChunkSize + toServer'[s][i].paths <= MaxPaths
      <3>1. \A i \in 1..Len(r) : i <= MaxChunks /\ (i - 1) * ChunkSize + r[i].paths <= MaxPaths
            BY <1>9, <2>2 DEF r
      <3> QED  BY <2>1, <2>2, <2>3, <3>1, FirstChunks
    <2> QED  BY <2>4, <2>5, <2>6 DEF RequestFits
  <1>11. OutputsFit(s)'
    <2>1. cli'[s] \in Asked  BY <1>2 DEF Asked
    <2>2. srv[s] \notin Uploading  BY <1>6 DEF Offered, Uploading
    <2> QED  BY <1>2, <1>6, <1>10, <2>1, <2>2 DEF OutputsFit
  <1>12. \A t \in Sessions \ {s} : OutputsFit(t)' <=> OutputsFit(t)
    <2>1. Elsewhere(s)  BY ClientElsewhere DEF Client
    <2> QED  BY <2>1, ZenonT(60) DEF Elsewhere, OutputsFit, RequestFits
  <1> QED  BY <1>11, <1>12 DEF OutputsInv

LEMMA ClientKeepsOutputs ==
  ASSUME TypeOK, HonestQueues, LinkInv, ClientTurns, ServerTurns, OutputsInv,
         NEW s \in Sessions, Client(s) \/ GiveUp(s)
  PROVE  OutputsInv'
  <1> USE DEF lists
  <1>0. Elsewhere(s)  BY ClientElsewhere
  <1>q. toServer[s] \in Seq(Message) /\ toClient[s] \in Seq(Message)  BY DEF TypeOK
  <1>s. toServer'[s] = toServer[s] => \A i \in 1..Len(toServer'[s]) :
            i \in 1..Len(toServer[s]) /\ toServer'[s][i] = toServer[s][i]
        OBVIOUS
  \* It reads, or does something else, and asks for nothing.
  <1>n. ASSUME UNCHANGED <<srv, srvList, toServer>>,
               cli[s] \notin ClientEnds,
               cli'[s] \in Asked <=> cli[s] \in Asked,
               \/ toClient' = toClient
               \/ toClient[s] # <<>> /\ toClient'[s] = Tail(toClient[s])
        PROVE  OutputsInv'
    <2>1. Holds(toClient'[s], "OutputClosure") => Holds(toClient[s], "OutputClosure")
          BY <1>n, <1>q, HoldsRead
    <2>2. cli[s] \in Asked \cup ClientEnds => cli'[s] \in Asked \cup ClientEnds  BY <1>n
    <2> QED  BY <1>0, <1>n, <1>s, <2>1, <2>2, ClientAsksNot
  <1>h. ASSUME ClientHangsUp(s), UNCHANGED <<srv, srvList>>, cli'[s] \in ClientEnds
        PROVE  OutputsInv'
    <2>1. /\ toClient' = [toClient EXCEPT ![s] = <<>>]
          /\ toServer'[s] \in Reached(s, toServer)
          BY <1>h, HangsUpIs
    <2>2. ~Holds(toClient'[s], "OutputClosure")  BY <2>1, HoldsNone DEF TypeOK
    <2>3. \A i \in 1..Len(toServer'[s]) :
              i \in 1..Len(toServer[s]) /\ toServer'[s][i] = toServer[s][i]
          BY <1>q, <2>1, HoldsReached
    <2>4. cli'[s] \notin Asked  BY <1>h DEF Asked, ClientEnds
    <2> QED  BY <1>0, <1>h, <2>2, <2>3, <2>4, ClientAsksNot
  <1>w. ASSUME NEW msgs \in Seq(Message), ClientSends(s, msgs), ~Holds(msgs, "OutputRequest"),
               UNCHANGED <<srv, srvList, toClient>>,
               cli[s] \notin ClientEnds,
               cli'[s] \in Asked <=> cli[s] \in Asked
        PROVE  OutputsInv'
    <2>1. toServer'[s] = toServer[s] \o msgs  BY <1>w DEF ClientSends, TypeOK
    <2>2. \A i \in 1..Len(toServer'[s]) : toServer'[s][i].type = "OutputRequest" =>
              i \in 1..Len(toServer[s]) /\ toServer'[s][i] = toServer[s][i]
          BY <1>q, <1>w, <2>1, HoldsSent
    <2>3. cli[s] \in Asked \cup ClientEnds => cli'[s] \in Asked \cup ClientEnds  BY <1>w
    <2> QED  BY <1>0, <1>w, <2>2, <2>3, ClientAsksNot
  <1>1. CASE \/ ResolveOutputs(s) \/ ReadAuthOk(s) \/ Preflight(s) \/ ReadBuildQueued(s)
             \/ ReadChunk(s) \/ ReadMissingPaths(s) \/ ReadUploadReady(s) \/ FinishUpload(s)
             \/ ReadBuildMessage(s) \/ ReadOutputCacheReady(s) \/ OpenCacheStream(s)
    <2>1. /\ UNCHANGED <<srv, srvList, toServer>>
          /\ \/ toClient' = toClient
             \/ toClient[s] # <<>> /\ toClient'[s] = Tail(toClient[s])
          /\ \/ cli'[s] = cli[s] /\ cli[s] \in {"await missing", "await closure", "await build",
                                                 "importing"}
             \/ cli[s] = "start" /\ cli'[s] = "opening"
             \/ cli[s] = "await auth" /\ cli'[s] = "preflight"
             \/ cli[s] = "preflight" /\ cli'[s] = "preparing"
             \/ cli[s] = "await queued" /\ cli'[s] = "await missing"
             \/ cli[s] = "await missing" /\ cli'[s] \in {"await build", "await upload"}
             \/ cli[s] = "await upload" /\ cli'[s] = "uploading"
             \/ cli[s] = "uploading" /\ cli'[s] = "await build"
             \/ cli[s] = "await cache" /\ cli'[s] = "importing"
      BY <1>1
      DEF ResolveOutputs, ReadAuthOk, Preflight, ReadBuildQueued, ReadChunk, ReadMissingPaths,
          ReadUploadReady, FinishUpload, ReadBuildMessage, ReadOutputCacheReady,
          OpenCacheStream, ClientReads, ClientGoes, TypeOK
    <2>2. cli[s] \notin ClientEnds /\ (cli'[s] \in Asked <=> cli[s] \in Asked)
          BY <2>1 DEF Asked, ClientEnds
    <2> QED  BY <1>n, <2>1, <2>2
  <1>2. CASE FindLocalOutputs(s)
    <2>1. /\ cli'[s] = "local"
          /\ UNCHANGED <<srv, srvList, toServer, toClient>>
          BY <1>2 DEF FindLocalOutputs, ClientGoes, TypeOK
    <2>2. cli'[s] \in Asked \cup ClientEnds /\ cli'[s] \notin Asked
          BY <2>1 DEF Asked, ClientEnds
    <2> QED  BY <1>0, <1>s, <2>1, <2>2, ClientAsksNot
  <1>3. CASE Open(s)
    <2>1. /\ cli[s] = "opening" /\ cli'[s] = "await auth" /\ srv'[s] = "hello"
          /\ toServer'[s] = <<Msg("Hello"), AuthMessage(s)>>
          /\ UNCHANGED toClient
          BY <1>3 DEF Open, ClientGoes, ServerGoes, TypeOK
    <2>2. ~Holds(toClient'[s], "OutputClosure")
      <3>1. toClient[s] = <<>>  BY <2>1 DEF LinkInv
      <3> QED  BY <2>1, <3>1, HoldsNone
    <2>3. ~Holds(toServer'[s], "OutputRequest")
      <3> DEFINE a == Msg("Hello")
                 b == AuthMessage(s)
      <3>1. /\ a.type # "OutputRequest" /\ b.type # "OutputRequest"
            BY DEF AuthMessage, Msg
      <3> HIDE DEF a, b
      <3>2. /\ Len(<<a, b>>) = 2 /\ <<a, b>>[1] = a /\ <<a, b>>[2] = b  OBVIOUS
      <3>3. \A i \in 1..Len(<<a, b>>) : i = 1 \/ i = 2  BY <3>2
      <3>4. ~Holds(<<a, b>>, "OutputRequest")  BY <3>1, <3>2, <3>3 DEF Holds
      <3> QED  BY <2>1, <3>4 DEF a, b
    <2>4. OutputsFit(s)'
      <3>1. cli'[s] \notin Asked /\ srv'[s] \notin Uploading /\ srv'[s] # "await request"
            BY <2>1 DEF Asked, Uploading
      <3> QED  BY <2>2, <2>3, <3>1 DEF OutputsFit
    <2>5. \A t \in Sessions \ {s} : OutputsFit(t)' <=> OutputsFit(t)
          BY <1>0, ZenonT(60) DEF Elsewhere, OutputsFit, RequestFits
    <2> QED  BY <2>4, <2>5 DEF OutputsInv
  <1>4. CASE SendBuildRequest(s)
    <2>1. PICK n \in ClosureSizes : ClientSends(s, <<Msg("BuildRequest")>> \o PathList("BuildPaths", n))
          BY <1>4 DEF SendBuildRequest
    <2> DEFINE m == Msg("BuildRequest")
               q == PathList("BuildPaths", n)
    <2>2. n \in Nat /\ "BuildPaths" \in Kinds  BY SessionAssumption DEF ClosureSizes, Kinds
    <2>3. q \in Seq(Message) /\ ~Holds(q, "OutputRequest")  BY <2>2, ListIn, HoldsList
    <2>4. m \in Message /\ m.type # "OutputRequest"  BY MsgIn DEF Msg, Kinds
    <2> HIDE DEF m, q
    <2>5. <<m>> \in Seq(Message)  BY <2>4
    <2>6. ~Holds(<<m>>, "OutputRequest")  BY <2>4, HoldsOne
    <2>7. <<m>> \o q \in Seq(Message)  BY <2>3, <2>5, ConcatProperties
    <2>8. ~Holds(<<m>> \o q, "OutputRequest")  BY <2>3, <2>5, <2>6, HoldsSent
    <2>9. /\ cli[s] = "preparing" /\ cli'[s] = "await queued"
          /\ UNCHANGED <<srv, srvList, toClient>>
          BY <1>4 DEF SendBuildRequest, ClientGoes, TypeOK
    <2>10. cli[s] \notin ClientEnds /\ (cli'[s] \in Asked <=> cli[s] \in Asked)
          BY <2>9 DEF Asked, ClientEnds
    <2>11. ClientSends(s, <<m>> \o q)  BY <2>1 DEF m, q
    <2> QED  BY <1>w, <2>7, <2>8, <2>9, <2>10, <2>11
  <1>5. CASE SendOutputCacheDone(s)
    <2>1. /\ cli[s] = "importing" /\ cli'[s] = "await done"
          /\ UNCHANGED <<srv, srvList, toClient>>
          /\ ClientSends(s, <<Msg(Length), Msg("OutputCacheDone")>>)
          BY <1>5 DEF SendOutputCacheDone, ClientGoes, TypeOK
    <2> DEFINE a == Msg(Length)
               b == Msg("OutputCacheDone")
    <2>2. /\ a \in Message /\ a.type # "OutputRequest"
          /\ b \in Message /\ b.type # "OutputRequest"
          BY MsgIn DEF Msg, Kinds, Length
    <2> HIDE DEF a, b
    <2>3. /\ Len(<<a, b>>) = 2 /\ <<a, b>>[1] = a /\ <<a, b>>[2] = b
          /\ <<a, b>> \in Seq(Message)
          BY <2>2
    <2>4. \A i \in 1..Len(<<a, b>>) : i = 1 \/ i = 2  BY <2>3
    <2>5. ~Holds(<<a, b>>, "OutputRequest")  BY <2>2, <2>3, <2>4 DEF Holds
    <2>6. cli[s] \notin ClientEnds /\ (cli'[s] \in Asked <=> cli[s] \in Asked)
          BY <2>1 DEF Asked, ClientEnds
    <2>7. ClientSends(s, <<a, b>>)  BY <2>1 DEF a, b
    <2> QED  BY <1>w, <2>1, <2>3, <2>5, <2>6, <2>7
  <1>6. CASE ReadBuildFinished(s)
    <2>1. CASE /\ ClientReads(s, "BuildFinished") /\ ClientGoes(s, "await closure")
               /\ cli[s] = "await build" /\ UNCHANGED <<srv, srvList, toServer>>
      <3>1. toClient[s] # <<>> /\ toClient'[s] = Tail(toClient[s]) /\ cli'[s] = "await closure"
            BY <2>1 DEF ClientReads, ClientGoes, TypeOK
      <3>2. cli[s] \notin ClientEnds /\ (cli'[s] \in Asked <=> cli[s] \in Asked)
            BY <2>1, <3>1 DEF Asked, ClientEnds
      <3> QED  BY <1>n, <2>1, <3>1, <3>2
    <2>2. CASE ClientHangsUp(s) /\ ClientGoes(s, "build failed") /\ UNCHANGED <<srv, srvList>>
      <3>1. cli'[s] \in ClientEnds  BY <2>2 DEF ClientGoes, TypeOK, ClientEnds
      <3> QED  BY <1>h, <2>2, <3>1
    <2> QED  BY <1>6, <2>1, <2>2 DEF ReadBuildFinished
  <1>7. CASE ReadDone(s) \/ SeeError(s) \/ PathListTimeout(s) \/ SendFails(s) \/ GiveUp(s)
    <2>1. ClientHangsUp(s) /\ UNCHANGED <<srv, srvList>> /\ cli'[s] \in ClientEnds
          BY <1>7 DEF ReadDone, SeeError, PathListTimeout, SendFails, GiveUp, Leave, ClientGoes,
                      TypeOK, ClientEnds
    <2> QED  BY <1>h, <2>1
  <1> QED  BY <1>1, <1>2, <1>3, <1>4, <1>5, <1>6, <1>7, RequestKeepsOutputs DEF Client

\* A step of the handler, that offers no outputs but at the end of the export.
LEMMA HandlerServes ==
  ASSUME TypeOK, OutputsInv, NEW s \in Sessions, Elsewhere(s), cli'[s] = cli[s],
         srv[s] \in Offered => srv'[s] \in Offered,
         Holds(toServer'[s], "OutputRequest") => Holds(toServer[s], "OutputRequest"),
         Holds(toClient'[s], "OutputClosure") =>
             Holds(toClient[s], "OutputClosure") \/ srv'[s] \in Offered,
         \/ srvList'[s] = NoChunks
         \/ srvList'[s] = srvList[s] /\ (srv'[s] \in Uploading => srv[s] \in Uploading)
         \/ srv'[s] \notin Uploading,
         srv'[s] = "await request" => RequestFits(s)'
  PROVE  OutputsInv'
  <1>1. OutputsFit(s)  BY DEF OutputsInv
  <1>2. OutputsFit(s)'  BY <1>1 DEF OutputsFit
  <1>3. \A t \in Sessions \ {s} : OutputsFit(t)' <=> OutputsFit(t)
        BY ZenonT(60) DEF Elsewhere, OutputsFit, RequestFits
  <1> QED  BY <1>2, <1>3 DEF OutputsInv

LEMMA OtherChunks ==
  ASSUME NEW q \in Seq(Message), q # <<>>, NEW list \in [chunks : Nat, paths : Nat],
         NEW next, next.chunks = list.chunks + 1,
         \A i \in 1..Len(q) : q[i].type = "OutputRequest" =>
             /\ list.chunks + i <= MaxChunks
             /\ (list.chunks + i - 1) * ChunkSize + q[i].paths <= MaxPaths
  PROVE  \A i \in 1..Len(Tail(q)) : Tail(q)[i].type = "OutputRequest" =>
             /\ next.chunks + i <= MaxChunks
             /\ (next.chunks + i - 1) * ChunkSize + Tail(q)[i].paths <= MaxPaths
  <1> DEFINE r == Tail(q)
  <1>1. /\ Len(q) \in Nat
        /\ Len(r) = Len(q) - 1 /\ \A i \in 1..Len(r) : r[i] = q[i + 1]
        BY HeadTailProperties, LenProperties
  <1> HIDE DEF r
  <1>2. ASSUME NEW i \in 1..Len(r)
        PROVE  i + 1 \in 1..Len(q) /\ r[i] = q[i + 1] /\ next.chunks + i = list.chunks + (i + 1)
    <2>1. i + 1 \in 1..Len(q) /\ i \in Nat  BY <1>1
    <2>2. list.chunks \in Nat  OBVIOUS
    <2>3. next.chunks + i = list.chunks + (i + 1)  BY <2>1, <2>2
    <2> QED  BY <1>1, <2>1, <2>3
  <1>3. ASSUME NEW i \in 1..Len(r), r[i].type = "OutputRequest"
        PROVE  /\ next.chunks + i <= MaxChunks
               /\ (next.chunks + i - 1) * ChunkSize + r[i].paths <= MaxPaths
    <2>1. /\ list.chunks + (i + 1) <= MaxChunks
          /\ (list.chunks + (i + 1) - 1) * ChunkSize + q[i + 1].paths <= MaxPaths
          BY <1>2, <1>3
    <2> QED  BY <1>2, <2>1
  <1> QED  BY <1>3 DEF r

\* The handler reads a chunk, not the last, of what the client asks for.
LEMMA ChunkKeepsRequest ==
  ASSUME TypeOK, ServerTurns, OutputsInv, NEW s \in Sessions,
         srv[s] = "await request", toServer[s] # <<>>,
         Head(toServer[s]).type = "OutputRequest", ~Head(toServer[s]).flag,
         toServer'[s] = Tail(toServer[s]), cli'[s] = cli[s],
         srvList'[s] = Extended(srvList[s], Head(toServer[s]))
  PROVE  RequestFits(s)'
  <1> DEFINE q == toServer[s]
             r == Tail(q)
             m == Head(q)
             list == srvList[s]
             next == Extended(list, m)
  <1>1. q \in Seq(Message) /\ list \in [chunks : Nat, paths : Nat]  BY DEF TypeOK
  <1>2. /\ Len(q) \in Nat /\ m \in Message
        /\ Len(r) = Len(q) - 1 /\ \A i \in 1..Len(r) : r[i] = q[i + 1]
        BY <1>1, HeadTailProperties, LenProperties, ZenonT(60)
  <1>3. OutputsFit(s) /\ RequestFits(s)  BY DEF OutputsInv, OutputsFit
  <1>4. cli[s] \in Asked \cup ClientEnds  BY <1>1, <1>3, HoldsHead DEF OutputsFit
  <1>5. Full(m)
    <2>1. Listens(srv[s]) = "outputs"  BY DEF Listens
    <2>2. InTurn("outputs", q)  BY <2>1 DEF ServerTurns, ServerInTurn
    <2>3. Due("outputs", m)  BY <1>1, <2>2, TurnHead
    <2> QED  BY <2>3 DEF Due
  <1>6. toServer'[s] = r /\ srvList'[s] = next /\ ~m.flag  OBVIOUS
  <1>7. list.paths = list.chunks * ChunkSize
        /\ \A i \in 1..Len(q) : q[i].type = "OutputRequest" =>
               /\ list.chunks + i <= MaxChunks
               /\ (list.chunks + i - 1) * ChunkSize + q[i].paths <= MaxPaths
        BY <1>3 DEF RequestFits
  <1>8. next.chunks = list.chunks + 1  BY DEF Extended
  <1> HIDE DEF q, r, m, list
  <1>9. next.paths = next.chunks * ChunkSize  BY <1>1, <1>2, <1>5, <1>6, <1>7, ExtendedList
  <1> HIDE DEF next
  <1>10. \A i \in 1..Len(r) : r[i].type = "OutputRequest" =>
             /\ next.chunks + i <= MaxChunks
             /\ (next.chunks + i - 1) * ChunkSize + r[i].paths <= MaxPaths
    <2>1. q # <<>> /\ r = Tail(q)  BY DEF q, r
    <2> QED  BY <1>1, <1>7, <1>8, <2>1, OtherChunks
  <1> QED  BY <1>4, <1>6, <1>9, <1>10 DEF RequestFits

LEMMA HandlerKeepsOutputs ==
  ASSUME TypeOK, LinkInv, ServerTurns, OutputsInv,
         NEW s \in Sessions, Handler(s) \/ SendLog(s) \/ NixFails(s)
  PROVE  OutputsInv'
  <1> USE DEF lists
  <1>0. Elsewhere(s) /\ cli'[s] = cli[s]  BY HandlerElsewhere
  <1>q. toServer[s] \in Seq(Message) /\ toClient[s] \in Seq(Message)  BY DEF TypeOK
  <1>f. OutputsFit(s)  BY DEF OutputsInv
  \* Past the request.
  <1>e. ASSUME srv'[s] \in {"serving", "draining", "record", "closing", "ended"},
               \/ toServer'[s] = toServer[s]
               \/ toServer[s] # <<>> /\ toServer'[s] = Tail(toServer[s])
               \/ toServer'[s] = <<>>
        PROVE  OutputsInv'
    <2>1. Holds(toServer'[s], "OutputRequest") => Holds(toServer[s], "OutputRequest")
          BY <1>e, <1>q, HoldsRead, HoldsNone
    <2>2. srv'[s] \in Offered /\ srv'[s] \notin Uploading /\ srv'[s] # "await request"
          BY <1>e DEF Offered, Uploading
    <2> QED  BY <1>0, <2>1, <2>2, HandlerServes
  <1>d. ASSUME Drop(s) \/ Close(s) PROVE OutputsInv'
    <2>1. toServer'[s] = <<>> /\ srv'[s] = "ended"
          BY <1>d DEF Drop, Close, ServerHangsUp, ServerGoes, TypeOK
    <2> QED  BY <1>e, <2>1
  <1>r. ASSUME FailRun(s), UNCHANGED toServer PROVE OutputsInv'
    <2>1. srv'[s] = "record"  BY <1>r DEF FailRun, ServerGoes, TypeOK
    <2> QED  BY <1>e, <1>r, <2>1
  \* Before the outputs are offered.
  <1>b. ASSUME srv[s] \notin Offered, srv'[s] # "await request",
               \/ toServer'[s] = toServer[s]
               \/ toServer[s] # <<>> /\ toServer'[s] = Tail(toServer[s]),
               \/ toClient'[s] = toClient[s]
               \/ \E msgs \in Seq(Message) : /\ toClient'[s] = toClient[s] \o msgs
                                             /\ ~Holds(msgs, "OutputClosure"),
               \/ srvList'[s] = NoChunks
               \/ srvList'[s] = srvList[s] /\ (srv'[s] \in Uploading => srv[s] \in Uploading)
               \/ srv'[s] \notin Uploading
        PROVE  OutputsInv'
    <2>1. Holds(toServer'[s], "OutputRequest") => Holds(toServer[s], "OutputRequest")
          BY <1>b, <1>q, HoldsRead
    <2>2. Holds(toClient'[s], "OutputClosure") => Holds(toClient[s], "OutputClosure")
      <3>1. CASE toClient'[s] = toClient[s]  BY <3>1
      <3>2. ASSUME NEW msgs \in Seq(Message), toClient'[s] = toClient[s] \o msgs,
                   ~Holds(msgs, "OutputClosure")
            PROVE  Holds(toClient'[s], "OutputClosure") => Holds(toClient[s], "OutputClosure")
            BY <1>q, <3>2, HoldsSent
      <3> QED  BY <1>b, <3>1, <3>2
    <2> QED  BY <1>0, <1>b, <2>1, <2>2, HandlerServes
  <1>m. ASSUME NEW m \in Message, ServerSends(s, <<m>>), m.type # "OutputClosure"
        PROVE  \E msgs \in Seq(Message) : /\ toClient'[s] = toClient[s] \o msgs
                                          /\ ~Holds(msgs, "OutputClosure")
    <2>1. <<m>> \in Seq(Message)  OBVIOUS
    <2>2. ~Holds(<<m>>, "OutputClosure")  BY <1>m, HoldsOne
    <2>3. toClient'[s] = toClient[s] \o <<m>>  BY <1>m DEF ServerSends, TypeOK
    <2> QED  BY <2>1, <2>2, <2>3
  <1>k. /\ \A type \in Kinds : Msg(type) \in Message /\ Msg(type).type = type
        /\ \A b \in BOOLEAN : BuildFinished(b) \in Message /\ BuildFinished(b).type = "BuildFinished"
        BY MsgIn DEF Msg, BuildFinished
  <1>1. CASE ReadHello(s) \/ ReadBuildRequest(s) \/ ReadBuildPaths(s) \/ Redeem(s) \/ Start(s)
    <2>1. /\ toClient' = toClient
          /\ \/ toServer'[s] = toServer[s]
             \/ toServer[s] # <<>> /\ toServer'[s] = Tail(toServer[s])
          /\ srv[s] \in {"hello", "request", "paths", "redeem", "waiting"}
          /\ srv'[s] \in {"auth", "paths", "redeem", "enqueue", "checking"}
          BY <1>1 DEF ReadHello, ReadBuildRequest, ReadBuildPaths, Redeem, Start, ServerReads,
                      ServerGoes, TypeOK
    <2>2. srv[s] \notin Offered /\ srv'[s] # "await request" /\ srv'[s] \notin Uploading
          BY <2>1 DEF Offered, Uploading
    <2> QED  BY <1>b, <2>1, <2>2
  <1>2. CASE AuthorizeTrusted(s) \/ AuthorizeTicket(s)
    <2>1. /\ toServer[s] # <<>> /\ toServer'[s] = Tail(toServer[s])
          /\ ServerSends(s, <<Msg("AuthOk")>>)
          /\ srv[s] = "auth" /\ srv'[s] = "request"
          BY <1>2 DEF AuthorizeTrusted, AuthorizeTicket, ServerReads, ServerGoes, TypeOK
    <2>2. Msg("AuthOk") \in Message /\ Msg("AuthOk").type # "OutputClosure"
          BY <1>k DEF Kinds
    <2>3. srv[s] \notin Offered /\ srv'[s] # "await request" /\ srv'[s] \notin Uploading
          BY <2>1 DEF Offered, Uploading
    <2> QED  BY <1>b, <1>m, <2>1, <2>2, <2>3
  <1>3. CASE SendBuildQueued(s) \/ OfferUpload(s) \/ SendBuildStarted(s) \/ SendLog(s)
    <2>1. PICK type \in {"BuildQueued", "InputUploadReady", "BuildStarted", "NixLog"} :
              ServerSends(s, <<Msg(type)>>)
          BY <1>3 DEF SendBuildQueued, OfferUpload, SendBuildStarted, SendLog
    <2>2. /\ toServer' = toServer /\ srvList' = srvList
          /\ \/ srv[s] = "enqueue" /\ srv'[s] = "waiting"
             \/ srv[s] \in {"offer", "start build", "realise"} /\ srv'[s] \in {"accept upload", "realise"}
          BY <1>3 DEF SendBuildQueued, OfferUpload, SendBuildStarted, SendLog, ServerGoes, TypeOK
    <2>3. Msg(type) \in Message /\ Msg(type).type # "OutputClosure"
          BY <1>k, <2>1 DEF Kinds
    <2>4. /\ srv[s] \notin Offered /\ srv'[s] # "await request"
          /\ srv'[s] \in Uploading => srv[s] \in Uploading
          BY <2>2 DEF Offered, Uploading
    <2> QED  BY <1>b, <1>m, <2>1, <2>2, <2>3, <2>4
  <1>4. CASE AcceptUpload(s) \/ ImportInputs(s)
    <2>1. /\ UNCHANGED <<toServer, toClient, srvList>>
          /\ srv[s] \in {"accept upload", "import inputs"}
          /\ srv'[s] \in {"import inputs", "start build"}
          BY <1>4 DEF AcceptUpload, ImportInputs, ServerGoes, TypeOK
    <2>2. srv[s] \notin Offered /\ srv'[s] # "await request" /\ srv[s] \in Uploading
          BY <2>1 DEF Offered, Uploading
    <2> QED  BY <1>b, <2>1, <2>2
  <1>5. CASE SendMissingPaths(s)
    <2>1. PICK n \in SomeOf(srvList[s].paths) :
              /\ ServerSends(s, PathList("MissingPaths", n))
              /\ srv[s] = "checking" /\ srv'[s] \in {"start build", "offer"}
              /\ srvList'[s] = NoChunks /\ toServer' = toServer
          BY <1>5 DEF SendMissingPaths, ServerGoes, TypeOK
    <2>2. n \in Nat /\ "MissingPaths" \in Kinds  BY SessionAssumption DEF SomeOf, Kinds
    <2> DEFINE r == PathList("MissingPaths", n)
    <2>3. r \in Seq(Message) /\ ~Holds(r, "OutputClosure")  BY <2>2, ListIn, HoldsList
    <2>4. toClient'[s] = toClient[s] \o r  BY <2>1 DEF ServerSends, TypeOK
    <2>5. srv[s] \notin Offered /\ srv'[s] # "await request"  BY <2>1 DEF Offered
    <2> HIDE DEF r
    <2> QED  BY <1>b, <2>1, <2>3, <2>4, <2>5
  <1>6. CASE FinishBuild(s)
    <2>1. PICK success \in BOOLEAN :
              /\ ServerSends(s, <<BuildFinished(success)>>)
              /\ srv[s] = "realise" /\ srv'[s] = IF success THEN "exporting" ELSE "record"
              /\ UNCHANGED <<toServer, srvList>>
          BY <1>6 DEF FinishBuild, ServerGoes, TypeOK
    <2>2. BuildFinished(success) \in Message /\ BuildFinished(success).type # "OutputClosure"
          BY <1>k
    <2>3. srv[s] \notin Offered /\ srv'[s] # "await request" /\ srv[s] \in Uploading
          BY <2>1 DEF Offered, Uploading
    <2> QED  BY <1>b, <1>m, <2>1, <2>2, <2>3
  <1>7. CASE SendOutputClosure(s)
    <2>1. /\ srv[s] = "exporting" /\ srv'[s] = "await request" /\ link[s] = "up"
          /\ UNCHANGED <<toServer, srvList>>
          BY <1>7 DEF SendOutputClosure, ServerSends, ServerGoes, TypeOK
    <2>2. srv[s] \notin Offered /\ srv[s] \in Uploading /\ srv'[s] \in Offered
          /\ srv'[s] \notin Uploading
          BY <2>1 DEF Offered, Uploading
    <2>3. srvList[s] = NoChunks  BY <1>f, <2>2 DEF OutputsFit
    <2>4. cli[s] \notin Asked \cup ClientEnds  BY <1>f, <2>1, <2>2 DEF OutputsFit, LinkInv
    <2>5. ~Holds(toServer[s], "OutputRequest")  BY <1>f, <2>4 DEF OutputsFit
    <2>6. RequestFits(s)'  BY <2>1, <2>3, <2>5, NoChunksIs DEF RequestFits, Holds
    <2> QED  BY <1>0, <2>1, <2>2, <2>6, HandlerServes
  <1>8. CASE ReadOutputRequest(s)
    <2>1. /\ srv[s] = "await request"
          /\ toServer[s] # <<>> /\ toServer'[s] = Tail(toServer[s])
          /\ Head(toServer[s]).type = "OutputRequest"
          BY <1>8 DEF ReadOutputRequest, ServerReads, TypeOK
    <2>2. CASE Head(toServer[s]).flag
      <3>1. srv'[s] \in {"serving", "record"}
            BY <1>8, <2>2 DEF ReadOutputRequest, ServerGoes, TypeOK
      <3> QED  BY <1>e, <2>1, <3>1
    <2>3. CASE ~Head(toServer[s]).flag
      <3>1. /\ srv' = srv /\ toClient' = toClient
            /\ srvList'[s] = Extended(srvList[s], Head(toServer[s]))
            BY <1>8, <2>3 DEF ReadOutputRequest, TypeOK
      <3>2. RequestFits(s)'  BY <1>0, <2>1, <2>3, <3>1, ChunkKeepsRequest
      <3>3. Holds(toServer'[s], "OutputRequest") => Holds(toServer[s], "OutputRequest")
            BY <1>q, <2>1, HoldsRead
      <3>4. srv'[s] \in Offered /\ srv'[s] \notin Uploading
            BY <2>1, <3>1 DEF Offered, Uploading
      <3> QED  BY <1>0, <3>2, <3>3, <3>4, HandlerServes
    <2> QED  BY <2>2, <2>3
  <1>9. CASE \/ RefuseAuth(s) \/ RefuseRequest(s) \/ RefuseTicket(s) \/ AcceptStream(s)
             \/ JoinTask(s) \/ ServeFile(s) \/ ReadLength(s) \/ ReadOutputCacheDone(s)
             \/ FinishExport(s) \/ Record(s) \/ Garbled(s)
    <2>1. /\ srv'[s] \in {"serving", "draining", "record", "closing"}
          /\ \/ toServer'[s] = toServer[s]
             \/ toServer[s] # <<>> /\ toServer'[s] = Tail(toServer[s])
          BY <1>9 DEF RefuseAuth, RefuseRequest, RefuseTicket, AcceptStream, JoinTask, ServeFile,
                      ReadLength, ReadOutputCacheDone, FinishExport, Record, Garbled, FailRun,
                      ServerReads, ServerGoes, TypeOK
    <2> QED  BY <1>e, <2>1
  <1>10. CASE BadLimit(s) \/ Close(s) \/ NixFails(s) \/ StepFails(s)
    BY <1>10, <1>d, <1>r DEF BadLimit, NixFails, StepFails
  <1>11. CASE ServerTimeout(s)
    <2>1. CASE ServerGoes(s, "closing") /\ UNCHANGED toServer
      <3>1. srv'[s] = "closing"  BY <2>1 DEF ServerGoes, TypeOK
      <3> QED  BY <1>e, <2>1, <3>1
    <2> QED  BY <1>11, <1>d, <1>r, <2>1 DEF ServerTimeout
  <1> QED
    BY <1>1, <1>2, <1>3, <1>4, <1>5, <1>6, <1>7, <1>8, <1>9, <1>10, <1>11 DEF Handler

-----------------------------------------------------------------------------
LEMMA LossKeepsTurns ==
  ASSUME TypeOK, TurnsInv, NEW s \in Sessions, Lose(s)
  PROVE  TurnsInv'
  <1> USE DEF lists
  <1>1. /\ toServer'[s] \in Reached(s, toServer)
        /\ \A t \in Sessions \ {s} : toServer'[t] = toServer[t]
    <2>1. PICK q \in Reached(s, toServer) : toServer' = [toServer EXCEPT ![s] = q]
          BY DEF Lose
    <2> QED  BY <2>1 DEF TypeOK
  <1>2. /\ toClient'[s] \in Reached(s, toClient)
        /\ \A t \in Sessions \ {s} : toClient'[t] = toClient[t]
    <2>1. PICK q \in Reached(s, toClient) : toClient' = [toClient EXCEPT ![s] = q]
          BY DEF Lose
    <2> QED  BY <2>1 DEF TypeOK
  <1>3. /\ UNCHANGED <<cli, srv, cliList, srvList>>
        /\ link[s] = "up" /\ link'[s] = "cut"
        /\ \A t \in Sessions \ {s} : link'[t] = link[t]
        BY DEF Lose, Cut, TypeOK
  <1>4. Elsewhere(s)  BY <1>1, <1>2, <1>3 DEF Elsewhere
  <1>5. LinkInv'  BY <1>3, <1>4 DEF TurnsInv, LinkInv, Elsewhere
  <1>6. ClientTurns'  BY <1>2, <1>3, <1>4, HandlerWritesInTurn DEF TurnsInv
  <1>7. ServerTurns'  BY <1>1, <1>3, <1>4, ClientWritesInTurn DEF TurnsInv
  <1>8. OutputsInv'
    <2>1. toServer[s] \in Seq(Message) /\ toClient[s] \in Seq(Message)  BY DEF TypeOK
    <2>2. Holds(toClient'[s], "OutputClosure") => Holds(toClient[s], "OutputClosure")
          BY <1>2, <2>1, HoldsReached
    <2>3. \A i \in 1..Len(toServer'[s]) :
              i \in 1..Len(toServer[s]) /\ toServer'[s][i] = toServer[s][i]
          BY <1>1, <2>1, HoldsReached
    <2> QED  BY <1>3, <1>4, <2>2, <2>3, ClientAsksNot DEF TurnsInv
  <1> QED  BY <1>5, <1>6, <1>7, <1>8 DEF TurnsInv

LEMMA CrashKeepsTurns ==
  ASSUME TypeOK, TurnsInv, Crash
  PROVE  TurnsInv'
  <1> USE DEF lists
  <1>1. ASSUME NEW s \in Sessions
        PROVE  /\ cli'[s] = cli[s] /\ cliList'[s] = cliList[s] /\ srvList'[s] = srvList[s]
               /\ srv'[s] = IF srv[s] \in {"none", "ended"} THEN srv[s] ELSE "down"
               /\ link'[s] = IF link[s] = "up" THEN "cut" ELSE link[s]
               /\ toServer'[s] = <<>> /\ toClient'[s] \in Reached(s, toClient)
    <2>1. toClient'[s] \in Reached(s, toClient)  BY DEF Crash
    <2> QED  BY <2>1 DEF Crash
  <1>2. ASSUME NEW s \in Sessions
        PROVE  /\ link[s] = "none" => toClient'[s] = toClient[s]
               /\ \A turn : InTurn(turn, toClient[s]) => InTurn(turn, toClient'[s])
               /\ Holds(toClient'[s], "OutputClosure") => Holds(toClient[s], "OutputClosure")
    <2>1. toClient[s] \in Seq(Message)  BY DEF TypeOK
    <2>2. link[s] = "none" => toClient'[s] = toClient[s]  BY <1>1 DEF Reached
    <2>3. \A turn : InTurn(turn, toClient[s]) => InTurn(turn, toClient'[s])
          BY <1>1, <2>1, ReachedIs
    <2>4. Holds(toClient'[s], "OutputClosure") => Holds(toClient[s], "OutputClosure")
          BY <1>1, <2>1, HoldsReached
    <2> QED  BY <2>2, <2>3, <2>4
  <1>3. LinkInv'  BY <1>1, <1>2 DEF TurnsInv, LinkInv
  <1>4. ClientTurns'
    <2>1. ASSUME NEW s \in Sessions, cli'[s] \notin ClientEnds
          PROVE  ClientInTurn(s)' /\ ListRead(s)'
      <3>1. ClientInTurn(s) /\ ListRead(s)  BY <1>1, <2>1 DEF TurnsInv, ClientTurns
      <3>2. link'[s] # "up"  BY <1>1
      <3>3. InTurn(Awaits(cli'[s], cliList'[s]), toClient'[s])
            BY <1>1, <1>2, <3>1 DEF ClientInTurn
      <3> QED  BY <1>1, <3>1, <3>2, <3>3 DEF ClientInTurn, ListRead
    <2> QED  BY <2>1 DEF ClientTurns
  <1>5. ServerTurns'  BY <1>1 DEF ServerTurns, Listens
  <1>6. OutputsInv'
    <2>1. ASSUME NEW s \in Sessions PROVE OutputsFit(s)'
      <3>1. OutputsFit(s)  BY DEF TurnsInv, OutputsInv
      <3>2. srv'[s] \notin Uploading \cup {"await request"} /\ (srv[s] \in Offered => srv'[s] \in Offered)
            BY <1>1 DEF Offered, Uploading
      <3>3. ~Holds(toServer'[s], "OutputRequest")  BY <1>1, HoldsNone
      <3> QED  BY <1>1, <1>2, <3>1, <3>2, <3>3 DEF OutputsFit
    <2> QED  BY <2>1 DEF OutputsInv
  <1> QED  BY <1>3, <1>4, <1>5, <1>6 DEF TurnsInv

LEMMA TurnsInvariant == Spec => []TurnsInv
  <1>1. Init => TurnsInv
    <2> SUFFICES ASSUME Init PROVE TurnsInv  OBVIOUS
    <2>1. ASSUME NEW s \in Sessions
          PROVE  /\ cli[s] = "start" /\ srv[s] = "none" /\ link[s] = "none"
                 /\ toServer[s] = <<>> /\ toClient[s] = <<>>
                 /\ cliList[s] = NoChunks /\ srvList[s] = NoChunks
          BY DEF Init
    <2>2. LinkInv  BY <2>1 DEF LinkInv
    <2>3. ClientTurns
      <3>1. Len(<<>>) = 0  BY EmptyQueue, EmptySeq
      <3>2. \A turn : InTurn(turn, <<>>)  BY <3>1 DEF InTurn
      <3> QED  BY <2>1, <3>2 DEF ClientTurns, ClientInTurn, ListRead
    <2>4. ServerTurns  BY <2>1 DEF ServerTurns, Listens
    <2>5. OutputsInv
          BY <2>1, HoldsNone DEF OutputsInv, OutputsFit, Asked, Uploading
    <2> QED  BY <2>2, <2>3, <2>4, <2>5 DEF TurnsInv
  <1>2. TypeOK /\ HonestQueues /\ TurnsInv /\ [Next]_vars => TurnsInv'
    <2> SUFFICES ASSUME TypeOK, HonestQueues, TurnsInv, [Next]_vars PROVE TurnsInv'  OBVIOUS
    <2>1. LinkInv /\ ClientTurns /\ ServerTurns /\ OutputsInv  BY DEF TurnsInv
    <2>2. ASSUME NEW s \in Sessions, Client(s) \/ GiveUp(s) PROVE TurnsInv'
          BY <2>1, <2>2, ClientKeepsLink, ClientKeepsClientTurns, ClientKeepsServerTurns,
             ClientKeepsOutputs
          DEF TurnsInv
    <2>3. ASSUME NEW s \in Sessions, Handler(s) \/ SendLog(s) \/ NixFails(s) PROVE TurnsInv'
          BY <2>1, <2>3, HandlerKeepsLink, HandlerKeepsClientTurns, HandlerKeepsServerTurns,
             HandlerKeepsOutputs
          DEF TurnsInv
    <2>4. ASSUME UNCHANGED <<cli, srv, link, toServer, toClient, cliList, srvList>>
          PROVE  TurnsInv'
      <3>1. LinkInv'  BY <2>1, <2>4 DEF LinkInv
      <3>2. ClientTurns'  BY <2>1, <2>4 DEF ClientTurns, ClientInTurn, ListRead
      <3>3. ServerTurns'  BY <2>1, <2>4 DEF ServerTurns, ServerInTurn
      <3>4. OutputsInv'  BY <2>1, <2>4 DEF OutputsInv, OutputsFit, RequestFits
      <3> QED  BY <3>1, <3>2, <3>3, <3>4 DEF TurnsInv
    <2>5. CASE Revoke \/ OtherRedeems \/ OtherStarts \/ OtherEnds
          BY <2>4, <2>5 DEF Revoke, OtherRedeems, OtherStarts, OtherEnds, lists
    <2>6. CASE UNCHANGED vars  BY <2>4, <2>6 DEF vars
    <2> QED  BY <2>2, <2>3, <2>5, <2>6, LossKeepsTurns, CrashKeepsTurns DEF Next
  <1> QED  BY <1>1, <1>2, SessionTypeCorrect, HonestInvariant, PTL DEF Spec

-----------------------------------------------------------------------------
\* Waiting.  What a side waits for is on its way, or is for the other side to send.
LEMMA HoldsTail ==
  ASSUME NEW q \in Seq(Message), q # <<>>, NEW type, Holds(q, type), Head(q).type # type
  PROVE  Holds(Tail(q), type)
  <1> DEFINE r == Tail(q)
  <1>1. /\ Len(q) \in Nat /\ Len(r) = Len(q) - 1
        /\ \A i \in 1..Len(r) : r[i] = q[i + 1]
        BY HeadTailProperties, LenProperties
  <1>2. Head(q) = q[1]  BY HeadIs
  <1>3. PICK i \in 1..Len(q) : q[i].type = type  BY DEF Holds
  <1>4. i # 1  BY <1>2, <1>3
  <1> HIDE DEF r
  <1>5. i - 1 \in 1..Len(r) /\ r[i - 1] = q[i]  BY <1>1, <1>3, <1>4
  <1>6. Holds(r, type)  BY <1>3, <1>5 DEF Holds
  <1> QED  BY <1>6 DEF r

LEMMA HoldsMore ==
  ASSUME NEW q \in Seq(Message), NEW r \in Seq(Message), NEW type,
         Holds(q, type) \/ Holds(r, type)
  PROVE  Holds(q \o r, type)
  <1> DEFINE t == q \o r
  <1>1. /\ Len(q) \in Nat /\ Len(r) \in Nat
        /\ Len(t) = Len(q) + Len(r)
        /\ \A i \in 1..(Len(q) + Len(r)) : t[i] = IF i <= Len(q) THEN q[i] ELSE r[i - Len(q)]
        BY ConcatProperties, LenProperties
  <1> HIDE DEF t
  <1>2. CASE Holds(q, type)
    <2>1. PICK i \in 1..Len(q) : q[i].type = type  BY <1>2 DEF Holds
    <2>2. i \in 1..Len(t) /\ t[i] = q[i]  BY <1>1
    <2>3. Holds(t, type)  BY <2>1, <2>2 DEF Holds
    <2> QED  BY <2>3 DEF t
  <1>3. CASE Holds(r, type)
    <2>1. PICK i \in 1..Len(r) : r[i].type = type  BY <1>3 DEF Holds
    <2>2. i + Len(q) \in 1..Len(t) /\ t[i + Len(q)] = r[i]  BY <1>1
    <2>3. Holds(t, type)  BY <2>1, <2>2 DEF Holds
    <2> QED  BY <2>3 DEF t
  <1> QED  BY <1>2, <1>3

\* An upload that is not finished is the client's to finish; a builder that waits for
\* one has its offer on the way; and a client that waits for the end has said that it
\* is done with the cache.
Answered(s) ==
    /\ upload[s] = "open" => cli[s] = "uploading"
    /\ srv[s] = "accept upload" /\ upload[s] = "none" => Holds(toClient[s], "InputUploadReady")
    /\ cli[s] = "await done" /\ srv[s] \in {"await request", "serving"} =>
           Holds(toServer[s], "OutputCacheDone")

AnswersInv == \A s \in Sessions : link[s] = "up" => Answered(s)

LEMMA AnswersElsewhere ==
  ASSUME AnswersInv, NEW s \in Sessions, Elsewhere(s),
         \A t \in Sessions \ {s} : upload'[t] = upload[t],
         link'[s] = "up" => Answered(s)'
  PROVE  AnswersInv'
  <1>1. \A t \in Sessions \ {s} : link'[t] = "up" => Answered(t)'
        BY DEF AnswersInv, Elsewhere, Answered
  <1> QED  BY <1>1 DEF AnswersInv

LEMMA ClientKeepsAnswers ==
  ASSUME TypeOK, UploadInv, AnswersInv, NEW s \in Sessions, Client(s) \/ GiveUp(s)
  PROVE  AnswersInv'
  <1> USE DEF lists, cache
  <1> DEFINE Goal == /\ link'[s] = "up" => Answered(s)'
                     /\ \A t \in Sessions \ {s} : upload'[t] = upload[t]
  <1> SUFFICES Goal
    <2>1. Elsewhere(s)  BY ClientElsewhere
    <2> QED  BY <2>1, AnswersElsewhere
  <1>q. toServer[s] \in Seq(Message) /\ toClient[s] \in Seq(Message)  BY DEF TypeOK
  <1>h. ASSUME ClientHangsUp(s),
               UNCHANGED upload \/ \E u : upload' = [upload EXCEPT ![s] = u]
        PROVE  Goal
    <2>1. link'[s] # "up"  BY <1>h DEF ClientHangsUp, Cut, TypeOK
    <2>2. \A t \in Sessions \ {s} : upload'[t] = upload[t]  BY <1>h DEF TypeOK
    <2> QED  BY <2>1, <2>2
  <1>r. ASSUME NEW type, type # "InputUploadReady", ClientReads(s, type),
               cli[s] \in ClientReading, cli'[s] # "await done",
               UNCHANGED <<srv, link, upload>>
        PROVE  Goal
    <2>1. ASSUME link'[s] = "up" PROVE Answered(s)'
      <3>1. Answered(s) /\ upload'[s] = upload[s] /\ srv'[s] = srv[s]
            BY <1>r, <2>1 DEF AnswersInv
      <3>2. upload[s] # "open"  BY <1>r, <3>1 DEF Answered, ClientReading
      <3>3. toClient'[s] = Tail(toClient[s]) /\ toClient[s] # <<>> /\ Head(toClient[s]).type = type
            BY <1>r DEF ClientReads, TypeOK
      <3>4. Holds(toClient[s], "InputUploadReady") => Holds(toClient'[s], "InputUploadReady")
            BY <1>q, <1>r, <3>3, HoldsTail
      <3> QED  BY <1>r, <3>1, <3>2, <3>4 DEF Answered
    <2> QED  BY <1>r, <2>1
  <1>u. ASSUME UNCHANGED <<srv, link, toClient, upload>>, cli[s] # "uploading",
               cli'[s] # "await done"
        PROVE  Goal
    <2>1. ASSUME link'[s] = "up" PROVE Answered(s)'
      <3>1. Answered(s) /\ upload[s] # "open"  BY <1>u, <2>1 DEF AnswersInv, Answered
      <3> QED  BY <1>u, <3>1 DEF Answered
    <2> QED  BY <1>u, <2>1
  <1>1. CASE FindLocalOutputs(s) \/ ResolveOutputs(s) \/ Preflight(s) \/ SendBuildRequest(s)
             \/ OpenCacheStream(s)
    <2>1. /\ UNCHANGED <<srv, link, toClient, upload>>
          /\ cli[s] \in {"start", "preflight", "preparing", "importing"}
          BY <1>1 DEF FindLocalOutputs, ResolveOutputs, Preflight, SendBuildRequest, OpenCacheStream
    <2>2. cli'[s] # "await done"
          BY <1>1, ZenonT(60) DEF FindLocalOutputs, ResolveOutputs, Preflight, SendBuildRequest,
             OpenCacheStream, ClientGoes, TypeOK
    <2> QED  BY <1>u, <2>1, <2>2
  <1>2. CASE Open(s)
    <2>1. /\ upload[s] = "none" /\ UNCHANGED upload
          /\ cli'[s] = "await auth" /\ srv'[s] = "hello"
          BY <1>2 DEF Open, UploadInv, BeforeUpload, ClientGoes, ServerGoes, TypeOK
    <2> QED  BY <2>1 DEF Answered
  <1>3. CASE ReadAuthOk(s) \/ ReadBuildQueued(s) \/ ReadOutputCacheReady(s)
    BY <1>3, <1>r DEF ReadAuthOk, ReadBuildQueued, ReadOutputCacheReady, ClientGoes,
                      ClientReading, TypeOK
  <1>4. CASE ReadChunk(s)
    <2>1. PICK type \in {"MissingPaths", "OutputClosure"} :
              /\ ClientReads(s, type) /\ UNCHANGED <<cli, srv, link, upload>>
              /\ cli[s] = IF type = "MissingPaths" THEN "await missing" ELSE "await closure"
          BY <1>4 DEF ReadChunk
    <2>2. cli[s] \in ClientReading /\ cli'[s] # "await done"  BY <2>1 DEF ClientReading
    <2> QED  BY <1>r, <2>1, <2>2
  <1>5. CASE ReadMissingPaths(s)
    <2>1. /\ ClientReads(s, "MissingPaths") /\ UNCHANGED <<srv, link, upload>>
          /\ cli[s] = "await missing" /\ cli'[s] \in {"await build", "await upload"}
          BY <1>5 DEF ReadMissingPaths, ClientGoes, TypeOK
    <2> QED  BY <1>r, <2>1 DEF ClientReading
  <1>6. CASE ReadUploadReady(s)
    <2>1. /\ cli'[s] = "uploading" /\ upload'[s] = "open"
          /\ \A t \in Sessions \ {s} : upload'[t] = upload[t]
          BY <1>6 DEF ReadUploadReady, ClientGoes, TypeOK
    <2> QED  BY <2>1 DEF Answered
  <1>7. CASE FinishUpload(s)
    <2>1. /\ cli'[s] = "await build" /\ upload'[s] = "whole"
          /\ \A t \in Sessions \ {s} : upload'[t] = upload[t]
          BY <1>7 DEF FinishUpload, ClientGoes, Exported, TypeOK
    <2> QED  BY <2>1 DEF Answered
  <1>8. CASE ReadBuildMessage(s)
    <2>1. PICK type \in {"BuildStarted", "NixLog"} : ClientReads(s, type)
          BY <1>8 DEF ReadBuildMessage
    <2>2. cli[s] = "await build" /\ UNCHANGED <<cli, srv, link, upload>>
          BY <1>8 DEF ReadBuildMessage
    <2> QED  BY <1>r, <2>1, <2>2 DEF ClientReading
  <1>9. CASE ReadBuildFinished(s)
    <2>1. CASE ClientHangsUp(s)  BY <1>9, <1>h, <2>1 DEF ReadBuildFinished
    <2>2. CASE ClientReads(s, "BuildFinished") /\ ClientGoes(s, "await closure") /\ UNCHANGED link
      <3>1. cli[s] = "await build" /\ cli'[s] = "await closure" /\ UNCHANGED <<srv, link, upload>>
            BY <1>9, <2>2 DEF ReadBuildFinished, ClientGoes, TypeOK
      <3> QED  BY <1>r, <2>2, <3>1 DEF ClientReading
    <2> QED  BY <1>9, <2>1, <2>2 DEF ReadBuildFinished
  <1>10. CASE RequestOutputs(s)
    <2>1. /\ ClientReads(s, "OutputClosure") /\ UNCHANGED <<srv, link, upload>>
          /\ cli[s] = "await closure" /\ cli'[s] = "await cache"
          BY <1>10 DEF RequestOutputs, ClientGoes, TypeOK
    <2> QED  BY <1>r, <2>1 DEF ClientReading
  <1>11. CASE SendOutputCacheDone(s)
    <2> DEFINE r == <<Msg(Length), Msg("OutputCacheDone")>>
    <2>1. /\ UNCHANGED <<srv, link, toClient, upload>>
          /\ cli[s] = "importing" /\ toServer'[s] = toServer[s] \o r
          BY <1>11 DEF SendOutputCacheDone, ClientSends, TypeOK
    <2>2. r \in Seq(Message) /\ Holds(r, "OutputCacheDone")
      <3>1. Msg(Length) \in Message /\ Msg("OutputCacheDone") \in Message  BY MsgIn DEF Kinds
      <3>2. Len(r) = 2 /\ r[2] = Msg("OutputCacheDone")  OBVIOUS
      <3>3. r \in Seq(Message)  BY <3>1
      <3>4. 2 \in 1..Len(r) /\ r[2].type = "OutputCacheDone"  BY <3>2 DEF Msg
      <3> QED  BY <3>3, <3>4 DEF Holds
    <2> HIDE DEF r
    <2>3. Holds(toServer'[s], "OutputCacheDone")  BY <1>q, <2>1, <2>2, HoldsMore
    <2>4. ASSUME link'[s] = "up" PROVE Answered(s)'
      <3>1. Answered(s) /\ upload[s] # "open"  BY <2>1, <2>4 DEF AnswersInv, Answered
      <3> QED  BY <2>1, <2>3, <3>1 DEF Answered
    <2> QED  BY <2>1, <2>4
  <1>12. CASE ReadDone(s)  BY <1>12, <1>h DEF ReadDone
  <1>13. CASE SeeError(s) \/ PathListTimeout(s) \/ SendFails(s) \/ GiveUp(s)
    <2>1. Leave(s, "failed")  BY <1>13 DEF SeeError, PathListTimeout, SendFails, GiveUp
    <2>2. \E u : upload' = [upload EXCEPT ![s] = u]  BY <2>1, Zenon DEF Leave
    <2> QED  BY <1>h, <2>1, <2>2 DEF Leave
  <1> QED  BY <1>1, <1>2, <1>3, <1>4, <1>5, <1>6, <1>7, <1>8, <1>9, <1>10, <1>11, <1>12,
              <1>13 DEF Client

LEMMA HandlerKeepsAnswers ==
  ASSUME TypeOK, OutputsInv, AnswersInv, NEW s \in Sessions,
         Handler(s) \/ SendLog(s) \/ NixFails(s)
  PROVE  AnswersInv'
  <1> USE DEF lists, cache
  <1>q. toServer[s] \in Seq(Message) /\ toClient[s] \in Seq(Message)  BY DEF TypeOK
  <1>e. Elsewhere(s) /\ cli'[s] = cli[s] /\ (link'[s] = "up" => link[s] = "up")
        BY HandlerElsewhere
  <1>u. UNCHANGED upload
    BY DEF Handler, SendLog, NixFails, ReadHello, AuthorizeTrusted, AuthorizeTicket, RefuseAuth,
        ReadBuildRequest, ReadBuildPaths, RefuseRequest, Redeem, RefuseTicket, SendBuildQueued,
        Start, SendMissingPaths, OfferUpload, AcceptUpload, ImportInputs, SendBuildStarted,
        FinishBuild, SendOutputClosure, ReadOutputRequest, AcceptStream, JoinTask, ServeFile,
        ReadLength, ReadOutputCacheDone, FinishExport, Record, BadLimit, Close, Garbled,
        ServerTimeout, StepFails, Drop, FailRun
  <1> DEFINE Offers ==
               srv'[s] = "accept upload" => Holds(toClient'[s], "InputUploadReady")
             Done ==
               srv'[s] \in {"await request", "serving"} /\ cli[s] = "await done" =>
                   /\ srv[s] \in {"await request", "serving"}
                   /\ Holds(toServer[s], "OutputCacheDone") => Holds(toServer'[s], "OutputCacheDone")
  <1> SUFFICES Offers /\ Done
    <2>1. ASSUME link'[s] = "up" PROVE Answered(s)'
      <3>1. Answered(s)  BY <1>e, <2>1 DEF AnswersInv
      <3> QED  BY <1>e, <1>u, <3>1 DEF Answered
    <2> QED  BY <1>e, <1>u, <2>1, AnswersElsewhere
  <1>d. ASSUME srv'[s] \notin {"accept upload", "await request", "serving"}
        PROVE  Offers /\ Done
        BY <1>d
  <1>f. ASSUME FailRun(s) \/ Drop(s) \/ Close(s) PROVE Offers /\ Done
    <2>1. srv'[s] \in {"record", "ended"}
          BY <1>f DEF FailRun, Drop, Close, ServerGoes, TypeOK
    <2> QED  BY <1>d, <2>1
  <1>1. CASE \/ ReadHello(s) \/ AuthorizeTrusted(s) \/ AuthorizeTicket(s) \/ RefuseAuth(s)
             \/ ReadBuildRequest(s) \/ RefuseRequest(s) \/ Redeem(s) \/ RefuseTicket(s)
    <2>1. srv'[s] \in {"auth", "request", "closing", "paths", "enqueue"}
          BY <1>1, ZenonT(60)
          DEF ReadHello, AuthorizeTrusted, AuthorizeTicket, RefuseAuth, ReadBuildRequest,
              RefuseRequest, Redeem, RefuseTicket, ServerGoes, TypeOK
    <2> QED  BY <1>d, <2>1
  <1>2. CASE ReadBuildPaths(s)
    <2>1. srv'[s] \in {"paths", "redeem"}  BY <1>2 DEF ReadBuildPaths, TypeOK
    <2> QED  BY <1>d, <2>1
  <1>3. CASE \/ SendBuildQueued(s) \/ Start(s) \/ SendMissingPaths(s) \/ AcceptUpload(s)
             \/ ImportInputs(s) \/ SendBuildStarted(s) \/ SendLog(s)
    <2>1. srv'[s] \in {"waiting", "checking", "start build", "offer", "import inputs", "realise"}
          BY <1>3, ZenonT(60)
          DEF SendBuildQueued, Start, SendMissingPaths, AcceptUpload, ImportInputs,
              SendBuildStarted, SendLog, ServerGoes, TypeOK
    <2> QED  BY <1>d, <2>1
  <1>4. CASE FinishBuild(s) \/ ReadOutputCacheDone(s) \/ FinishExport(s) \/ Record(s)
    <2>1. srv'[s] \in {"exporting", "record", "draining", "closing"}
          BY <1>4, ZenonT(60)
          DEF FinishBuild, ReadOutputCacheDone, FinishExport, Record, ServerGoes, TypeOK
    <2> QED  BY <1>d, <2>1
  <1>5. CASE OfferUpload(s)
    <2> DEFINE r == <<Msg("InputUploadReady")>>
    <2>1. srv'[s] = "accept upload" /\ toClient'[s] = toClient[s] \o r
          BY <1>5 DEF OfferUpload, ServerSends, ServerGoes, TypeOK
    <2>2. r \in Seq(Message) /\ Holds(r, "InputUploadReady")
      <3>1. r \in Seq(Message)  BY MsgIn DEF Kinds
      <3>2. 1 \in 1..Len(r) /\ r[1].type = "InputUploadReady"  BY DEF Msg
      <3> QED  BY <3>1, <3>2 DEF Holds
    <2> HIDE DEF r
    <2>3. Holds(toClient'[s], "InputUploadReady")  BY <1>q, <2>1, <2>2, HoldsMore
    <2> QED  BY <2>1, <2>3
  <1>6. CASE SendOutputClosure(s)
    <2>1. srv[s] = "exporting" /\ srv'[s] = "await request"
          BY <1>6 DEF SendOutputClosure, ServerGoes, TypeOK
    <2>2. cli[s] # "await done"  BY <2>1 DEF OutputsInv, OutputsFit, Asked, Offered
    <2> QED  BY <2>1, <2>2
  <1>r. ASSUME NEW type, type # "OutputCacheDone", ServerReads(s, type),
               srv[s] \in {"await request", "serving"}, srv'[s] # "accept upload"
        PROVE  Offers /\ Done
    <2>1. toServer'[s] = Tail(toServer[s]) /\ toServer[s] # <<>> /\ Head(toServer[s]).type = type
          BY <1>r DEF ServerReads, TypeOK
    <2>2. Holds(toServer[s], "OutputCacheDone") => Holds(toServer'[s], "OutputCacheDone")
          BY <1>q, <1>r, <2>1, HoldsTail
    <2> QED  BY <1>r, <2>2
  <1>7. CASE ReadOutputRequest(s)
    <2>1. ServerReads(s, "OutputRequest") /\ srv[s] = "await request"
          BY <1>7 DEF ReadOutputRequest
    <2>2. srv'[s] # "accept upload"  BY <1>7, <2>1 DEF ReadOutputRequest, ServerGoes, TypeOK
    <2> QED  BY <1>r, <2>1, <2>2
  <1>8. CASE ReadLength(s)
    <2>1. ServerReads(s, Length) /\ srv[s] = "serving" /\ srv'[s] = "serving"
          BY <1>8 DEF ReadLength
    <2>2. Length # "OutputCacheDone"  BY DEF Length
    <2> QED  BY <1>r, <2>1, <2>2
  <1>9. CASE AcceptStream(s) \/ JoinTask(s) \/ ServeFile(s)
    <2>1. UNCHANGED <<srv, toServer>> /\ srv[s] \in {"serving", "draining"}
          BY <1>9 DEF AcceptStream, JoinTask, ServeFile
    <2> QED  BY <2>1
  <1>10. CASE BadLimit(s) \/ Close(s) \/ Garbled(s) \/ NixFails(s) \/ StepFails(s)
    BY <1>10, <1>f DEF BadLimit, Garbled, NixFails, StepFails
  <1>11. CASE ServerTimeout(s)
    <2>1. CASE ServerGoes(s, "closing")
      <3>1. srv'[s] = "closing"  BY <2>1 DEF ServerGoes, TypeOK
      <3> QED  BY <1>d, <3>1
    <2> QED  BY <1>11, <1>f, <2>1 DEF ServerTimeout
  <1> QED  BY <1>1, <1>2, <1>3, <1>4, <1>5, <1>6, <1>7, <1>8, <1>9, <1>10, <1>11 DEF Handler

LEMMA AnswersInvariant == Spec => []AnswersInv
  <1>1. Init => AnswersInv
    BY DEF Init, AnswersInv
  <1>2. TypeOK /\ UploadInv /\ TurnsInv /\ AnswersInv /\ [Next]_vars => AnswersInv'
    <2> SUFFICES ASSUME TypeOK, UploadInv, TurnsInv, AnswersInv, [Next]_vars
                 PROVE  AnswersInv'
        OBVIOUS
    <2>1. ASSUME UNCHANGED <<cli, srv, toServer, toClient, upload>>,
                 \A s \in Sessions : link'[s] = "up" => link[s] = "up"
          PROVE  AnswersInv'
          BY <2>1 DEF AnswersInv, Answered
    <2>2. CASE Revoke \/ OtherRedeems \/ OtherStarts \/ OtherEnds \/ UNCHANGED vars
          BY <2>1, <2>2 DEF Revoke, OtherRedeems, OtherStarts, OtherEnds, vars, cache
    <2>3. ASSUME NEW s \in Sessions, Lose(s) PROVE AnswersInv'
      <3>1. PICK q \in Reached(s, toServer) : toServer' = [toServer EXCEPT ![s] = q]
            BY <2>3 DEF Lose
      <3>2. PICK r \in Reached(s, toClient) : toClient' = [toClient EXCEPT ![s] = r]
            BY <2>3 DEF Lose
      <3>3. /\ UNCHANGED <<cli, srv, upload>> /\ link'[s] # "up"
            /\ \A t \in Sessions \ {s} : link'[t] = link[t]
            BY <2>3 DEF Lose, Cut, TypeOK
      <3>4. \A t \in Sessions \ {s} : toServer'[t] = toServer[t] /\ toClient'[t] = toClient[t]
            BY <3>1, <3>2 DEF TypeOK
      <3> QED  BY <3>3, <3>4 DEF AnswersInv, Answered
    <2>4. CASE Crash
      <3>1. \A s \in Sessions : link'[s] # "up"  BY <2>4 DEF Crash
      <3> QED  BY <3>1 DEF AnswersInv
    <2> QED  BY <2>2, <2>3, <2>4, ClientKeepsAnswers, HandlerKeepsAnswers DEF Next, TurnsInv
  <1> QED  BY <1>1, <1>2, SessionTypeCorrect, UploadInvariant, TurnsInvariant, PTL DEF Spec

\* Two sides that wait for each other: the client has said that it is done, and the
\* handler's read is starved.
LEMMA BothWaitIfStarved ==
  ASSUME TypeOK, LinkInv, ClientTurns, ServerTurns, AnswersInv, NEW s \in Sessions,
         link[s] = "up", ClientWaits(s), ServerWaits(s)
  PROVE  cli[s] = "await done" /\ Starved(s)
  <1>1. Answered(s) /\ cli[s] \in ClientReading /\ toClient[s] = <<>>
        BY DEF AnswersInv, ClientWaits
  <1>2. ~Holds(toClient[s], "InputUploadReady")  BY <1>1, HoldsNone
  <1>3. srv[s] \in ServerReading /\ (toServer[s] = <<>> \/ Starved(s))
        BY <1>1, <1>2 DEF ServerWaits, Starved, Answered, ClientReading, ServerReading
  <1>4. ~Holds(toServer[s], "OutputCacheDone") \/ Starved(s)  BY <1>3, HoldsNone
  <1>5. Tells(srv[s]) # "end" /\ Listens(srv[s]) # "end"
        BY <1>3 DEF ServerReading, Tells, Listens
  <1>6. Awaits(cli[s], cliList[s]) = Tells(srv[s])
    <2>1. ClientInTurn(s)  BY <1>1 DEF ClientTurns, ClientReading, ClientEnds
    <2> QED  BY <1>1, <1>5, <2>1 DEF ClientInTurn, LastTurn
  <1>7. ASSUME srv[s] # "serving" PROVE Listens(srv[s]) = Asks(cli[s])
    <2>1. ServerInTurn(s)  BY <1>5 DEF ServerTurns
    <2>2. toServer[s] = <<>>  BY <1>3, <1>7 DEF Starved
    <2> QED  BY <2>1, <2>2 DEF ServerInTurn, LastTurn
  <1>8. CASE srv[s] \in {"hello", "auth", "paths"}
        BY <1>7, <1>8 DEF Listens, Asks
  <1>9. CASE srv[s] = "request"
    <2>1. Awaits(cli[s], cliList[s]) = "queued"  BY <1>6, <1>9 DEF Tells
    <2>2. cli[s] = "await queued"  BY <1>1, <2>1 DEF Awaits, ClientReading
    <2> QED  BY <1>7, <1>9, <2>2 DEF Listens, Asks
  <1>10. CASE srv[s] = "await request"
    <2>1. Awaits(cli[s], cliList[s]) = "cache"  BY <1>6, <1>10 DEF Tells
    <2>2. cli[s] = "await cache"  BY <1>1, <2>1 DEF Awaits, ClientReading
    <2> QED  BY <1>7, <1>10, <2>2 DEF Listens, Asks
  <1>11. CASE srv[s] = "serving"
    <2>1. Awaits(cli[s], cliList[s]) = "done"  BY <1>6, <1>11 DEF Tells
    <2>2. cli[s] = "await done"  BY <1>1, <2>1 DEF Awaits, ClientReading
    <2> QED  BY <1>1, <1>4, <1>11, <2>2 DEF Answered
  <1> QED  BY <1>3, <1>8, <1>9, <1>10, <1>11 DEF ServerReading

\* TurnsAgree: neither side ever reads a message that it does not expect, the builder can
\* read every list that the client asks for, and the two wait for each other in one case
\* only, a read of OutputCacheDone that was dropped at the wrong byte, whatever the
\* lists, the losses and the time limits.
THEOREM SidesTakeTurns == Spec => []TurnsAgree
  <1>1. TypeOK /\ HonestQueues /\ TurnsInv /\ AnswersInv => TurnsAgree
    <2> SUFFICES ASSUME TypeOK, HonestQueues, TurnsInv, AnswersInv, NEW s \in Sessions
                 PROVE  /\ link[s] = "up" /\ ClientWaits(s) /\ ServerWaits(s) =>
                               cli[s] = "await done" /\ Starved(s)
                        /\ cli[s] \in ClientReading /\ toClient[s] # <<>> =>
                               Head(toClient[s]).type \in ClientExpects(cli[s]) \cup {"Error"}
                        /\ srv[s] \in ServerReading /\ toServer[s] # <<>> =>
                               /\ Head(toServer[s]).type \in ServerExpects(srv[s])
                               /\ srv[s] = "await request" =>
                                      WithinLimits(Extended(srvList[s], Head(toServer[s])))
          BY DEF TurnsAgree
    <2> DEFINE a == Head(toClient[s])
               b == Head(toServer[s])
    <2>q. toServer[s] \in Seq(Message) /\ toClient[s] \in Seq(Message)  BY DEF TypeOK
    <2>1. ASSUME cli[s] \in ClientReading, toClient[s] # <<>>
          PROVE  a.type \in ClientExpects(cli[s]) \cup {"Error"}
      <3>1. ClientInTurn(s)
            BY <2>1 DEF TurnsInv, ClientTurns, ClientReading, ClientEnds
      <3>2. Due(Awaits(cli[s], cliList[s]), a)
            BY <2>1, <2>q, <3>1, TurnHead DEF ClientInTurn
      <3> HIDE DEF a
      <3> QED  BY <2>1, <3>2 DEF Due, Awaits, ClientExpects, ClientReading
    <2>2. ASSUME srv[s] \in ServerReading, toServer[s] # <<>>
          PROVE  /\ Due(Listens(srv[s]), b) /\ b.type # "Error" /\ b \in Message
                 /\ b.type \in ServerExpects(srv[s])
      <3>1. Listens(srv[s]) # "end"  BY <2>2 DEF Listens, ServerReading
      <3>2. ServerInTurn(s)  BY <3>1 DEF TurnsInv, ServerTurns
      <3>3. Due(Listens(srv[s]), b) /\ b \in Message
            BY <2>2, <2>q, <3>2, TurnHead DEF ServerInTurn
      <3>4. b.type # "Error"
        <4>1. b \in Honest(s)  BY <2>2, HeadTailProperties DEF HonestQueues
        <4> QED  BY <4>1 DEF Honest
      <3> HIDE DEF b
      <3>5. b.type \in ServerExpects(srv[s])
            BY <2>2, <3>3, <3>4 DEF Due, Listens, ServerExpects, ServerReading
      <3> QED  BY <3>3, <3>4, <3>5
    <2>3. ASSUME srv[s] = "await request", toServer[s] # <<>>
          PROVE  WithinLimits(Extended(srvList[s], b))
      <3>1. RequestFits(s)  BY <2>3 DEF TurnsInv, OutputsInv, OutputsFit
      <3>2. b.type = "OutputRequest" /\ b \in Message
        <4>1. srv[s] \in ServerReading  BY <2>3 DEF ServerReading
        <4>2. b.type \in ServerExpects(srv[s]) /\ b \in Message  BY <2>2, <2>3, <4>1
        <4> QED  BY <2>3, <4>2 DEF ServerExpects
      <3>3. 1 \in 1..Len(toServer[s]) /\ b = toServer[s][1]
        BY <2>3, <2>q, HeadIs
      <3> HIDE DEF b
      <3>4. /\ srvList[s].chunks + 1 <= MaxChunks
            /\ (srvList[s].chunks + 1 - 1) * ChunkSize + b.paths <= MaxPaths
            /\ srvList[s].paths = srvList[s].chunks * ChunkSize
            BY <3>1, <3>2, <3>3 DEF RequestFits
      <3>5. srvList[s].chunks \in Nat  BY DEF TypeOK
      <3>6. srvList[s].chunks + 1 - 1 = srvList[s].chunks  BY <3>5
      <3> QED  BY <3>4, <3>6 DEF WithinLimits, Extended
    <2>4. link[s] = "up" /\ ClientWaits(s) /\ ServerWaits(s) =>
              cli[s] = "await done" /\ Starved(s)
          BY BothWaitIfStarved DEF TurnsInv
    <2> QED  BY <2>1, <2>2, <2>3, <2>4
  <1> QED  BY <1>1, TurnsInvariant, AnswersInvariant, SessionTypeCorrect, HonestInvariant, PTL
=============================================================================
