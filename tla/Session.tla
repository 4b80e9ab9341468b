-------------------------------- MODULE Session --------------------------------
(***************************************************************************)
(* One build as both of its sides see it: the client's command             *)
(* (client/session.rs, client_cache/mod.rs) and the builder's handler of   *)
(* its connection (server/connection.rs, auth.rs, build.rs,                *)
(* output_cache.rs), with the messages between them.                       *)
(*                                                                         *)
(* A connection has one control stream, a FIFO in each direction, a        *)
(* stream for the upload and streams for cache files.  Either side may     *)
(* stop, fail or reach a time limit at any step; what it has sent and the  *)
(* other has not received is then lost from some message on.  A path list  *)
(* travels in chunks.  Only one message is read in a way that can be       *)
(* interrupted half-way, and only that one travels in two parts.           *)
(***************************************************************************)
EXTENDS Naturals, Sequences, FiniteSets

CONSTANTS
    Sessions,      \* connections, each of one client command
    TicketUses,    \* uses of the one ticket
    MaxBuilds,     \* max_concurrent_builds
    Limits,        \* texts of max_upload_bytes: a number and the value of its suffix
    MaxU64,        \* the largest u64
    ListSizes,     \* lengths of path lists
    ChunkSize,     \* PATH_CHUNK_SIZE
    MaxPaths,      \* ReadLimits.paths
    MaxChunks,     \* ReadLimits.chunks
    MaxCrashes     \* bound on the crashes of the server

ASSUME SessionAssumption ==
    /\ IsFiniteSet(Sessions)
    /\ TicketUses \in Nat /\ MaxBuilds \in Nat \ {0}
    /\ MaxU64 \in Nat
    /\ Limits \subseteq [number : 0..MaxU64, unit : 0..MaxU64]
    /\ ListSizes \subseteq Nat
    /\ ChunkSize \in Nat \ {0}
    /\ MaxPaths \in Nat /\ MaxChunks \in Nat /\ MaxCrashes \in Nat

VARIABLES
    trusted,    \* sessions of clients whose key the access policy names
    ticketed,   \* sessions of clients that show the ticket
    limit,      \* limit[s]: the upload limit of the client or the ticket, if any
    cli,        \* cli[s]: where the client's command is
    srv,        \* srv[s]: where the builder's handler is
    link,       \* link[s]: the connection
    toServer,   \* toServer[s]: messages the handler has not read
    toClient,   \* toClient[s]: messages the client has not read
    cliList,    \* cliList[s]: what the client has read of a path list
    srvList,    \* srvList[s]: what the handler has read of a path list
    missing,    \* missing[s]: inputs the builder does not have
    upload,     \* upload[s]: the input upload stream
    stream,     \* stream[s]: a cache-file stream, and the handler's task for it
    doneRead,   \* doneRead[s]: how much of OutputCacheDone a read has taken
    imported,   \* imported[s]: the client's import has succeeded
    result,     \* result[s]: how the request ended on the builder
    uses,       \* uses left on the ticket
    revoked,    \* the ticket is revoked
    taken,      \* history: sessions whose request was taken up
    others,     \* uses that other clients have spent
    busy,       \* permits that other builds hold
    crashes     \* how often the server stopped

vars == <<trusted, ticketed, limit, cli, srv, link, toServer, toClient, cliList, srvList,
          missing, upload,
          stream, doneRead, imported, result, uses, revoked, taken, others, busy, crashes>>

ticket == <<uses, revoked, taken, others>>
policy == <<trusted, ticketed, limit>>
cache == <<stream, doneRead, imported>>
lists == <<cliList, srvList>>

ClientReading == {"await auth", "await queued", "await missing", "await upload",
                  "await build", "await closure", "await cache", "await done"}
ClientBusy == {"start", "opening", "preflight", "preparing", "uploading", "importing"}
ClientEnds == {"local", "success", "build failed", "failed"}
ClientPlaces == ClientReading \cup ClientBusy \cup ClientEnds

ServerReading == {"hello", "auth", "request", "paths", "await request", "serving"}
Running == {"checking", "offer", "accept upload", "import inputs", "start build",
            "realise", "exporting", "await request", "serving", "draining"}
ServerEnds == {"ended", "down"}
ServerPlaces == {"none", "redeem", "enqueue", "waiting", "record", "closing"}
                \cup ServerReading \cup Running \cup ServerEnds

\* What is on the wire: every kind of message, a count where it is a path list,
\* and a flag: the last chunk of a list, or a build's success.
Kinds == {"Hello", "AuthTrustedClient", "AuthTicket", "AuthOk", "BuildRequest",
          "BuildPaths", "BuildQueued", "MissingPaths", "InputUploadReady",
          "BuildStarted", "NixLog", "BuildFinished", "OutputClosure",
          "OutputRequest", "OutputCacheReady", "OutputCacheDone", "Done", "Error"}

Length == "length of a message"

Message == [type : Kinds \cup {Length}, paths : Nat, flag : BOOLEAN]

Msg(type) == [type |-> type, paths |-> 0, flag |-> FALSE]
BuildFinished(success) == [type |-> "BuildFinished", paths |-> 0, flag |-> success]

\* (mutant) the chunk before the last is marked, too.
PathListDoneEarly(type, n) ==
    LET count == IF n = 0 THEN 1 ELSE (n + ChunkSize - 1) \div ChunkSize
    IN  [i \in 1..count |->
            [type |-> type,
             paths |-> IF i < count THEN ChunkSize ELSE n - (count - 1) * ChunkSize,
             flag |-> i + 1 >= count]]

\* path_chunks::write: chunks of ChunkSize, the last marked; an empty list is one
\* empty chunk.
PathList(type, n) ==
    LET count == IF n = 0 THEN 1 ELSE (n + ChunkSize - 1) \div ChunkSize
    IN  [i \in 1..count |->
            [type |-> type,
             paths |-> IF i < count THEN ChunkSize ELSE n - (count - 1) * ChunkSize,
             flag |-> i = count]]

\* path_chunks::read_loop: the reader's state and its limits, the chunk it has
\* just received included.
NoChunks == [chunks |-> 0, paths |-> 0]
Extended(list, m) == [chunks |-> list.chunks + 1, paths |-> list.paths + m.paths]

WithinLimits(list) == list.chunks <= MaxChunks /\ list.paths <= MaxPaths

Prefixes(q) == {SubSeq(q, 1, i) : i \in 0..Len(q)}

-----------------------------------------------------------------------------
\* Steps that both sides are made of.

ClientGoes(s, place) == cli' = [cli EXCEPT ![s] = place]
ServerGoes(s, place) == srv' = [srv EXCEPT ![s] = place]

ClientSends(s, msgs) ==
    /\ link[s] = "up"
    /\ toServer' = [toServer EXCEPT ![s] = @ \o msgs]

ServerSends(s, msgs) ==
    /\ link[s] = "up"
    /\ toClient' = [toClient EXCEPT ![s] = @ \o msgs]

\* The message at the front is of this kind, and is consumed.
ClientReads(s, type) ==
    /\ toClient[s] # <<>> /\ Head(toClient[s]).type = type
    /\ toClient' = [toClient EXCEPT ![s] = Tail(@)]

ServerReads(s, type) ==
    /\ toServer[s] # <<>> /\ Head(toServer[s]).type = type
    /\ toServer' = [toServer EXCEPT ![s] = Tail(@)]

\* The connection ends.  Of what was sent, the other side has received some
\* messages, and the rest is lost.
Cut(s) == link' = [link EXCEPT ![s] = IF @ = "up" THEN "cut" ELSE @]
Reached(s, queue) == IF link[s] = "up" THEN Prefixes(queue[s]) ELSE {queue[s]}

ClientHangsUp(s) ==
    /\ Cut(s)
    /\ toServer' \in {[toServer EXCEPT ![s] = q] : q \in Reached(s, toServer)}
    /\ toClient' = [toClient EXCEPT ![s] = <<>>]

ServerHangsUp(s) ==
    /\ Cut(s)
    /\ toServer' = [toServer EXCEPT ![s] = <<>>]
    /\ toClient' \in {[toClient EXCEPT ![s] = q] : q \in Reached(s, toClient)}

\* parse_byte_count: the product must fit a u64.
Fits(text) == text.number * text.unit <= MaxU64
LimitParses(s) == \A text \in limit[s] : Fits(text)

\* AccessPolicy::authorize.
Named(s) == s \in trusted

\* nix::missing_paths: some of the paths it is given.  A closure is never empty.
SomeOf(n) == ListSizes \cap (0..n)
ClosureSizes == ListSizes \ {0}

\* nix::export_paths on a stream: a failure leaves the beginning of the export on
\* it, and a stream that is dropped is finished with what it holds.
Exported(ok) == IF ok THEN "whole" ELSE "short"

Admitted == {s \in Sessions : srv[s] \in Running}

CheckTicket == uses > 0 /\ ~revoked

-----------------------------------------------------------------------------
\* A client has one limit or none; a ticket always has one.
Init ==
    /\ trusted \in SUBSET Sessions /\ ticketed \in SUBSET Sessions
    /\ limit \in [Sessions -> {L \in SUBSET Limits : Cardinality(L) <= 1}]
    /\ \A s \in ticketed : limit[s] # {}
    /\ cli = [s \in Sessions |-> "start"]
    /\ srv = [s \in Sessions |-> "none"]
    /\ link = [s \in Sessions |-> "none"]
    /\ toServer = [s \in Sessions |-> <<>>]
    /\ toClient = [s \in Sessions |-> <<>>]
    /\ cliList = [s \in Sessions |-> NoChunks]
    /\ srvList = [s \in Sessions |-> NoChunks]
    /\ missing = [s \in Sessions |-> 0]
    /\ upload = [s \in Sessions |-> "none"]
    /\ stream = [s \in Sessions |-> "none"]
    /\ doneRead = [s \in Sessions |-> "none"]
    /\ imported = [s \in Sessions |-> FALSE]
    /\ result = [s \in Sessions |-> "none"]
    /\ uses = TicketUses
    /\ revoked = FALSE
    /\ taken = {}
    /\ others = 0
    /\ busy = 0
    /\ crashes = 0

-----------------------------------------------------------------------------
\* The client.

\* The outputs are in the local store and no rebuild was asked for: no builder
\* is needed.
FindLocalOutputs(s) ==
    /\ cli[s] = "start"
    /\ ClientGoes(s, "local")
    /\ UNCHANGED <<srv, link, toServer, toClient, lists, missing, upload, cache, result, ticket, policy, busy, crashes>>

ResolveOutputs(s) ==
    /\ cli[s] = "start"
    /\ ClientGoes(s, "opening")
    /\ UNCHANGED <<srv, link, toServer, toClient, lists, missing, upload, cache, result, ticket, policy, busy, crashes>>

\* A client without a ticket relies on its key: whether the builder knows it, the
\* client cannot tell.
AuthMessage(s) == Msg(IF s \in ticketed THEN "AuthTicket" ELSE "AuthTrustedClient")

\* ConnectedSession::open: the connection, hello and authorization; the builder's
\* accept loop starts a handler.
Open(s) ==
    /\ cli[s] = "opening"
    /\ link' = [link EXCEPT ![s] = "up"]
    /\ toServer' = [toServer EXCEPT ![s] =
           <<Msg("Hello"), AuthMessage(s)>>]
    /\ ClientGoes(s, "await auth")
    /\ ServerGoes(s, "hello")
    /\ UNCHANGED <<toClient, lists, missing, upload, cache, result, ticket, policy, busy, crashes>>

ReadAuthOk(s) ==
    /\ cli[s] = "await auth"
    /\ ClientReads(s, "AuthOk")
    /\ ClientGoes(s, "preflight")
    /\ UNCHANGED <<srv, link, toServer, lists, missing, upload, cache, result, ticket, policy, busy, crashes>>

\* preflight_output_import: a client that could not import the outputs gives up
\* before it asks for a build (GiveUp).
Preflight(s) ==
    /\ cli[s] = "preflight"
    /\ ClientGoes(s, "preparing")
    /\ UNCHANGED <<srv, link, toServer, toClient, lists, missing, upload, cache, result, ticket, policy, busy, crashes>>

\* prepare_build and send_build_request: the derivation's closure, itself
\* included.
SendBuildRequest(s) ==
    /\ cli[s] = "preparing"
    /\ \E n \in ClosureSizes :
           ClientSends(s, <<Msg("BuildRequest")>> \o PathList("BuildPaths", n))
    /\ ClientGoes(s, "await queued")
    /\ UNCHANGED <<srv, link, toClient, lists, missing, upload, cache, result, ticket, policy, busy, crashes>>

ReadBuildQueued(s) ==
    /\ cli[s] = "await queued"
    /\ ClientReads(s, "BuildQueued")
    /\ ClientGoes(s, "await missing")
    /\ UNCHANGED <<srv, link, toServer, lists, missing, upload, cache, result, ticket, policy, busy, crashes>>

\* A chunk of a list within the limits, but the last: the client reads on.
ReadChunk(s) ==
    \E type \in {"MissingPaths", "OutputClosure"} :
        /\ cli[s] = IF type = "MissingPaths" THEN "await missing" ELSE "await closure"
        /\ ClientReads(s, type)
        /\ ~Head(toClient[s]).flag
        /\ cliList' = [cliList EXCEPT ![s] = Extended(@, Head(toClient[s]))]
        /\ WithinLimits(cliList'[s])
        /\ UNCHANGED <<cli, srv, link, toServer, srvList, missing, upload, cache, result, ticket, policy, busy, crashes>>

\* The last chunk of the missing inputs: if there are none the build is next.
ReadMissingPaths(s) ==
    /\ cli[s] = "await missing"
    /\ ClientReads(s, "MissingPaths")
    /\ Head(toClient[s]).flag
    /\ LET list == Extended(cliList[s], Head(toClient[s]))
       IN  /\ WithinLimits(list)
           /\ ClientGoes(s, IF list.paths = 0 THEN "await build" ELSE "await upload")
    /\ cliList' = [cliList EXCEPT ![s] = NoChunks]
    /\ UNCHANGED <<srv, link, toServer, srvList, missing, upload, cache, result, ticket, policy, busy, crashes>>

ReadUploadReady(s) ==
    /\ cli[s] = "await upload"
    /\ ClientReads(s, "InputUploadReady")
    /\ upload' = [upload EXCEPT ![s] = "open"]
    /\ ClientGoes(s, "uploading")
    /\ UNCHANGED <<srv, link, toServer, lists, missing, cache, result, ticket, policy, busy, crashes>>

FinishUpload(s) ==
    /\ cli[s] = "uploading" /\ link[s] = "up"
    /\ upload' = [upload EXCEPT ![s] = Exported(TRUE)]
    /\ ClientGoes(s, "await build")
    /\ UNCHANGED <<srv, link, toServer, toClient, lists, missing, cache, result, ticket, policy, busy, crashes>>

\* read_build_messages: logs are printed ...
ReadBuildMessage(s) ==
    /\ cli[s] = "await build"
    /\ ClientReads(s, "BuildStarted") \/ ClientReads(s, "NixLog")
    /\ UNCHANGED <<cli, srv, link, toServer, lists, missing, upload, cache, result, ticket, policy, busy, crashes>>

\* ... until the build is finished.  If it failed the client says so and closes.
ReadBuildFinished(s) ==
    /\ cli[s] = "await build"
    /\ toClient[s] # <<>> /\ Head(toClient[s]).type = "BuildFinished"
    /\ IF Head(toClient[s]).flag
       THEN /\ ClientReads(s, "BuildFinished")
            /\ ClientGoes(s, "await closure")
            /\ UNCHANGED <<link, toServer>>
       ELSE /\ ClientHangsUp(s)
            /\ ClientGoes(s, "build failed")
    /\ UNCHANGED <<srv, lists, missing, upload, cache, result, ticket, policy, busy, crashes>>

\* The whole output closure is here; the client asks for those paths of it that
\* its store does not have.
RequestOutputs(s) ==
    /\ cli[s] = "await closure"
    /\ ClientReads(s, "OutputClosure")
    /\ Head(toClient[s]).flag
    /\ LET list == Extended(cliList[s], Head(toClient[s]))
       IN  /\ WithinLimits(list)
           /\ \E n \in SomeOf(list.paths) :
                  ClientSends(s, PathList("OutputRequest", n))
    /\ cliList' = [cliList EXCEPT ![s] = NoChunks]
    /\ ClientGoes(s, "await cache")
    /\ UNCHANGED <<srv, link, srvList, missing, upload, cache, result, ticket, policy, busy, crashes>>

ReadOutputCacheReady(s) ==
    /\ cli[s] = "await cache"
    /\ ClientReads(s, "OutputCacheReady")
    /\ ClientGoes(s, "importing")
    /\ UNCHANGED <<srv, link, toServer, lists, missing, upload, cache, result, ticket, policy, busy, crashes>>

\* fetch_cache_file: a stream of its own for each file; one stands for all.
OpenCacheStream(s) ==
    /\ cli[s] = "importing" /\ link[s] = "up" /\ stream[s] = "none"
    /\ stream' = [stream EXCEPT ![s] = "asked"]
    /\ UNCHANGED <<cli, srv, link, toServer, toClient, lists, missing, upload, doneRead, imported, result, ticket, policy, busy, crashes>>

\* (mutant) only a client that has its outputs says that it is done.
SendOutputCacheDoneIfImported(s) ==
    /\ cli[s] = "importing"
    /\ \E ok \in BOOLEAN :
           /\ ok => stream[s] \in {"answered", "joined"}
           /\ imported' = [imported EXCEPT ![s] = ok]
           /\ ClientSends(s, IF ok THEN <<Msg(Length), Msg("OutputCacheDone")>> ELSE <<>>)
    /\ ClientGoes(s, "await done")
    /\ UNCHANGED <<srv, link, toClient, lists, missing, upload, stream, doneRead, result, ticket, policy, busy, crashes>>

\* import_output_cache: the import has succeeded, which takes an answered fetch,
\* or has failed.  Either way OutputCacheDone is sent, its length and its body.
SendOutputCacheDone(s) ==
    /\ cli[s] = "importing"
    /\ \E ok \in BOOLEAN :
           /\ ok => stream[s] \in {"answered", "joined"}
           /\ imported' = [imported EXCEPT ![s] = ok]
    /\ ClientSends(s, <<Msg(Length), Msg("OutputCacheDone")>>)
    /\ ClientGoes(s, "await done")
    /\ UNCHANGED <<srv, link, toClient, lists, missing, upload, stream, doneRead, result, ticket, policy, busy, crashes>>

\* (mutant) the builder's answer is not waited for.
ReadDoneEarly(s) ==
    /\ \/ cli[s] = "await cache" /\ ClientReads(s, "Done") /\ ClientGoes(s, "success")
          /\ UNCHANGED <<link, toServer>>
       \/ cli[s] = "await done" /\ ClientHangsUp(s)
          /\ ClientGoes(s, IF imported[s] THEN "success" ELSE "failed")
    /\ UNCHANGED <<srv, lists, missing, upload, cache, result, ticket, policy, busy, crashes>>

\* The builder is done: at once if nothing was asked for, otherwise in answer to
\* OutputCacheDone.  The client closes the connection.
ReadDone(s) ==
    /\ cli[s] \in {"await cache", "await done"}
    /\ toClient[s] # <<>> /\ Head(toClient[s]).type = "Done"
    /\ ClientGoes(s, IF cli[s] = "await cache" \/ imported[s] THEN "success" ELSE "failed")
    /\ ClientHangsUp(s)
    /\ UNCHANGED <<srv, lists, missing, upload, cache, result, ticket, policy, busy, crashes>>

\* What the client leaves behind when it ends early.
Leave(s, place) ==
    /\ ClientGoes(s, place)
    /\ ClientHangsUp(s)
    /\ upload' = [upload EXCEPT ![s] = IF @ = "open" THEN Exported(FALSE) ELSE @]
    /\ UNCHANGED <<srv, lists, missing, cache, result, ticket, policy, busy, crashes>>

\* (mutant) a lost connection is not noticed.
SeeErrorMessages(s) ==
    /\ cli[s] \in ClientReading
    /\ toClient[s] # <<>> /\ Head(toClient[s]).type = "Error"
    /\ Leave(s, "failed")

\* The builder reports an error, a list passes the limits, or the connection is
\* lost and nothing more arrives.
SeeError(s) ==
    /\ cli[s] \in ClientReading
    /\ \/ toClient[s] # <<>> /\ Head(toClient[s]).type = "Error"
       \/ /\ cli[s] \in {"await missing", "await closure"}
          /\ toClient[s] # <<>> /\ Head(toClient[s]).type \in {"MissingPaths", "OutputClosure"}
          /\ ~WithinLimits(Extended(cliList[s], Head(toClient[s])))
       \/ toClient[s] = <<>> /\ link[s] = "cut"
    /\ Leave(s, "failed")

\* SERVER_PATH_LIST_TIMEOUT: ten minutes for each chunk of a list, whether the
\* build is still queued or not.  All other reads of the client wait for ever.
PathListTimeout(s) ==
    /\ cli[s] \in {"await missing", "await closure"}
    /\ Leave(s, "failed")

\* A write to a lost connection fails.
SendFails(s) ==
    /\ cli[s] \in {"preparing", "uploading", "importing"} /\ link[s] = "cut"
    /\ Leave(s, "failed")

\* A local step fails, the user interrupts, or the client's machine stops.
GiveUp(s) ==
    /\ cli[s] \notin ClientEnds
    /\ Leave(s, "failed")

\* What each read of the client accepts, apart from Error.
ClientExpects(place) ==
    CASE place = "await auth" -> {"AuthOk"}
      [] place = "await queued" -> {"BuildQueued"}
      [] place = "await missing" -> {"MissingPaths"}
      [] place = "await upload" -> {"InputUploadReady"}
      [] place = "await build" -> {"BuildStarted", "NixLog", "BuildFinished"}
      [] place = "await closure" -> {"OutputClosure"}
      [] place = "await cache" -> {"OutputCacheReady", "Done"}
      [] OTHER -> {"Done"}

Client(s) ==
    \/ FindLocalOutputs(s) \/ ResolveOutputs(s) \/ Open(s) \/ ReadAuthOk(s) \/ Preflight(s)
    \/ SendBuildRequest(s) \/ ReadBuildQueued(s) \/ ReadChunk(s) \/ ReadMissingPaths(s)
    \/ ReadUploadReady(s) \/ FinishUpload(s) \/ ReadBuildMessage(s) \/ ReadBuildFinished(s)
    \/ RequestOutputs(s) \/ ReadOutputCacheReady(s) \/ OpenCacheStream(s)
    \/ SendOutputCacheDone(s) \/ ReadDone(s)
    \/ SeeError(s) \/ PathListTimeout(s) \/ SendFails(s)

-----------------------------------------------------------------------------
\* The builder's handler.

\* The handler returns at once, and the connection drops with it.
Drop(s) ==
    /\ ServerHangsUp(s)
    /\ ServerGoes(s, "ended")
    /\ UNCHANGED <<cli, lists, missing, upload, cache, result, ticket, policy, busy, crashes>>

ReadHello(s) ==
    /\ srv[s] = "hello"
    /\ ServerReads(s, "Hello")
    /\ ServerGoes(s, "auth")
    /\ UNCHANGED <<cli, link, toClient, lists, missing, upload, cache, result, ticket, policy, busy, crashes>>

\* A trusted client is known by its key ...
AuthorizeTrusted(s) ==
    /\ srv[s] = "auth"
    /\ ServerReads(s, "AuthTrustedClient")
    /\ Named(s) /\ LimitParses(s)
    /\ ServerSends(s, <<Msg("AuthOk")>>)
    /\ ServerGoes(s, "request")
    /\ UNCHANGED <<cli, link, lists, missing, upload, cache, result, ticket, policy, busy, crashes>>

\* ... and a ticket is only looked at.
AuthorizeTicket(s) ==
    /\ srv[s] = "auth"
    /\ ServerReads(s, "AuthTicket")
    /\ CheckTicket /\ LimitParses(s)
    /\ ServerSends(s, <<Msg("AuthOk")>>)
    /\ ServerGoes(s, "request")
    /\ UNCHANGED <<cli, link, lists, missing, upload, cache, result, ticket, policy, busy, crashes>>

\* The limit does not parse: the handler returns, and tells the client nothing.
BadLimit(s) ==
    /\ srv[s] = "auth" /\ toServer[s] # <<>>
    /\ IF Head(toServer[s]).type = "AuthTicket" THEN CheckTicket ELSE Named(s)
    /\ ~LimitParses(s)
    /\ Drop(s)

RefuseAuth(s) ==
    /\ srv[s] = "auth"
    /\ \/ ServerReads(s, "AuthTrustedClient") /\ ~Named(s)
       \/ ServerReads(s, "AuthTicket") /\ ~CheckTicket
    /\ ServerSends(s, <<Msg("Error")>>)
    /\ ServerGoes(s, "closing")
    /\ UNCHANGED <<cli, link, lists, missing, upload, cache, result, ticket, policy, busy, crashes>>

ReadBuildRequest(s) ==
    /\ srv[s] = "request"
    /\ ServerReads(s, "BuildRequest")
    /\ ServerGoes(s, "paths")
    /\ UNCHANGED <<cli, link, toClient, lists, missing, upload, cache, result, ticket, policy, busy, crashes>>

\* The closure of the derivation, chunk by chunk.
ReadBuildPaths(s) ==
    /\ srv[s] = "paths"
    /\ ServerReads(s, "BuildPaths")
    /\ srvList' = [srvList EXCEPT ![s] = Extended(@, Head(toServer[s]))]
    /\ WithinLimits(srvList'[s])
    /\ srv' = IF Head(toServer[s]).flag THEN [srv EXCEPT ![s] = "redeem"] ELSE srv
    /\ UNCHANGED <<cli, link, toClient, cliList, missing, upload, cache, result, ticket, policy, busy, crashes>>

\* The request is refused: its list passes a limit.
RefuseRequest(s) ==
    /\ srv[s] = "paths"
    /\ ServerReads(s, "BuildPaths")
    /\ ~WithinLimits(Extended(srvList[s], Head(toServer[s])))
    /\ ServerSends(s, <<Msg("Error")>>)
    /\ ServerGoes(s, "closing")
    /\ UNCHANGED <<cli, link, lists, missing, upload, cache, result, ticket, policy, busy, crashes>>

\* (mutant) a ticket that was good when the client connected is taken as good.
RedeemUnchecked(s) ==
    /\ srv[s] = "redeem"
    /\ uses' = IF s \in ticketed THEN uses - 1 ELSE uses
    /\ taken' = taken \cup {s}
    /\ ServerGoes(s, "enqueue")
    /\ UNCHANGED <<cli, link, toServer, toClient, lists, missing, upload, cache, result, revoked, others, policy, busy, crashes>>

\* (mutant) a failed redeem does not stop the request.
RedeemIfGood(s) ==
    /\ srv[s] = "redeem"
    /\ uses' = IF s \in ticketed /\ CheckTicket THEN uses - 1 ELSE uses
    /\ taken' = taken \cup {s}
    /\ ServerGoes(s, "enqueue")
    /\ UNCHANGED <<cli, link, toServer, toClient, lists, missing, upload, cache, result, revoked, others, policy, busy, crashes>>

\* redeem_ticket_if_needed: the use is spent now that the request is complete,
\* before it is queued.
Redeem(s) ==
    /\ srv[s] = "redeem"
    /\ \/ s \notin ticketed /\ UNCHANGED uses
       \/ s \in ticketed /\ CheckTicket /\ uses' = uses - 1
    /\ taken' = taken \cup {s}
    /\ UNCHANGED <<revoked, others>>
    /\ ServerGoes(s, "enqueue")
    /\ UNCHANGED <<cli, link, toServer, toClient, lists, missing, upload, cache, result, policy, busy, crashes>>

RefuseTicket(s) ==
    /\ srv[s] = "redeem" /\ s \in ticketed /\ ~CheckTicket
    /\ ServerSends(s, <<Msg("Error")>>)
    /\ ServerGoes(s, "closing")
    /\ UNCHANGED <<cli, link, toServer, lists, missing, upload, cache, result, ticket, policy, busy, crashes>>

SendBuildQueued(s) ==
    /\ srv[s] = "enqueue"
    /\ ServerSends(s, <<Msg("BuildQueued")>>)
    /\ ServerGoes(s, "waiting")
    /\ UNCHANGED <<cli, link, toServer, lists, missing, upload, cache, result, ticket, policy, busy, crashes>>

\* A permit: whether the client is still there is not looked at.
Start(s) ==
    /\ srv[s] = "waiting"
    /\ Cardinality(Admitted) + busy < MaxBuilds
    /\ ServerGoes(s, "checking")
    /\ UNCHANGED <<cli, link, toServer, toClient, lists, missing, upload, cache, result, ticket, policy, busy, crashes>>

\* Which of the closure's paths the builder does not have.
SendMissingPaths(s) ==
    /\ srv[s] = "checking"
    /\ \E n \in SomeOf(srvList[s].paths) :
           /\ missing' = [missing EXCEPT ![s] = n]
           /\ ServerSends(s, PathList("MissingPaths", n))
           /\ ServerGoes(s, IF n = 0 THEN "start build" ELSE "offer")
    /\ srvList' = [srvList EXCEPT ![s] = NoChunks]
    /\ UNCHANGED <<cli, link, toServer, cliList, upload, cache, result, ticket, policy, busy, crashes>>

\* import_missing_inputs: InputUploadReady, the client's stream, its import.
OfferUpload(s) ==
    /\ srv[s] = "offer"
    /\ ServerSends(s, <<Msg("InputUploadReady")>>)
    /\ ServerGoes(s, "accept upload")
    /\ UNCHANGED <<cli, link, toServer, lists, missing, upload, cache, result, ticket, policy, busy, crashes>>

AcceptUpload(s) ==
    /\ srv[s] = "accept upload" /\ upload[s] # "none"
    /\ ServerGoes(s, "import inputs")
    /\ UNCHANGED <<cli, link, toServer, toClient, lists, missing, upload, cache, result, ticket, policy, busy, crashes>>

\* import_unsigned_export_stream copies at most a byte more than the limit and
\* compares; a path counts for a byte.
WithinUploadLimit(s) ==
    \A text \in limit[s] :
        LET max == text.number * text.unit
            copied == IF missing[s] > max THEN max + 1 ELSE missing[s]
        IN  copied <= max

\* (mutant) nobody looks whether the paths are there after the import.
ImportInputsUnchecked(s) ==
    /\ srv[s] = "import inputs" /\ upload[s] \in {"whole", "short"}
    /\ WithinUploadLimit(s)
    /\ ServerGoes(s, "start build")
    /\ UNCHANGED <<cli, link, toServer, toClient, lists, missing, upload, cache, result, ticket, policy, busy, crashes>>

\* A stream that was cut short ends like a whole one; what counts is that no path
\* is missing after the import.
ImportInputs(s) ==
    /\ srv[s] = "import inputs" /\ upload[s] \in {"whole", "short"}
    /\ WithinUploadLimit(s)
    /\ upload[s] = "whole"
    /\ ServerGoes(s, "start build")
    /\ UNCHANGED <<cli, link, toServer, toClient, lists, missing, upload, cache, result, ticket, policy, busy, crashes>>

\* run_build.
SendBuildStarted(s) ==
    /\ srv[s] = "start build"
    /\ ServerSends(s, <<Msg("BuildStarted")>>)
    /\ ServerGoes(s, "realise")
    /\ UNCHANGED <<cli, link, toServer, lists, missing, upload, cache, result, ticket, policy, busy, crashes>>

\* One unread line is as good as many.
SendLog(s) ==
    /\ srv[s] = "realise"
    /\ toClient[s] # <<>> => toClient[s][Len(toClient[s])].type # "NixLog"
    /\ ServerSends(s, <<Msg("NixLog")>>)
    /\ UNCHANGED <<cli, srv, link, toServer, lists, missing, upload, cache, result, ticket, policy, busy, crashes>>

\* (mutant) a failed build is reported and not recorded.
FinishBuildUnrecorded(s) ==
    /\ srv[s] = "realise"
    /\ \E success \in BOOLEAN :
           /\ ServerSends(s, <<BuildFinished(success)>>)
           /\ ServerGoes(s, IF success THEN "exporting" ELSE "record")
    /\ UNCHANGED <<cli, link, toServer, lists, missing, upload, cache, result, ticket, policy, busy, crashes>>

FinishBuild(s) ==
    /\ srv[s] = "realise"
    /\ \E success \in BOOLEAN :
           /\ ServerSends(s, <<BuildFinished(success)>>)
           /\ result' = IF success THEN result ELSE [result EXCEPT ![s] = "failed"]
           /\ ServerGoes(s, IF success THEN "exporting" ELSE "record")
    /\ UNCHANGED <<cli, link, toServer, lists, missing, upload, cache, ticket, policy, busy, crashes>>

\* export_outputs: the closure of the outputs is offered ...
SendOutputClosure(s) ==
    /\ srv[s] = "exporting"
    /\ \E n \in ClosureSizes : ServerSends(s, PathList("OutputClosure", n))
    /\ ServerGoes(s, "await request")
    /\ UNCHANGED <<cli, link, toServer, lists, missing, upload, cache, result, ticket, policy, busy, crashes>>

\* ... and what the client asks for of it, chunk by chunk, is served.
ReadOutputRequest(s) ==
    /\ srv[s] = "await request"
    /\ ServerReads(s, "OutputRequest")
    /\ LET list == Extended(srvList[s], Head(toServer[s]))
       IN  /\ WithinLimits(list)
           /\ IF ~Head(toServer[s]).flag
              THEN /\ srvList' = [srvList EXCEPT ![s] = list]
                   /\ UNCHANGED <<srv, toClient, result>>
              ELSE /\ srvList' = [srvList EXCEPT ![s] = NoChunks]
                   /\ IF list.paths = 0
                      THEN /\ ServerSends(s, <<Msg("Done")>>)
                           /\ result' = [result EXCEPT ![s] = "success"]
                           /\ ServerGoes(s, "record")
                      ELSE /\ ServerSends(s, <<Msg("OutputCacheReady")>>)
                           /\ ServerGoes(s, "serving")
                           /\ UNCHANGED result
    /\ UNCHANGED <<cli, link, cliList, missing, upload, cache, ticket, policy, busy, crashes>>

\* serve_output_cache: another branch of the select! than the control stream was
\* ready: a stream was opened, or a task has ended.  The read that was begun is
\* dropped, with the bytes of OutputCacheDone that it holds, and the next read
\* takes what follows them for a length.  It is too large, and the message is
\* garbled; but after one byte of the length the next four make a length that
\* passes, and when three bytes of the message are left there is no length to
\* read: either way the next read waits for bytes that are never sent.
DropRead(s) ==
    \E after \in {"garbled", "starved"} :
        doneRead' = [doneRead EXCEPT ![s] = IF @ = "none" THEN "none" ELSE after]

AcceptStream(s) ==
    /\ srv[s] = "serving" /\ stream[s] = "asked" /\ link[s] = "up"
    /\ stream' = [stream EXCEPT ![s] = "task"]
    /\ DropRead(s)
    /\ UNCHANGED <<cli, srv, link, toServer, toClient, lists, missing, upload, imported, result, ticket, policy, busy, crashes>>

JoinTask(s) ==
    /\ srv[s] \in {"serving", "draining"} /\ stream[s] \in {"answered", "broken"}
    /\ stream' = [stream EXCEPT ![s] = IF @ = "answered" THEN "joined" ELSE "lost"]
    /\ DropRead(s)
    /\ UNCHANGED <<cli, srv, link, toServer, toClient, lists, missing, upload, imported, result, ticket, policy, busy, crashes>>

\* handle_cache_file_stream, which is a task of its own.
ServeFile(s) ==
    /\ srv[s] \in {"serving", "draining"} /\ stream[s] = "task"
    /\ \E answer \in {"answered", "broken"} :
           /\ answer = "answered" => link[s] = "up"
           /\ stream' = [stream EXCEPT ![s] = answer]
    /\ UNCHANGED <<cli, srv, link, toServer, toClient, lists, missing, upload, doneRead, imported, result, ticket, policy, busy, crashes>>

\* read_json takes the first bytes of OutputCacheDone: some or all of its length,
\* or some of its body too.
ReadLength(s) ==
    /\ srv[s] = "serving" /\ doneRead[s] = "none"
    /\ ServerReads(s, Length)
    /\ doneRead' = [doneRead EXCEPT ![s] = "part"]
    /\ UNCHANGED <<cli, srv, link, toClient, lists, missing, upload, stream, imported, result, ticket, policy, busy, crashes>>

ReadOutputCacheDone(s) ==
    /\ srv[s] = "serving" /\ doneRead[s] = "part"
    /\ ServerReads(s, "OutputCacheDone")
    /\ doneRead' = [doneRead EXCEPT ![s] = "none"]
    /\ ServerGoes(s, "draining")
    /\ UNCHANGED <<cli, link, toClient, lists, missing, upload, stream, imported, result, ticket, policy, busy, crashes>>

\* The requests that are under way are waited for before Done is sent.
FinishExport(s) ==
    /\ srv[s] = "draining" /\ stream[s] \notin {"task", "answered", "broken"}
    /\ ServerSends(s, <<Msg("Done")>>)
    /\ result' = [result EXCEPT ![s] = "success"]
    /\ ServerGoes(s, "record")
    /\ UNCHANGED <<cli, link, toServer, lists, missing, upload, cache, ticket, policy, busy, crashes>>

\* record_build_result: an error is also reported to the client.
Record(s) ==
    /\ srv[s] = "record"
    /\ \/ result[s] # "error" /\ UNCHANGED toClient
       \/ result[s] = "error" /\ ServerSends(s, <<Msg("Error")>>)
    /\ ServerGoes(s, "closing")
    /\ UNCHANGED <<cli, link, toServer, lists, missing, upload, cache, result, ticket, policy, busy, crashes>>

\* finish_control: the client has closed, or five seconds have passed.
Close(s) ==
    /\ srv[s] = "closing"
    /\ ServerHangsUp(s)
    /\ ServerGoes(s, "ended")
    /\ UNCHANGED <<cli, lists, missing, upload, cache, result, ticket, policy, busy, crashes>>

\* A step of an admitted build fails: the permit drops and the error is recorded.
\* The handlers of cache-file streams drop with the rest.
FailRun(s) ==
    /\ result' = [result EXCEPT ![s] = "error"]
    /\ ServerGoes(s, "record")
    /\ stream' = [stream EXCEPT ![s] = IF @ \in {"none", "joined"} THEN @ ELSE "lost"]
    /\ doneRead' = [doneRead EXCEPT ![s] = "none"]
    /\ srvList' = [srvList EXCEPT ![s] = NoChunks]
    /\ UNCHANGED <<cli, link, toClient, cliList, missing, upload, imported, ticket, policy, busy, crashes>>

\* (mutant) read_json does not look at the length of a message before it waits
\* for that many bytes.
GarbledNever(s) == srv[s] = "serving" /\ UNCHANGED vars

\* Bytes of the message were lost with a dropped read, and the ones after them are
\* taken for a length: read_json refuses it as too large.
Garbled(s) ==
    /\ srv[s] = "serving" /\ doneRead[s] = "garbled"
    /\ ServerReads(s, "OutputCacheDone")
    /\ FailRun(s)

\* What each read of the handler accepts.
ServerExpects(place) ==
    CASE place = "hello" -> {"Hello"}
      [] place = "auth" -> {"AuthTrustedClient", "AuthTicket"}
      [] place = "request" -> {"BuildRequest"}
      [] place = "paths" -> {"BuildPaths"}
      [] place = "await request" -> {"OutputRequest"}
      [] OTHER -> {Length, "OutputCacheDone"}

\* The time limits of the handler: CONTROL_TIMEOUT on hello, authorization and
\* the upload stream, CLIENT_NIX_TIMEOUT on the request and the path lists,
\* UPLOAD_TIMEOUT on the import.  Only a list that is late is reported; there is
\* no limit while the output cache is served.
ServerTimeout(s) ==
    \/ srv[s] \in {"hello", "auth", "request"} /\ Drop(s)
    \/ /\ srv[s] = "paths"
       /\ IF link[s] = "up"
          THEN /\ ServerSends(s, <<Msg("Error")>>)
               /\ ServerGoes(s, "closing")
               /\ UNCHANGED <<cli, link, toServer, lists, missing, upload, cache, result, ticket, policy, busy, crashes>>
          ELSE Drop(s)
    \/ srv[s] \in {"accept upload", "import inputs", "await request"} /\ UNCHANGED toServer /\ FailRun(s)

\* The upload is too large or not what is missing, or a write finds the connection
\* lost.
StepFails(s) ==
    \/ srv[s] = "import inputs" /\ upload[s] = "short" /\ UNCHANGED toServer /\ FailRun(s)
    \/ srv[s] = "import inputs" /\ ~WithinUploadLimit(s) /\ UNCHANGED toServer /\ FailRun(s)
    \/ srv[s] \in Running \ {"accept upload", "import inputs", "await request"} /\ link[s] = "cut"
       /\ UNCHANGED toServer /\ FailRun(s)
    \/ /\ link[s] = "cut"
       /\ srv[s] \in {"auth", "request", "paths", "redeem", "enqueue"} \/ (srv[s] = "record" /\ result[s] = "error")
       /\ Drop(s)

\* Nix fails, the build passes max_build_time, a file cannot be read.
NixFails(s) ==
    /\ srv[s] \in Running \ {"accept upload"}
    /\ UNCHANGED toServer /\ FailRun(s)

Handler(s) ==
    \/ ReadHello(s) \/ AuthorizeTrusted(s) \/ AuthorizeTicket(s)
    \/ BadLimit(s) \/ RefuseAuth(s)
    \/ ReadBuildRequest(s)    \/ ReadBuildPaths(s) \/ RefuseRequest(s) \/ Redeem(s) \/ RefuseTicket(s)
    \/ SendBuildQueued(s) \/ Start(s) \/ SendMissingPaths(s) \/ OfferUpload(s)
    \/ AcceptUpload(s) \/ ImportInputs(s) \/ SendBuildStarted(s)
    \/ FinishBuild(s) \/ SendOutputClosure(s) \/ ReadOutputRequest(s)
    \/ AcceptStream(s) \/ JoinTask(s) \/ ServeFile(s) \/ ReadLength(s)
    \/ ReadOutputCacheDone(s) \/ FinishExport(s) \/ Record(s) \/ Close(s)
    \/ Garbled(s) \/ ServerTimeout(s) \/ StepFails(s)

-----------------------------------------------------------------------------
\* `drv-thru ticket revoke`.
Revoke ==
    /\ ~revoked
    /\ revoked' = TRUE
    /\ UNCHANGED <<cli, srv, link, toServer, toClient, lists, missing, upload, cache, result, uses, taken, others, policy, busy, crashes>>

\* Other clients use the same ticket and the same permits.
OtherRedeems ==
    /\ CheckTicket
    /\ uses' = uses - 1 /\ others' = others + 1
    /\ UNCHANGED <<cli, srv, link, toServer, toClient, lists, missing, upload, cache, result, revoked, taken, policy, busy, crashes>>

OtherStarts ==
    /\ Cardinality(Admitted) + busy < MaxBuilds
    /\ busy' = busy + 1
    /\ UNCHANGED <<cli, srv, link, toServer, toClient, lists, missing, upload, cache, result, ticket, policy, crashes>>

OtherEnds ==
    /\ busy > 0
    /\ busy' = busy - 1
    /\ UNCHANGED <<cli, srv, link, toServer, toClient, lists, missing, upload, cache, result, ticket, policy, crashes>>

\* The network between the two fails.
Lose(s) ==
    /\ link[s] = "up"
    /\ Cut(s)
    /\ toServer' \in {[toServer EXCEPT ![s] = q] : q \in Reached(s, toServer)}
    /\ toClient' \in {[toClient EXCEPT ![s] = q] : q \in Reached(s, toClient)}
    /\ UNCHANGED <<cli, srv, lists, missing, upload, cache, result, ticket, policy, busy, crashes>>

\* The server stops, with its queue and its handlers, and starts again.
Crash ==
    /\ crashes < MaxCrashes
    /\ crashes' = crashes + 1
    /\ srv' = [s \in Sessions |-> IF srv[s] \in {"none", "ended"} THEN srv[s] ELSE "down"]
    /\ link' = [s \in Sessions |-> IF link[s] = "up" THEN "cut" ELSE link[s]]
    /\ \E f \in [Sessions -> UNION {Prefixes(toClient[s]) : s \in Sessions}] :
           /\ \A s \in Sessions : f[s] \in Reached(s, toClient)
           /\ toClient' = f
    /\ toServer' = [s \in Sessions |-> <<>>]
    /\ busy' = 0
    /\ UNCHANGED <<cli, lists, missing, upload, cache, result, ticket, policy>>

Next ==
    \/ \E s \in Sessions :
           Client(s) \/ Handler(s) \/ SendLog(s) \/ GiveUp(s) \/ NixFails(s) \/ Lose(s)
    \/ Revoke \/ OtherRedeems \/ OtherStarts \/ OtherEnds
    \/ Crash

Spec == Init /\ [][Next]_vars

\* Both programs run on.  A realised build ends, so that its logs do not go on for
\* ever; a local import ends, as Nix does.  The semaphore is fair, so a free permit
\* is not given to others for ever.
FairSpec ==
    /\ Spec
    /\ \A s \in Sessions :
           WF_vars(Client(s)) /\ WF_vars(Handler(s)) /\ WF_vars(FinishBuild(s))
           /\ SF_vars(Start(s))
    /\ WF_vars(OtherEnds)

-----------------------------------------------------------------------------
\* Types: places of the two sides, messages, and counts.
TypeOK ==
    /\ trusted \subseteq Sessions /\ ticketed \subseteq Sessions
    /\ limit \in [Sessions -> SUBSET Limits]
    /\ cli \in [Sessions -> ClientPlaces] /\ srv \in [Sessions -> ServerPlaces]
    /\ link \in [Sessions -> {"none", "up", "cut"}]
    /\ toServer \in [Sessions -> Seq(Message)] /\ toClient \in [Sessions -> Seq(Message)]
    /\ cliList \in [Sessions -> [chunks : Nat, paths : Nat]]
    /\ srvList \in [Sessions -> [chunks : Nat, paths : Nat]]
    /\ missing \in [Sessions -> Nat]
    /\ upload \in [Sessions -> {"none", "open", "whole", "short"}]
    /\ stream \in [Sessions -> {"none", "asked", "task", "answered", "broken", "joined", "lost"}]
    /\ doneRead \in [Sessions -> {"none", "part", "garbled", "starved"}]
    /\ imported \in [Sessions -> BOOLEAN]
    /\ result \in [Sessions -> {"none", "success", "failed", "error"}]
    /\ uses \in Nat /\ revoked \in BOOLEAN
    /\ taken \subseteq Sessions
    /\ others \in Nat /\ busy \in 0..MaxBuilds
    /\ crashes \in 0..MaxCrashes

\* The handler's read waits, with no time limit, for bytes that are never sent.
Starved(s) == srv[s] = "serving" /\ doneRead[s] = "starved"

\* A side that waits for the other: there is nothing to read, or too little for the
\* length that was taken, or the upload is not there, or not whole, yet.
ClientWaits(s) == cli[s] \in ClientReading /\ toClient[s] = <<>>
ServerWaits(s) ==
    \/ srv[s] \in ServerReading /\ toServer[s] = <<>>
    \/ Starved(s)
    \/ srv[s] = "accept upload" /\ upload[s] = "none"
    \/ srv[s] = "import inputs" /\ upload[s] = "open"

\* The two sides never disagree on whose turn it is or on what comes next, though
\* each decides for itself, from the lists, whether inputs are uploaded, and one
\* may be several messages ahead: no "unexpected message", on either side, and
\* each waits for the other only at the very end, when the client has said
\* OutputCacheDone and a dropped read has starved the one that should take it.
\* What a client asks for of a list it could read is a list the builder can read.
TurnsAgree ==
    \A s \in Sessions :
        /\ link[s] = "up" /\ ClientWaits(s) /\ ServerWaits(s) =>
               cli[s] = "await done" /\ Starved(s)
        /\ cli[s] \in ClientReading /\ toClient[s] # <<>> =>
               Head(toClient[s]).type \in ClientExpects(cli[s]) \cup {"Error"}
        /\ srv[s] \in ServerReading /\ toServer[s] # <<>> =>
               /\ Head(toServer[s]).type \in ServerExpects(srv[s])
               /\ srv[s] = "await request" => WithinLimits(Extended(srvList[s], Head(toServer[s])))

\* Past redeem_ticket_if_needed: the request is in the queue, builds, or has.
TakenUp(s) ==
    \/ srv[s] \in {"enqueue", "waiting", "record"} \cup Running
    \/ result[s] # "none"

\* Every request that is taken up is a trusted client's or has spent a use, each
\* use is one session's, and sessions that share the last use cannot both pass,
\* though both passed the check when they connected.
PaidFor ==
    /\ \A s \in Sessions : TakenUp(s) => s \in taken
    /\ taken \subseteq trusted \cup ticketed
    /\ uses + others + Cardinality(taken \cap ticketed) = TicketUses

\* A client that reports outputs, or a failed build, has the builder on its side,
\* whatever was lost on the way.
SuccessIsShared ==
    \A s \in Sessions :
        /\ cli[s] = "success" => result[s] = "success"
        /\ cli[s] = "build failed" => result[s] = "failed"

\* Nothing is built before every input is there, and no upload beyond the limit
\* is used: an upload that was cut short ends like a whole one.
BuildsOnWholeInputs ==
    \A s \in Sessions :
        srv[s] \in {"start build", "realise", "exporting", "await request", "serving", "draining"} =>
            \/ missing[s] = 0
            \/ upload[s] = "whole" /\ \A text \in limit[s] : missing[s] <= text.number * text.unit

\* The session as the service that was promised.
stage == [s \in Sessions |->
    IF result[s] # "none" THEN result[s]
    ELSE IF s \in taken THEN "taken" ELSE "asked"]

report == [s \in Sessions |->
    IF cli[s] \in ClientEnds THEN cli[s] ELSE "none"]

Service == INSTANCE BuildService

\* Both sides together, over any loss, give what BuildService promises.
ImplementsService == Service!Spec

\* A client's command ends, unless its builder's read is starved for ever: with no
\* time limit of its own on most reads, it relies on the builder to answer or to
\* hang up.
EveryClientEnds ==
    \A s \in Sessions : cli[s] = "opening" ~> (cli[s] \in ClientEnds \/ []Starved(s))

\* A handler ends, unless its read is starved for ever: also one whose client left
\* while it was queued, and also one that dropped a read of OutputCacheDone at
\* any other byte.
EveryHandlerEnds ==
    \A s \in Sessions : srv[s] = "hello" ~> (srv[s] \in ServerEnds \/ []Starved(s))
=============================================================================
