----------------------------- MODULE OutputImport -----------------------------
(***************************************************************************)
(* How a client imports the outputs of a build (client_cache/mod.rs 86-163 *)
(* with mirror.rs, local_server.rs, import_helper.rs and nix.rs 313-387):  *)
(* a temporary mirror of the builder's cache is fetched by parallel tasks, *)
(* a loopback HTTP server serves it, Nix copies from there, started by the *)
(* client or by the root helper, and the server and the mirror are removed.*)
(*                                                                         *)
(* One HTTP request stands for all that Nix asks for of a path, one stream *)
(* for one file.  A NAR is written in several steps: what a file holds is  *)
(* the set of its chunks that were written since it was created.           *)
(***************************************************************************)
EXTENDS Naturals, FiniteSets

CONSTANTS
    Paths,            \* the closure of the outputs
    NarFiles,         \* names of NAR files
    Chunks,           \* writes that a NAR takes
    MetadataPermits,  \* MAX_PARALLEL_METADATA_FETCHES
    NarFetches,       \* values of --nar-fetches
    BatchSize,        \* PATH_ARG_CHUNK_SIZE
    MaxImportPaths    \* MAX_IMPORT_PATHS of the helper

ASSUME ImportAssumption ==
    /\ IsFiniteSet(Paths) /\ IsFiniteSet(NarFiles) /\ NarFiles # {}
    /\ Chunks \in Nat \ {0}
    /\ MetadataPermits \in Nat \ {0} /\ NarFetches \subseteq Nat
    /\ BatchSize \in Nat \ {0} /\ MaxImportPaths \in Nat \ {0}

VARIABLES
    trust,      \* what this machine trusts: see Trusts
    copy,       \* the paths to import, of the closure
    narOf,      \* the NAR file that a path's narinfo names
    fetches,    \* --nar-fetches
    at,         \* where the client is
    method,     \* OutputImportMethod
    meta,       \* meta[p]: the metadata task of a path
    payload,    \* payload[p]: the task that fetches its NAR
    written,    \* written[p]: chunks that task has written
    info,       \* paths whose narinfo is in the mirror
    holds,      \* holds[n]: chunks that the file of a NAR holds
    dir,        \* the mirror's directory
    server,     \* LocalCacheServer
    http,       \* paths that an HTTP task is serving
    helper,     \* the helper's handler of this request
    left,       \* paths whose batch has not ended
    batch,      \* paths of the nix copy that runs
    nix,        \* that process
    got,        \* paths of the batch that Nix has read
    imported    \* paths in the local store

vars == <<trust, copy, narOf, fetches, at, method, meta, payload, written, info, holds,
          dir, server, http, helper, left, batch, nix, got, imported>>

inputs == <<trust, copy, narOf, fetches>>
tasks == <<meta, payload, written, info, holds>>
copying == <<left, batch, nix, got, imported>>

\* user: root, or in trusted-users; key: in trusted-public-keys; socket: the
\* helper's socket is there; open: this user may connect to it; listed: the key
\* is in the helper's list.
Trusts == [user : BOOLEAN, key : BOOLEAN, socket : BOOLEAN, open : BOOLEAN, listed : BOOLEAN]

Methods == {"none", "pass key", "key trusted", "helper"}
Fetching == {"opening", "fetching", "writing"}   \* a task with a permit
TaskStates == {"none", "waiting", "done", "failed", "joined", "dropped"} \cup Fetching
Ended == {"done", "failed", "interrupted"}
Places == {"start", "mirroring", "mirrored", "copying", "stopping", "copy failed",
           "stopping failed", "cleaning", "cleaning failed"} \cup Ended

AllChunks == 1..Chunks
Holding(task) == {p \in Paths : task[p] \in Fetching}

-----------------------------------------------------------------------------
\* The builder has named the paths to copy: at least one, of the closure.
Init ==
    /\ trust \in Trusts
    /\ copy \in SUBSET Paths \ {{}}
    /\ narOf \in [Paths -> NarFiles]
    /\ fetches \in NarFetches
    /\ at = "start" /\ method = "none"
    /\ meta = [p \in Paths |-> "none"] /\ payload = [p \in Paths |-> "none"]
    /\ written = [p \in Paths |-> 0]
    /\ info = {} /\ holds = [n \in NarFiles |-> {}]
    /\ dir = "none" /\ server = "none" /\ http = {} /\ helper = "idle"
    /\ left = {} /\ batch = {} /\ nix = "idle" /\ got = {} /\ imported = {}

\* signed_cache_import_trust and choose_output_import_method: Nix's own trust
\* first, then the helper if its socket is there.
ImportMethod ==
    IF trust.user THEN "pass key"
    ELSE IF trust.key THEN "key trusted"
    ELSE IF trust.socket THEN "helper" ELSE "none"

\* import_outputs_from_cache up to the first fetches: the method, the number of
\* parallel fetches, and the directory; a metadata task for every path.
Begin ==
    /\ at = "start"
    /\ IF ImportMethod = "none" \/ fetches = 0
       THEN at' = "failed" /\ UNCHANGED <<method, dir, meta>>
       ELSE /\ at' = "mirroring" /\ method' = ImportMethod
            /\ dir' = "present"
            /\ meta' = [p \in Paths |-> "waiting"]
    /\ UNCHANGED <<inputs, payload, written, info, holds, server, http, helper, copying>>

\* A permit of either semaphore.
GetMetadataPermit(p) ==
    /\ meta[p] = "waiting"
    /\ Cardinality(Holding(meta)) < MetadataPermits
    /\ meta' = [meta EXCEPT ![p] = "opening"]
    /\ UNCHANGED <<inputs, at, method, payload, written, info, holds, dir, server, http, helper, copying>>

GetNarPermit(p) ==
    /\ payload[p] = "waiting"
    /\ Cardinality(Holding(payload)) < fetches
    /\ payload' = [payload EXCEPT ![p] = "opening"]
    /\ UNCHANGED <<inputs, at, method, meta, written, info, holds, dir, server, http, helper, copying>>

\* fetch_cache_file: a stream, the request, and the head of the response.
OpenStream(p) ==
    /\ \/ meta[p] = "opening" /\ meta' = [meta EXCEPT ![p] = "fetching"] /\ UNCHANGED payload
       \/ payload[p] = "opening" /\ payload' = [payload EXCEPT ![p] = "fetching"] /\ UNCHANGED meta
    /\ UNCHANGED <<inputs, at, method, written, info, holds, dir, server, http, helper, copying>>

\* mirror_narinfo: the whole body is read, then written.
WriteNarinfo(p) ==
    /\ meta[p] = "fetching"
    /\ info' = info \cup {p}
    /\ meta' = [meta EXCEPT ![p] = "done"]
    /\ UNCHANGED <<inputs, at, method, payload, written, holds, dir, server, http, helper, copying>>

\* write_fetched_file: the file is created, empty, also if another task writes to a
\* file of that name; each writes at its own place.
CreateNar(p) ==
    /\ payload[p] = "fetching"
    /\ payload' = [payload EXCEPT ![p] = "writing"]
    /\ holds' = [holds EXCEPT ![narOf[p]] = {}]
    /\ UNCHANGED <<inputs, at, method, meta, written, info, dir, server, http, helper, copying>>

\* (mutant) one write too many.
WriteNarPast(p) ==
    /\ payload[p] = "writing"
    /\ IF written[p] <= Chunks
       THEN /\ written' = [written EXCEPT ![p] = @ + 1]
            /\ holds' = [holds EXCEPT ![narOf[p]] = @ \cup {written[p] + 1}]
            /\ UNCHANGED payload
       ELSE /\ payload' = [payload EXCEPT ![p] = "done"]
            /\ UNCHANGED <<written, holds>>
    /\ UNCHANGED <<inputs, at, method, meta, info, dir, server, http, helper, copying>>

WriteNar(p) ==
    /\ payload[p] = "writing"
    /\ IF written[p] < Chunks
       THEN /\ written' = [written EXCEPT ![p] = @ + 1]
            /\ holds' = [holds EXCEPT ![narOf[p]] = @ \cup {written[p] + 1}]
            /\ UNCHANGED payload
       ELSE /\ payload' = [payload EXCEPT ![p] = "done"]
            /\ UNCHANGED <<written, holds>>
    /\ UNCHANGED <<inputs, at, method, meta, info, dir, server, http, helper, copying>>

\* No stream in thirty seconds, no answer in thirty minutes, not found, a short
\* body, a file that cannot be written: the task ends with an error.
TaskFails(p) ==
    /\ \/ meta[p] \in Fetching /\ meta' = [meta EXCEPT ![p] = "failed"] /\ UNCHANGED payload
       \/ payload[p] \in Fetching /\ payload' = [payload EXCEPT ![p] = "failed"] /\ UNCHANGED meta
    /\ UNCHANGED <<inputs, at, method, written, info, holds, dir, server, http, helper, copying>>

\* mirror_cache_files joins the metadata tasks as they end, and starts the payload
\* task of a path to copy.
JoinMetadata(p) ==
    /\ at = "mirroring" /\ meta[p] = "done"
    /\ meta' = [meta EXCEPT ![p] = "joined"]
    /\ payload' = IF p \in copy THEN [payload EXCEPT ![p] = "waiting"] ELSE payload
    /\ UNCHANGED <<inputs, at, method, written, info, holds, dir, server, http, helper, copying>>

MetadataJoined == \A p \in Paths : meta[p] = "joined"

\* Payload tasks are joined only then.
JoinNar(p) ==
    /\ at = "mirroring" /\ MetadataJoined /\ payload[p] = "done"
    /\ payload' = [payload EXCEPT ![p] = "joined"]
    /\ UNCHANGED <<inputs, at, method, meta, written, info, holds, dir, server, http, helper, copying>>

\* The tasks of a JoinSet that drops.
Dropped(task) == [p \in Paths |-> IF task[p] \in {"none", "joined"} THEN task[p] ELSE "dropped"]

\* (mutant) the error of a metadata task is not looked at.
JoinNoError ==
    /\ at = "mirroring" /\ MetadataJoined /\ \E p \in Paths : payload[p] = "failed"
    /\ at' = "failed"
    /\ meta' = Dropped(meta) /\ payload' = Dropped(payload)
    /\ UNCHANGED <<inputs, method, written, info, holds, dir, server, http, helper, copying>>

\* The first error that is joined ends the mirror, and the other tasks drop with it.
\* The directory stays.
JoinError ==
    /\ at = "mirroring"
    /\ \/ \E p \in Paths : meta[p] = "failed"
       \/ MetadataJoined /\ \E p \in Paths : payload[p] = "failed"
    /\ at' = "failed"
    /\ meta' = Dropped(meta) /\ payload' = Dropped(payload)
    /\ UNCHANGED <<inputs, method, written, info, holds, dir, server, http, helper, copying>>

\* (mutant) the mirror is taken as complete when the metadata is.
MirrorMetadata ==
    /\ at = "mirroring" /\ MetadataJoined
    /\ at' = "mirrored"
    /\ UNCHANGED <<inputs, method, tasks, dir, server, http, helper, copying>>

FinishMirror ==
    /\ at = "mirroring" /\ MetadataJoined
    /\ \A p \in Paths : payload[p] \in {"none", "joined"}
    /\ at' = "mirrored"
    /\ UNCHANGED <<inputs, method, tasks, dir, server, http, helper, copying>>

\* nix-cache-info cannot be written, or no port can be bound.  The directory stays.
LocalStepFails ==
    /\ at \in {"mirroring", "mirrored"}
    /\ at = "mirroring" => \A p \in Paths : meta[p] = "waiting"
    /\ at' = "failed"
    /\ meta' = Dropped(meta)
    /\ UNCHANGED <<inputs, method, payload, written, info, holds, dir, server, http, helper, copying>>

StartServer ==
    /\ at = "mirrored"
    /\ at' = "copying" /\ server' = "listening" /\ left' = copy
    /\ UNCHANGED <<inputs, method, tasks, dir, http, helper, batch, nix, got, imported>>

-----------------------------------------------------------------------------
\* The helper.

\* import_paths: the shape of the request is checked on both sides; the socket
\* may refuse this user.
AskHelper ==
    /\ at = "copying" /\ method = "helper" /\ helper = "idle"
    /\ IF trust.open /\ Cardinality(copy) <= MaxImportPaths
       THEN helper' = "asked" /\ UNCHANGED at
       ELSE at' = "copy failed" /\ UNCHANGED helper
    /\ UNCHANGED <<inputs, method, tasks, dir, server, http, copying>>

\* (mutant) the list of keys is not looked at.
AcceptAny ==
    /\ helper = "asked"
    /\ helper' = "copying"
    /\ UNCHANGED <<inputs, at, method, tasks, dir, server, http, copying>>

\* validate_trusted_request.
CheckRequest ==
    /\ helper = "asked"
    /\ helper' = IF trust.listed THEN "copying" ELSE "refused"
    /\ UNCHANGED <<inputs, at, method, tasks, dir, server, http, copying>>

AnswerRequest ==
    /\ helper = "copying"
    /\ \/ nix = "failed" /\ helper' = "refused"
       \/ nix = "idle" /\ left = {} /\ helper' = "ok"
    /\ UNCHANGED <<inputs, at, method, tasks, dir, server, http, copying>>

\* The client waits for the answer, however long it takes; a helper that stops
\* closes the socket.
ReadAnswer ==
    /\ at = "copying" /\ method = "helper"
    /\ \/ helper = "ok" /\ at' = "stopping"
       \/ helper = "refused" /\ at' = "copy failed"
    /\ UNCHANGED <<inputs, method, tasks, dir, server, http, helper, copying>>

HelperStops ==
    /\ helper \in {"asked", "copying"}
    /\ helper' = "refused"
    /\ UNCHANGED <<inputs, at, method, tasks, dir, server, http, copying>>

-----------------------------------------------------------------------------
\* Nix, which copy_from_signed_binary_cache runs batch by batch, for the client or
\* for the helper.

Copies == helper = "copying" \/ (at = "copying" /\ method \in {"pass key", "key trusted"})

StartBatch ==
    /\ Copies /\ nix = "idle" /\ left # {}
    /\ \E B \in SUBSET left :
           /\ Cardinality(B) = (IF Cardinality(left) < BatchSize THEN Cardinality(left) ELSE BatchSize)
           /\ batch' = B
    /\ nix' = "running" /\ got' = {}
    /\ UNCHANGED <<inputs, at, method, tasks, dir, server, http, helper, left, imported>>

\* Nix opens a connection, and the server starts a task for it.
Ask(p) ==
    /\ nix = "running" /\ server = "listening"
    /\ p \in batch \ (got \cup http)
    /\ http' = http \cup {p}
    /\ UNCHANGED <<inputs, at, method, tasks, dir, server, helper, copying>>

\* handle_local_cache_http: the file as it is.  A NAR with a hole does not have the
\* hash that its narinfo names.
ServeFile(p) ==
    /\ p \in http /\ dir = "present"
    /\ http' = http \ {p}
    /\ got' = IF p \in batch /\ nix = "running" /\ p \in info /\ holds[narOf[p]] = AllChunks
              THEN got \cup {p} ELSE got
    /\ UNCHANGED <<inputs, at, method, tasks, dir, server, helper, left, batch, nix, imported>>

\* HTTP_REQUEST_TIMEOUT, which is for the whole answer, an aborted task, or a
\* connection that Nix drops.
HttpFails(p) ==
    /\ p \in http
    /\ http' = http \ {p}
    /\ UNCHANGED <<inputs, at, method, tasks, dir, server, helper, copying>>

\* accept fails: the server's task returns, and its tasks are told to stop.
AcceptFails ==
    /\ server = "listening"
    /\ server' = "broken"
    /\ UNCHANGED <<inputs, at, method, tasks, dir, http, helper, copying>>

\* (mutant) a nix copy that failed is as good as one that did not.
EndBatchAnyway ==
    /\ nix = "running"
    /\ imported' = imported \cup got
    /\ left' = left \ batch /\ batch' = {} /\ got' = {} /\ nix' = "idle"
    /\ UNCHANGED <<inputs, at, method, tasks, dir, server, http, helper>>

EndBatch ==
    /\ nix = "running" /\ got = batch
    /\ imported' = imported \cup batch
    /\ left' = left \ batch /\ batch' = {} /\ got' = {} /\ nix' = "idle"
    /\ UNCHANGED <<inputs, at, method, tasks, dir, server, http, helper>>

\* A path that Nix has read may be in the store when it fails at another.
NixFails ==
    /\ nix = "running"
    /\ nix' = "failed"
    /\ \E kept \in SUBSET got : imported' = imported \cup kept
    /\ UNCHANGED <<inputs, at, method, tasks, dir, server, http, helper, left, batch, got>>

\* The client's own copy has ended.
FinishCopy ==
    /\ at = "copying" /\ method # "helper"
    /\ \/ nix = "failed" /\ at' = "copy failed"
       \/ nix = "idle" /\ left = {} /\ at' = "stopping"
    /\ UNCHANGED <<inputs, method, tasks, dir, server, http, helper, copying>>

-----------------------------------------------------------------------------
\* LocalCacheServer::shutdown, whether the copy succeeded or not.
Shutdown ==
    /\ at \in {"stopping", "copy failed"}
    /\ at = "copy failed" \/ server = "listening"
    /\ at' = IF at = "copy failed" THEN "stopping failed" ELSE at
    /\ server' = IF server = "listening" THEN "stopping" ELSE server
    /\ UNCHANGED <<inputs, method, tasks, dir, http, helper, copying>>

\* (mutant) the tasks are told to stop and not waited for.
StopAtOnce ==
    /\ server \in {"stopping", "broken"}
    /\ at \in {"stopping", "stopping failed"}
    /\ at' = IF at = "stopping" /\ server = "stopping" THEN "cleaning" ELSE "cleaning failed"
    /\ server' = IF server = "stopping" THEN "stopped" ELSE server
    /\ UNCHANGED <<inputs, method, tasks, dir, http, helper, copying>>

\* The server's task has aborted its tasks and waited for each, or had returned
\* before, with an error.
JoinServer ==
    /\ server = "broken" \/ (server = "stopping" /\ http = {})
    /\ at \in {"stopping", "stopping failed"}
    /\ at' = IF at = "stopping" /\ server = "stopping" THEN "cleaning" ELSE "cleaning failed"
    /\ server' = IF server = "stopping" THEN "stopped" ELSE server
    /\ UNCHANGED <<inputs, method, tasks, dir, http, helper, copying>>

\* LocalCacheMirror::cleanup, and the result of the whole.
Cleanup ==
    /\ at \in {"cleaning", "cleaning failed"}
    /\ \/ dir' = "gone" /\ at' = (IF at = "cleaning" THEN "done" ELSE "failed")
       \/ dir' = "stuck" /\ at' = "failed"
    /\ UNCHANGED <<inputs, method, tasks, server, http, helper, copying>>

\* The user stops the client.  The helper, and a nix copy, run on.
Interrupt ==
    /\ at \notin Ended
    /\ at' = "interrupted"
    /\ meta' = Dropped(meta) /\ payload' = Dropped(payload)
    /\ server' = IF server = "none" THEN server ELSE "stopped"
    /\ http' = {}
    /\ UNCHANGED <<inputs, method, written, info, holds, dir, helper, copying>>

Task(p) ==
    \/ GetMetadataPermit(p) \/ GetNarPermit(p) \/ OpenStream(p) \/ WriteNarinfo(p)
    \/ CreateNar(p) \/ WriteNar(p)

Client ==
    \/ Begin \/ (\E p \in Paths : JoinMetadata(p) \/ JoinNar(p)) \/ JoinError \/ FinishMirror
    \/ StartServer \/ AskHelper \/ ReadAnswer \/ FinishCopy
    \/ Shutdown \/ JoinServer \/ Cleanup

Helper == CheckRequest \/ AnswerRequest

Nix == StartBatch \/ EndBatch \/ NixFails

Next ==
    \/ \E p \in Paths : Task(p) \/ TaskFails(p) \/ Ask(p) \/ ServeFile(p) \/ HttpFails(p)
    \/ Client \/ Helper \/ Nix
    \/ LocalStepFails \/ HelperStops \/ AcceptFails \/ Interrupt

Spec == Init /\ [][Next]_vars

\* A fetch ends, at the latest when the connection is lost; Nix ends.
FairSpec ==
    /\ Spec
    /\ WF_vars(Client) /\ WF_vars(Helper) /\ WF_vars(Nix)
    /\ \A p \in Paths : WF_vars(Task(p)) /\ WF_vars(HttpFails(p))

-----------------------------------------------------------------------------
\* Types of the state.
TypeOK ==
    /\ trust \in Trusts /\ copy \subseteq Paths /\ narOf \in [Paths -> NarFiles]
    /\ fetches \in NarFetches
    /\ at \in Places /\ method \in Methods
    /\ meta \in [Paths -> TaskStates] /\ payload \in [Paths -> TaskStates]
    /\ written \in [Paths -> 0..Chunks]
    /\ info \subseteq Paths /\ holds \in [NarFiles -> SUBSET AllChunks]
    /\ dir \in {"none", "present", "gone", "stuck"}
    /\ server \in {"none", "listening", "stopping", "stopped", "broken"}
    /\ http \subseteq Paths
    /\ helper \in {"idle", "asked", "copying", "ok", "refused"}
    /\ left \subseteq copy /\ batch \subseteq left /\ got \subseteq batch
    /\ nix \in {"idle", "running", "failed"}
    /\ imported \subseteq copy

\* When Nix may read the mirror, every narinfo of the closure and every NAR it will
\* copy is there and whole, though two paths may share a NAR, two tasks then write
\* the same file, and each empties it when it starts.
MirrorIsWhole ==
    server = "listening" =>
        /\ info = Paths
        /\ \A p \in copy : holds[narOf[p]] = AllChunks

\* No request reads the mirror once its directory is being removed: the server's
\* tasks are waited for, unless the server had already failed.
NoRequestAfterCleanup ==
    http # {} /\ server # "broken" => dir = "present" /\ at \notin {"cleaning", "cleaning failed"}

\* README "What Gets Trusted": an import needs a trusted user, a trusted key, or the
\* helper with the key in its list, whichever way it was started and however it ended.
OnlyTrustedImports ==
    imported # {} => trust.user \/ trust.key \/ (trust.open /\ trust.listed)

\* How an import may end: success means that every path is in the store, over all
\* batches, and that nothing is left behind; a failure leaves the directory only if
\* the mirror or its server could not be made, never after Nix had anything to read.
SuccessIsWhole == at = "done" => imported = copy /\ dir = "gone"
LeftOnlyBeforeServing == at \in {"done", "failed"} /\ dir = "present" => server = "none"

EndsAsReported == SuccessIsWhole /\ LeftOnlyBeforeServing

\* An import ends: errors of tasks are seen, and the server does not wait for a
\* request that hangs.
ImportEnds == at = "mirroring" ~> at \in Ended
=============================================================================
