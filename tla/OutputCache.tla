------------------------------ MODULE OutputCache ------------------------------
(***************************************************************************)
(* The builder's signed output cache (server/output_cache.rs): the         *)
(* handlers of cache-file streams and the prewarm tasks of all connections *)
(* fill entries of one directory, one lock per entry and MaxFills permits  *)
(* between them, by running `nix copy`, which writes the entries of the    *)
(* whole closure of the path it is given.                                  *)
(*                                                                         *)
(* Tasks interleave at every await.  A connection may be lost at any step: *)
(* its stream handlers are then dropped where they stand, its prewarm      *)
(* tasks go on, and so does a `nix copy` whose handler was dropped.  The   *)
(* server may stop and start again on the directory it left.               *)
(***************************************************************************)
EXTENDS Naturals, FiniteSets

CONSTANTS
    Paths,        \* store paths of output closures
    Refs,         \* Refs[p]: the closure of p, p included
    Conns,        \* connections in export_outputs
    Tasks,        \* prewarm tasks, and handlers of a narinfo and of its NAR
    ConnOf,       \* ConnOf[t]: the connection a task was spawned for
    PathOf,       \* PathOf[t]: the path it is about
    Prewarms,     \* the tasks that are prewarm tasks
    MaxFills,     \* permits of fill_permits
    MaxLosses,    \* bound on lost connections
    MaxRestarts   \* bound on restarts of the server

ASSUME CacheAssumption ==
    /\ Refs \in [Paths -> SUBSET Paths]
    /\ \A p \in Paths : p \in Refs[p] /\ \A q \in Refs[p] : Refs[q] \subseteq Refs[p]
    /\ ConnOf \in [Tasks -> Conns] /\ PathOf \in [Tasks -> Paths]
    /\ Prewarms \subseteq Tasks
    /\ MaxFills \in Nat \ {0} /\ MaxLosses \in Nat /\ MaxRestarts \in Nat

VARIABLES
    nar, narinfo,   \* the paths whose NAR, and whose narinfo, is in the directory
    conn,           \* conn[k]: serve_output_cache of connection k
    pc,             \* pc[t]: where task t is
    locked,         \* tasks that hold the fill lock of their path
    permitted,      \* tasks that hold a fill permit
    copy,           \* copy[t]: the `nix copy` task t has started
    todo,           \* todo[t]: what that copy still writes
    losses, restarts

vars == <<nar, narinfo, conn, pc, locked, permitted, copy, todo, losses, restarts>>

Filling == {"recheck", "permit", "remove", "start", "copying", "verify"}
Stopped == {"done", "not found", "failed", "dropped"}
Working == {"check", "lock", "read", "nar"} \cup Filling

Goto(t, place) == pc' = [pc EXCEPT ![t] = place]
\* (mutant) the permit is kept
ReleaseLock(t) == locked' = locked \ {t} /\ permitted' = permitted
Release(t) == locked' = locked \ {t} /\ permitted' = permitted \ {t}
UnchangedFiles == UNCHANGED <<nar, narinfo>>
UnchangedRun == UNCHANGED <<conn, losses, restarts>>
UnchangedCopies == UNCHANGED <<copy, todo>>

\* (mutant) the NAR is not looked for
ReadyByNarinfo(p) == p \in narinfo

\* cache_entry_ready.  It reads the narinfo before it looks for the NAR, and no
\* NAR is ever removed while the server runs.
Ready(p) == p \in narinfo /\ p \in nar

\* ensure_cache_entry returns, and the lock and the permit drop.
Ensured(t) == Goto(t, IF t \in Prewarms THEN "done" ELSE "read") /\ Release(t)

\* (mutant) prewarm tasks are spawned in the JoinSet as well
HandlersAndPrewarms(k) == {t \in Tasks : ConnOf[t] = k}

\* The stream handlers, in the JoinSet of their connection.
Handlers(k) == {t \in Tasks \ Prewarms : ConnOf[t] = k}

-----------------------------------------------------------------------------
\* The directory may hold what earlier servers left: NARs whose narinfo was
\* never written, and narinfos whose NAR is gone.
Init ==
    /\ nar \in SUBSET Paths /\ narinfo \in SUBSET Paths
    /\ conn = [k \in Conns |-> "none"]
    /\ pc = [t \in Tasks |-> "none"]
    /\ locked = {} /\ permitted = {}
    /\ copy = [t \in Tasks |-> "none"] /\ todo = [t \in Tasks |-> {}]
    /\ losses = 0 /\ restarts = 0

\* export_outputs gets to serve_output_cache; its prewarm tasks are spawned.
Serve(k) ==
    /\ conn[k] = "none"
    /\ conn' = [conn EXCEPT ![k] = "serving"]
    /\ pc' = [t \in Tasks |-> IF ConnOf[t] = k /\ t \in Prewarms THEN "check" ELSE pc[t]]
    /\ UNCHANGED <<locked, permitted, losses, restarts>> /\ UnchangedFiles /\ UnchangedCopies

\* The client asks for a narinfo on a stream of its own.
Request(t) ==
    /\ t \notin Prewarms /\ pc[t] = "none" /\ conn[ConnOf[t]] = "serving"
    /\ Goto(t, "check")
    /\ UNCHANGED <<locked, permitted>> /\ UnchangedFiles /\ UnchangedCopies /\ UnchangedRun

\* OutputCacheDone, or what the client sends in place of it: no new stream is
\* accepted, and the handlers at work are waited for.
CacheDone(k) ==
    /\ conn[k] = "serving"
    /\ conn' = [conn EXCEPT ![k] = "draining"]
    /\ UNCHANGED <<pc, locked, permitted, losses, restarts>> /\ UnchangedFiles /\ UnchangedCopies

Drained(k) ==
    /\ conn[k] = "draining"
    /\ \A t \in Handlers(k) : pc[t] \notin Working
    /\ conn' = [conn EXCEPT ![k] = "done"]
    /\ UNCHANGED <<pc, locked, permitted, losses, restarts>> /\ UnchangedFiles /\ UnchangedCopies

\* serve_output_cache fails: the JoinSet drops its handlers, with the locks and
\* permits they hold.
Lose(k) ==
    /\ conn[k] = "serving" /\ losses < MaxLosses
    /\ losses' = losses + 1
    /\ conn' = [conn EXCEPT ![k] = "lost"]
    /\ LET dropped == {t \in Handlers(k) : pc[t] \in Working}
       IN  /\ pc' = [t \in Tasks |-> IF t \in dropped THEN "dropped" ELSE pc[t]]
           /\ locked' = locked \ dropped /\ permitted' = permitted \ dropped
    /\ UNCHANGED restarts /\ UnchangedFiles /\ UnchangedCopies

-----------------------------------------------------------------------------
\* ensure_cache_entry, await by await.
Check(t) ==
    /\ pc[t] = "check"
    /\ \/ Ready(PathOf[t]) /\ Ensured(t)
       \/ ~Ready(PathOf[t]) /\ Goto(t, "lock") /\ UNCHANGED <<locked, permitted>>
    /\ UnchangedFiles /\ UnchangedCopies /\ UnchangedRun

\* (mutant) each task has a lock of its own
LockNothing(t) ==
    /\ pc[t] = "lock"
    /\ locked' = locked \cup {t}
    /\ Goto(t, "recheck")
    /\ UNCHANGED permitted /\ UnchangedFiles /\ UnchangedCopies /\ UnchangedRun

Lock(t) ==
    /\ pc[t] = "lock"
    /\ \A u \in locked : PathOf[u] # PathOf[t]
    /\ locked' = locked \cup {t}
    /\ Goto(t, "recheck")
    /\ UNCHANGED permitted /\ UnchangedFiles /\ UnchangedCopies /\ UnchangedRun

Recheck(t) ==
    /\ pc[t] = "recheck"
    /\ \/ Ready(PathOf[t]) /\ Ensured(t)
       \/ ~Ready(PathOf[t]) /\ Goto(t, "permit") /\ UNCHANGED <<locked, permitted>>
    /\ UnchangedFiles /\ UnchangedCopies /\ UnchangedRun

\* (mutant) one permit too many
PermitOneMore(t) ==
    /\ pc[t] = "permit"
    /\ Cardinality(permitted) <= MaxFills
    /\ permitted' = permitted \cup {t}
    /\ Goto(t, "remove")
    /\ UNCHANGED locked /\ UnchangedFiles /\ UnchangedCopies /\ UnchangedRun

Permit(t) ==
    /\ pc[t] = "permit"
    /\ Cardinality(permitted) < MaxFills
    /\ permitted' = permitted \cup {t}
    /\ Goto(t, "remove")
    /\ UNCHANGED locked /\ UnchangedFiles /\ UnchangedCopies /\ UnchangedRun

\* (mutant) a stale narinfo stays
RemoveNothing(t) ==
    /\ pc[t] = "remove"
    /\ Goto(t, "start")
    /\ UNCHANGED <<locked, permitted>> /\ UnchangedFiles /\ UnchangedCopies /\ UnchangedRun

\* remove_stale_narinfo: the wait for the permit may have been long, and what it
\* removes is no longer what was found stale.
RemoveStale(t) ==
    /\ pc[t] = "remove"
    /\ narinfo' = narinfo \ {PathOf[t]}
    /\ Goto(t, "start")
    /\ UNCHANGED <<nar, locked, permitted>> /\ UnchangedCopies /\ UnchangedRun

\* `nix copy` starts, and will write what it finds without a narinfo.
StartCopy(t) ==
    /\ pc[t] = "start"
    /\ copy' = [copy EXCEPT ![t] = "running"]
    /\ todo' = [todo EXCEPT ![t] = Refs[PathOf[t]] \ narinfo]
    /\ Goto(t, "copying")
    /\ UNCHANGED <<locked, permitted>> /\ UnchangedFiles /\ UnchangedRun

EndCopy(t) ==
    /\ pc[t] = "copying" /\ copy[t] \in {"ok", "error"}
    /\ \/ copy[t] = "ok" /\ Goto(t, "verify") /\ UNCHANGED <<locked, permitted>>
       \/ copy[t] = "error" /\ Goto(t, "failed") /\ Release(t)
    /\ UnchangedFiles /\ UnchangedCopies /\ UnchangedRun

Verify(t) ==
    /\ pc[t] = "verify"
    /\ \/ Ready(PathOf[t]) /\ Ensured(t)
       \/ ~Ready(PathOf[t]) /\ Goto(t, "failed") /\ Release(t)
    /\ UnchangedFiles /\ UnchangedCopies /\ UnchangedRun

\* The handler reads the narinfo it found ready and streams it; the client asks
\* for the NAR it names, which this connection may now have.
ReadNarinfo(t) ==
    /\ pc[t] = "read"
    /\ Goto(t, IF PathOf[t] \in narinfo THEN "nar" ELSE "failed")
    /\ UNCHANGED <<locked, permitted>> /\ UnchangedFiles /\ UnchangedCopies /\ UnchangedRun

StreamNar(t) ==
    /\ pc[t] = "nar"
    /\ Goto(t, IF PathOf[t] \in nar THEN "done" ELSE "not found")
    /\ UNCHANGED <<locked, permitted>> /\ UnchangedFiles /\ UnchangedCopies /\ UnchangedRun

TaskStep(t) ==
    \/ Check(t) \/ Lock(t) \/ Recheck(t) \/ Permit(t) \/ RemoveStale(t) \/ StartCopy(t)
    \/ EndCopy(t) \/ Verify(t) \/ ReadNarinfo(t) \/ StreamNar(t)

-----------------------------------------------------------------------------
\* `nix copy`, a process of its own: references first, and for each path the NAR
\* before the narinfo.  It may fail at any step, and does when a reference is
\* missing from the cache.
CanWrite(t, q) == copy[t] = "running" /\ q \in todo[t] /\ Refs[q] \ {q} \subseteq narinfo

WriteNar(t) ==
    /\ \E q \in Paths : CanWrite(t, q) /\ q \notin nar /\ nar' = nar \cup {q}
    /\ UNCHANGED <<narinfo, pc, locked, permitted>> /\ UnchangedCopies /\ UnchangedRun

WriteNarinfo(t) ==
    /\ \E q \in Paths :
           /\ CanWrite(t, q) /\ q \in nar
           /\ narinfo' = narinfo \cup {q}
           /\ todo' = [todo EXCEPT ![t] = @ \ {q}]
    /\ UNCHANGED <<nar, pc, locked, permitted, copy>> /\ UnchangedRun

ExitCopy(t) ==
    /\ copy[t] = "running"
    /\ copy' \in {[copy EXCEPT ![t] = "error"]}
                    \cup (IF todo[t] = {} THEN {[copy EXCEPT ![t] = "ok"]} ELSE {})
    /\ todo' = [todo EXCEPT ![t] = {}]
    /\ UNCHANGED <<pc, locked, permitted>> /\ UnchangedFiles /\ UnchangedRun

CopyStep(t) == WriteNar(t) \/ WriteNarinfo(t) \/ ExitCopy(t)

\* The server stops, with every process it started, and starts again.
Restart ==
    /\ restarts < MaxRestarts
    /\ restarts' = restarts + 1
    /\ conn' = [k \in Conns |-> IF conn[k] = "none" THEN "none" ELSE "lost"]
    /\ pc' = [t \in Tasks |-> IF pc[t] \in Working THEN "dropped" ELSE pc[t]]
    /\ locked' = {} /\ permitted' = {}
    /\ copy' = [t \in Tasks |-> IF copy[t] = "running" THEN "error" ELSE copy[t]]
    /\ todo' = [t \in Tasks |-> {}]
    /\ UNCHANGED losses /\ UnchangedFiles

Next ==
    \/ \E k \in Conns : Serve(k) \/ CacheDone(k) \/ Drained(k) \/ Lose(k)
    \/ \E t \in Tasks : Request(t) \/ TaskStep(t) \/ CopyStep(t)
    \/ Restart

Spec == Init /\ [][Next]_vars

\* The runtime runs every task, and a copy that runs ends.
FairSpec == Spec /\ \A t \in Tasks : WF_vars(TaskStep(t)) /\ WF_vars(CopyStep(t))

-----------------------------------------------------------------------------
TypeOK ==
    /\ nar \subseteq Paths /\ narinfo \subseteq Paths
    /\ conn \in [Conns -> {"none", "serving", "draining", "done", "lost"}]
    /\ pc \in [Tasks -> {"none"} \cup Working \cup Stopped]
    /\ locked \subseteq Tasks /\ permitted \subseteq locked
    /\ copy \in [Tasks -> {"none", "running", "ok", "error"}]
    /\ todo \in [Tasks -> SUBSET Paths]
    /\ losses \in 0..MaxLosses /\ restarts \in 0..MaxRestarts

\* A client that was given a narinfo gets the NAR it names, whatever the
\* directory held before and whichever tasks and copies worked on the entry.
NarFollowsNarinfo == \A t \in Tasks : pc[t] = "nar" => PathOf[t] \in nar

\* A copy that ended well leaves its entry ready, so the last check of
\* ensure_cache_entry never fails.
CopyMakesReady == \A t \in Tasks : pc[t] = "verify" => Ready(PathOf[t])

\* An entry is filled by one task at a time, which is the one that holds its
\* lock, and the permits bound the tasks that copy.  A copy that runs without its
\* task, and so without a permit, is that of a handler whose connection was lost.
OneFillPerEntry ==
    /\ \A t, u \in Tasks :
           pc[t] \in Filling /\ pc[u] \in Filling /\ PathOf[t] = PathOf[u] => t = u
    /\ Cardinality({t \in Tasks : pc[t] \in {"remove", "start", "copying", "verify"}}) <= MaxFills
    /\ \A t \in Tasks : copy[t] = "running" =>
           \/ pc[t] = "copying"
           \/ t \notin Prewarms /\ pc[t] = "dropped" /\ conn[ConnOf[t]] = "lost"

\* Every task that was started stops: fill locks and permits come free on every
\* path out of ensure_cache_entry, and nobody holds one while waiting for a task
\* that waits for it.
EveryTaskStops == \A t \in Tasks : pc[t] \in Working ~> pc[t] \in Stopped

\* Signed cache entries are generated at most MaxFills at a time.
CopiesWithinLimit == Cardinality({t \in Tasks : copy[t] = "running"}) <= MaxFills

\* A handler that found its entry ready can serve it.
ReadyEntryIsServed == \A t \in Tasks : pc[t] = "read" => PathOf[t] \in narinfo
=============================================================================
