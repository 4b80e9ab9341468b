------------------------------ MODULE BuildQueue ------------------------------
(***************************************************************************)
(* The builder's queue: what the handler of a connection does from the     *)
(* moment its build request is accepted (server/connection.rs), the        *)
(* semaphore that admits builds, and the status registry with its copy on  *)
(* disk, status.json, which `drv-thru status` reads.                       *)
(*                                                                         *)
(* Handlers run on several threads and interleave at every await and       *)
(* between any two calls of the registry, which its mutex makes atomic.    *)
(* A write of status.json may fail: the registry keeps the change in       *)
(* memory and goes on.                                                     *)
(***************************************************************************)
EXTENDS Naturals, Sequences, FiniteSets

CONSTANTS
    Conns,         \* connections whose build request was accepted
    MaxBuilds,     \* max_concurrent_builds
    RecentLimit,   \* recent_builds_limit
    MaxRestarts    \* bound on the server's restarts

ASSUME QueueAssumption ==
    /\ IsFiniteSet(Conns)
    /\ MaxBuilds \in Nat \ {0}
    /\ RecentLimit \in Nat /\ MaxRestarts \in Nat

VARIABLES
    pc,         \* pc[c]: where the handler of c is
    id,         \* id[c]: the request id the handler of c holds
    entry,      \* history: the id under which c was really entered
    outcome,    \* outcome[c]: the build's result, once there is one
    permits,    \* the semaphore's free permits
    waiters,    \* handlers in acquire_owned, first come first served
    nextSeq,    \* next_request_seq
    registry,   \* the snapshot in memory: queued, active and recent
    disk,       \* the snapshot in status.json
    restarts    \* how often the server was restarted

vars == <<pc, id, entry, outcome, permits, waiters, nextSeq, registry, disk, restarts>>

Unknown == 0    \* "build-unknown"
NoEntry == 0

Phases == {"checking inputs", "uploading inputs", "building", "serving output cache"}
Queueing == {"announce", "acquire", "waiting", "granted"}
Running == {"starting"} \cup Phases
Ended == {"gone", "cut"}
Places == {"new", "record"} \cup Queueing \cup Running \cup Ended

\* What the handler does next, in run_queued_build: an upload only if paths are
\* missing, and the output cache only after a successful build.
NextPhase == {<<"starting", "checking inputs">>,
              <<"checking inputs", "uploading inputs">>, <<"checking inputs", "building">>,
              <<"uploading inputs", "building">>,
              <<"building", "serving output cache">>}

EmptySnapshot == [queued |-> <<>>, active |-> <<>>, recent |-> <<>>]

IdsIn(entries) == {entries[i].id : i \in DOMAIN entries}

\* The first entry of request n, and the list without it: `position` and `remove`.
Position(entries, n) ==
    CHOOSE i \in DOMAIN entries : entries[i].id = n /\ \A j \in 1..(i - 1) : entries[j].id # n

Without(entries, n) ==
    IF n \in IdsIn(entries)
    THEN LET at == Position(entries, n)
         IN  [i \in 1..(Len(entries) - 1) |-> entries[IF i < at THEN i ELSE i + 1]]
    ELSE entries

\* The updates of the registry, each followed by refresh_snapshot, which sets
\* the counts and positions that the three lists already determine.
Enqueued(s, n) == [s EXCEPT !.queued = Append(@, [id |-> n])]

\* (mutant) the first of the queue is taken for the one that starts.
StartedFirst(s, n) ==
    IF s.queued # <<>>
    THEN [s EXCEPT !.queued = Tail(@),
                   !.active = Append(@, [id |-> s.queued[1].id, phase |-> "starting"])]
    ELSE s

Started(s, n) ==
    IF n \in IdsIn(s.queued)
    THEN [s EXCEPT !.queued = Without(@, n),
                   !.active = Append(@, [id |-> n, phase |-> "starting"])]
    ELSE s

Phased(s, n, phase) ==
    [s EXCEPT !.active = [i \in DOMAIN @ |->
        IF @[i].id = n THEN [@[i] EXCEPT !.phase = phase] ELSE @[i]]]

\* (mutant) the list is not truncated.
FirstFewAll(entries) == entries

FirstFew(entries) ==
    SubSeq(entries, 1, IF Len(entries) < RecentLimit THEN Len(entries) ELSE RecentLimit)

Finished(s, n, result) ==
    IF n \in IdsIn(s.active) \cup IdsIn(s.queued)
    THEN [queued |-> IF n \in IdsIn(s.active) THEN s.queued ELSE Without(s.queued, n),
          active |-> Without(s.active, n),
          recent |-> FirstFew(<<[id |-> n, result |-> result]>> \o s.recent)]
    ELSE s

\* with_status_update of a caller that ignores its result.
Update(snapshot) ==
    /\ registry' = snapshot
    /\ disk' \in {snapshot, disk}

Goto(c, place) == pc' = [pc EXCEPT ![c] = place]

-----------------------------------------------------------------------------
Init ==
    /\ pc = [c \in Conns |-> "new"]
    /\ id = [c \in Conns |-> Unknown]
    /\ entry = [c \in Conns |-> NoEntry]
    /\ outcome = [c \in Conns |-> "none"]
    /\ permits = MaxBuilds
    /\ waiters = <<>>
    /\ nextSeq = 0
    /\ registry = EmptySnapshot
    /\ disk = EmptySnapshot
    /\ restarts = 0

\* The request enters the registry.  If status.json cannot be written the entry
\* stays, but the handler is told "build-unknown".
Enqueue(c) ==
    /\ pc[c] = "new"
    /\ nextSeq' = nextSeq + 1
    /\ registry' = Enqueued(registry, nextSeq')
    /\ entry' = [entry EXCEPT ![c] = nextSeq']
    /\ \/ disk' = registry' /\ id' = [id EXCEPT ![c] = nextSeq']
       \/ disk' = disk /\ id' = [id EXCEPT ![c] = Unknown]
    /\ Goto(c, "announce")
    /\ UNCHANGED <<outcome, permits, waiters, restarts>>

\* BuildQueued is sent ...
SendBuildQueued(c) ==
    /\ pc[c] = "announce"
    /\ Goto(c, "acquire")
    /\ UNCHANGED <<id, entry, outcome, permits, waiters, nextSeq, registry, disk, restarts>>

\* (mutant) the request ends without a finish.
SendBuildQueuedErrorOnly(c) ==
    /\ pc[c] = "announce"
    /\ outcome' = [outcome EXCEPT ![c] = "error"]
    /\ Goto(c, "gone")
    /\ UNCHANGED <<id, entry, permits, waiters, nextSeq, registry, disk, restarts>>

\* ... or the client is gone, and the request ends before it waited.
SendBuildQueuedError(c) ==
    /\ pc[c] = "announce"
    /\ outcome' = [outcome EXCEPT ![c] = "error"]
    /\ Update(Finished(registry, id[c], "error"))
    /\ Goto(c, "gone")
    /\ UNCHANGED <<id, entry, permits, waiters, nextSeq, restarts>>

\* acquire_owned: a fair semaphore keeps its waiters in order.  The wait has no
\* time limit and does not notice that the client has left.
Join(c) ==
    /\ pc[c] = "acquire"
    /\ waiters' = Append(waiters, c)
    /\ Goto(c, "waiting")
    /\ UNCHANGED <<id, entry, outcome, permits, nextSeq, registry, disk, restarts>>

\* (mutant) the permit is not waited for.
GrantAnyway(c) ==
    /\ pc[c] = "waiting"
    /\ waiters # <<>> /\ Head(waiters) = c
    /\ permits' = permits - 1
    /\ waiters' = Tail(waiters)
    /\ Goto(c, "granted")
    /\ UNCHANGED <<id, entry, outcome, nextSeq, registry, disk, restarts>>

Grant(c) ==
    /\ pc[c] = "waiting"
    /\ permits > 0 /\ waiters # <<>> /\ Head(waiters) = c
    /\ permits' = permits - 1
    /\ waiters' = Tail(waiters)
    /\ Goto(c, "granted")
    /\ UNCHANGED <<id, entry, outcome, nextSeq, registry, disk, restarts>>

Start(c) ==
    /\ pc[c] = "granted"
    /\ Update(Started(registry, id[c]))
    /\ Goto(c, "starting")
    /\ UNCHANGED <<id, entry, outcome, permits, waiters, nextSeq, restarts>>

\* The build gets on, and says so in the registry.
Advance(c) ==
    \E phase \in Phases :
        /\ <<pc[c], phase>> \in NextPhase
        /\ Update(Phased(registry, id[c], phase))
        /\ Goto(c, phase)
        /\ UNCHANGED <<id, entry, outcome, permits, waiters, nextSeq, restarts>>

\* (mutant) an error path forgets the permit.
PermitsAfterUnlessError(result) == IF result = "error" THEN permits ELSE permits + 1

\* The permit drops with its owner, however the run ended.
PermitsAfter(result) == permits + 1

\* run_queued_build returns: the client leaves, a step fails or times out, the
\* build fails, or the client is done with the cache.  The permit drops here,
\* at the end of run_when_permitted, before the result is recorded.
EndRun(c) ==
    \E result \in {"success", "failed", "error"} :
        /\ \/ result = "error" /\ pc[c] \in Phases
           \/ result = "failed" /\ pc[c] = "building"
           \/ result = "success" /\ pc[c] = "serving output cache"
        /\ outcome' = [outcome EXCEPT ![c] = result]
        /\ permits' = PermitsAfter(result)
        /\ Goto(c, "record")
        /\ UNCHANGED <<id, entry, waiters, nextSeq, registry, disk, restarts>>

\* record_build_result; what follows only talks to the client.
Record(c) ==
    /\ pc[c] = "record"
    /\ Update(Finished(registry, id[c], outcome[c]))
    /\ Goto(c, "gone")
    /\ UNCHANGED <<id, entry, outcome, permits, waiters, nextSeq, restarts>>

\* Every second, while something is queued or active, the snapshot is written
\* again.
Heartbeat ==
    /\ registry.queued # <<>> \/ registry.active # <<>>
    /\ disk # registry
    /\ disk' = registry
    /\ UNCHANGED <<pc, id, entry, outcome, permits, waiters, nextSeq, registry, restarts>>

\* (mutant) status.json is written with the first request only.
RestartKeepsFile ==
    /\ restarts < MaxRestarts
    /\ restarts' = restarts + 1
    /\ pc' = [c \in Conns |-> IF pc[c] = "new" THEN "new" ELSE "cut"]
    /\ permits' = MaxBuilds
    /\ waiters' = <<>>
    /\ nextSeq' = 0
    /\ registry' = EmptySnapshot
    /\ UNCHANGED <<id, entry, outcome, disk>>

\* The server is stopped or killed, and started again: it serves once the fresh
\* registry is on disk.
Restart ==
    /\ restarts < MaxRestarts
    /\ restarts' = restarts + 1
    /\ pc' = [c \in Conns |-> IF pc[c] = "new" THEN "new" ELSE "cut"]
    /\ permits' = MaxBuilds
    /\ waiters' = <<>>
    /\ nextSeq' = 0
    /\ registry' = EmptySnapshot
    /\ disk' = EmptySnapshot
    /\ UNCHANGED <<id, entry, outcome>>

Handle(c) ==
    \/ SendBuildQueued(c) \/ SendBuildQueuedError(c) \/ Join(c) \/ Grant(c)
    \/ Start(c) \/ Advance(c) \/ EndRun(c) \/ Record(c)

Next ==
    \/ \E c \in Conns : Enqueue(c) \/ Handle(c)
    \/ Heartbeat
    \/ Restart

Spec == Init /\ [][Next]_vars

\* The runtime runs every task, and the heartbeat runs on.  A phase of a run need
\* not end: its messages wait for a client that reads them, a build may have no
\* max_build_time, and a client may stay connected and never say that it is done
\* with the output cache, with no limit on any of these.
FairSpec ==
    /\ Spec
    /\ \A c \in Conns : WF_vars(Handle(c) /\ pc[c] \notin Phases)
    /\ WF_vars(Heartbeat)

-----------------------------------------------------------------------------
Snapshot == [queued : Seq([id : Nat]),
             active : Seq([id : Nat, phase : Running]),
             recent : Seq([id : Nat, result : {"success", "failed", "error"}])]

TypeOK ==
    /\ pc \in [Conns -> Places]
    /\ id \in [Conns -> Nat] /\ entry \in [Conns -> Nat]
    /\ outcome \in [Conns -> {"none", "success", "failed", "error"}]
    /\ permits \in 0..MaxBuilds
    /\ waiters \in Seq(Conns)
    /\ nextSeq \in Nat /\ restarts \in 0..MaxRestarts
    /\ registry \in Snapshot /\ disk \in Snapshot

Holders == {c \in Conns : pc[c] = "granted" \/ pc[c] \in Running}

\* At most max_concurrent_builds handlers are admitted, and every permit is free
\* or held by one of them on each of the ways a run can end, so none is lost.
PermitsConserved ==
    /\ Cardinality(Holders) <= MaxBuilds
    /\ permits = MaxBuilds - Cardinality(Holders)

\* A handler that knows its request's id has exactly the entry in the registry
\* that tells where the request is.
RegistryTellsTruth ==
    \A c \in Conns : id[c] # Unknown =>
        /\ pc[c] \in Queueing => \E i \in DOMAIN registry.queued : registry.queued[i].id = id[c]
        /\ pc[c] \in Running \cup {"record"} =>
               \E i \in DOMAIN registry.active :
                   /\ registry.active[i].id = id[c]
                   /\ pc[c] \in Running => registry.active[i].phase = pc[c]

\* No request leaves an entry behind, whichever way it ended: each entry is that
\* of a handler that is still at work, but for those whose enqueue could not be
\* written.
NoEntryLeftBehind ==
    /\ \A n \in IdsIn(registry.queued) : \E c \in Conns :
           entry[c] = n /\ (pc[c] \in Queueing \/ (pc[c] # "cut" /\ id[c] = Unknown))
    /\ \A n \in IdsIn(registry.active) : \E c \in Conns :
           entry[c] = n /\ pc[c] \in Running \cup {"record"}

\* A request is in one place of the registry, and of status.json, once.  The file
\* may be behind, but it is never ahead and never of an earlier server, whose ids
\* are used again: each entry is of a request of this server, a build that it lists
\* as active has started, and one that it lists as recent has ended as it says.
TellsOnce(snapshot) ==
    LET all == snapshot.queued \o snapshot.active \o snapshot.recent
    IN  /\ \A i, j \in DOMAIN all : all[i].id = all[j].id => i = j
        /\ \A i \in DOMAIN all : \E c \in Conns :
               entry[c] = all[i].id /\ pc[c] \notin {"new", "cut"}
        /\ \A i \in DOMAIN snapshot.active : \E c \in Conns :
               entry[c] = snapshot.active[i].id /\ pc[c] \in Running \cup {"record", "gone"}
        /\ \A i \in DOMAIN snapshot.recent : \E c \in Conns :
               /\ pc[c] = "gone" /\ entry[c] = snapshot.recent[i].id
               /\ outcome[c] = snapshot.recent[i].result
        /\ Len(snapshot.recent) <= RecentLimit

OnePlaceEach == TellsOnce(registry) /\ TellsOnce(disk)

\* A run that goes on for ever keeps its permit; nothing else keeps one.
HeldUp(c) ==
    \/ [](pc[c] \in Phases)
    \/ [](Cardinality({d \in Conns : pc[d] \in Phases}) = MaxBuilds)

\* Every request that was queued ends, unless its own run never does or as many
\* runs as there are permits never do: no error path, however late, keeps a permit
\* or a place in the semaphore.
EveryRequestEnds ==
    \A c \in Conns : pc[c] = "announce" ~> (pc[c] \in Ended \/ HeldUp(c))

\* The waiting queue lists requests that wait.
QueueListsWaiting ==
    \A n \in IdsIn(registry.queued) : \E c \in Conns : entry[c] = n /\ pc[c] \in Queueing
=============================================================================
