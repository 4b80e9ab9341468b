# drv-thru in TLA+

drv-thru sends a Nix derivation to a builder over Iroh, builds it there and
brings the outputs back through a signed binary cache. This directory holds
TLA+ models of its parts, TLC runs that check them on small instances, and
proofs, checked by TLAPS, that hold for instances of any size. Paths below are
relative to `src/crates/drv-thru/src/` unless they start with `src/`.

## Inventory

| Component | State | Operations | Interacts with | What is hard | What makes it correct |
|---|---|---|---|---|---|
| Ticket store lock (`ticket.rs`, `process_lock.rs`) | mutex of each process; directory `.tickets.json.lock` with `pid` and `owner` | lock_file, create, remove_stale, drop | server, every `drv-thru ticket` command | two processes between two file-system calls; a dead owner; pid reuse; a removal that fails and is ignored | one call at work unless its lock was taken from it; nobody waits for a dead owner |
| Ticket store (`ticket.rs`, `state/json.rs`) | `tickets.json`, temporary files, each call's own copy | load, create, revoke, check, redeem | the lock; authorization; the command line | crash between load and rename; check and redeem minutes apart; concurrent revoke | a use pays for one build; a revocation is final; the file always parses |
| Connection handler and build queue (`server/connection.rs`, `build.rs`, `mod.rs`) | handlers, the semaphore and its waiters | accept, enqueue, acquire, upload, build, serve, record | ticket store, status registry, output cache | every error path; cancellation by a lost connection; a silent client | no permit is lost; every request ends unless a run never does; at most `max_concurrent_builds` |
| Status registry (`server/status.rs`) | queued, active, recent; `status.json` | enqueue, start, phase, finish, heartbeat | handlers; `drv-thru status` reads the file | a write that fails after the change in memory; restart | each request in one place, and the place is right |
| Output cache (`server/output_cache.rs`, `cache.rs`) | directory of NARs and narinfos; fill locks, fill permits; tasks; `nix copy` processes | ensure entry, prewarm, serve narinfo and NAR, done | Nix; the client's mirror | overlapping closures; work that outlives its connection; what a crash leaves in the directory | a served narinfo has its NAR; one fill per entry; bounded copies |
| Authorization (`access.rs`, `server/auth.rs`) | none of its own | trusted client or ticket, limits | ticket store | ticket is checked, later redeemed | a build is always paid for or trusted |
| Wire protocol (`protocol/wire.rs`, `messages.rs`, `path_chunks.rs`) | the stream | framed messages, chunked path lists | both sides | a read dropped inside `select!`; limits at their boundary | both sides agree on the turn; limits hold exactly |
| Client session (`client/session.rs`, `client_cache/mod.rs`) | progress of one build | connect, request, upload, logs, import, done | all server parts | time limits against a queue of unknown length | the client ends with outputs or an error |
| Mirror and local server (`client_cache/mirror.rs`, `local_server.rs`) | temporary directory; fetch permits; HTTP tasks | mirror narinfos, then NARs; serve; clean up | output cache; Nix | one fetch of many fails | every NAR is there before Nix reads; nothing is left behind |
| Keys (`keys.rs`) | key files, signing pair, their lock | load or create | server start, commands | two first starts at once; a crash between two files | one key, never half a pair |
| Import helper (`import_helper.rs`) | socket; allow-list | check a request, import | mirror; Nix as root | who may ask for what | only allow-listed builders |
| Configuration (`config.rs`) | none | parse sizes and durations | server start | overflow | exact or refused |
| Command line, display, NixOS module | none that others share | - | - | - | - |

`PROJECT.json` lists each of these with what is and is not modelled, and the
hazards with the properties that cover them.

## Modules

| Module | Contents |
|---|---|
| `TicketLock` | the mutex and the lock directory, one file-system call per action |
| `TicketStore` | extends `TicketLock`: the bodies of the store's methods |
| `TicketLedger` | abstract: each request answered in one step; `TicketStore` implements it |
| `BuildQueue` | handlers, semaphore, status registry and `status.json` |
| `OutputCache` | the builder's cache: entries, tasks, connections, `nix copy` processes |
| `Session` | one build from both sides: the client's command, the handler, and the messages between them |
| `BuildService` | abstract: what drv-thru promises of a build; `Session` implements it |
| `OutputImport` | how a client imports outputs: mirror, local server, helper, Nix |
| `Keys` | the endpoint keys, their lock, and the server's signing pair |
| `MC*` | the instances TLC explores |
| `*Proofs` | theorems about the module they are named after, and their proofs |

Operators marked `(mutant)` are changed versions of the definition that follows
them. They are not used by any specification; they show that the properties
would notice the change.

### Tickets

`TicketLock` has one call per method call of `TicketStore`; `pc` is the next
file-system call it makes. `create_ticket_store_lock` is `Mkdir`, then an open
and a write for each of `pid` and `owner` (`fs::write` is not atomic);
`remove_stale_ticket_store_lock` is `ReadOwner`, `ReadPid` and the two halves of
`remove_dir_all`. `text[f]` stands for the owner's text: a process, for
`owner` means pid and start time, for `pid` the bare pid. A process starts, and
stops between any two steps of its calls; processes of one *unit* (the systemd
service) run one after another, others (commands in a shell) at any time. A pid is
given again once it is free.

Each file-system call may fail. The error of a removal is ignored
(`let _ = fs::remove_dir_all`, `ticket.rs:311`, `351`, `365`), so `RemoveError`
unlinks some of the files or none and goes on as if it had succeeded: a drop that
fails leaves a lock behind, naming a process that runs on. `ReadError` is a read of
the lock, or of `/proc`, that fails for want of a descriptor or of permission:
`unwrap_or_default` and `process_start_time` then find no owner, so the lock of a
running process looks stale. Two history variables say what became of a lock:
`robbed` has the calls whose directory another call removed while they owned it,
and `left` those whose own removal failed. One failure is left out: that `/proc`
cannot be read when the owner text is written, which then is a bare pid.

`TicketStore` adds the body: load, the decision of the method on its own copy,
and `write_atomic` with a failure at each of its steps. `now` is the system
clock, which may go back. A ticket is its uses, expiry, bound client and
revocation; the secret is its id, and limits and names, on which no method
decides, are left out. `issued` is a history variable, read by properties only.

`TicketLedger` has no files, locks, or crashes. Its one subtlety is the code's:
`redeem` looks at the clock once and records the use later, so acceptance and
recording are two steps.

### Build queue

`BuildQueue` and `Session` both follow a handler, for different questions.
`BuildQueue` has many handlers and the registry, and takes what a client does as
"the build gets on or ends"; `Session` has both programs with every message, and
takes other handlers as permits that come and go.

`pc[c]` follows `handle_incoming` from an accepted request to its recorded
result. Each call of the registry is atomic, as its mutex makes it, and followed
by a write of `status.json` that may fail (`Update`). The semaphore keeps its
waiters in order (`waiters`). `EndRun` is the return of `run_when_permitted`,
where the permit drops, and `Record` is `record_build_result`, later. `id` is
what the handler was told, `entry` (history) what was really entered: they
differ when the first write failed and the handler was told "build-unknown".
The path for a closed semaphore is left out: nothing closes it.

### Output cache

A task is a prewarm task, or the handlers of a narinfo and then its NAR. Its
places are the awaits of `ensure_cache_entry`. `nix copy` is external and
modelled as a process of its own: it decides at its start what is missing, and
writes references first and each NAR before its narinfo; it may fail at any
step. `Lose` is an error of `serve_output_cache`: its handlers are dropped where
they stand, their locks and permits come free, their copies run on, and
prewarm tasks are not affected, because they are spawned and `run_nix_command`
does not set `kill_on_drop`. `Init` admits any directory: one left by a crash
during a copy, or pruned by an administrator. A restart takes the copies with
it, as stopping the systemd service does.

### Session

`cli[s]` is where the client's `build` is and `srv[s]` where `handle_incoming`
is; each place that reads is named for the message it waits for. `toServer` and
`toClient` are the two directions of the control stream. A message is its kind,
and for a path list the number of paths in the chunk and whether it is the last;
what the paths are is left out, only how many are `missing` is kept, because both
sides decide from that number whether there is an upload. `upload` is the stream
of the inputs and `stream` one cache-file stream. `path_chunks::write` is
`PathList`, and the reader's limits are `WithinLimits`, checked with each chunk as
`read_loop` does.

`serve_output_cache` reads `OutputCacheDone` inside a `select!`, and dropping
that read loses the bytes it has consumed. So this one message travels in two
parts: `ReadLength` takes its first bytes, and `doneRead` is what has become of the
read. `AcceptStream` and `JoinTask`, the other branches, drop it (`DropRead`), and
what follows depends on the byte. The message is a length of four bytes,
`00 00 00 1c`, and 28 bytes of JSON. After one byte the next four are
`00 00 1c 7b`, a length that passes, and when less than four bytes are left there
is no length to read: the read is `"starved"`, and there is no time limit on it.
After any other number of bytes the next length is too large, and `read_json`
says so (`Garbled`). Which of the two happens is left open, for a second drop too.

Failures: `Lose` cuts the connection, and of what was sent any prefix arrives;
`Crash` stops the server; `GiveUp` is a client that stops or whose step fails;
`ServerTimeout`, `StepFails` and `NixFails` are the error paths of the handler,
split by the place they lead to. An upload that ends early looks like a whole one
to the stream, so it is `"short"` and found out by the import.

The access policy is `trusted`, `ticketed` and `limit`; a limit is a number and a
unit, multiplied with a check for overflow as `config.rs` does. The ticket is its
`uses` and `revoked`, that is, `TicketLedger` with one ticket: other clients spend
(`OtherRedeems`) and an administrator revokes at any time.

`BuildService` has none of this: a request is taken up for a trusted client or
for a use, ends once, and the client reports outputs only of a request that ended
well. Its variables `stage` and `report` are operators of `Session`.

### Output import

`meta[p]` and `payload[p]` are the two tasks of a path in `mirror_cache_files`:
every path of the closure has a narinfo task, and a path to copy a NAR task once
its narinfo task is joined. Two paths may name one NAR, so two tasks may create,
empty and write one file: `holds` is what each file contains. `at` is the client's
place in `import_outputs_from_cache`, with the two ways out of the copy
(`"stopping"`, `"stopping failed"`) that both stop the server and remove the
directory, and the early errors that do not. `http` are the requests the local
server is answering. Nix copies batch by batch (`PATH_ARG_CHUNK_SIZE`), started by
the client or, when neither the user nor the key is trusted, by the helper, whose
requests are refused unless the key is in its list.

### Keys

A process is a client that builds (with the lock), `drv-thru key show` (without),
or a server start. The lock is a symbolic link, made in one step; the owner it
names is read and the link removed in two, and what is removed is whichever link
is there by then (`Unlink`). A waiter that finds no link at `read_link` has an
empty owner text, which is not live, and goes on to remove as well. A key file is
opened and written in two steps. `Generate` is `nix-store
--generate-binary-cache-key`, which is external: it opens and writes both halves
in any order. The server checks the public half and the secret's permissions, and
does not read the secret when it starts.

## Runs

Every run is exhaustive for its instance. `CHECK_DEADLOCK FALSE` is in every
configuration because each model ends when all its calls, requests or tasks are
done.

| Run | Instance | Shows |
|---|---|---|
| `lock_contention` | a server and two commands, one call each; the second command has the pid of the first, once that has stopped; any file-system call may fail | types; a running process is named only by a lock it works under or failed to remove; two calls hold the lock only if one was robbed; every call of a running process ends unless the lock is misleading for ever |
| `store_crossing` | a server with two redeems that are alike (`SYMMETRY`), and a command that revokes, lists or is refused, at the same time | the file always parses, a rename publishes the call's own copy, expiries never overflow; uses add up and a reported revocation holds, until a call is robbed of its lock |
| `store_service` | a command with one call and a server with two, one process after the other, 6 combinations of requests, two clock values | `TicketLedger` is implemented |
| `queue` | two requests, one permit, one recent entry, one restart | permits, the registry against the handlers, `status.json` against what was so, and every announced request ends unless a run goes on for ever |
| `session` | one session, of a trusted client or with a ticket of one use that others use too, one permit, path lists of 0, 2 and 3 in chunks of 1 with a limit of 2 paths, three upload limits (below and above what is missing, and one that overflows), one crash | both sides agree on the turn and wait for each other only when a read was starved, what is taken up is paid for, what a client reports is what its builder has, inputs are whole, `BuildService` is implemented, both sides end but for that read |
| `import` | a closure of two paths, one or both to copy, one or two NAR files of two chunks, one metadata permit, 0 to 2 NAR permits, batches of one, a helper that takes one path, every trust | what Nix reads is whole, only trusted imports, no request after the clean-up, the end is as reported, and comes |
| `keys` | three processes of any kind, each stopping anywhere | one key for all, the lock's exclusion, the signing pair is whole, every waiter ends |
| `cache_entries` | two connections, a path and its reference, a prewarm task and two handlers, one permit, one loss, one restart, every initial directory | NARs follow narinfos, a good copy makes its entry ready, one fill per entry, no copy without its task but after a loss, every task stops |

Why the bounds are enough: the lock's hazards need a holder, a thief and a
waiter, so three processes, and a reused pid needs two that follow each other; a
lost update needs two calls that overlap and one
that observes. A permit that is lost shows as soon as one other request waits.
An entry is written by another's copy as soon as one path refers to another.
One session is enough for the protocol because sessions meet only in the ticket
and the permits, and `OtherRedeems`, `OtherStarts` and `OtherEnds` do to it what
another session could; the proofs below cover any number. Lists of 2 and 3 with a
limit of 2 are one at the limit and one past it, and chunks of one make a list
travel in several messages. Two paths are the fewest that share a NAR, two chunks
the fewest that can be interleaved, batches of one make Nix run twice. Three
processes are needed for one client to remove the lock a second made after a
third; `keys` has 258 thousand states and `session` 156 thousand.
Each bound (`MaxCrashes`, `MaxRestarts`, `MaxLosses`, `MaxTime`, `RecentLimit`) is a constant
named in the guards; one restart suffices because nothing in memory survives it.

### What the code does otherwise

Four runs end in a counterexample; `PROJECT.json` quotes the text each
contradicts.

| Run | What happens |
|---|---|
| `store_over_redemption` | The lock directory exists before its owner is written. A command looks in between, takes it for stale and removes it; both processes work on `tickets.json`, and a ticket of one use is redeemed twice. |
| `queue_lists` | When the first write of `status.json` fails, the entry stays queued for good under an id its handler does not know. |
| `cache_orphan_copy` | A lost connection frees the permit of a copy that runs on: more copies than `outputCacheMaxParallelFills`. |
| `cache_removed_entry` | A task that waited for a permit removes, without looking again, the narinfo another copy has written, under a handler that had found it ready. |

Other consequences are visible in the models and have no run; the properties name
them as their exceptions. A drop that fails (`ticket.rs:311`) leaves a lock that
names the running server, and every other call, the server's own next one too, then
waits for as long as the server runs; so it does when a process stopped between
writing `pid` and opening `owner` and its pid is another's now. Both are
`Misleading`, which `EveryCallEnds` excepts, as it excepts a call whose own removal
of a stale lock fails every time: `lock_file` has no other end. A waiter that cannot
read the owner takes the lock for stale and removes it, which `AtMostOneHolder`
calls a robbery like the one of `store_over_redemption`. When the read of
`OutputCacheDone` is dropped after its first byte, or with one to three bytes left,
the handler waits for bytes that are never sent and the client for `Done`, with no
time limit on either side, until the connection is lost or the client gives up
(`TurnsAgree`, `EveryClientEnds`, `EveryHandlerEnds`). A client that stays
connected and silent in the output cache keeps its permit
(`EveryRequestEnds`). After a mirror that failed, its directory and the local
server are left (`EndsAsReported`).

A client that finds
the owner of the key's lock stopped, or no link at all, removes the link a step
later, whichever client's it is by then. So two clients may use the key at once,
and what holds is only `SharedOnlyIfRobbed`. A
crash between creating a key file and writing it leaves an empty file that every
later start refuses. A server starts with an empty secret half if the public one
is whole, and fails at the first signature. A use is spent when the request is
taken up, and stays spent when the build fails. Of the queue: a permit is
free before the result is recorded, so the registry may for a moment list one
more active build than the server may run; and when the write of the last
result fails, `status.json` shows a build that has ended until another is
queued, because the heartbeat writes only while builds are live.

### Fairness

- `FairLockSpec`: a running process goes on with its calls (weak fairness per
  call). Nobody is promised the mutex or the directory before another; since a
  call is made once, no call can overtake for ever. A process need not start
  or stay up. `EveryCallEnds` asks in addition that the call's own reads and
  removals do not fail for ever and that the lock is not misleading from some time
  on; the premises are in the property, not in the fairness.
- `BuildQueue!FairSpec`: the runtime runs tasks and the heartbeat. No phase of a
  run is fair (`pc[c] \notin Phases`): a message waits for a client that reads it
  (`write_all`), `max_build_time` is optional, and nothing limits the wait for
  `OutputCacheDone` (`server/output_cache.rs:168`). `EveryRequestEnds` says what is
  left: a request ends unless its own run never does, or as many runs as there are
  permits never do (`HeldUp`).
- `OutputCache!FairSpec`: tasks run, and a `nix copy` ends.
- `Session!FairSpec`: both programs run on, a realised build ends (its log does
  not go on for ever), and other builds end. `Start` has strong fairness because
  tokio's semaphore is first come, first served: a free permit is not given to
  others for ever. Most reads of the client have no time limit, so it ends only
  because every way out of the handler answers or hangs up; no loss is assumed.
  Nothing makes a starved read end: both properties except it (`Starved`).
- `OutputImport!FairSpec`: the client, the helper and Nix run on, and a fetch
  ends, by its own time limits or with the connection. An HTTP request ends by
  `HTTP_REQUEST_TIMEOUT`.
- `Keys!FairSpec`: a running process takes its next step; a build ends.

## Proofs

All theorems hold for any sets of calls, processes, connections, tasks and
paths that satisfy the assumptions of their module (`LockAssumption`,
`StoreAssumption`, `QueueAssumption`, `CacheAssumption`, `SessionAssumption`,
`ImportAssumption`, `KeysAssumption`); these say only that constants have the
shape the code gives them. The bounds of the runs are constants of the theorems.

- **Lock** (`TicketLockProofs`): `LockInvariant` is the type invariant and
  "whoever is past the mutex is its holder"; from it `LockTypeCorrect` and
  `InProcessExclusion`. `NoLockIsOrphaned` needs `OwnersAtWork`: an owner text that
  names a running process belongs to a call of it between the first write and the
  start of the removal, or to one whose removal has failed. `LockExcludes` is about
  the directory, across processes: `OwnersApart` says that an owner that was not
  robbed has the directory, and that of two owners one was robbed. A call becomes
  an owner only by making the directory, and only `RemoveDir` takes it away, from
  every owner there is.
- **Store, any processes** (`TicketStoreProofs`): `StoreInvariant` adds that
  live processes have different pids, so that a temporary file has one writer
  (the mutex keeps the calls of that process apart), and with it
  `FileNeverTorn` and `RenamesOwnCopy`: they survive the broken lock.
- **Store, servers and commands side by side**: `BookInvariant` says that until a
  call is robbed, the one call at work has loaded what the file holds
  (`CopiesCurrent`); `OwnersApart`, from the lock, is why there is one. That makes
  conservation inductive: `UsesAreConserved` and `RevocationsAreFinal`, for any
  number of processes and a finite number of calls. After a robbery neither holds:
  `store_over_redemption` is what happens instead.
- **Store, one process at a time** (`TicketLedgerProofs`): under `OneService` (all
  processes of one unit) no call is ever robbed (`ServiceIsNeverRobbed`), though a
  process may stop anywhere and the next removes what it left; so the same invariant
  holds without the exception (`ServiceInvariant`), and carries the refinement
  `StoreImplementsLedger`.
- **Queue** (`BuildQueueProofs`): `AdmissionInvariant` says permits are free or
  held; only `Grant`, `EndRun` and `Restart` change either side.
  `NoPermitLost` follows. `RegistryInvariant` gives each entry of the registry
  one handler (`Queues`, `Runs`, `HasEnded`), whose ids are distinct and, in memory,
  never reused before a restart (`IdsInv`); the three kinds of owner exclude each
  other, so the lists are disjoint. `WithoutOne`, `PushOne` and `InsertFirst` say
  what `position` and `remove`, `push`, and `insert` and `truncate` do to a list.
  From these `StatusTellsTruth`, `EntriesGoWithHandlers` and `QueueTypeCorrect`.
  `OneEntryEach` is about the registry and `status.json`, any write of which may
  fail: each step either makes the file what the registry now is, or leaves it
  (`FileFollows`), and what it said stays true because a handler never goes back
  from its build to the queue, nor from its end (`Lasts`, `TruthLasts`). That is
  why the file may be behind but not ahead; and a restart, after which ids are used
  again, starts with an empty file.
- **Output cache** (`OutputCacheProofs`): `CacheInvariant` has six parts.
  `LockInv`, `PermitInv` and `OrphanInv` give `EntriesFilledOnce`: the bound on
  tasks that copy, which is one on copies but for those that a lost connection left
  running (`cache_orphan_copy` is the rest). `NarInv` gives
  `NarsAreServed`: NARs are never removed. `CopyInv` gives `CopiesMakeReady`
  and rests on `LockInv`: the only task that could remove a narinfo a copy has
  written is the one that runs the copy.

- **Session** (`SessionProofs`): `SessionTypeCorrect`. `RequestsArePaidFor`
  rests on `HonestQueues` (only a session with a ticket has `AuthTicket` on its
  way) and on the sum of uses. `BothSidesAgree` rests on `TruthInv`: what is on its
  way to the client is true of `result`, and a request that has a result is not at
  work any more; messages are only lost from the end. `InputsAreWhole` follows the
  upload from its offer to the build. `SessionIsService` is the refinement, step by
  step, with these invariants as its premises.
- **Whose turn it is** (`SidesTakeTurns`, in `SessionProofs`): the two programs have
  no common state, so what relates them is what is on its way. `ClientTurns` and
  `ServerTurns` say of each queue that its messages are in turn: the first is what
  the reader awaits, each next one what the previous calls for, and while the link
  is up the last leads to what the writer writes next. A path list is a stretch of
  chunks that must add up, with what the reader has gathered, to what the writer
  counted: `ChunkCount`, `PathListIs` and `TurnList` are the arithmetic of
  `path_chunks`. `LinkInv` says what a broken link leaves, and `OutputsInv` that
  the list a client asks for is bounded by the one it could read, so the builder can
  read it too; that is why the limit, which both sides share, never ends a
  session in the request for outputs. From `TurnsInvariant` no message is unexpected.
  `AnswersInvariant` adds that what a waiting side waits for is on its way or the
  other side's to send; if both waited, and the handler's read was not starved, both
  queues would be empty and each would owe the other (`BothWaitIfStarved`). TLC checked the inductive invariant on the
  `session` instance, and on one with chunks of 2, before it was proved.
- **Output import** (`OutputImportProofs`): `ImportTypeCorrect`,
  `ImportsAreTrusted` (the method determines who runs Nix, and the helper runs it
  only after its check), `NixReadsWholeMirror`, `RemovedAfterRequests` and
  `ImportEndsAsReported`. For `NixReadsWholeMirror`, a NAR file that two tasks share
  is whole because of the task that created it last: every chunk that task has
  written is still there (`holds` is emptied only by a creation), and it writes all.
- **Keys** (`KeysProofs`): `KeysTypeCorrect`; `KeyIsShared`, because only the
  process that created a file writes it and no one else has a key while it is
  empty; `KeyFileExclusion`, because the holder that was not robbed is the link's
  owner; `PairIsWhole`, because one server at a time generates, and only into files
  that are not there.

Every safety property of the passing runs is a theorem. Only model-checked: the
liveness properties (`EveryCallEnds`, `EveryRequestEnds`, `EveryTaskStops`,
`EveryClientEnds`, `EveryHandlerEnds`, `ImportEnds`, `EveryWaiterEnds`), which the
provers do not reach. `SidesTakeTurns` is the part of "both sides end" that is safety:
until a read is starved, there is always one whose turn it is. The four runs that end in a counterexample have nothing to
prove.

## Not modelled

- Presentation: progress bars, log forwarding, summaries, tables, error texts.
- The NixOS module, packaging, and the command line but for its ticket commands.
- What messages carry beyond kind, count and flag: store paths, derivations,
  narinfo fields; the parsing of these and of `nix-cache-info`, and all JSON.
- Iroh: a connection is two queues and streams that end together. How many streams
  it grants at once is not modelled, so a fetch may fail at any step instead.
- Nix itself, but for the steps of `nix copy`, of the import and of the key pair
  that the code depends on.
- Configuration, but for sizes, whose product may overflow; times and labels in
  the status file.

Six hazards have no property. Three are what the code does by choice or leaves so: a
use spent on a build that then fails (`ticket.rs:253`), the directory of a failed
mirror (`client_cache/mod.rs:122`), and a limit that does not fit a `u64`
(`config.rs:110`), which is refused (`Fits`); a product that wrapped would only be a
smaller limit, which no property forbids. The order of the registry's queue need not
be the order of the semaphore's (`server/connection.rs:55`), which is only
displayed; a stream may be late because other fetches hold the connection's
(`client_cache/mod.rs:24`); and a child that fills its error pipe while its input is being written stops both
sides until the time limit (`nix.rs:232`). The last two depend on limits outside
the source.

## Plan

What is left, in order:

1. Two sessions in one instance of `Session`, which the state space does not allow
   today, with `TicketStore` in place of its one ticket.
2. `OutputImport` against the entries of `OutputCache`: a fetch that fails because
   the builder's fill failed, rather than at any step.
