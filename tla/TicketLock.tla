----------------------------- MODULE TicketLock -----------------------------
(***************************************************************************)
(* The lock every TicketStore method holds while it works on tickets.json: *)
(* the in-process mutex `lock: Arc<Mutex<()>>`, then the lock directory    *)
(* `.tickets.json.lock`, which any process of the machine may contend for  *)
(* (the server, and each `drv-thru ticket` command).                       *)
(*                                                                         *)
(* The directory is modelled at the granularity of its file-system calls:  *)
(* mkdir, the open (create and truncate) and the write that make up each   *)
(* fs::write, the reads of a waiter, and the two halves of                 *)
(* fs::remove_dir_all (unlink the files, then rmdir, which fails when a    *)
(* file has appeared meanwhile).  Any of these calls may fail, and the     *)
(* error of a removal is ignored.  A process may stop between any two.     *)
(*                                                                         *)
(* A call is one call of one TicketStore method and is made once; a client *)
(* that needs several makes several calls.                                 *)
(***************************************************************************)
EXTENDS Naturals, FiniteSets

CONSTANTS
    Calls,    \* calls of a TicketStore method
    Procs,    \* processes; one that stops never runs again
    ProcOf,   \* the process that makes a call
    PidOf,    \* the pid of a process; a pid is reused once it is free
    UnitOf,   \* processes of one unit (a systemd service) run one at a time
    Nobody    \* not a call: the holder of a free mutex

LockFiles == {"pid", "owner"}
Absent == "absent"    \* the file does not exist
Empty == "empty"      \* the file was created and nothing is written yet

ASSUME LockAssumption ==
    /\ ProcOf \in [Calls -> Procs]
    /\ Nobody \notin Calls
    /\ {Absent, Empty} \cap Procs = {}

VARIABLES
    status,   \* status[p]: has process p started, has it stopped
    mutex,    \* mutex[p]: the call that holds the store's mutex in p
    dir,      \* does the lock directory exist
    text,     \* text[f]: the process whose owner text file f holds
    linked,   \* calls whose open file is still in the directory
    pc,       \* pc[c]: the next file-system call that c makes
    robbed,   \* history: owners whose directory another call removed
    left      \* history: owners whose own removal failed

lockVars == <<status, mutex, dir, text, linked, pc, robbed, left>>

\* The steps of create_ticket_store_lock, and the file each works on.
CreateSteps == {"openPid", "writePid", "openOwner", "writeOwner"}
FileAt == [openPid |-> "pid", writePid |-> "pid",
           openOwner |-> "owner", writeOwner |-> "owner"]
AfterCreateStep == [openPid |-> "writePid", writePid |-> "openOwner",
                    openOwner |-> "writeOwner", writeOwner |-> "held"]

\* The three callers of remove_dir_all, where each goes between its two
\* halves and when it is over: a waiter goes back to mkdir.
RemoveSteps == {"staleFiles", "undoFiles", "dropFiles"}
RmdirSteps == {"staleDir", "undoDir", "dropDir"}
RmdirOf == [staleFiles |-> "staleDir", undoFiles |-> "undoDir", dropFiles |-> "dropDir"]
AfterRemove == [staleFiles |-> "mkdir", undoFiles |-> "failed", dropFiles |-> "done",
                staleDir |-> "mkdir", undoDir |-> "failed", dropDir |-> "done"]

Outside == {"idle", "mutex", "done", "failed"}
Steps == Outside \cup CreateSteps \cup RemoveSteps \cup RmdirSteps
            \cup {"mkdir", "readOwner", "readPid", "held"}

Inside(c) == pc[c] \notin Outside
Up(p) == status[p] = "up"

\* A running call that has made the directory and has not begun to remove it.
Owns(c) == Up(ProcOf[c]) /\ pc[c] \in CreateSteps \cup {"held"}

\* (mutant) any owner that parses is taken for a live one
OwnerParses(f) == text[f] \in Procs

\* process_lock::owner_is_live of the text in file f.  "owner" holds
\* pid:start_time, which names one process; "pid" holds a bare pid, which names
\* whoever has it now.  An empty text does not parse and is not live.
OwnerIsLive(f) ==
    /\ text[f] \in Procs
    /\ IF f = "owner" THEN Up(text[f])
                      ELSE \E p \in Procs : Up(p) /\ PidOf[p] = PidOf[text[f]]

Goto(c, step) == pc' = [pc EXCEPT ![c] = step]

\* A call that ends gives the mutex back: the guard drops after the file lock.
Leave(c, step) ==
    /\ Goto(c, step)
    /\ mutex' = IF step \in Outside THEN [mutex EXCEPT ![ProcOf[c]] = Nobody] ELSE mutex

-----------------------------------------------------------------------------
LockInit ==
    /\ status = [p \in Procs |-> "new"]
    /\ mutex = [p \in Procs |-> Nobody]
    /\ dir = FALSE
    /\ text = [f \in LockFiles |-> Absent]
    /\ linked = {}
    /\ pc = [c \in Calls |-> "idle"]
    /\ robbed = {} /\ left = {}

\* A process starts: no two running processes share a pid or a unit.
StartProcess(p) ==
    /\ status[p] = "new"
    /\ \A q \in Procs : Up(q) => PidOf[q] # PidOf[p] /\ UnitOf[q] # UnitOf[p]
    /\ status' = [status EXCEPT ![p] = "up"]
    /\ UNCHANGED <<mutex, dir, text, linked, pc, robbed, left>>

\* A process exits, or is killed between any two steps of its calls.
StopProcess(p) ==
    /\ Up(p)
    /\ status' = [status EXCEPT ![p] = "down"]
    /\ UNCHANGED <<mutex, dir, text, linked, pc, robbed, left>>

Begin(c) ==
    /\ Up(ProcOf[c]) /\ pc[c] = "idle"
    /\ Goto(c, "mutex")
    /\ UNCHANGED <<status, mutex, dir, text, linked, robbed, left>>

\* (mutant) no in-process mutex
LockNothing(c) ==
    /\ Up(ProcOf[c]) /\ pc[c] = "mutex"
    /\ mutex' = [mutex EXCEPT ![ProcOf[c]] = c]
    /\ Goto(c, "mkdir")
    /\ UNCHANGED <<status, dir, text, linked, robbed, left>>

LockMutex(c) ==
    /\ Up(ProcOf[c]) /\ pc[c] = "mutex"
    /\ mutex[ProcOf[c]] = Nobody
    /\ mutex' = [mutex EXCEPT ![ProcOf[c]] = c]
    /\ Goto(c, "mkdir")
    /\ UNCHANGED <<status, dir, text, linked, robbed, left>>

\* (mutant) create_dir_all, which takes a directory that is there
MkdirAll(c) ==
    /\ Up(ProcOf[c]) /\ pc[c] = "mkdir"
    /\ dir' = TRUE
    /\ Goto(c, "openPid")
    /\ UNCHANGED <<status, mutex, text, linked, robbed, left>>

\* create_dir: the directory is new, or is already there.
Mkdir(c) ==
    /\ Up(ProcOf[c]) /\ pc[c] = "mkdir"
    /\ dir' = TRUE
    /\ Goto(c, IF dir THEN "readOwner" ELSE "openPid")
    /\ UNCHANGED <<status, mutex, text, linked, robbed, left>>

\* create_dir fails for another reason and lock_file gives up.
MkdirError(c) ==
    /\ Up(ProcOf[c]) /\ pc[c] = "mkdir"
    /\ Leave(c, "failed")
    /\ UNCHANGED <<status, dir, text, linked, robbed, left>>

\* The first half of fs::write: open by name in whatever directory is there,
\* creating or truncating the file.
OpenLockFile(c) ==
    /\ Up(ProcOf[c]) /\ pc[c] \in {"openPid", "openOwner"}
    /\ dir
    /\ text' = [text EXCEPT ![FileAt[pc[c]]] = Empty]
    /\ linked' = linked \cup {c}
    /\ Goto(c, AfterCreateStep[pc[c]])
    /\ UNCHANGED <<status, mutex, dir, robbed, left>>

\* (mutant) the text is cut short and no longer names a process
WriteCutShort(c) ==
    /\ Up(ProcOf[c]) /\ pc[c] \in {"writePid", "writeOwner"}
    /\ text' = IF c \in linked THEN [text EXCEPT ![FileAt[pc[c]]] = "cut short"] ELSE text
    /\ linked' = linked \ {c}
    /\ Goto(c, AfterCreateStep[pc[c]])
    /\ UNCHANGED <<status, mutex, dir, robbed, left>>

\* The second half: the bytes go to the file that was opened, which another
\* process may have unlinked since.
WriteLockFile(c) ==
    /\ Up(ProcOf[c]) /\ pc[c] \in {"writePid", "writeOwner"}
    /\ text' = IF c \in linked THEN [text EXCEPT ![FileAt[pc[c]]] = ProcOf[c]] ELSE text
    /\ linked' = linked \ {c}
    /\ Goto(c, AfterCreateStep[pc[c]])
    /\ UNCHANGED <<status, mutex, dir, robbed, left>>

\* Either half fails: the directory is gone, or the disk is full.
WriteOwnerError(c) ==
    /\ Up(ProcOf[c]) /\ pc[c] \in CreateSteps
    /\ linked' = linked \ {c}
    /\ Goto(c, "undoFiles")
    /\ UNCHANGED <<status, mutex, dir, text, robbed, left>>

\* remove_stale_ticket_store_lock reads "owner" and, if it cannot, "pid"; a
\* live owner sends the waiter back to create_dir after its sleep.
ReadOwner(c) ==
    /\ Up(ProcOf[c]) /\ pc[c] = "readOwner"
    /\ Goto(c, CASE text["owner"] = Absent -> "readPid"
                 [] OwnerIsLive("owner") -> "mkdir"
                 [] OTHER -> "staleFiles")
    /\ UNCHANGED <<status, mutex, dir, text, linked, robbed, left>>

ReadPid(c) ==
    /\ Up(ProcOf[c]) /\ pc[c] = "readPid"
    /\ Goto(c, IF OwnerIsLive("pid") THEN "mkdir" ELSE "staleFiles")
    /\ UNCHANGED <<status, mutex, dir, text, linked, robbed, left>>

\* A read of the lock, or of /proc for the owner it names, fails for another
\* reason: unwrap_or_default and process_start_time make no owner of it.
ReadError(c) ==
    /\ Up(ProcOf[c]) /\ pc[c] \in {"readOwner", "readPid"}
    /\ \E step \in {"readPid", "staleFiles"} : Goto(c, step)
    /\ UNCHANGED <<status, mutex, dir, text, linked, robbed, left>>

\* Some of the files are unlinked; a call that has one of them open writes to it
\* in vain.
Unlink(files) ==
    /\ text' = [f \in LockFiles |-> IF f \in files THEN Absent ELSE text[f]]
    /\ linked' = {c \in linked : FileAt[pc[c]] \notin files}

\* The first half of remove_dir_all; without a directory it is over at once.
RemoveFiles(c) ==
    /\ Up(ProcOf[c]) /\ pc[c] \in RemoveSteps
    /\ Unlink(LockFiles)
    /\ Leave(c, IF dir THEN RmdirOf[pc[c]] ELSE AfterRemove[pc[c]])
    /\ UNCHANGED <<status, dir, robbed, left>>

\* The second half: rmdir takes only an empty directory, whoever has made it
\* since the first half.
RemoveDir(c) ==
    /\ Up(ProcOf[c]) /\ pc[c] \in RmdirSteps
    /\ dir' = (dir /\ \E f \in LockFiles : text[f] # Absent)
    /\ robbed' = IF dir /\ ~dir' THEN robbed \cup {d \in Calls : Owns(d)} ELSE robbed
    /\ Leave(c, AfterRemove[pc[c]])
    /\ UNCHANGED <<status, text, linked, left>>

\* remove_dir_all fails (no descriptor is free, or the directory is another
\* user's) with any of the files unlinked, and its caller ignores the error.
RemoveError(c) ==
    /\ Up(ProcOf[c]) /\ pc[c] \in RemoveSteps \cup RmdirSteps
    /\ \E files \in SUBSET LockFiles :
           Unlink(IF pc[c] \in RemoveSteps THEN files ELSE {})
    /\ left' = IF pc[c] \in {"undoFiles", "dropFiles"} THEN left \cup {c} ELSE left
    /\ Leave(c, AfterRemove[pc[c]])
    /\ UNCHANGED <<status, dir, robbed>>

\* (mutant) TicketFileLock has no Drop
EndWithoutDrop(c) ==
    /\ Up(ProcOf[c]) /\ pc[c] = "held"
    /\ Leave(c, "done")
    /\ UNCHANGED <<status, dir, text, linked, robbed, left>>

\* The method returns and TicketFileLock drops.
EndBody(c) ==
    /\ Up(ProcOf[c]) /\ pc[c] = "held"
    /\ Goto(c, "dropFiles")
    /\ UNCHANGED <<status, mutex, dir, text, linked, robbed, left>>

\* Every step of a call but the ones of the method's body.
LockStep(c) ==
    \/ LockMutex(c) \/ Mkdir(c) \/ MkdirError(c)
    \/ OpenLockFile(c) \/ WriteLockFile(c) \/ WriteOwnerError(c)
    \/ ReadOwner(c) \/ ReadPid(c) \/ ReadError(c)
    \/ RemoveFiles(c) \/ RemoveDir(c) \/ RemoveError(c)

ProcessStep(p) == StartProcess(p) \/ StopProcess(p)

LockNext ==
    \/ \E p \in Procs : ProcessStep(p)
    \/ \E c \in Calls : Begin(c) \/ LockStep(c) \/ EndBody(c)

LockSpec == LockInit /\ [][LockNext]_lockVars

\* A running process keeps executing its calls.  Nothing makes a process start,
\* stop or call, and no waiter is promised the mutex before another.
LockFairness == \A c \in Calls : WF_lockVars(LockStep(c) \/ EndBody(c))

FairLockSpec == LockSpec /\ LockFairness

-----------------------------------------------------------------------------
LockTypeOK ==
    /\ status \in [Procs -> {"new", "up", "down"}]
    /\ mutex \in [Procs -> Calls \cup {Nobody}]
    /\ dir \in BOOLEAN
    /\ text \in [LockFiles -> Procs \cup {Absent, Empty}]
    /\ linked \subseteq Calls
    /\ pc \in [Calls -> Steps]
    /\ robbed \subseteq Calls /\ left \subseteq Calls

\* One TicketStore call per process is past the mutex at a time, whatever
\* becomes of the lock directory: what `_guard` in every method promises.
OneCallPerProcess ==
    \A c, d \in Calls : Inside(c) /\ Inside(d) /\ ProcOf[c] = ProcOf[d] => c = d

\* No owner text outlives its call, but for a removal that failed: when the lock
\* names a process that runs, a call of that process is still on its way through
\* create, body or removal, or its own remove_dir_all failed.  Otherwise a
\* long-running server would look like the owner for as long as it runs, and no
\* waiter could take the lock.
NoOrphanLock ==
    \A f \in LockFiles : text[f] \in Procs /\ Up(text[f]) =>
        \E c \in Calls : ProcOf[c] = text[f] /\ (Inside(c) \/ c \in left)

\* What the lock directory is for: of two running calls in the methods' bodies, of
\* whatever processes, one has lost its directory to a call that removed it while
\* it ran.  Nothing else lets two of them in: no crash, no error in creating,
\* reading or removing a lock, and no reused pid.
Holds(c) == pc[c] = "held" /\ Up(ProcOf[c])
AtMostOneHolder ==
    \A c, d \in Calls : Holds(c) /\ Holds(d) /\ c # d => robbed \cap {c, d} # {}

\* The lock looks live with nobody at work under it: its process runs on after a
\* removal that failed, or one that stopped after writing "pid" and before making
\* "owner" has left a pid that another process has now.
Misleading ==
    \E p \in Procs : Up(p) /\
        \/ p \in {ProcOf[c] : c \in left} /\ \E f \in LockFiles : text[f] = p
        \/ /\ text["owner"] = Absent /\ text["pid"] \in Procs \ {p}
           /\ PidOf[text["pid"]] = PidOf[p]

AtRest(c) == pc[c] \in {"idle", "done", "failed"} \/ ~Up(ProcOf[c])

\* A call of a process that keeps running ends, whoever crashed with the lock in
\* hand and whoever removed it meanwhile, unless the lock is misleading from some
\* time on or the call's own reads or removals of it fail for ever: lock_file has no
\* other end.  (A call is made once, so one that is ever again at rest has ended.)
EveryCallEnds ==
    \A c \in Calls :
        []<>~Misleading /\ <>[][~(ReadError(c) \/ RemoveError(c))]_lockVars =>
            []<>AtRest(c)
=============================================================================
