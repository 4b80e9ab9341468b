--------------------------------- MODULE Keys ---------------------------------
(***************************************************************************)
(* The key files: the secret key of an endpoint with its lock (keys.rs     *)
(* 30-74, 151-224), and what the server does with its keys when it starts  *)
(* (server/mod.rs 58-84): the signing pair (keys.rs 88-149), the endpoint's*)
(* key and the address file that tickets are made from (ticket.rs 410-417).*)
(*                                                                         *)
(* Processes run once, from start to stop, and stop at any step.  A file is*)
(* absent, empty (opened, and nothing written yet) or holds the key of the *)
(* process that made it.  The lock is a symbolic link to its owner's pid   *)
(* and start time, made in one step.                                       *)
(***************************************************************************)
EXTENDS Naturals

CONSTANTS
    Procs,   \* processes
    None     \* no process

Absent == "absent"
Empty == "empty"
Contents == Procs \cup {Absent, Empty}

ASSUME KeysAssumption == Procs \cap {None, Absent, Empty} = {}

VARIABLES
    status,   \* status[p]: has process p started, has it stopped
    role,     \* role[p]: a client that builds, `drv-thru key show`, or a server
    pc,       \* pc[p]: its next step
    link,     \* the owner that the lock of the clients' key names, if there is a lock
    robbed,   \* history: clients whose lock another removed
    file,     \* the clients' key file and the server's
    key,      \* key[p]: the key that p has
    secret,   \* the secret half of the signing pair
    private,  \* only the server may read that file
    public,   \* the public half
    addr      \* the key of the endpoint that the address file names

vars == <<status, role, pc, link, robbed, file, key, secret, private, public, addr>>
lock == <<link, robbed>>
pair == <<secret, private, public>>
fixed == <<status, role>>

Roles == {"build", "show", "serve"}
Owners == {"client", "server"}
LockSteps == {"lock", "owner", "unlink"}
KeySteps == {"look", "create", "write", "read"}
ServeSteps == {"pair", "generate", "protect", "check", "announce"}
Steps == {"idle", "using", "serving", "done", "failed"}
         \cup LockSteps \cup KeySteps \cup ServeSteps

Up(p) == status[p] = "up"
Goto(p, step) == pc' = [pc EXCEPT ![p] = step]
Builds(p) == role[p] = "build"
Serves(p) == role[p] = "serve"
File(p) == IF Serves(p) THEN "server" ELSE "client"
At(p, step) == Up(p) /\ pc[p] = step

-----------------------------------------------------------------------------
Init ==
    /\ status = [p \in Procs |-> "new"] /\ role \in [Procs -> Roles]
    /\ pc = [p \in Procs |-> "idle"] /\ link = None /\ robbed = {}
    /\ file = [o \in Owners |-> Absent] /\ key = [p \in Procs |-> None]
    /\ secret = Absent /\ private = FALSE /\ public = Absent /\ addr = None

\* The server is a service: one at a time.
Start(p) ==
    /\ status[p] = "new"
    /\ Serves(p) => \A q \in Procs : Serves(q) => ~Up(q)
    /\ status' = [status EXCEPT ![p] = "up"]
    /\ Goto(p, IF Builds(p) THEN "lock" ELSE IF Serves(p) THEN "pair" ELSE "look")
    /\ UNCHANGED <<role, lock, file, key, pair, addr>>

\* A process exits, or is killed at any step: nothing of it is undone.
Stop(p) ==
    /\ Up(p)
    /\ status' = [status EXCEPT ![p] = "down"]
    /\ UNCHANGED <<role, pc, lock, file, key, pair, addr>>

-----------------------------------------------------------------------------
\* The lock.

\* (mutant) a link that is there is replaced.
CreateLockAnyway(p) ==
    /\ At(p, "lock")
    /\ link' = p
    /\ Goto(p, "look")
    /\ UNCHANGED <<fixed, robbed, file, key, pair, addr>>

\* create_key_file_lock: symlink fails if there is one.
CreateLock(p) ==
    /\ At(p, "lock")
    /\ IF link = None THEN link' = p /\ Goto(p, "look")
                      ELSE UNCHANGED link /\ Goto(p, "owner")
    /\ UNCHANGED <<fixed, robbed, file, key, pair, addr>>

\* (mutant) an owner that has stopped is taken for a live one.
ReadOwnerText(p) ==
    /\ At(p, "owner")
    /\ Goto(p, IF link # None THEN "lock" ELSE "unlink")
    /\ UNCHANGED <<fixed, lock, file, key, pair, addr>>

\* remove_stale_key_file_lock: a live owner is waited for.  Where there is no link
\* any more the owner's text is empty, which is not live either.
ReadOwner(p) ==
    /\ At(p, "owner")
    /\ Goto(p, IF link # None /\ Up(link) THEN "lock" ELSE "unlink")
    /\ UNCHANGED <<fixed, lock, file, key, pair, addr>>

\* remove_key_file_lock: whichever link is there now.
Unlink(p) ==
    /\ link' = None
    /\ robbed' = IF link \in {None, p} \/ ~Up(link) THEN robbed ELSE robbed \cup {link}

RemoveLock(p) ==
    /\ At(p, "unlink")
    /\ Unlink(p)
    /\ Goto(p, "lock")
    /\ UNCHANGED <<fixed, file, key, pair, addr>>

\* A call that ends, well or not, drops its KeyFileLock.
Leave(p, step) ==
    /\ Goto(p, step)
    /\ IF Builds(p) THEN Unlink(p) ELSE UNCHANGED lock

EndBuild(p) ==
    /\ At(p, "using")
    /\ Leave(p, "done")
    /\ UNCHANGED <<fixed, file, key, pair, addr>>

-----------------------------------------------------------------------------
\* load_or_create.

Look(p) ==
    /\ At(p, "look")
    /\ Goto(p, IF file[File(p)] = Absent THEN "create" ELSE "read")
    /\ UNCHANGED <<fixed, lock, file, key, pair, addr>>

\* (mutant) the file is opened whether it is there or not.
CreateAnyway(p) ==
    /\ At(p, "create")
    /\ file' = [file EXCEPT ![File(p)] = Empty]
    /\ Goto(p, "write")
    /\ UNCHANGED <<fixed, lock, key, pair, addr>>

\* write_new_key: create_new, which another may have done meanwhile ...
CreateKey(p) ==
    /\ At(p, "create")
    /\ IF file[File(p)] = Absent THEN file' = [file EXCEPT ![File(p)] = Empty] /\ Goto(p, "write")
                        ELSE UNCHANGED file /\ Goto(p, "read")
    /\ UNCHANGED <<fixed, lock, key, pair, addr>>

AfterKey(p) ==
    IF Builds(p) THEN "using" ELSE IF Serves(p) THEN "announce" ELSE "done"

\* ... and the write of the key.
WriteKey(p) ==
    /\ At(p, "write")
    /\ file' = [file EXCEPT ![File(p)] = p] /\ key' = [key EXCEPT ![p] = p]
    /\ Goto(p, AfterKey(p))
    /\ UNCHANGED <<fixed, lock, pair, addr>>

\* (mutant) whatever the file holds is taken for a key.
ReadUnparsed(p) ==
    /\ At(p, "read")
    /\ key' = [key EXCEPT ![p] = file[File(p)]]
    /\ Goto(p, AfterKey(p))
    /\ UNCHANGED <<fixed, lock, file, pair, addr>>

\* read_key: an empty file, of a process between the two steps or of one that
\* stopped there, does not parse.
ReadKey(p) ==
    /\ At(p, "read")
    /\ IF file[File(p)] = Empty THEN Leave(p, "failed") /\ UNCHANGED key
       ELSE /\ key' = [key EXCEPT ![p] = file[File(p)]]
            /\ Goto(p, AfterKey(p)) /\ UNCHANGED lock
    /\ UNCHANGED <<fixed, file, pair, addr>>

-----------------------------------------------------------------------------
\* The start of the server.

\* (mutant) the public half is enough.
LookAtPublic(p) ==
    /\ At(p, "pair")
    /\ Goto(p, IF public # Absent THEN "check" ELSE "generate")
    /\ UNCHANGED <<fixed, lock, file, key, pair, addr>>

\* load_or_create_signing_key: both files, or neither.
LookAtPair(p) ==
    /\ At(p, "pair")
    /\ Goto(p, IF secret # Absent /\ public # Absent THEN "check"
               ELSE IF secret = Absent /\ public = Absent THEN "generate" ELSE "failed")
    /\ UNCHANGED <<fixed, lock, file, key, pair, addr>>

\* nix-store --generate-binary-cache-key, which opens and writes both files, in an
\* order and with permissions that are its own; it may fail half-way.
Generate(p) ==
    /\ At(p, "generate")
    /\ \/ /\ secret = Absent /\ secret' = Empty /\ private' \in BOOLEAN
          /\ UNCHANGED <<public, pc>>
       \/ secret = Empty /\ secret' = p /\ UNCHANGED <<private, public, pc>>
       \/ public = Absent /\ public' = Empty /\ UNCHANGED <<secret, private, pc>>
       \/ public = Empty /\ public' = p /\ UNCHANGED <<secret, private, pc>>
       \/ secret = p /\ public = p /\ Goto(p, "protect") /\ UNCHANGED pair
    /\ UNCHANGED <<fixed, lock, file, key, addr>>

GenerateFails(p) ==
    /\ At(p, "generate")
    /\ Goto(p, "failed")
    /\ UNCHANGED <<fixed, lock, file, key, pair, addr>>

Protect(p) ==
    /\ At(p, "protect")
    /\ private' = TRUE
    /\ Goto(p, "check")
    /\ UNCHANGED <<fixed, lock, file, key, secret, public, addr>>

\* check_key_permissions and read_public_signing_key.  The secret half is not read.
CheckPair(p) ==
    /\ At(p, "check")
    /\ Goto(p, IF private /\ public # Empty THEN "look" ELSE "failed")
    /\ UNCHANGED <<fixed, lock, file, key, pair, addr>>

\* save_server_addr: one atomic write, when the endpoint is bound.
SaveAddress(p) ==
    /\ At(p, "announce")
    /\ addr' = key[p]
    /\ Goto(p, "serving")
    /\ UNCHANGED <<fixed, lock, file, key, pair>>

-----------------------------------------------------------------------------
LockStep(p) == CreateLock(p) \/ ReadOwner(p) \/ RemoveLock(p)
KeyStep(p) == Look(p) \/ CreateKey(p) \/ WriteKey(p) \/ ReadKey(p)
ServeStep(p) ==
    LookAtPair(p) \/ Generate(p) \/ GenerateFails(p) \/ Protect(p) \/ CheckPair(p) \/ SaveAddress(p)

Run(p) == LockStep(p) \/ KeyStep(p) \/ ServeStep(p) \/ EndBuild(p)

Next == \E p \in Procs : Start(p) \/ Stop(p) \/ Run(p)

Spec == Init /\ [][Next]_vars

\* A process that runs takes its next step; a build ends.
FairSpec == Spec /\ \A p \in Procs : WF_vars(Run(p))

-----------------------------------------------------------------------------
\* Types of the state.
TypeOK ==
    /\ status \in [Procs -> {"new", "up", "down"}] /\ role \in [Procs -> Roles]
    /\ pc \in [Procs -> Steps]
    /\ link \in Procs \cup {None} /\ robbed \subseteq Procs
    /\ file \in [Owners -> Contents] /\ key \in [Procs -> Procs \cup {None}]
    /\ secret \in Contents /\ private \in BOOLEAN /\ public \in Contents
    /\ addr \in Procs \cup {None}

\* Every process that has a key has the one in the file, whichever of them were the
\* first, with the lock or without, and whatever stopped between the two steps of
\* making it: a client that an operator has named by its key stays that client, and
\* the address in every ticket stays the server's.
OneKeyForAll ==
    /\ \A p \in Procs : key[p] # None => file[File(p)] = key[p]
    /\ addr # None => file["server"] = addr

Holds(p) == Up(p) /\ Builds(p) /\ pc[p] \in KeySteps \cup {"using"}

\* "client key in use; waiting": two clients use the key at once only if the lock of
\* one was removed under it.
SharedOnlyIfRobbed ==
    \A p, q \in Procs : p # q /\ Holds(p) /\ Holds(q) => robbed \cap {p, q} # {}

\* A server that serves signs as the public key it announces, or, after a start that
\* stopped between opening and writing the secret half, not at all: never with a
\* half of another pair, and never with a file that others can read.
SignsAsAnnounced ==
    \A p \in Procs :
        At(p, "serving") => public \in Procs /\ secret \in {Empty, public} /\ private

\* A client that waits for the key gets it, or fails, also when the one before it
\* stopped without giving it back.
EveryWaiterEnds ==
    \A p \in Procs : At(p, "lock") ~> ~Up(p) \/ pc[p] \in {"done", "failed"}
=============================================================================
