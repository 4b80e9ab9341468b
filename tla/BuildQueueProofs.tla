--------------------------- MODULE BuildQueueProofs ---------------------------
(***************************************************************************)
(* Proofs about BuildQueue, for any number of connections, permits, recent *)
(* entries and restarts.  First the semaphore: at most MaxBuilds handlers  *)
(* are ever admitted, and no way a build can end loses a permit.  Then the *)
(* registry: each entry is that of one handler, and tells where it is.     *)
(***************************************************************************)
EXTENDS BuildQueue, FiniteSetTheorems, SequenceTheorems, TLAPS

\* What is inductive about PermitsConserved: the two variables it reads have
\* their types, and permits are free or held.
AdmissionInv ==
    /\ pc \in [Conns -> Places]
    /\ permits \in Nat
    /\ permits + Cardinality(Holders) = MaxBuilds

LEMMA HoldersFinite == IsFiniteSet(Holders) /\ Cardinality(Holders) \in Nat
  <1>1. Holders \subseteq Conns  BY DEF Holders
  <1>2. IsFiniteSet(Holders)  BY <1>1, QueueAssumption, FS_Subset
  <1> QED  BY <1>2, FS_CardinalityType

\* A handler that moves between two places outside the permit, or between two
\* inside it, changes neither side of the sum.
LEMMA MoveKeepsAdmission ==
  ASSUME AdmissionInv, NEW c \in Conns, NEW place \in Places,
         Goto(c, place), permits' = permits,
         (pc[c] = "granted" \/ pc[c] \in Running) <=> (place = "granted" \/ place \in Running)
  PROVE  AdmissionInv'
  <1>1. pc' \in [Conns -> Places]  BY DEF AdmissionInv, Goto
  <1>2. \A d \in Conns : pc'[d] = IF d = c THEN place ELSE pc[d]
        BY DEF AdmissionInv, Goto
  <1>3. Holders' = Holders  BY <1>2 DEF Holders
  <1> QED  BY <1>1, <1>3 DEF AdmissionInv

\* acquire_owned takes one permit for one more holder.
LEMMA GrantKeepsAdmission ==
  ASSUME AdmissionInv, NEW c \in Conns, Grant(c)
  PROVE  AdmissionInv'
  <1>1. pc' \in [Conns -> Places]
        BY DEF AdmissionInv, Grant, Goto, Places, Queueing
  <1>2. \A d \in Conns : pc'[d] = IF d = c THEN "granted" ELSE pc[d]
        BY DEF AdmissionInv, Grant, Goto
  <1>3. c \notin Holders  BY DEF Grant, Holders, Running, Phases
  <1>4. Holders' = Holders \cup {c}  BY <1>2 DEF Holders
  <1>5. Cardinality(Holders') = Cardinality(Holders) + 1
        BY <1>3, <1>4, HoldersFinite, FS_AddElement
  <1>6. permits > 0 /\ permits' = permits - 1  BY DEF Grant
  <1>7. permits' \in Nat  BY <1>6 DEF AdmissionInv
  <1>8. permits' + Cardinality(Holders') = MaxBuilds
        BY <1>5, <1>6, HoldersFinite, QueueAssumption DEF AdmissionInv
  <1> QED  BY <1>1, <1>7, <1>8 DEF AdmissionInv

\* The end of run_when_permitted gives one permit back for one holder less,
\* whatever the result.
LEMMA EndRunKeepsAdmission ==
  ASSUME AdmissionInv, NEW c \in Conns, EndRun(c)
  PROVE  AdmissionInv'
  <1>0. pc[c] \in Phases /\ permits' = permits + 1 /\ Goto(c, "record")
        BY DEF EndRun, PermitsAfter, Phases
  <1>1. pc' \in [Conns -> Places]  BY <1>0 DEF AdmissionInv, Goto, Places
  <1>2. \A d \in Conns : pc'[d] = IF d = c THEN "record" ELSE pc[d]
        BY <1>0 DEF AdmissionInv, Goto
  <1>3. c \in Holders  BY <1>0 DEF Holders, Running
  <1>4. Holders' = Holders \ {c}  BY <1>2 DEF Holders, Running, Phases
  <1>5. Cardinality(Holders') = Cardinality(Holders) - 1
        BY <1>3, <1>4, HoldersFinite, FS_RemoveElement
  <1>6. permits' \in Nat  BY <1>0 DEF AdmissionInv
  <1>7. permits' + Cardinality(Holders') = MaxBuilds
        BY <1>0, <1>5, HoldersFinite, QueueAssumption DEF AdmissionInv
  <1> QED  BY <1>1, <1>6, <1>7 DEF AdmissionInv

\* A restart has a fresh semaphore, and no handler survives it.
LEMMA RestartKeepsAdmission ==
  ASSUME AdmissionInv, Restart
  PROVE  AdmissionInv'
  <1>1. pc' \in [Conns -> {"new", "cut"}]  BY DEF Restart
  <1>2. Holders' = {}  BY <1>1 DEF Holders, Running, Phases
  <1>3. Cardinality(Holders') = 0  BY <1>2, FS_EmptySet
  <1>4. pc' \in [Conns -> Places]  BY <1>1 DEF Places, Ended
  <1>5. permits' = MaxBuilds  BY DEF Restart
  <1> QED  BY <1>3, <1>4, <1>5, QueueAssumption DEF AdmissionInv

\* Permits are free or held, in every reachable state.
THEOREM AdmissionInvariant == Spec => []AdmissionInv
  <1>1. Init => AdmissionInv
    <2> SUFFICES ASSUME Init PROVE AdmissionInv  OBVIOUS
    <2>1. pc \in [Conns -> Places]  BY DEF Init, Places
    <2>2. Holders = {}  BY DEF Init, Holders, Running, Phases
    <2>3. Cardinality(Holders) = 0  BY <2>2, FS_EmptySet
    <2> QED  BY <2>1, <2>3, QueueAssumption DEF Init, AdmissionInv
  <1>2. AdmissionInv /\ [Next]_vars => AdmissionInv'
    <2> SUFFICES ASSUME AdmissionInv, [Next]_vars PROVE AdmissionInv'  OBVIOUS
    <2>1. ASSUME NEW c \in Conns, Enqueue(c) PROVE AdmissionInv'
          BY <2>1, MoveKeepsAdmission DEF Enqueue, Places, Queueing, Running, Phases
    <2>2. ASSUME NEW c \in Conns, SendBuildQueued(c) PROVE AdmissionInv'
          BY <2>2, MoveKeepsAdmission DEF SendBuildQueued, Places, Queueing, Running, Phases
    <2>3. ASSUME NEW c \in Conns, SendBuildQueuedError(c) PROVE AdmissionInv'
          BY <2>3, MoveKeepsAdmission
          DEF SendBuildQueuedError, Places, Ended, Running, Phases
    <2>4. ASSUME NEW c \in Conns, Join(c) PROVE AdmissionInv'
          BY <2>4, MoveKeepsAdmission DEF Join, Places, Queueing, Running, Phases
    <2>5. ASSUME NEW c \in Conns, Start(c) PROVE AdmissionInv'
          BY <2>5, MoveKeepsAdmission DEF Start, Places, Running, Phases
    <2>6. ASSUME NEW c \in Conns, Advance(c) PROVE AdmissionInv'
      <3>1. PICK phase \in Phases : /\ <<pc[c], phase>> \in NextPhase
                                    /\ Goto(c, phase) /\ permits' = permits
            BY <2>6 DEF Advance
      <3>2. pc[c] \in Running /\ phase \in Running /\ phase \in Places
            BY <3>1 DEF NextPhase, Running, Phases, Places
      <3> QED  BY <3>1, <3>2, MoveKeepsAdmission
    <2>7. ASSUME NEW c \in Conns, Record(c) PROVE AdmissionInv'
          BY <2>7, MoveKeepsAdmission DEF Record, Places, Ended, Running, Phases
    <2>8. CASE Heartbeat
          BY <2>8 DEF Heartbeat, AdmissionInv, Holders
    <2>9. CASE UNCHANGED vars
          BY <2>9 DEF vars, AdmissionInv, Holders
    <2> QED
          BY <2>1, <2>2, <2>3, <2>4, <2>5, <2>6, <2>7, <2>8, <2>9,
             GrantKeepsAdmission, EndRunKeepsAdmission, RestartKeepsAdmission
          DEF Next, Handle
  <1> QED  BY <1>1, <1>2, PTL DEF Spec

\* At most max_concurrent_builds builds are admitted and no permit is lost.
THEOREM NoPermitLost == Spec => []PermitsConserved
  <1>1. AdmissionInv => PermitsConserved
        BY HoldersFinite, QueueAssumption DEF AdmissionInv, PermitsConserved
  <1> QED  BY <1>1, AdmissionInvariant, PTL

-----------------------------------------------------------------------------
\* The lists of the registry.
\* Each request is in the list at most once.
Unique(entries) == \A i, j \in DOMAIN entries : entries[i].id = entries[j].id => i = j

\* What a list holds after one of its entries was taken out: the others.
LEMMA WithoutOne ==
  ASSUME NEW S, NEW entries \in Seq(S), NEW n, Unique(entries)
  PROVE  /\ Without(entries, n) \in Seq(S)
         /\ Unique(Without(entries, n))
         /\ \A i \in DOMAIN Without(entries, n) :
                /\ Without(entries, n)[i].id # n
                /\ \E j \in DOMAIN entries : Without(entries, n)[i] = entries[j]
         /\ \A j \in DOMAIN entries : entries[j].id # n =>
                \E i \in DOMAIN Without(entries, n) : Without(entries, n)[i] = entries[j]
  <1>1. CASE n \notin IdsIn(entries)
    BY <1>1 DEF Without, IdsIn
  <1>2. CASE n \in IdsIn(entries)
    <2> DEFINE at == Position(entries, n)
               rest == Without(entries, n)
               last == Len(entries) - 1
    <2>1. DOMAIN entries = 1..Len(entries) /\ Len(entries) \in Nat
      BY LenProperties
    <2>2. at \in 1..Len(entries) /\ entries[at].id = n
      <3>1. PICK k \in 1..Len(entries) : entries[k].id = n
        BY <1>2, <2>1 DEF IdsIn
      <3>2. \A j \in 1..(k - 1) : entries[j].id # n
        BY <2>1, <3>1 DEF Unique
      <3> QED
        BY <2>1, <3>1, <3>2 DEF Position
    <2>3. last \in Nat /\ last + 1 = Len(entries)
      BY <2>1, <2>2
    <2>4. rest = [i \in 1..last |-> entries[IF i < at THEN i ELSE i + 1]]
      BY <1>2 DEF Without
    <2>5. \A i \in 1..last : (IF i < at THEN i ELSE i + 1) \in (1..Len(entries)) \ {at}
      BY <2>2, <2>3
    <2>6. \A i \in 1..Len(entries) : entries[i] \in S
      BY ElementOfSeq
    <2>7. rest \in Seq(S) /\ DOMAIN rest = 1..last
      <3>1. rest \in [1..last -> S]
        BY <2>4, <2>5, <2>6
      <3> HIDE DEF rest
      <3> QED
        BY <2>3, <3>1, SeqDef
    <2>8. \A i \in 1..last : rest[i].id # n
      BY <2>1, <2>2, <2>4, <2>5 DEF Unique
    <2>9. \A j \in (1..Len(entries)) \ {at} :
             LET i == IF j < at THEN j ELSE j - 1
             IN  i \in 1..last /\ rest[i] = entries[j]
      BY <2>2, <2>3, <2>4
    <2>10. Unique(rest)
      <3> SUFFICES ASSUME NEW i \in 1..last, NEW j \in 1..last, rest[i].id = rest[j].id
                   PROVE  i = j
        BY <2>7 DEF Unique
      <3>1. (IF i < at THEN i ELSE i + 1) = (IF j < at THEN j ELSE j + 1)
        BY <2>1, <2>4, <2>5 DEF Unique
      <3> QED
        BY <2>2, <3>1
    <2> HIDE DEF rest, at
    <2>11. \A j \in DOMAIN entries : entries[j].id # n => \E i \in DOMAIN rest : rest[i] = entries[j]
      BY <2>1, <2>2, <2>7, <2>9
    <2>12. \A i \in DOMAIN rest : \E j \in DOMAIN entries : rest[i] = entries[j]
      BY <2>1, <2>4, <2>5, <2>7
    <2> QED
      BY <2>7, <2>8, <2>10, <2>11, <2>12 DEF rest
  <1> QED
    BY <1>1, <1>2

\* `push` adds its entry and keeps the others.
LEMMA PushOne ==
  ASSUME NEW S, NEW entries \in Seq(S), NEW e \in S, Unique(entries), e.id \notin IdsIn(entries)
  PROVE  /\ Append(entries, e) \in Seq(S)
         /\ Unique(Append(entries, e))
         /\ \A i \in DOMAIN Append(entries, e) :
                \/ Append(entries, e)[i] = e
                \/ \E j \in DOMAIN entries : Append(entries, e)[i] = entries[j]
         /\ \A j \in DOMAIN entries :
                \E i \in DOMAIN Append(entries, e) : Append(entries, e)[i] = entries[j]
         /\ \E i \in DOMAIN Append(entries, e) : Append(entries, e)[i] = e
  <1> DEFINE longer == Append(entries, e)
             n == Len(entries)
  <1>1. n \in Nat /\ DOMAIN entries = 1..n
    BY LenProperties
  <1>2. /\ longer \in Seq(S) /\ Len(longer) = n + 1
        /\ \A i \in 1..n : longer[i] = entries[i]
        /\ longer[n + 1] = e
    BY AppendProperties
  <1>3. DOMAIN longer = 1..(n + 1)
    BY <1>2, LenProperties
  <1>4. \A i \in 1..n : entries[i].id # e.id
    BY <1>1 DEF IdsIn
  <1> HIDE DEF longer, n
  <1>5. \A i \in 1..(n + 1) : i \in 1..n \/ i = n + 1
    BY <1>1
  <1>6. \A i \in 1..n : i \in 1..(n + 1)
    BY <1>1
  <1>7. n + 1 \in 1..(n + 1)
    BY <1>1
  <1>8. Unique(longer)
    BY <1>1, <1>2, <1>3, <1>4, <1>5 DEF Unique
  <1> QED
    BY <1>1, <1>2, <1>3, <1>5, <1>6, <1>7, <1>8 DEF longer

\* `insert(0, ..)` and `truncate`: the first few of the new entry and the old ones.
LEMMA InsertFirst ==
  ASSUME NEW S, NEW entries \in Seq(S), NEW e \in S, Unique(entries), e.id \notin IdsIn(entries)
  PROVE  /\ FirstFew(<<e>> \o entries) \in Seq(S)
         /\ Unique(FirstFew(<<e>> \o entries))
         /\ Len(FirstFew(<<e>> \o entries)) <= RecentLimit
         /\ \A i \in DOMAIN FirstFew(<<e>> \o entries) :
                \/ FirstFew(<<e>> \o entries)[i] = e
                \/ \E j \in DOMAIN entries : FirstFew(<<e>> \o entries)[i] = entries[j]
  <1> DEFINE n == Len(entries)
             longer == <<e>> \o entries
             few == FirstFew(longer)
             m == IF n + 1 < RecentLimit THEN n + 1 ELSE RecentLimit
  <1>1. n \in Nat /\ DOMAIN entries = 1..n
    BY LenProperties
  <1>2. <<e>> \in Seq(S) /\ Len(<<e>>) = 1 /\ <<e>>[1] = e
    OBVIOUS
  <1>3. /\ longer \in Seq(S) /\ Len(longer) = n + 1
        /\ longer[1] = e
        /\ \A i \in 2..(n + 1) : longer[i] = entries[i - 1]
    <2>1. /\ longer \in Seq(S) /\ Len(longer) = 1 + n
          /\ \A i \in 1..(1 + n) : longer[i] = IF i <= 1 THEN <<e>>[i] ELSE entries[i - 1]
      BY <1>1, <1>2, ConcatProperties
    <2> HIDE DEF longer
    <2> QED
      BY <1>1, <1>2, <2>1
  <1> HIDE DEF longer
  <1>4. few = SubSeq(longer, 1, m)
    BY <1>3 DEF FirstFew
  <1>5. m \in Nat /\ m <= n + 1 /\ m <= RecentLimit
    BY <1>1, QueueAssumption
  <1> HIDE DEF few, m
  <1>6. \A i \in 1..m : longer[i] \in S
    BY <1>1, <1>3, <1>5, ElementOfSeq
  <1>7. /\ few \in Seq(S) /\ Len(few) = m
        /\ \A i \in 1..m : few[i] = longer[i]
    <2>1. /\ few \in Seq(S) /\ Len(few) = IF 1 <= m THEN m - 1 + 1 ELSE 0
          /\ \A i \in 1..(m - 1 + 1) : few[i] = longer[1 + i - 1]
      BY <1>4, <1>5, <1>6, SubSeqProperties
    <2> QED
      BY <1>5, <2>1
  <1>8. DOMAIN few = 1..m
    BY <1>7, LenProperties
  <1>9. \A i \in 1..m : i = 1 \/ (i - 1 \in 1..n /\ few[i] = entries[i - 1])
    BY <1>1, <1>3, <1>5, <1>7
  <1>10. \A i \in 1..m : i = 1 => few[i] = e
    BY <1>3, <1>7
  <1>11. \A i \in 1..n : entries[i].id # e.id
    BY <1>1 DEF IdsIn
  <1>12. Unique(few)
    <2> SUFFICES ASSUME NEW i \in 1..m, NEW j \in 1..m, few[i].id = few[j].id
                 PROVE  i = j
      BY <1>8 DEF Unique
    <2>1. CASE i = 1 /\ j = 1
      BY <2>1
    <2>2. CASE i # 1 /\ j # 1
      <3>1. i - 1 = j - 1
        BY <1>1, <1>9, <2>2 DEF Unique
      <3> QED
        BY <3>1, <1>5
    <2>3. CASE (i = 1) # (j = 1)
      BY <1>9, <1>10, <1>11, <2>3
    <2> QED
      BY <2>1, <2>2, <2>3
  <1> QED
    BY <1>1, <1>5, <1>7, <1>8, <1>9, <1>10, <1>12 DEF few, longer

-----------------------------------------------------------------------------
\* A handler that has entered its request and was not cut off by a restart.
Alive(c) == pc[c] \notin {"new", "cut"}

\* The handlers' requests have ids of their own, and a handler knows its id, or
\* was told "build-unknown".
IdsInv ==
    /\ \A c \in Conns : Alive(c) => entry[c] \in 1..nextSeq /\ id[c] \in {entry[c], Unknown}
    /\ \A c, d \in Conns : Alive(c) /\ Alive(d) /\ entry[c] = entry[d] => c = d
    /\ \A c \in Conns : pc[c] = "record" => outcome[c] # "none"

\* Whose an entry of each list is.
Queues(c, e) == Alive(c) /\ entry[c] = e.id /\ (pc[c] \in Queueing \/ id[c] = Unknown)
Runs(c, e) ==
    /\ entry[c] = e.id /\ id[c] # Unknown /\ pc[c] \in Running \cup {"record"}
    /\ pc[c] \in Running => e.phase = pc[c]
HasEnded(c, e) ==
    pc[c] = "gone" /\ entry[c] = e.id /\ id[c] # Unknown /\ outcome[c] = e.result

QueuedInv ==
    /\ Unique(registry.queued)
    /\ \A i \in DOMAIN registry.queued : \E c \in Conns : Queues(c, registry.queued[i])
ActiveInv ==
    /\ Unique(registry.active)
    /\ \A i \in DOMAIN registry.active : \E c \in Conns : Runs(c, registry.active[i])
RecentInv ==
    /\ Unique(registry.recent) /\ Len(registry.recent) <= RecentLimit
    /\ \A i \in DOMAIN registry.recent : \E c \in Conns : HasEnded(c, registry.recent[i])

\* TypeOK but for the semaphore, which AdmissionInv bounds.
RegistryTypes ==
    /\ pc \in [Conns -> Places]
    /\ id \in [Conns -> Nat] /\ entry \in [Conns -> Nat]
    /\ outcome \in [Conns -> {"none", "success", "failed", "error"}]
    /\ nextSeq \in Nat
    /\ registry \in Snapshot /\ disk \in Snapshot

RegistryInv ==
    RegistryTypes /\ IdsInv /\ QueuedInv /\ ActiveInv /\ RecentInv /\ RegistryTellsTruth

\* What c moves with, and what stays of the others.
Moves(c) ==
    \A d \in Conns \ {c} : /\ pc'[d] = pc[d] /\ id'[d] = id[d]
                           /\ entry'[d] = entry[d] /\ outcome'[d] = outcome[d]

\* A handler's request is in the list its place says, and in no other.
LEMMA OwnEntry ==
  ASSUME RegistryInv, NEW c \in Conns, Alive(c), id[c] # Unknown
  PROVE  /\ id[c] = entry[c] /\ id[c] \in Nat \ {0}
         /\ pc[c] \in Queueing =>
                /\ id[c] \in IdsIn(registry.queued)
                /\ id[c] \notin IdsIn(registry.active) /\ id[c] \notin IdsIn(registry.recent)
         /\ pc[c] \in Running \cup {"record"} =>
                /\ id[c] \in IdsIn(registry.active)
                /\ id[c] \notin IdsIn(registry.queued) /\ id[c] \notin IdsIn(registry.recent)
  <1> USE DEF RegistryInv
  <1>1. id[c] = entry[c] /\ entry[c] \in 1..nextSeq /\ nextSeq \in Nat
    BY DEF IdsInv, RegistryTypes
  <1>2. \A d \in Conns : Alive(d) /\ entry[d] = id[c] => d = c
    BY <1>1 DEF IdsInv
  <1>3. CASE pc[c] \in Queueing
    <2>1. pc[c] \notin Running \cup {"record", "gone"}
      BY <1>3 DEF Queueing, Running, Phases
    <2>2. id[c] \in IdsIn(registry.queued)
      BY <1>3 DEF RegistryTellsTruth, IdsIn
    <2>3. id[c] \notin IdsIn(registry.active)
      BY <1>2, <2>1 DEF ActiveInv, Runs, IdsIn, Alive, Running, Phases
    <2>4. id[c] \notin IdsIn(registry.recent)
      BY <1>2, <2>1 DEF RecentInv, HasEnded, IdsIn, Alive
    <2> QED
      BY <1>1, <2>1, <2>2, <2>3, <2>4
  <1>4. CASE pc[c] \in Running \cup {"record"}
    <2>1. pc[c] \notin Queueing \cup {"gone"}
      BY <1>4 DEF Queueing, Running, Phases
    <2>2. id[c] \in IdsIn(registry.active)
      BY <1>4 DEF RegistryTellsTruth, IdsIn
    <2>3. id[c] \notin IdsIn(registry.queued)
      BY <1>2, <2>1 DEF QueuedInv, Queues, IdsIn, Alive
    <2>4. id[c] \notin IdsIn(registry.recent)
      BY <1>2, <2>1 DEF RecentInv, HasEnded, IdsIn, Alive
    <2> QED
      BY <1>1, <2>1, <2>2, <2>3, <2>4
  <1> QED
    BY <1>1, <1>3, <1>4

\* "build-unknown" is nobody's entry, and the next id is nobody's yet.
LEMMA NobodysEntry ==
  ASSUME RegistryInv, NEW n, n = Unknown \/ n = nextSeq + 1
  PROVE  /\ n \notin IdsIn(registry.queued) /\ n \notin IdsIn(registry.active)
         /\ n \notin IdsIn(registry.recent)
  <1> USE DEF RegistryInv
  <1>1. \A c \in Conns : Alive(c) => entry[c] # n
    BY DEF IdsInv, RegistryTypes, Unknown
  <1>2. n \notin IdsIn(registry.queued)
    BY <1>1 DEF QueuedInv, Queues, IdsIn
  <1>3. n \notin IdsIn(registry.active)
    BY <1>1 DEF ActiveInv, Runs, IdsIn, Alive, Running, Phases
  <1>4. n \notin IdsIn(registry.recent)
    BY <1>1 DEF RecentInv, HasEnded, IdsIn, Alive
  <1> QED
    BY <1>2, <1>3, <1>4

\* A step that leaves the registry alone, from one place of a handler to another
\* of the same meaning.
LEMMA MoveKeepsRegistry ==
  ASSUME RegistryInv, NEW c \in Conns, Moves(c), RegistryTypes',
         UNCHANGED <<id, entry, registry, nextSeq>>,
         Alive(c), Alive(c)', pc[c] # "gone", pc'[c] # "gone",
         pc[c] \in Queueing <=> pc'[c] \in Queueing,
         pc[c] \in Running \cup {"record"} <=> pc'[c] \in Running \cup {"record"},
         pc'[c] \in Running => pc'[c] = pc[c],
         pc'[c] = "record" => outcome'[c] # "none"
  PROVE  RegistryInv'
  <1> USE DEF RegistryInv
  <1>1. \A d \in Conns : Alive(d) <=> Alive(d)'
    BY DEF Moves, Alive
  <1>2. IdsInv'
    BY <1>1 DEF IdsInv, Moves
  <1>3. \A d \in Conns : \A e : Queues(d, e) => Queues(d, e)'
    BY <1>1 DEF Queues, Moves
  <1>4. QueuedInv'
    BY <1>3 DEF QueuedInv
  <1>5. \A d \in Conns : \A e : Runs(d, e) => Runs(d, e)'
    BY DEF Runs, Moves
  <1>6. ActiveInv'
    BY <1>5 DEF ActiveInv
  <1>7. \A d \in Conns : \A e : HasEnded(d, e) => HasEnded(d, e)'
    BY DEF HasEnded, Moves
  <1>8. RecentInv'
    BY <1>7 DEF RecentInv
  <1>9. RegistryTellsTruth'
    BY DEF RegistryTellsTruth, Moves
  <1> QED
    BY <1>2, <1>4, <1>6, <1>8, <1>9

Results == {"success", "failed", "error"}
ActiveEntry == [id : Nat, phase : Running]
RecentEntry == [id : Nat, result : Results]

\* The end of a request: its entry goes to `recent` from where it is, and a request
\* whose handler was told "build-unknown" changes nothing.
LEMMA FinishKeepsRegistry ==
  ASSUME RegistryInv, NEW c \in Conns, pc[c] \in {"announce", "record"},
         pc' = [pc EXCEPT ![c] = "gone"], Moves(c),
         outcome' \in [Conns -> {"none"} \cup Results], outcome'[c] \in Results,
         UNCHANGED <<id, entry, nextSeq>>,
         Update(Finished(registry, id[c], outcome'[c]))
  PROVE  RegistryInv'
  <1>n. PICK n : n = id[c]
    OBVIOUS
  <1>e. PICK new : new = [id |-> n, result |-> outcome'[c]]
    OBVIOUS
  <1> USE DEF RegistryInv
  <1>0. registry' = Finished(registry, n, outcome'[c]) /\ disk' \in {registry', disk}
    BY <1>n DEF Update
  <1>1. pc' \in [Conns -> Places] /\ pc'[c] = "gone" /\ Alive(c) /\ Alive(c)'
    BY DEF RegistryTypes, Places, Ended, Alive
  <1>2. \A d \in Conns : Alive(d) <=> Alive(d)'
    BY <1>1 DEF Moves, Alive
  <1>3. IdsInv'
    <2>1. \A d \in Conns : pc'[d] = "record" => outcome'[d] # "none"
      BY ONLY <1>1, IdsInv, Moves(c) DEF IdsInv, Moves
    <2>2. \A d \in Conns : Alive(d)' => entry'[d] \in 1..nextSeq' /\ id'[d] \in {entry'[d], Unknown}
      BY <1>1, <1>2 DEF IdsInv
    <2>3. \A d, e \in Conns : Alive(d)' /\ Alive(e)' /\ entry'[d] = entry'[e] => d = e
      BY <1>1, <1>2 DEF IdsInv
    <2> QED
      BY <2>1, <2>2, <2>3 DEF IdsInv
  <1>4. /\ registry.queued \in Seq([id : Nat])
        /\ registry.active \in Seq(ActiveEntry)
        /\ registry.recent \in Seq(RecentEntry)
        /\ registry = [queued |-> registry.queued, active |-> registry.active,
                       recent |-> registry.recent]
    BY DEF RegistryTypes, Snapshot, Results, ActiveEntry, RecentEntry
  <1>5. CASE n = Unknown
    <2>1. registry' = registry
      BY <1>n, <1>0, <1>n, <1>5, NobodysEntry DEF Finished
    <2>2. RegistryTypes'
      BY <1>0, <1>1, <2>1 DEF RegistryTypes, Results
    <2>3. \A d \in Conns : \A e : Queues(d, e) => Queues(d, e)'
      BY <1>n, <1>2, <1>5 DEF Queues, Moves
    <2>4. \A d \in Conns : \A e : Runs(d, e) => Runs(d, e)'
      BY <1>n, <1>5 DEF Runs, Moves
    <2>5. \A d \in Conns : \A e : HasEnded(d, e) => HasEnded(d, e)'
      BY <1>n, <1>5 DEF HasEnded, Moves
    <2>6. RegistryTellsTruth'
      <3> SUFFICES ASSUME NEW d \in Conns, id'[d] # Unknown
                   PROVE  /\ pc'[d] \in Queueing =>
                                 \E i \in DOMAIN registry'.queued : registry'.queued[i].id = id'[d]
                          /\ pc'[d] \in Running \cup {"record"} =>
                                 \E i \in DOMAIN registry'.active :
                                     /\ registry'.active[i].id = id'[d]
                                     /\ pc'[d] \in Running => registry'.active[i].phase = pc'[d]
        BY DEF RegistryTellsTruth
      <3>1. pc'[d] = pc[d] /\ id'[d] = id[d]
        BY <1>n, <1>5 DEF Moves
      <3> QED
        BY <2>1, <3>1 DEF RegistryTellsTruth
    <2> QED
      BY <1>3, <2>1, <2>2, <2>3, <2>4, <2>5, <2>6 DEF QueuedInv, ActiveInv, RecentInv
  <1>6. CASE n # Unknown
    <2>1. n = entry[c] /\ n \in Nat
      BY <1>n, <1>1, <1>6, OwnEntry
    <2>2. /\ n \in IdsIn(registry.active) \cup IdsIn(registry.queued)
          /\ n \in IdsIn(registry.active) => n \notin IdsIn(registry.queued)
          /\ n \notin IdsIn(registry.recent)
      BY <1>n, <1>1, <1>6, OwnEntry DEF Queueing
    <2>3. /\ registry'.queued = Without(registry.queued, n)
          /\ registry'.active = Without(registry.active, n)
          /\ registry'.recent = FirstFew(<<new>> \o registry.recent)
          /\ registry' = [queued |-> registry'.queued, active |-> registry'.active,
                          recent |-> registry'.recent]
      BY <1>0, <1>e, <2>2 DEF Finished, Without
    <2>4. new \in RecentEntry /\ new.id = n /\ new.result = outcome'[c]
      BY <1>e, <2>1 DEF RecentEntry
    <2>5. Unique(registry.queued) /\ Unique(registry.active) /\ Unique(registry.recent)
      BY DEF QueuedInv, ActiveInv, RecentInv
    <2>6. /\ registry'.queued \in Seq([id : Nat]) /\ Unique(registry'.queued)
          /\ \A i \in DOMAIN registry'.queued :
                 /\ registry'.queued[i].id # n
                 /\ \E j \in DOMAIN registry.queued : registry'.queued[i] = registry.queued[j]
          /\ \A j \in DOMAIN registry.queued : registry.queued[j].id # n =>
                 \E i \in DOMAIN registry'.queued : registry'.queued[i] = registry.queued[j]
      BY <1>4, <2>3, <2>5, WithoutOne
    <2>7. /\ registry'.active \in Seq(ActiveEntry) /\ Unique(registry'.active)
          /\ \A i \in DOMAIN registry'.active :
                 /\ registry'.active[i].id # n
                 /\ \E j \in DOMAIN registry.active : registry'.active[i] = registry.active[j]
          /\ \A j \in DOMAIN registry.active : registry.active[j].id # n =>
                 \E i \in DOMAIN registry'.active : registry'.active[i] = registry.active[j]
      BY <1>4, <2>3, <2>5, WithoutOne
    <2>8. /\ registry'.recent \in Seq(RecentEntry) /\ Unique(registry'.recent)
          /\ Len(registry'.recent) <= RecentLimit
          /\ \A i \in DOMAIN registry'.recent :
                 \/ registry'.recent[i] = new
                 \/ \E j \in DOMAIN registry.recent : registry'.recent[i] = registry.recent[j]
      <3>1. new.id \notin IdsIn(registry.recent)
        BY <2>2, <2>4
      <3> DEFINE entries == registry.recent
                 few == FirstFew(<<new>> \o entries)
      <3>2. entries \in Seq(RecentEntry) /\ Unique(entries)
        BY <1>4, <2>5
      <3>3. registry'.recent = few
        BY <2>3
      <3> HIDE DEF entries
      <3>4. /\ few \in Seq(RecentEntry) /\ Unique(few)
            /\ Len(few) <= RecentLimit
            /\ \A i \in DOMAIN few : few[i] = new \/ \E j \in DOMAIN entries : few[i] = entries[j]
        BY <2>4, <3>1, <3>2, InsertFirst DEF entries
      <3> QED
        BY <3>3, <3>4 DEF entries
    <2>9. RegistryTypes'
      <3>1. /\ registry'.queued \in Seq([id : Nat]) /\ registry'.active \in Seq(ActiveEntry)
            /\ registry'.recent \in Seq(RecentEntry)
        BY <2>6, <2>7, <2>8
      <3>2. registry' \in Snapshot
        BY <2>3, <3>1 DEF Snapshot, ActiveEntry, RecentEntry, Results
      <3> QED
        BY <1>0, <1>1, <3>2 DEF RegistryTypes, Results
    <2>10. QueuedInv'
      <3>1. \A d \in Conns : \A e : Queues(d, e) /\ e.id # n => Queues(d, e)'
        BY <1>2, <2>1 DEF Queues, Moves
      <3>2. ASSUME NEW i \in DOMAIN registry'.queued
            PROVE  \E d \in Conns : Queues(d, registry.queued[i])'
        <4>1. PICK j \in DOMAIN registry.queued : registry'.queued[i] = registry.queued[j]
          BY <2>6
        <4>2. PICK d \in Conns : Queues(d, registry.queued[j])
          BY DEF QueuedInv
        <4>3. registry.queued[j].id # n
          BY <2>6, <4>1
        <4> QED
          BY <3>1, <4>1, <4>2, <4>3
      <3> QED
        BY <2>6, <3>2 DEF QueuedInv
    <2>11. ActiveInv'
      <3>1. \A d \in Conns : \A e : Runs(d, e) /\ e.id # n => Runs(d, e)'
        BY <2>1 DEF Runs, Moves
      <3>2. ASSUME NEW i \in DOMAIN registry'.active
            PROVE  \E d \in Conns : Runs(d, registry.active[i])'
        <4>1. PICK j \in DOMAIN registry.active : registry'.active[i] = registry.active[j]
          BY <2>7
        <4>2. PICK d \in Conns : Runs(d, registry.active[j])
          BY DEF ActiveInv
        <4>3. registry.active[j].id # n
          BY <2>7, <4>1
        <4> QED
          BY <3>1, <4>1, <4>2, <4>3
      <3>3. Unique(registry'.active)
        BY <2>7
      <3> QED
        BY <3>2, <3>3 DEF ActiveInv
    <2>12. RecentInv'
      <3>1. \A d \in Conns : \A e : HasEnded(d, e) => HasEnded(d, e)'
        BY DEF HasEnded, Moves
      <3>2. HasEnded(c, new)'
        BY <1>n, <1>1, <1>6, <2>1, <2>4 DEF HasEnded
      <3>3. ASSUME NEW i \in DOMAIN registry'.recent
            PROVE  \E d \in Conns : HasEnded(d, registry.recent[i])'
        <4>1. CASE registry'.recent[i] = new
          BY <3>2, <4>1
        <4>2. CASE registry'.recent[i] # new
          <5>1. PICK j \in DOMAIN registry.recent : registry'.recent[i] = registry.recent[j]
            BY <2>8, <4>2
          <5>2. PICK d \in Conns : HasEnded(d, registry.recent[j])
            BY DEF RecentInv
          <5> QED
            BY <3>1, <5>1, <5>2
        <4> QED
          BY <4>1, <4>2
      <3> QED
        BY <2>8, <3>3 DEF RecentInv
    <2>13. RegistryTellsTruth'
      <3> SUFFICES ASSUME NEW d \in Conns \ {c}, id[d] # Unknown, pc[d] \notin {"gone", "new", "cut"}
                   PROVE  /\ pc[d] \in Queueing =>
                                 \E i \in DOMAIN registry'.queued : registry'.queued[i].id = id[d]
                          /\ pc[d] \in Running \cup {"record"} =>
                                 \E i \in DOMAIN registry'.active :
                                     /\ registry'.active[i].id = id[d]
                                     /\ pc[d] \in Running => registry'.active[i].phase = pc[d]
        BY <1>1 DEF RegistryTellsTruth, Moves, Queueing, Running, Phases
      <3>1. id[d] # n
        BY <1>n, <1>1, <2>1, OwnEntry DEF IdsInv, Alive
      <3>2. ASSUME pc[d] \in Queueing
           PROVE  \E i \in DOMAIN registry'.queued : registry'.queued[i].id = id[d]
        <4>1. PICK j \in DOMAIN registry.queued : registry.queued[j].id = id[d]
          BY <3>2 DEF RegistryTellsTruth
        <4>2. PICK i \in DOMAIN registry'.queued : registry'.queued[i] = registry.queued[j]
          BY <2>6, <3>1, <4>1
        <4> QED
          BY <4>1, <4>2
      <3>3. ASSUME pc[d] \in Running \cup {"record"}
           PROVE  \E i \in DOMAIN registry'.active :
                      /\ registry'.active[i].id = id[d]
                      /\ pc[d] \in Running => registry'.active[i].phase = pc[d]
        <4>1. PICK j \in DOMAIN registry.active :
                  /\ registry.active[j].id = id[d]
                  /\ pc[d] \in Running => registry.active[j].phase = pc[d]
          BY <3>3 DEF RegistryTellsTruth
        <4>2. PICK i \in DOMAIN registry'.active : registry'.active[i] = registry.active[j]
          BY <2>7, <3>1, <4>1
        <4> QED
          BY <4>1, <4>2
      <3> QED
        BY <3>2, <3>3
    <2> QED
      BY <1>3, <2>9, <2>10, <2>11, <2>12, <2>13
  <1> QED
    BY <1>n, <1>5, <1>6

\* A request that is granted its permit moves from the queue to the active ones.
LEMMA StartKeepsRegistry ==
  ASSUME RegistryInv, NEW c \in Conns, Start(c)
  PROVE  RegistryInv'
  <1>n. PICK n : n = id[c]
    OBVIOUS
  <1>e. PICK new : new = [id |-> n, phase |-> "starting"]
    OBVIOUS
  <1> USE DEF RegistryInv
  <1>0. /\ registry' = Started(registry, n) /\ disk' \in {registry', disk}
        /\ UNCHANGED <<id, entry, outcome, nextSeq>>
    BY <1>n DEF Start, Update
  <1>1. /\ pc' \in [Conns -> Places] /\ pc[c] = "granted" /\ pc'[c] = "starting"
        /\ Alive(c) /\ Alive(c)' /\ Moves(c)
    BY DEF Start, Goto, RegistryTypes, Places, Running, Alive, Moves
  <1>2. \A d \in Conns : Alive(d) <=> Alive(d)'
    BY <1>1 DEF Moves, Alive
  <1>3. IdsInv'
    <2>1. \A d \in Conns : pc'[d] = "record" => outcome'[d] # "none"
      BY <1>0, <1>1 DEF IdsInv, Moves
    <2>2. \A d \in Conns : Alive(d)' => entry'[d] \in 1..nextSeq' /\ id'[d] \in {entry'[d], Unknown}
      BY <1>0, <1>1, <1>2 DEF IdsInv
    <2>3. \A d, e \in Conns : Alive(d)' /\ Alive(e)' /\ entry'[d] = entry'[e] => d = e
      BY <1>0, <1>1, <1>2 DEF IdsInv
    <2> QED
      BY <2>1, <2>2, <2>3 DEF IdsInv
  <1>4. /\ registry.queued \in Seq([id : Nat])
        /\ registry.active \in Seq(ActiveEntry)
        /\ registry = [queued |-> registry.queued, active |-> registry.active,
                       recent |-> registry.recent]
    BY DEF RegistryTypes, Snapshot, ActiveEntry
  <1>5. CASE n = Unknown
    <2>1. registry' = registry
      BY <1>n, <1>0, <1>n, <1>5, NobodysEntry DEF Started
    <2>2. RegistryTypes'
      BY <1>0, <1>1, <2>1 DEF RegistryTypes
    <2>3. \A d \in Conns : \A e : Queues(d, e) => Queues(d, e)'
      BY <1>n, <1>0, <1>1, <1>2, <1>5 DEF Queues, Moves
    <2>4. \A d \in Conns : \A e : Runs(d, e) => Runs(d, e)'
      BY <1>n, <1>0, <1>1, <1>5 DEF Runs, Moves
    <2>5. \A d \in Conns : \A e : HasEnded(d, e) => HasEnded(d, e)'
      BY <1>0, <1>1 DEF HasEnded, Moves
    <2>6. RegistryTellsTruth'
      <3> SUFFICES ASSUME NEW d \in Conns, id'[d] # Unknown
                   PROVE  /\ pc'[d] \in Queueing =>
                                 \E i \in DOMAIN registry'.queued : registry'.queued[i].id = id'[d]
                          /\ pc'[d] \in Running \cup {"record"} =>
                                 \E i \in DOMAIN registry'.active :
                                     /\ registry'.active[i].id = id'[d]
                                     /\ pc'[d] \in Running => registry'.active[i].phase = pc'[d]
        BY DEF RegistryTellsTruth
      <3>1. pc'[d] = pc[d] /\ id'[d] = id[d]
        BY <1>n, <1>0, <1>1, <1>5 DEF Moves
      <3> QED
        BY <2>1, <3>1 DEF RegistryTellsTruth
    <2> QED
      BY <1>3, <2>1, <2>2, <2>3, <2>4, <2>5, <2>6 DEF QueuedInv, ActiveInv, RecentInv
  <1>6. CASE n # Unknown
    <2>1. n = entry[c] /\ n \in Nat
      BY <1>n, <1>1, <1>6, OwnEntry
    <2>2. n \in IdsIn(registry.queued) /\ n \notin IdsIn(registry.active)
      BY <1>n, <1>1, <1>6, OwnEntry DEF Queueing
    <2>3. /\ registry'.queued = Without(registry.queued, n)
          /\ registry'.active = Append(registry.active, new)
          /\ registry'.recent = registry.recent
          /\ registry' = [queued |-> registry'.queued, active |-> registry'.active,
                          recent |-> registry'.recent]
      BY <1>0, <1>4, <1>e, <2>2 DEF Started
    <2>4. new \in ActiveEntry /\ new.id = n /\ new.phase = "starting"
      BY <1>e, <2>1 DEF ActiveEntry, Running
    <2>5. Unique(registry.queued) /\ Unique(registry.active)
      BY DEF QueuedInv, ActiveInv
    <2>6. /\ registry'.queued \in Seq([id : Nat]) /\ Unique(registry'.queued)
          /\ \A i \in DOMAIN registry'.queued :
                 /\ registry'.queued[i].id # n
                 /\ \E j \in DOMAIN registry.queued : registry'.queued[i] = registry.queued[j]
          /\ \A j \in DOMAIN registry.queued : registry.queued[j].id # n =>
                 \E i \in DOMAIN registry'.queued : registry'.queued[i] = registry.queued[j]
      BY <1>4, <2>3, <2>5, WithoutOne
    <2>7. /\ registry'.active \in Seq(ActiveEntry) /\ Unique(registry'.active)
          /\ \A i \in DOMAIN registry'.active :
                 \/ registry'.active[i] = new
                 \/ \E j \in DOMAIN registry.active : registry'.active[i] = registry.active[j]
          /\ \A j \in DOMAIN registry.active :
                 \E i \in DOMAIN registry'.active : registry'.active[i] = registry.active[j]
          /\ \E i \in DOMAIN registry'.active : registry'.active[i] = new
      <3>1. new.id \notin IdsIn(registry.active)
        BY <2>2, <2>4
      <3> QED
        BY <1>4, <2>3, <2>4, <2>5, <3>1, PushOne, SMTT(60)
    <2>8. RegistryTypes'
      <3>1. registry'.queued \in Seq([id : Nat]) /\ registry'.active \in Seq(ActiveEntry)
        BY <2>6, <2>7
      <3>2. registry' \in Snapshot
        BY <2>3, <3>1 DEF Snapshot, ActiveEntry, RegistryTypes
      <3> QED
        BY <1>0, <1>1, <3>2 DEF RegistryTypes
    <2>9. QueuedInv'
      <3>1. \A d \in Conns : \A e : Queues(d, e) /\ e.id # n => Queues(d, e)'
        BY <1>0, <1>1, <1>2, <2>1 DEF Queues, Moves
      <3>2. ASSUME NEW i \in DOMAIN registry'.queued
            PROVE  \E d \in Conns : Queues(d, registry.queued[i])'
        <4>1. PICK j \in DOMAIN registry.queued : registry'.queued[i] = registry.queued[j]
          BY <2>6
        <4>2. PICK d \in Conns : Queues(d, registry.queued[j])
          BY DEF QueuedInv
        <4>3. registry.queued[j].id # n
          BY <2>6, <4>1
        <4> QED
          BY <3>1, <4>1, <4>2, <4>3
      <3> QED
        BY <2>6, <3>2 DEF QueuedInv
    <2>10. ActiveInv'
      <3>1. \A d \in Conns : \A e : Runs(d, e) => Runs(d, e)'
        BY <1>0, <1>1 DEF Runs, Moves, Running, Phases
      <3>2. Runs(c, new)'
        BY <1>n, <1>0, <1>1, <1>6, <2>1, <2>4 DEF Runs, Running
      <3>3. ASSUME NEW i \in DOMAIN registry'.active
            PROVE  \E d \in Conns : Runs(d, registry.active[i])'
        <4>1. CASE registry'.active[i] = new
          BY <3>2, <4>1
        <4>2. CASE registry'.active[i] # new
          <5>1. PICK j \in DOMAIN registry.active : registry'.active[i] = registry.active[j]
            BY <2>7, <4>2
          <5>2. PICK d \in Conns : Runs(d, registry.active[j])
            BY DEF ActiveInv
          <5> QED
            BY <3>1, <5>1, <5>2
        <4> QED
          BY <4>1, <4>2
      <3> QED
        BY <2>7, <3>3 DEF ActiveInv
    <2>11. RecentInv'
      <3>1. \A d \in Conns : \A e : HasEnded(d, e) => HasEnded(d, e)'
        BY <1>0, <1>1 DEF HasEnded, Moves
      <3> QED
        BY <2>3, <3>1 DEF RecentInv
    <2>12. RegistryTellsTruth'
      <3>1. ASSUME NEW d \in Conns \ {c}, id[d] # Unknown
            PROVE  /\ pc[d] \in Queueing =>
                          \E i \in DOMAIN registry'.queued : registry'.queued[i].id = id[d]
                   /\ pc[d] \in Running \cup {"record"} =>
                          \E i \in DOMAIN registry'.active :
                              /\ registry'.active[i].id = id[d]
                              /\ pc[d] \in Running => registry'.active[i].phase = pc[d]
        <4>1. pc[d] \in Queueing => id[d] # n
          BY <1>n, <1>1, <2>1, <3>1, OwnEntry DEF IdsInv, Alive, Queueing
        <4>2. ASSUME pc[d] \in Queueing
             PROVE  \E i \in DOMAIN registry'.queued : registry'.queued[i].id = id[d]
          <5>1. PICK j \in DOMAIN registry.queued : registry.queued[j].id = id[d]
            BY <3>1, <4>2 DEF RegistryTellsTruth
          <5>2. PICK i \in DOMAIN registry'.queued : registry'.queued[i] = registry.queued[j]
            BY <2>6, <4>1, <4>2, <5>1
          <5> QED
            BY <5>1, <5>2
        <4>3. ASSUME pc[d] \in Running \cup {"record"}
             PROVE  \E i \in DOMAIN registry'.active :
                        /\ registry'.active[i].id = id[d]
                        /\ pc[d] \in Running => registry'.active[i].phase = pc[d]
          <5>1. PICK j \in DOMAIN registry.active :
                    /\ registry.active[j].id = id[d]
                    /\ pc[d] \in Running => registry.active[j].phase = pc[d]
            BY <3>1, <4>3 DEF RegistryTellsTruth
          <5>2. PICK i \in DOMAIN registry'.active : registry'.active[i] = registry.active[j]
            BY <2>7, <5>1
          <5> QED
            BY <5>1, <5>2
        <4> QED
          BY <4>2, <4>3
      <3>2. \E i \in DOMAIN registry'.active :
                registry'.active[i].id = n /\ registry'.active[i].phase = "starting"
        BY <2>4, <2>7
      <3>3. pc'[c] \notin Queueing
        BY <1>1 DEF Queueing
      <3> SUFFICES ASSUME NEW d \in Conns, id'[d] # Unknown
                   PROVE  /\ pc'[d] \in Queueing =>
                                 \E i \in DOMAIN registry'.queued : registry'.queued[i].id = id'[d]
                          /\ pc'[d] \in Running \cup {"record"} =>
                                 \E i \in DOMAIN registry'.active :
                                     /\ registry'.active[i].id = id'[d]
                                     /\ pc'[d] \in Running => registry'.active[i].phase = pc'[d]
        BY DEF RegistryTellsTruth
      <3>4. CASE d = c
        BY <1>n, <1>0, <1>1, <3>2, <3>3, <3>4
      <3>5. CASE d # c
        <4>1. pc'[d] = pc[d] /\ id'[d] = id[d]
          BY <1>1, <3>5 DEF Moves
        <4> QED
          BY <3>1, <3>5, <4>1
      <3> QED
        BY <3>4, <3>5
    <2> QED
      BY <1>3, <2>8, <2>9, <2>10, <2>11, <2>12
  <1> QED
    BY <1>n, <1>5, <1>6

\* A build that gets on changes the phase of its own entry, and of no other.
LEMMA AdvanceKeepsRegistry ==
  ASSUME RegistryInv, NEW c \in Conns, Advance(c)
  PROVE  RegistryInv'
  <1> USE DEF RegistryInv
  <1>n. PICK n : n = id[c]
    OBVIOUS
  <1>0. PICK phase \in Phases :
            /\ <<pc[c], phase>> \in NextPhase
            /\ Update(Phased(registry, n, phase))
            /\ Goto(c, phase) /\ UNCHANGED <<id, entry, outcome, nextSeq>>
    BY <1>n DEF Advance
  <1>1. /\ pc' \in [Conns -> Places] /\ pc[c] \in Running /\ pc'[c] = phase
        /\ phase \in Running /\ phase # "record" /\ Alive(c) /\ Alive(c)' /\ Moves(c)
    <2>1. pc[c] \in Running /\ phase \in Running /\ phase \in Places
      BY <1>0 DEF NextPhase, Running, Phases, Places
    <2>2. pc' = [pc EXCEPT ![c] = phase] /\ pc \in [Conns -> Places]
      BY <1>0 DEF Goto, RegistryTypes
    <2>3. pc' \in [Conns -> Places] /\ pc'[c] = phase /\ \A d \in Conns \ {c} : pc'[d] = pc[d]
      BY <2>1, <2>2
    <2>4. Moves(c)
      BY <1>0, <2>3 DEF Moves
    <2> QED
      BY <1>0, <2>1, <2>3, <2>4 DEF Alive, Running, Phases
  <1>2. \A d \in Conns : Alive(d) <=> Alive(d)'
    <2> SUFFICES ASSUME NEW d \in Conns \ {c} PROVE Alive(d) <=> Alive(d)'
      BY <1>1
    <2> QED
      BY <1>1 DEF Moves, Alive
  <1>3. IdsInv'
    <2>1. \A d \in Conns : pc'[d] = "record" => outcome'[d] # "none"
      BY ONLY <1>1, IdsInv, Moves(c) DEF IdsInv, Moves
    <2>2. \A d \in Conns : Alive(d)' => entry'[d] \in 1..nextSeq' /\ id'[d] \in {entry'[d], Unknown}
      BY <1>0, <1>2 DEF IdsInv
    <2>3. \A d, e \in Conns : Alive(d)' /\ Alive(e)' /\ entry'[d] = entry'[e] => d = e
      BY <1>0, <1>2 DEF IdsInv
    <2> QED
      BY <2>1, <2>2, <2>3 DEF IdsInv
  <1>4. /\ registry.active \in Seq(ActiveEntry)
        /\ registry \in Snapshot
    BY DEF RegistryTypes, Snapshot, ActiveEntry
  <1>5. /\ registry'.queued = registry.queued /\ registry'.recent = registry.recent
        /\ registry'.active = [i \in DOMAIN registry.active |->
               IF registry.active[i].id = n THEN [registry.active[i] EXCEPT !.phase = phase]
                                            ELSE registry.active[i]]
        /\ registry' = [queued |-> registry'.queued, active |-> registry'.active,
                        recent |-> registry'.recent]
        /\ disk' \in {registry', disk}
    BY <1>0, <1>4 DEF Update, Phased, Snapshot
  <1>6. /\ DOMAIN registry.active = 1..Len(registry.active) /\ Len(registry.active) \in Nat
        /\ \A i \in DOMAIN registry.active : registry.active[i] \in ActiveEntry
    BY <1>4, LenProperties, ElementOfSeq
  <1>7. /\ DOMAIN registry'.active = DOMAIN registry.active
        /\ \A i \in DOMAIN registry.active :
               /\ registry'.active[i] \in ActiveEntry
               /\ registry'.active[i].id = registry.active[i].id
               /\ registry.active[i].id = n => registry'.active[i].phase = phase
               /\ registry.active[i].id # n => registry'.active[i] = registry.active[i]
    BY <1>1, <1>5, <1>6 DEF ActiveEntry
  <1>8. registry'.active \in Seq(ActiveEntry)
    <2>1. registry'.active \in [1..Len(registry.active) -> ActiveEntry]
      BY <1>5, <1>6, <1>7
    <2> QED
      BY <1>6, <2>1, SeqDef
  <1>9. RegistryTypes'
    <2>1. registry' \in Snapshot
      BY <1>4, <1>5, <1>8 DEF Snapshot, ActiveEntry
    <2> QED
      BY <1>0, <1>1, <1>5, <2>1 DEF RegistryTypes
  <1>10. QueuedInv'
    <2>1. \A d \in Conns : \A e : Queues(d, e) => Queues(d, e)'
      BY <1>0, <1>1, <1>2 DEF Queues, Moves, Queueing, Running, Phases
    <2> QED
      BY <1>5, <2>1 DEF QueuedInv
  <1>11. ActiveInv'
    <2>1. Unique(registry'.active)
      BY <1>7 DEF ActiveInv, Unique
    <2>2. ASSUME NEW i \in DOMAIN registry'.active
          PROVE  \E d \in Conns : Runs(d, registry.active[i])'
      <3>1. PICK d \in Conns : Runs(d, registry.active[i])
        BY <1>7 DEF ActiveInv
      <3>2. CASE d = c
        <4>1. registry.active[i].id = n
          BY <1>1, <1>n, <3>1, <3>2, OwnEntry DEF Runs
        <4>2. registry'.active[i].id = n /\ registry'.active[i].phase = phase
          BY <1>7, <4>1
        <4> QED
          BY <1>0, <1>1, <1>n, <3>1, <3>2, <4>1, <4>2 DEF Runs
      <3>3. CASE d # c
        <4>1. registry.active[i].id = entry[d] /\ Alive(d)
          BY <3>1 DEF Runs, Alive, Running, Phases
        <4>2. registry.active[i].id # n
          BY <1>1, <1>n, <3>3, <4>1 DEF IdsInv, RegistryTypes, Unknown
        <4>3. registry'.active[i] = registry.active[i]
          BY <1>7, <4>2
        <4> QED
          BY <1>0, <1>1, <3>1, <3>3, <4>3 DEF Runs, Moves
      <3> QED
        BY <3>2, <3>3
    <2> QED
      BY <2>1, <2>2 DEF ActiveInv
  <1>12. RecentInv'
    <2>1. \A d \in Conns : \A e : HasEnded(d, e) => HasEnded(d, e)'
      BY <1>0, <1>1 DEF HasEnded, Moves, Running, Phases
    <2> QED
      BY <1>5, <2>1 DEF RecentInv
  <1>13. RegistryTellsTruth'
    <2> SUFFICES ASSUME NEW d \in Conns, id'[d] # Unknown
                 PROVE  /\ pc'[d] \in Queueing =>
                               \E i \in DOMAIN registry'.queued : registry'.queued[i].id = id'[d]
                        /\ pc'[d] \in Running \cup {"record"} =>
                               \E i \in DOMAIN registry'.active :
                                   /\ registry'.active[i].id = id'[d]
                                   /\ pc'[d] \in Running => registry'.active[i].phase = pc'[d]
      BY DEF RegistryTellsTruth
    <2>1. id'[d] = id[d]
      BY <1>0
    <2>2. CASE d = c
      <3>0. id[c] # Unknown /\ pc[c] \in Running \cup {"record"}
        BY <1>1, <2>1, <2>2
      <3>1. PICK i \in DOMAIN registry.active : registry.active[i].id = id[c]
        BY <3>0 DEF RegistryTellsTruth
      <3>2. registry'.active[i].id = n /\ registry'.active[i].phase = phase
        BY <1>7, <1>n, <3>1
      <3>3. pc'[c] \notin Queueing
        BY <1>1 DEF Queueing, Running, Phases
      <3> QED
        BY <1>1, <1>7, <1>n, <2>1, <2>2, <3>1, <3>2, <3>3
    <2>3. CASE d # c
      <3>1. pc'[d] = pc[d]
        BY <1>1, <2>3 DEF Moves
      <3>2. ASSUME pc[d] \in Running \cup {"record"}
            PROVE  \E i \in DOMAIN registry'.active :
                       /\ registry'.active[i].id = id[d]
                       /\ pc[d] \in Running => registry'.active[i].phase = pc[d]
        <4>1. PICK i \in DOMAIN registry.active :
                  /\ registry.active[i].id = id[d]
                  /\ pc[d] \in Running => registry.active[i].phase = pc[d]
          BY <2>1, <3>2 DEF RegistryTellsTruth
        <4>2. id[d] # n
          BY <1>1, <1>n, <2>1, <2>3, <3>2 DEF IdsInv, Alive, Running, Phases
        <4> QED
          BY <1>7, <4>1, <4>2
      <3> QED
        BY <1>5, <2>1, <3>1, <3>2 DEF RegistryTellsTruth
    <2> QED
      BY <2>2, <2>3
  <1> QED
    BY <1>3, <1>9, <1>10, <1>11, <1>12, <1>13

\* A new request is queued under an id that no request of this start has had.
LEMMA EnqueueKeepsRegistry ==
  ASSUME RegistryInv, NEW c \in Conns, Enqueue(c)
  PROVE  RegistryInv'
  <1> USE DEF RegistryInv
  <1>n. PICK n : n = nextSeq + 1
    OBVIOUS
  <1>e. PICK new : new = [id |-> n]
    OBVIOUS
  <1>0. /\ pc[c] = "new" /\ pc' = [pc EXCEPT ![c] = "announce"]
        /\ nextSeq' = n /\ n \in Nat \ {0} /\ n = nextSeq + 1
        /\ registry' = Enqueued(registry, n)
        /\ entry' = [entry EXCEPT ![c] = n]
        /\ id' \in {[id EXCEPT ![c] = n], [id EXCEPT ![c] = Unknown]}
        /\ disk' \in {registry', disk} /\ outcome' = outcome
    BY <1>n DEF Enqueue, Goto, RegistryTypes
  <1>1. /\ pc' \in [Conns -> Places] /\ pc'[c] = "announce" /\ entry'[c] = n /\ id'[c] \in {n, Unknown}
        /\ id' \in [Conns -> Nat] /\ entry' \in [Conns -> Nat] /\ Moves(c)
    BY <1>0 DEF RegistryTypes, Places, Queueing, Moves, Unknown
  <1>2. \A d \in Conns : d # c => (Alive(d) <=> Alive(d)')
    BY <1>1 DEF Moves, Alive
  <1>3. IdsInv'
    <2>1. \A d \in Conns : pc'[d] = "record" => outcome'[d] # "none"
      BY ONLY <1>1, IdsInv, Moves(c) DEF IdsInv, Moves
    <2>2. \A d \in Conns : d # c /\ Alive(d)' =>
              entry'[d] = entry[d] /\ id'[d] = id[d] /\ Alive(d) /\ entry[d] \in 1..nextSeq
      BY <1>1, <1>2 DEF IdsInv, Moves
    <2>3. \A d \in Conns : Alive(d)' => entry'[d] \in 1..nextSeq' /\ id'[d] \in {entry'[d], Unknown}
      BY <1>0, <1>1, <2>2 DEF IdsInv, RegistryTypes
    <2>4. \A d, e \in Conns : Alive(d)' /\ Alive(e)' /\ entry'[d] = entry'[e] => d = e
      BY <1>0, <1>1, <2>2 DEF IdsInv, RegistryTypes
    <2> QED
      BY <2>1, <2>3, <2>4 DEF IdsInv
  <1>4. /\ registry.queued \in Seq([id : Nat]) /\ Unique(registry.queued)
        /\ registry \in Snapshot
    BY DEF RegistryTypes, Snapshot, QueuedInv
  <1>5. /\ registry'.queued = Append(registry.queued, new)
        /\ registry'.active = registry.active /\ registry'.recent = registry.recent
        /\ registry' = [queued |-> registry'.queued, active |-> registry'.active,
                        recent |-> registry'.recent]
    BY <1>0, <1>4, <1>e DEF Enqueued, Snapshot
  <1>6. PICK QueuedEntry : QueuedEntry = [id : Nat]
    OBVIOUS
  <1>7. new \in QueuedEntry /\ new.id = n
    BY <1>0, <1>6, <1>e
  <1>8. new.id \notin IdsIn(registry.queued)
    BY <1>7, <1>n, NobodysEntry
  <1>9. registry.queued \in Seq(QueuedEntry)
    BY <1>4, <1>6
  <1>10. /\ registry'.queued \in Seq(QueuedEntry) /\ Unique(registry'.queued)
         /\ \A i \in DOMAIN registry'.queued :
                \/ registry'.queued[i] = new
                \/ \E j \in DOMAIN registry.queued : registry'.queued[i] = registry.queued[j]
         /\ \A j \in DOMAIN registry.queued :
                \E i \in DOMAIN registry'.queued : registry'.queued[i] = registry.queued[j]
         /\ \E i \in DOMAIN registry'.queued : registry'.queued[i] = new
    <2>1. registry'.queued = Append(registry.queued, new) /\ Unique(registry.queued)
      BY <1>4, <1>5
    <2>2. PICK old : old = registry.queued
      OBVIOUS
    <2>3. PICK longer : longer = Append(old, new)
      OBVIOUS
    <2>4. /\ longer \in Seq(QueuedEntry) /\ Unique(longer)
          /\ \A i \in DOMAIN longer : longer[i] = new \/ \E j \in DOMAIN old : longer[i] = old[j]
          /\ \A j \in DOMAIN old : \E i \in DOMAIN longer : longer[i] = old[j]
          /\ \E i \in DOMAIN longer : longer[i] = new
      <3>1. old \in Seq(QueuedEntry) /\ Unique(old) /\ new.id \notin IdsIn(old)
        BY <1>8, <1>9, <2>1, <2>2
      <3> QED
        BY ONLY <1>7, <2>3, <3>1, PushOne
    <2>5. registry'.queued = longer /\ registry.queued = old
      BY <2>1, <2>2, <2>3
    <2> QED
      BY ONLY <2>4, <2>5
  <1>11. RegistryTypes'
    <2>1. registry'.queued \in Seq([id : Nat])
      BY <1>6, <1>10
    <2>2. registry' \in Snapshot
      BY <1>4, <1>5, <2>1 DEF Snapshot
    <2> QED
      BY <1>0, <1>1, <2>2 DEF RegistryTypes
  <1>12. QueuedInv'
    <2>1. \A d \in Conns : \A e : Queues(d, e) => Queues(d, e)'
      BY <1>0, <1>1, <1>2 DEF Queues, Moves, Alive
    <2>2. Queues(c, new)'
      BY <1>1, <1>7 DEF Queues, Alive, Queueing
    <2>3. ASSUME NEW i \in DOMAIN registry'.queued
          PROVE  \E d \in Conns : Queues(d, registry.queued[i])'
      <3>1. CASE registry'.queued[i] = new
        BY <2>2, <3>1
      <3>2. CASE registry'.queued[i] # new
        <4>1. PICK j \in DOMAIN registry.queued : registry'.queued[i] = registry.queued[j]
          BY <1>10, <3>2
        <4>2. PICK d \in Conns : Queues(d, registry.queued[j])
          BY DEF QueuedInv
        <4> QED
          BY <2>1, <4>1, <4>2
      <3> QED
        BY <3>1, <3>2
    <2>4. Unique(registry'.queued)
      BY <1>10
    <2> QED
      BY <2>3, <2>4 DEF QueuedInv
  <1>13. ActiveInv'
    <2>1. \A d \in Conns : \A e : Runs(d, e) => Runs(d, e)'
      BY <1>0, <1>1 DEF Runs, Moves, Running, Phases
    <2> QED
      BY <1>5, <2>1 DEF ActiveInv
  <1>14. RecentInv'
    <2>1. \A d \in Conns : \A e : HasEnded(d, e) => HasEnded(d, e)'
      BY <1>0, <1>1 DEF HasEnded, Moves
    <2> QED
      BY <1>5, <2>1 DEF RecentInv
  <1>15. RegistryTellsTruth'
    <2> SUFFICES ASSUME NEW d \in Conns, id'[d] # Unknown
                 PROVE  /\ pc'[d] \in Queueing =>
                               \E i \in DOMAIN registry'.queued : registry'.queued[i].id = id'[d]
                        /\ pc'[d] \in Running \cup {"record"} =>
                               \E i \in DOMAIN registry'.active :
                                   /\ registry'.active[i].id = id'[d]
                                   /\ pc'[d] \in Running => registry'.active[i].phase = pc'[d]
      BY DEF RegistryTellsTruth
    <2>1. CASE d = c
      <3>1. \E i \in DOMAIN registry'.queued : registry'.queued[i].id = n
        BY <1>7, <1>10
      <3>2. pc'[c] \notin Running \cup {"record"}
        BY <1>1 DEF Running, Phases
      <3> QED
        BY <1>1, <2>1, <3>1, <3>2
    <2>2. CASE d # c
      <3>1. pc'[d] = pc[d] /\ id'[d] = id[d]
        BY <1>1, <2>2 DEF Moves
      <3>2. ASSUME pc[d] \in Queueing
            PROVE  \E i \in DOMAIN registry'.queued : registry'.queued[i].id = id[d]
        <4>1. PICK j \in DOMAIN registry.queued : registry.queued[j].id = id[d]
          BY <3>1, <3>2 DEF RegistryTellsTruth
        <4>2. PICK i \in DOMAIN registry'.queued : registry'.queued[i] = registry.queued[j]
          BY <1>10
        <4> QED
          BY <4>1, <4>2
      <3> QED
        BY <1>5, <3>1, <3>2 DEF RegistryTellsTruth
    <2> QED
      BY <2>1, <2>2
  <1> QED
    BY <1>3, <1>11, <1>12, <1>13, <1>14, <1>15

LEMMA RegistryInit == Init => RegistryInv
  <1> SUFFICES ASSUME Init PROVE RegistryInv
    OBVIOUS
  <1>1. /\ registry = EmptySnapshot /\ disk = EmptySnapshot
        /\ \A c \in Conns : pc[c] = "new"
    BY DEF Init
  <1>2. EmptySnapshot \in Snapshot
    BY DEF EmptySnapshot, Snapshot
  <1>3. RegistryTypes
    BY <1>1, <1>2 DEF Init, RegistryTypes, Places, Unknown, NoEntry
  <1>4. IdsInv /\ RegistryTellsTruth
    BY <1>1 DEF IdsInv, Alive, RegistryTellsTruth, Queueing, Running, Phases
  <1>5. /\ registry.queued = <<>> /\ registry.active = <<>> /\ registry.recent = <<>>
    BY <1>1 DEF EmptySnapshot
  <1>6. QueuedInv /\ ActiveInv /\ RecentInv
    BY <1>5, QueueAssumption DEF QueuedInv, ActiveInv, RecentInv, Unique
  <1> QED
    BY <1>3, <1>4, <1>6 DEF RegistryInv

\* A restart forgets every entry with every handler.
LEMMA RestartKeepsRegistry ==
  ASSUME RegistryInv, Restart
  PROVE  RegistryInv'
  <1>1. /\ registry' = EmptySnapshot /\ disk' = EmptySnapshot
        /\ \A c \in Conns : pc'[c] \in {"new", "cut"}
        /\ pc' \in [Conns -> {"new", "cut"}] /\ nextSeq' = 0
        /\ UNCHANGED <<id, entry, outcome>>
    BY DEF Restart
  <1>2. EmptySnapshot \in Snapshot
    BY DEF EmptySnapshot, Snapshot
  <1>3. RegistryTypes'
    BY <1>1, <1>2 DEF RegistryInv, RegistryTypes, Places, Ended
  <1>4. IdsInv' /\ RegistryTellsTruth'
    BY <1>1 DEF IdsInv, Alive, RegistryTellsTruth, Queueing, Running, Phases
  <1>5. /\ registry'.queued = <<>> /\ registry'.active = <<>> /\ registry'.recent = <<>>
    BY <1>1 DEF EmptySnapshot
  <1>6. QueuedInv' /\ ActiveInv' /\ RecentInv'
    BY <1>5, QueueAssumption DEF QueuedInv, ActiveInv, RecentInv, Unique
  <1> QED
    BY <1>3, <1>4, <1>6 DEF RegistryInv

LEMMA RegistryStep == RegistryInv /\ [Next]_vars => RegistryInv'
  <1> SUFFICES ASSUME RegistryInv, [Next]_vars PROVE RegistryInv'
    OBVIOUS
  <1>1. ASSUME NEW c \in Conns, SendBuildQueued(c) \/ Join(c) \/ Grant(c) PROVE RegistryInv'
    <2>1. /\ pc[c] \in Queueing /\ pc'[c] \in Queueing /\ pc' \in [Conns -> Places]
          /\ UNCHANGED <<id, entry, outcome, registry, nextSeq, disk>> /\ Moves(c)
      BY <1>1 DEF SendBuildQueued, Join, Grant, Goto, RegistryInv, RegistryTypes, Places, Queueing, Moves
    <2>2. RegistryTypes'
      BY <2>1 DEF RegistryInv, RegistryTypes
    <2>3. /\ pc[c] \notin Running \cup {"record", "gone", "new", "cut"}
          /\ pc'[c] \notin Running \cup {"record", "gone", "new", "cut"}
      BY <2>1 DEF Queueing, Running, Phases
    <2> QED
      BY <2>1, <2>2, <2>3, MoveKeepsRegistry DEF Alive
  <1>2. ASSUME NEW c \in Conns, EndRun(c) PROVE RegistryInv'
    <2>1. /\ pc[c] \in Phases /\ pc'[c] = "record" /\ pc' \in [Conns -> Places]
          /\ outcome'[c] \in Results /\ outcome' \in [Conns -> {"none"} \cup Results]
          /\ UNCHANGED <<id, entry, registry, nextSeq, disk>> /\ Moves(c)
      BY <1>2 DEF EndRun, Goto, RegistryInv, RegistryTypes, Places, Phases, Results, Moves
    <2>2. RegistryTypes'
      BY <2>1 DEF RegistryInv, RegistryTypes, Results
    <2>3. /\ pc[c] \in Running /\ pc[c] \notin Queueing \cup {"record", "gone", "new", "cut"}
          /\ "record" \notin Queueing \cup Running
      BY <2>1 DEF Queueing, Running, Phases
    <2>4. outcome'[c] # "none"
      BY <2>1 DEF Results
    <2> QED
      BY <2>1, <2>2, <2>3, <2>4, MoveKeepsRegistry DEF Alive
  <1>3. ASSUME NEW c \in Conns, SendBuildQueuedError(c) PROVE RegistryInv'
    <2>1. /\ pc[c] = "announce" /\ pc' = [pc EXCEPT ![c] = "gone"]
          /\ outcome' = [outcome EXCEPT ![c] = "error"]
          /\ outcome' \in [Conns -> {"none"} \cup Results] /\ outcome'[c] = "error"
          /\ UNCHANGED <<id, entry, nextSeq>>
          /\ Update(Finished(registry, id[c], outcome'[c]))
      BY <1>3 DEF SendBuildQueuedError, Goto, RegistryInv, RegistryTypes, Results
    <2>2. Moves(c)
      BY <2>1 DEF Moves, RegistryInv, RegistryTypes
    <2> QED
      BY <2>1, <2>2, FinishKeepsRegistry DEF Results
  <1>4. ASSUME NEW c \in Conns, Record(c) PROVE RegistryInv'
    <2>1. /\ pc[c] = "record" /\ pc' = [pc EXCEPT ![c] = "gone"]
          /\ outcome' = outcome /\ outcome' \in [Conns -> {"none"} \cup Results]
          /\ UNCHANGED <<id, entry, nextSeq>>
          /\ Update(Finished(registry, id[c], outcome'[c]))
      BY <1>4 DEF Record, Goto, RegistryInv, RegistryTypes, Results
    <2>2. Moves(c)
      BY <2>1 DEF Moves, RegistryInv, RegistryTypes
    <2>3. outcome'[c] \in Results
      BY <2>1 DEF RegistryInv, IdsInv
    <2> QED
      BY <2>1, <2>2, <2>3, FinishKeepsRegistry
  <1>5. CASE Heartbeat \/ UNCHANGED vars
    <2>1. UNCHANGED <<pc, id, entry, outcome, nextSeq, registry>> /\ disk' \in {disk, registry}
      BY <1>5 DEF Heartbeat, vars
    <2> QED
      BY <2>1 DEF RegistryInv, RegistryTypes, IdsInv, QueuedInv, ActiveInv, RecentInv,
                  RegistryTellsTruth, Queues, Runs, HasEnded, Alive
  <1> QED
    BY <1>1, <1>2, <1>3, <1>4, <1>5, EnqueueKeepsRegistry, StartKeepsRegistry,
       AdvanceKeepsRegistry, RestartKeepsRegistry
    DEF Next, Handle

\* The registry and its handlers, in every reachable state: each entry is that of
\* one handler, in the list that tells where the handler is.
THEOREM RegistryInvariant == Spec => []RegistryInv
  <1> QED  BY RegistryInit, RegistryStep, PTL DEF Spec

\* `drv-thru status` tells of each request where it is, however handlers interleave.
THEOREM StatusTellsTruth == Spec => []RegistryTellsTruth
  <1>1. RegistryInv => RegistryTellsTruth
    BY DEF RegistryInv
  <1> QED  BY <1>1, RegistryInvariant, PTL

\* An entry goes with its handler: none is left behind, but for those whose first
\* write failed.
THEOREM EntriesGoWithHandlers == Spec => []NoEntryLeftBehind
  <1>1. RegistryInv => NoEntryLeftBehind
    BY DEF RegistryInv, QueuedInv, ActiveInv, Queues, Runs, Alive, NoEntryLeftBehind, IdsIn
  <1> QED  BY <1>1, RegistryInvariant, PTL

\* Whose entry is in one list is in no other.
LEMMA ListsApart ==
  ASSUME RegistryInv
  PROVE  /\ IdsIn(registry.queued) \cap IdsIn(registry.active) = {}
         /\ IdsIn(registry.queued) \cap IdsIn(registry.recent) = {}
         /\ IdsIn(registry.active) \cap IdsIn(registry.recent) = {}
  <1>1. \A c, d \in Conns : Alive(c) /\ Alive(d) /\ entry[c] = entry[d] => c = d
    BY DEF RegistryInv, IdsInv
  <1>2. \A n \in IdsIn(registry.queued) : \E c \in Conns :
            Alive(c) /\ entry[c] = n /\ (pc[c] \in Queueing \/ id[c] = Unknown)
    BY DEF RegistryInv, QueuedInv, Queues, IdsIn
  <1>3. \A n \in IdsIn(registry.active) : \E c \in Conns :
            Alive(c) /\ entry[c] = n /\ pc[c] \in Running \cup {"record"} /\ id[c] # Unknown
    BY DEF RegistryInv, ActiveInv, Runs, IdsIn, Alive, Running, Phases
  <1>4. \A n \in IdsIn(registry.recent) : \E c \in Conns :
            Alive(c) /\ entry[c] = n /\ pc[c] = "gone" /\ id[c] # Unknown
    BY DEF RegistryInv, RecentInv, HasEnded, IdsIn, Alive
  <1>5. "gone" \notin Queueing \cup Running \cup {"record"} /\ (Running \cup {"record"}) \cap Queueing = {}
    BY DEF Queueing, Running, Phases
  <1> QED
    BY <1>1, <1>2, <1>3, <1>4, <1>5

\* The registry in memory lists a request once, where it is.
LEMMA RegistryTellsOnce == RegistryInv => TellsOnce(registry)
  <1>1. ASSUME RegistryInv PROVE TellsOnce(registry)
    <2> DEFINE E == [id : Nat] \cup ActiveEntry \cup RecentEntry
    <2>1. PICK q, a, r : q = registry.queued /\ a = registry.active /\ r = registry.recent
      OBVIOUS
    <2>2. q \in Seq([id : Nat]) /\ a \in Seq(ActiveEntry) /\ r \in Seq(RecentEntry)
      BY <1>1, <2>1 DEF RegistryInv, RegistryTypes, Snapshot, ActiveEntry, RecentEntry, Results
    <2>3. q \in Seq(E) /\ a \in Seq(E) /\ r \in Seq(E)
      BY <2>2, SeqMonotonic
    <2> HIDE DEF E
    <2>4. /\ Len(q) \in Nat /\ Len(a) \in Nat /\ Len(r) \in Nat
          /\ DOMAIN q = 1..Len(q) /\ DOMAIN a = 1..Len(a) /\ DOMAIN r = 1..Len(r)
      BY <2>3, LenProperties
    <2>5. PICK qa : qa = q \o a
      OBVIOUS
    <2>6. /\ qa \in Seq(E) /\ Len(qa) = Len(q) + Len(a)
          /\ \A i \in 1..(Len(q) + Len(a)) : qa[i] = IF i <= Len(q) THEN q[i] ELSE a[i - Len(q)]
      BY <2>3, <2>5, ConcatProperties
    <2>7. PICK all : all = qa \o r
      OBVIOUS
    <2>8. /\ all \in Seq(E) /\ Len(all) = Len(qa) + Len(r)
          /\ \A i \in 1..(Len(qa) + Len(r)) : all[i] = IF i <= Len(qa) THEN qa[i] ELSE r[i - Len(qa)]
      <3>1. qa \in Seq(E) /\ r \in Seq(E)
        BY <2>3, <2>6
      <3> QED
        BY ONLY <2>7, <3>1, ConcatProperties
    <2>9. DOMAIN all = 1..(Len(q) + Len(a) + Len(r))
      BY <2>6, <2>8, LenProperties
    <2>10. \A i \in DOMAIN all :
               \/ i \in 1..Len(q) /\ all[i] = q[i]
               \/ i - Len(q) \in 1..Len(a) /\ i \notin 1..Len(q) /\ all[i] = a[i - Len(q)]
               \/ /\ i - Len(q) - Len(a) \in 1..Len(r) /\ i \notin 1..Len(q)
                  /\ i - Len(q) \notin 1..Len(a)
                  /\ all[i] = r[i - Len(q) - Len(a)]
      BY <2>4, <2>6, <2>8, <2>9
    <2>11. Unique(q) /\ Unique(a) /\ Unique(r)
      BY <1>1, <2>1 DEF RegistryInv, QueuedInv, ActiveInv, RecentInv
    <2>12. /\ \A i \in 1..Len(q), j \in 1..Len(a) : q[i].id # a[j].id
           /\ \A i \in 1..Len(q), j \in 1..Len(r) : q[i].id # r[j].id
           /\ \A i \in 1..Len(a), j \in 1..Len(r) : a[i].id # r[j].id
      <3>1. /\ IdsIn(q) \cap IdsIn(a) = {} /\ IdsIn(q) \cap IdsIn(r) = {}
            /\ IdsIn(a) \cap IdsIn(r) = {}
        BY <1>1, <2>1, ListsApart
      <3>2. /\ \A i \in 1..Len(q) : q[i].id \in IdsIn(q)
            /\ \A i \in 1..Len(a) : a[i].id \in IdsIn(a)
            /\ \A i \in 1..Len(r) : r[i].id \in IdsIn(r)
        BY <2>4 DEF IdsIn
      <3> QED
        BY <3>1, <3>2
    <2>13. ASSUME NEW i \in DOMAIN all, NEW j \in DOMAIN all, all[i].id = all[j].id PROVE i = j
      <3>1. /\ \A k, l \in 1..Len(q) : q[k].id = q[l].id => k = l
            /\ \A k, l \in 1..Len(a) : a[k].id = a[l].id => k = l
            /\ \A k, l \in 1..Len(r) : r[k].id = r[l].id => k = l
        BY <2>4, <2>11 DEF Unique
      <3>2. CASE i \in 1..Len(q)
        BY <2>10, <2>12, <2>13, <3>1, <3>2
      <3>3. CASE i \notin 1..Len(q) /\ i - Len(q) \in 1..Len(a)
        <4>1. j \notin 1..Len(q) /\ j - Len(q) \in 1..Len(a)
          BY <2>10, <2>12, <2>13, <3>3
        <4>2. i - Len(q) = j - Len(q)
          BY <2>10, <2>13, <3>1, <3>3, <4>1
        <4> QED
          BY <2>4, <2>9, <4>2
      <3>4. CASE i \notin 1..Len(q) /\ i - Len(q) \notin 1..Len(a)
        <4>1. j \notin 1..Len(q) /\ j - Len(q) \notin 1..Len(a)
          BY <2>10, <2>12, <2>13, <3>4
        <4>2. i - Len(q) - Len(a) = j - Len(q) - Len(a)
          BY <2>10, <2>13, <3>1, <3>4, <4>1
        <4> QED
          BY <2>4, <2>9, <4>2
      <3> QED
        BY <3>2, <3>3, <3>4
    <2>14. all = registry.queued \o registry.active \o registry.recent
      BY <2>1, <2>5, <2>7
    <2>15. /\ Len(registry.recent) <= RecentLimit
           /\ \A i \in DOMAIN registry.recent : \E c \in Conns :
                  /\ pc[c] = "gone" /\ entry[c] = registry.recent[i].id
                  /\ outcome[c] = registry.recent[i].result
      BY <1>1 DEF RegistryInv, RecentInv, HasEnded
    <2>16. ASSUME NEW i \in DOMAIN registry.active
           PROVE  \E c \in Conns : /\ entry[c] = registry.active[i].id
                                  /\ pc[c] \in Running \cup {"record", "gone"}
      BY <1>1 DEF RegistryInv, ActiveInv, Runs
    <2>17. ASSUME NEW i \in DOMAIN all
           PROVE  \E c \in Conns : entry[c] = all[i].id /\ pc[c] \notin {"new", "cut"}
      <3>1. /\ \A k \in 1..Len(q) : \E c \in Conns : entry[c] = q[k].id /\ Alive(c)
            /\ \A k \in 1..Len(a) : \E c \in Conns :
                   entry[c] = a[k].id /\ pc[c] \in Running \cup {"record"}
            /\ \A k \in 1..Len(r) : \E c \in Conns : entry[c] = r[k].id /\ pc[c] = "gone"
        BY <1>1, <2>1, <2>4
        DEF RegistryInv, QueuedInv, ActiveInv, RecentInv, Queues, Runs, HasEnded
      <3>2. \A c \in Conns : pc[c] \in Running \cup {"record", "gone"} => Alive(c)
        BY DEF Alive, Running, Phases
      <3>3. CASE i \in 1..Len(q) /\ all[i] = q[i]
        BY <3>1, <3>3 DEF Alive
      <3>4. CASE i - Len(q) \in 1..Len(a) /\ all[i] = a[i - Len(q)]
        BY <3>1, <3>2, <3>4 DEF Alive
      <3>5. CASE i - Len(q) - Len(a) \in 1..Len(r) /\ all[i] = r[i - Len(q) - Len(a)]
        BY <3>1, <3>2, <3>5 DEF Alive
      <3> QED
        BY <2>10, <3>3, <3>4, <3>5
    <2> QED
      BY <2>13, <2>14, <2>15, <2>16, <2>17 DEF TellsOnce
  <1> QED
    BY <1>1

\* What a file that is not written again goes on saying: a handler keeps its entry,
\* goes from the queue to the build and from the build to its end, and there stays.
Lasts ==
    /\ disk' = disk
    /\ \A c \in Conns :
           /\ pc[c] \notin {"new", "cut"} => entry'[c] = entry[c] /\ pc'[c] \notin {"new", "cut"}
           /\ pc[c] \in Running \cup {"record", "gone"} =>
                  pc'[c] \in Running \cup {"record", "gone"}
           /\ pc[c] = "gone" => pc'[c] = "gone" /\ outcome'[c] = outcome[c]

\* status.json is the registry's snapshot, or as it was.
LEMMA FileFollows == RegistryTypes /\ [Next]_vars => disk' = registry' \/ Lasts
  <1> SUFFICES ASSUME RegistryTypes, [Next]_vars PROVE disk' = registry' \/ Lasts
    OBVIOUS
  <1>1. ASSUME disk' = disk, UNCHANGED <<pc, entry, outcome>> PROVE Lasts
    BY <1>1 DEF Lasts
  <1>2. ASSUME NEW c \in Conns, NEW place, Goto(c, place), UNCHANGED entry, disk' = disk,
               place \notin {"new", "cut"}, pc[c] # "gone",
               pc[c] \in Running \cup {"record", "gone"} =>
                   place \in Running \cup {"record", "gone"},
               \A d \in Conns \ {c} : outcome'[d] = outcome[d]
        PROVE  Lasts
    <2>1. pc'[c] = place /\ \A d \in Conns \ {c} : pc'[d] = pc[d]
      BY <1>2 DEF Goto, RegistryTypes
    <2> QED
      BY <1>2, <2>1 DEF Lasts
  <1>3. Running \cap {"new", "cut", "gone", "record", "announce", "acquire", "waiting", "granted"} = {}
    BY DEF Running, Phases
  <1>4. ASSUME NEW c \in Conns, Enqueue(c) PROVE disk' = registry' \/ Lasts
    <2>1. CASE disk' = disk
      <3>1. /\ pc[c] = "new" /\ pc'[c] = "announce" /\ outcome' = outcome
            /\ \A d \in Conns \ {c} : pc'[d] = pc[d] /\ entry'[d] = entry[d]
        BY <1>4 DEF Enqueue, Goto, RegistryTypes
      <3> QED
        BY <1>3, <2>1, <3>1 DEF Lasts
    <2> QED
      BY <1>4, <2>1 DEF Enqueue
  <1>5. ASSUME NEW c \in Conns, SendBuildQueued(c) PROVE Lasts
    BY <1>2, <1>3, <1>5 DEF SendBuildQueued
  <1>6. ASSUME NEW c \in Conns, SendBuildQueuedError(c) PROVE disk' = registry' \/ Lasts
    <2>1. \A d \in Conns \ {c} : outcome'[d] = outcome[d]
      BY <1>6 DEF SendBuildQueuedError, RegistryTypes
    <2> QED
      BY <1>2, <1>3, <1>6, <2>1 DEF SendBuildQueuedError, Update
  <1>7. ASSUME NEW c \in Conns, Join(c) PROVE Lasts
    BY <1>2, <1>3, <1>7 DEF Join
  <1>8. ASSUME NEW c \in Conns, Grant(c) PROVE Lasts
    BY <1>2, <1>3, <1>8 DEF Grant
  <1>9. ASSUME NEW c \in Conns, Start(c) PROVE disk' = registry' \/ Lasts
    <2>1. "starting" \in Running
      BY DEF Running
    <2> QED
      BY <1>2, <1>3, <1>9, <2>1 DEF Start, Update
  <1>10. ASSUME NEW c \in Conns, Advance(c) PROVE disk' = registry' \/ Lasts
    <2>1. PICK phase \in Phases : /\ <<pc[c], phase>> \in NextPhase
                                  /\ Update(Phased(registry, id[c], phase))
                                  /\ Goto(c, phase) /\ UNCHANGED <<entry, outcome>>
      BY <1>10 DEF Advance
    <2>2. phase \in Running /\ pc[c] # "gone"
      BY <2>1 DEF Running, NextPhase
    <2> QED
      BY <1>2, <1>3, <2>1, <2>2 DEF Update
  <1>11. ASSUME NEW c \in Conns, EndRun(c) PROVE Lasts
    <2>1. /\ pc[c] # "gone" /\ Goto(c, "record") /\ UNCHANGED <<entry, disk>>
          /\ \A d \in Conns \ {c} : outcome'[d] = outcome[d]
      BY <1>11 DEF EndRun, Phases, RegistryTypes
    <2> QED
      BY <1>2, <1>3, <2>1
  <1>12. ASSUME NEW c \in Conns, Record(c) PROVE disk' = registry' \/ Lasts
    BY <1>2, <1>3, <1>12 DEF Record, Update
  <1>13. CASE Heartbeat
    BY <1>13 DEF Heartbeat
  <1>14. CASE Restart
    BY <1>14 DEF Restart
  <1>15. CASE UNCHANGED vars
    BY <1>1, <1>15 DEF vars
  <1> QED
    BY <1>4, <1>5, <1>6, <1>7, <1>8, <1>9, <1>10, <1>11, <1>12, <1>13, <1>14, <1>15
    DEF Next, Handle

\* A file that is not written again stays true.
LEMMA TruthLasts == TellsOnce(disk) /\ Lasts => TellsOnce(disk)'
  <1> SUFFICES ASSUME TellsOnce(disk), Lasts PROVE TellsOnce(disk)'
    OBVIOUS
  <1> DEFINE all == disk.queued \o disk.active \o disk.recent
  <1>1. disk' = disk /\ all' = all
    BY DEF Lasts
  <1>2. \A i, j \in DOMAIN all : all[i].id = all[j].id => i = j
    BY DEF TellsOnce
  <1>3. ASSUME NEW i \in DOMAIN all
        PROVE  \E c \in Conns : entry'[c] = all[i].id /\ pc'[c] \notin {"new", "cut"}
    <2>1. PICK c \in Conns : entry[c] = all[i].id /\ pc[c] \notin {"new", "cut"}
      BY DEF TellsOnce
    <2> HIDE DEF all
    <2> QED
      BY <2>1 DEF Lasts
  <1>4. ASSUME NEW i \in DOMAIN disk.active
        PROVE  \E c \in Conns : /\ entry'[c] = disk.active[i].id
                               /\ pc'[c] \in Running \cup {"record", "gone"}
    <2>1. PICK c \in Conns : /\ entry[c] = disk.active[i].id
                             /\ pc[c] \in Running \cup {"record", "gone"}
      BY DEF TellsOnce
    <2>2. pc[c] \notin {"new", "cut"}
      BY <2>1 DEF Running, Phases
    <2> QED
      BY <2>1, <2>2 DEF Lasts
  <1>5. ASSUME NEW i \in DOMAIN disk.recent
        PROVE  \E c \in Conns : /\ pc'[c] = "gone" /\ entry'[c] = disk.recent[i].id
                               /\ outcome'[c] = disk.recent[i].result
    <2>1. PICK c \in Conns : /\ pc[c] = "gone" /\ entry[c] = disk.recent[i].id
                             /\ outcome[c] = disk.recent[i].result
      BY DEF TellsOnce
    <2> QED
      BY <2>1 DEF Lasts
  <1>6. Len(disk.recent) <= RecentLimit
    BY DEF TellsOnce
  <1> QED
    BY <1>1, <1>2, <1>3, <1>4, <1>5, <1>6 DEF TellsOnce

\* A request is listed once, in the registry and in status.json, and where it is or was.
THEOREM OneEntryEach == Spec => []OnePlaceEach
  <1>1. Init => OnePlaceEach
    <2> SUFFICES ASSUME Init PROVE OnePlaceEach
      OBVIOUS
    <2>1. TellsOnce(registry)
      BY RegistryInit, RegistryTellsOnce
    <2>2. registry = disk
      BY DEF Init
    <2> QED
      BY <2>1, <2>2 DEF OnePlaceEach
  <1>2. RegistryInv /\ RegistryInv' /\ OnePlaceEach /\ [Next]_vars => OnePlaceEach'
    <2> SUFFICES ASSUME RegistryInv, RegistryInv', OnePlaceEach, [Next]_vars PROVE OnePlaceEach'
      OBVIOUS
    <2>1. TellsOnce(registry)'
      BY RegistryTellsOnce, PTL
    <2>2. CASE disk' = registry'
      BY <2>1, <2>2 DEF OnePlaceEach, TellsOnce
    <2>3. CASE Lasts
      BY <2>1, <2>3, TruthLasts DEF OnePlaceEach
    <2> QED
      BY <2>2, <2>3, FileFollows DEF RegistryInv
  <1> QED
    BY <1>1, <1>2, RegistryInvariant, PTL DEF Spec

\* Type correctness of the queue.
WaitersInv == waiters \in Seq(Conns) /\ restarts \in 0..MaxRestarts

THEOREM QueueTypeCorrect == Spec => []TypeOK
  <1>1. Init => WaitersInv
    BY QueueAssumption DEF Init, WaitersInv
  <1>2. WaitersInv /\ [Next]_vars => WaitersInv'
    <2> SUFFICES ASSUME WaitersInv, [Next]_vars PROVE WaitersInv'
      OBVIOUS
    <2>1. ASSUME NEW c \in Conns, Join(c) PROVE WaitersInv'
      BY <2>1, AppendProperties DEF Join, WaitersInv
    <2>2. ASSUME NEW c \in Conns, Grant(c) PROVE WaitersInv'
      BY <2>2, HeadTailProperties DEF Grant, WaitersInv
    <2>3. CASE Restart
      BY <2>3, QueueAssumption DEF Restart, WaitersInv
    <2>4. ASSUME UNCHANGED <<waiters, restarts>> PROVE WaitersInv'
      BY <2>4 DEF WaitersInv
    <2> QED
      BY <2>1, <2>2, <2>3, <2>4
      DEF Next, Handle, Enqueue, SendBuildQueued, SendBuildQueuedError, Start, Advance, EndRun,
          Record, Heartbeat, vars
  <1>3. RegistryInv /\ AdmissionInv /\ WaitersInv => TypeOK
    BY HoldersFinite, QueueAssumption DEF RegistryInv, RegistryTypes, AdmissionInv, WaitersInv, TypeOK
  <1> QED
    BY <1>1, <1>2, <1>3, RegistryInvariant, AdmissionInvariant, PTL DEF Spec
=============================================================================
