-------------------------- MODULE OutputCacheProofs --------------------------
(***************************************************************************)
(* The entries of the output cache: filled by one task at a time, within   *)
(* the permits, ready when their copy has ended well, and never served     *)
(* without their NAR, for any paths, references, tasks, connections, lost  *)
(* connections and restarts, and whatever the directory held before.       *)
(***************************************************************************)
EXTENDS OutputCache, FiniteSetTheorems, TLAPS

Copying == {"remove", "start", "copying", "verify"}

\* Locks exclude: a task past its lock still has it, and no two tasks have the
\* locks of one path.
LockInv ==
    /\ \A t \in Tasks : pc[t] \in Filling => t \in locked
    /\ \A t, u \in locked : PathOf[t] = PathOf[u] => t = u

\* Permits bound: a task past its permit still has it.
PermitInv ==
    /\ \A t \in Tasks : pc[t] \in Copying => t \in permitted
    /\ IsFiniteSet(permitted) /\ Cardinality(permitted) <= MaxFills

\* What a handler goes on to serve has its NAR.
NarInv == \A t \in Tasks : pc[t] \in {"read", "nar"} => PathOf[t] \in nar

\* Once the stale narinfo is gone the entry is absent or ready, and it becomes
\* ready before the copy can end well.
CopyInv ==
    \A t \in Tasks :
        /\ pc[t] = "start" => (PathOf[t] \in narinfo => PathOf[t] \in nar)
        /\ pc[t] = "copying" /\ copy[t] = "running" =>
               PathOf[t] \in todo[t] \/ Ready(PathOf[t])
        /\ pc[t] = "copying" /\ copy[t] = "ok" => Ready(PathOf[t])
        /\ pc[t] = "verify" => Ready(PathOf[t])

\* A copy has its task, or is what a lost connection left running; no task is ahead
\* of its connection.
OrphanInv ==
    \A t \in Tasks :
        /\ copy[t] = "running" =>
               \/ pc[t] = "copying"
               \/ t \notin Prewarms /\ pc[t] = "dropped" /\ conn[ConnOf[t]] = "lost"
        /\ conn[ConnOf[t]] = "none" => pc[t] = "none"

CacheInv == TypeOK /\ LockInv /\ PermitInv /\ NarInv /\ CopyInv /\ OrphanInv

USE DEF Goto, Release, Ensured, Handlers, UnchangedFiles, UnchangedRun, UnchangedCopies

LEMMA PathOfType == PathOf \in [Tasks -> Paths]  BY CacheAssumption

LEMMA ShrinkPermits ==
  ASSUME CacheInv, NEW S
  PROVE  IsFiniteSet(permitted \ S) /\ Cardinality(permitted \ S) <= MaxFills
  <1>1. IsFiniteSet(permitted \ S) /\ Cardinality(permitted \ S) <= Cardinality(permitted)
        BY FS_Subset DEF CacheInv, PermitInv
  <1>2. Cardinality(permitted \ S) \in Nat /\ Cardinality(permitted) \in Nat
        BY <1>1, FS_CardinalityType DEF CacheInv, PermitInv
  <1> QED  BY <1>1, <1>2, CacheAssumption DEF CacheInv, PermitInv

\* Types, and no permit without a lock.
LEMMA TypeStep ==
  ASSUME CacheInv, [Next]_vars
  PROVE  TypeOK'
  <1>1. ASSUME NEW k \in Conns, Serve(k) PROVE TypeOK'
        BY <1>1, CacheAssumption DEF Serve, CacheInv, TypeOK, Working, Filling, Stopped
  <1>2. ASSUME NEW k \in Conns, CacheDone(k) PROVE TypeOK'
        BY <1>2, CacheAssumption DEF CacheDone, CacheInv, TypeOK, Working, Filling, Stopped
  <1>3. ASSUME NEW k \in Conns, Drained(k) PROVE TypeOK'
        BY <1>3, CacheAssumption DEF Drained, CacheInv, TypeOK, Working, Filling, Stopped
  <1>4. ASSUME NEW k \in Conns, Lose(k) PROVE TypeOK'
    <2> DEFINE gone == {t \in Tasks \ Prewarms : ConnOf[t] = k /\ pc[t] \in Working}
    <2>1. pc' = [t \in Tasks |-> IF t \in gone THEN "dropped" ELSE pc[t]]
          BY <1>4 DEF Lose
    <2>2. pc' \in [Tasks -> {"none"} \cup Working \cup Stopped]
          BY <2>1 DEF CacheInv, TypeOK, Stopped
    <2>3. conn' \in [Conns -> {"none", "serving", "draining", "done", "lost"}]
          BY <1>4 DEF Lose, CacheInv, TypeOK
    <2>4. locked' \subseteq Tasks /\ permitted' \subseteq locked'
          BY <1>4 DEF Lose, CacheInv, TypeOK
    <2>5. losses' \in 0..MaxLosses
          BY <1>4, CacheAssumption DEF Lose, CacheInv, TypeOK
    <2> QED  BY <1>4, <2>2, <2>3, <2>4, <2>5 DEF Lose, CacheInv, TypeOK
  <1>5. ASSUME NEW t \in Tasks, Request(t) PROVE TypeOK'
        BY <1>5, CacheAssumption DEF Request, CacheInv, TypeOK, Working, Filling, Stopped
  <1>6. ASSUME NEW t \in Tasks, Check(t) PROVE TypeOK'
        BY <1>6, CacheAssumption DEF Check, CacheInv, TypeOK, Working, Filling, Stopped
  <1>7. ASSUME NEW t \in Tasks, Lock(t) PROVE TypeOK'
        BY <1>7, CacheAssumption DEF Lock, CacheInv, TypeOK, Working, Filling, Stopped
  <1>8. ASSUME NEW t \in Tasks, Recheck(t) PROVE TypeOK'
        BY <1>8, CacheAssumption DEF Recheck, CacheInv, TypeOK, Working, Filling, Stopped
  <1>9. ASSUME NEW t \in Tasks, Permit(t) PROVE TypeOK'
        BY <1>9, CacheAssumption DEF Permit, CacheInv, TypeOK, Working, Filling, Stopped, LockInv
  <1>10. ASSUME NEW t \in Tasks, RemoveStale(t) PROVE TypeOK'
        BY <1>10, CacheAssumption DEF RemoveStale, CacheInv, TypeOK, Working, Filling, Stopped
  <1>11. ASSUME NEW t \in Tasks, StartCopy(t) PROVE TypeOK'
        BY <1>11, CacheAssumption DEF StartCopy, CacheInv, TypeOK, Working, Filling, Stopped
  <1>12. ASSUME NEW t \in Tasks, EndCopy(t) PROVE TypeOK'
        BY <1>12, CacheAssumption DEF EndCopy, CacheInv, TypeOK, Working, Filling, Stopped
  <1>13. ASSUME NEW t \in Tasks, Verify(t) PROVE TypeOK'
        BY <1>13, CacheAssumption DEF Verify, CacheInv, TypeOK, Working, Filling, Stopped
  <1>14. ASSUME NEW t \in Tasks, ReadNarinfo(t) PROVE TypeOK'
        BY <1>14, CacheAssumption DEF ReadNarinfo, CacheInv, TypeOK, Working, Filling, Stopped
  <1>15. ASSUME NEW t \in Tasks, StreamNar(t) PROVE TypeOK'
        BY <1>15, CacheAssumption DEF StreamNar, CacheInv, TypeOK, Working, Filling, Stopped
  <1>16. ASSUME NEW t \in Tasks, WriteNar(t) PROVE TypeOK'
        BY <1>16, CacheAssumption DEF WriteNar, CacheInv, TypeOK, Working, Filling, Stopped
  <1>17. ASSUME NEW t \in Tasks, WriteNarinfo(t) PROVE TypeOK'
        BY <1>17, CacheAssumption DEF WriteNarinfo, CacheInv, TypeOK, Working, Filling, Stopped
  <1>18. ASSUME NEW t \in Tasks, ExitCopy(t) PROVE TypeOK'
        BY <1>18, CacheAssumption DEF ExitCopy, CacheInv, TypeOK, Working, Filling, Stopped
  <1>19. CASE Restart
    <2>1. pc' \in [Tasks -> {"none"} \cup Working \cup Stopped]
          BY <1>19 DEF Restart, CacheInv, TypeOK, Stopped
    <2>2. conn' \in [Conns -> {"none", "serving", "draining", "done", "lost"}]
          BY <1>19 DEF Restart, CacheInv, TypeOK
    <2>3. copy' \in [Tasks -> {"none", "running", "ok", "error"}]
          BY <1>19 DEF Restart, CacheInv, TypeOK
    <2>4. todo' \in [Tasks -> SUBSET Paths] /\ locked' = {} /\ permitted' = {}
          BY <1>19 DEF Restart
    <2>5. restarts' \in 0..MaxRestarts
          BY <1>19, CacheAssumption DEF Restart, CacheInv, TypeOK
    <2> QED  BY <1>19, <2>1, <2>2, <2>3, <2>4, <2>5 DEF Restart, CacheInv, TypeOK
  <1>20. CASE UNCHANGED vars
        BY <1>20, CacheAssumption DEF vars, CacheInv, TypeOK, Working, Filling, Stopped
  <1> QED
        BY <1>1, <1>2, <1>3, <1>4, <1>5, <1>6, <1>7, <1>8, <1>9,
           <1>10, <1>11, <1>12, <1>13, <1>14, <1>15, <1>16, <1>17, <1>18, <1>19, <1>20
        DEF Next, TaskStep, CopyStep

\* A lock is taken only when free and kept until the task leaves.
LEMMA LockStep ==
  ASSUME CacheInv, [Next]_vars
  PROVE  LockInv'
  <1>1. ASSUME NEW k \in Conns, Serve(k) PROVE LockInv'
        BY <1>1, PathOfType DEF Serve, CacheInv, TypeOK, LockInv, Working, Filling
  <1>2. ASSUME NEW k \in Conns, CacheDone(k) PROVE LockInv'
        BY <1>2, PathOfType DEF CacheDone, CacheInv, TypeOK, LockInv, Working, Filling
  <1>3. ASSUME NEW k \in Conns, Drained(k) PROVE LockInv'
        BY <1>3, PathOfType DEF Drained, CacheInv, TypeOK, LockInv, Working, Filling
  <1>4. ASSUME NEW k \in Conns, Lose(k) PROVE LockInv'
        BY <1>4, PathOfType DEF Lose, CacheInv, TypeOK, LockInv, Working, Filling
  <1>5. ASSUME NEW t \in Tasks, Request(t) PROVE LockInv'
        BY <1>5, PathOfType DEF Request, CacheInv, TypeOK, LockInv, Working, Filling
  <1>6. ASSUME NEW t \in Tasks, Check(t) PROVE LockInv'
        BY <1>6, PathOfType DEF Check, CacheInv, TypeOK, LockInv, Working, Filling
  <1>7. ASSUME NEW t \in Tasks, Lock(t) PROVE LockInv'
        BY <1>7, PathOfType DEF Lock, CacheInv, TypeOK, LockInv, Working, Filling
  <1>8. ASSUME NEW t \in Tasks, Recheck(t) PROVE LockInv'
        BY <1>8, PathOfType DEF Recheck, CacheInv, TypeOK, LockInv, Working, Filling
  <1>9. ASSUME NEW t \in Tasks, Permit(t) PROVE LockInv'
        BY <1>9, PathOfType DEF Permit, CacheInv, TypeOK, LockInv, Working, Filling
  <1>10. ASSUME NEW t \in Tasks, RemoveStale(t) PROVE LockInv'
        BY <1>10, PathOfType DEF RemoveStale, CacheInv, TypeOK, LockInv, Working, Filling
  <1>11. ASSUME NEW t \in Tasks, StartCopy(t) PROVE LockInv'
        BY <1>11, PathOfType DEF StartCopy, CacheInv, TypeOK, LockInv, Working, Filling
  <1>12. ASSUME NEW t \in Tasks, EndCopy(t) PROVE LockInv'
        BY <1>12, PathOfType DEF EndCopy, CacheInv, TypeOK, LockInv, Working, Filling
  <1>13. ASSUME NEW t \in Tasks, Verify(t) PROVE LockInv'
        BY <1>13, PathOfType DEF Verify, CacheInv, TypeOK, LockInv, Working, Filling
  <1>14. ASSUME NEW t \in Tasks, ReadNarinfo(t) PROVE LockInv'
        BY <1>14, PathOfType DEF ReadNarinfo, CacheInv, TypeOK, LockInv, Working, Filling
  <1>15. ASSUME NEW t \in Tasks, StreamNar(t) PROVE LockInv'
        BY <1>15, PathOfType DEF StreamNar, CacheInv, TypeOK, LockInv, Working, Filling
  <1>16. ASSUME NEW t \in Tasks, WriteNar(t) PROVE LockInv'
        BY <1>16, PathOfType DEF WriteNar, CacheInv, TypeOK, LockInv, Working, Filling
  <1>17. ASSUME NEW t \in Tasks, WriteNarinfo(t) PROVE LockInv'
        BY <1>17, PathOfType DEF WriteNarinfo, CacheInv, TypeOK, LockInv, Working, Filling
  <1>18. ASSUME NEW t \in Tasks, ExitCopy(t) PROVE LockInv'
        BY <1>18, PathOfType DEF ExitCopy, CacheInv, TypeOK, LockInv, Working, Filling
  <1>19. CASE Restart
        BY <1>19, PathOfType DEF Restart, CacheInv, TypeOK, LockInv, Working, Filling
  <1>20. CASE UNCHANGED vars
        BY <1>20, PathOfType DEF vars, CacheInv, TypeOK, LockInv, Working, Filling
  <1> QED
        BY <1>1, <1>2, <1>3, <1>4, <1>5, <1>6, <1>7, <1>8, <1>9,
           <1>10, <1>11, <1>12, <1>13, <1>14, <1>15, <1>16, <1>17, <1>18, <1>19, <1>20
        DEF Next, TaskStep, CopyStep

\* A permit is taken only when there is one.
LEMMA PermitStep ==
  ASSUME CacheInv, [Next]_vars
  PROVE  PermitInv'
  <1>1. ASSUME NEW k \in Conns, Serve(k) PROVE PermitInv'
        BY <1>1 DEF Serve, CacheInv, TypeOK, PermitInv, Copying, Working, Filling
  <1>2. ASSUME NEW k \in Conns, CacheDone(k) PROVE PermitInv'
        BY <1>2 DEF CacheDone, CacheInv, TypeOK, PermitInv, Copying, Working, Filling
  <1>3. ASSUME NEW k \in Conns, Drained(k) PROVE PermitInv'
        BY <1>3 DEF Drained, CacheInv, TypeOK, PermitInv, Copying, Working, Filling
  <1>4. ASSUME NEW k \in Conns, Lose(k) PROVE PermitInv'
    <2> DEFINE gone == {t \in Tasks \ Prewarms : ConnOf[t] = k /\ pc[t] \in Working}
    <2>1. permitted' = permitted \ gone
          BY <1>4 DEF Lose
    <2>2. IsFiniteSet(permitted') /\ Cardinality(permitted') <= MaxFills
          BY <2>1, ShrinkPermits
    <2>3. \A t \in Tasks : pc'[t] = IF t \in gone THEN "dropped" ELSE pc[t]
          BY <1>4 DEF Lose
    <2>4. \A t \in Tasks : pc'[t] \in Copying => t \in permitted'
          BY <2>1, <2>3 DEF CacheInv, PermitInv, Copying
    <2> QED  BY <2>2, <2>4 DEF PermitInv
  <1>5. ASSUME NEW t \in Tasks, Request(t) PROVE PermitInv'
        BY <1>5 DEF Request, CacheInv, TypeOK, PermitInv, Copying, Working, Filling
  <1>6. ASSUME NEW t \in Tasks, Check(t) PROVE PermitInv'
        BY <1>6, ShrinkPermits DEF Check, CacheInv, TypeOK, PermitInv, Copying, Working, Filling
  <1>7. ASSUME NEW t \in Tasks, Lock(t) PROVE PermitInv'
        BY <1>7 DEF Lock, CacheInv, TypeOK, PermitInv, Copying, Working, Filling
  <1>8. ASSUME NEW t \in Tasks, Recheck(t) PROVE PermitInv'
        BY <1>8, ShrinkPermits DEF Recheck, CacheInv, TypeOK, PermitInv, Copying, Working, Filling
  <1>9. ASSUME NEW t \in Tasks, Permit(t) PROVE PermitInv'
    <2>1. permitted' = permitted \cup {t} /\ Cardinality(permitted) < MaxFills
          BY <1>9 DEF Permit
    <2>2. IsFiniteSet(permitted) /\ Cardinality(permitted) \in Nat
          BY FS_CardinalityType DEF CacheInv, PermitInv
    <2>3. IsFiniteSet(permitted') /\ Cardinality(permitted') <= Cardinality(permitted) + 1
          BY <2>1, <2>2, FS_AddElement
    <2>4. Cardinality(permitted') <= MaxFills
          BY <2>1, <2>2, <2>3, FS_CardinalityType, CacheAssumption
    <2>5. \A u \in Tasks : pc'[u] \in Copying => u \in permitted'
          BY <1>9 DEF Permit, CacheInv, TypeOK, PermitInv, Copying
    <2> QED  BY <2>3, <2>4, <2>5 DEF PermitInv
  <1>10. ASSUME NEW t \in Tasks, RemoveStale(t) PROVE PermitInv'
        BY <1>10 DEF RemoveStale, CacheInv, TypeOK, PermitInv, Copying, Working, Filling
  <1>11. ASSUME NEW t \in Tasks, StartCopy(t) PROVE PermitInv'
        BY <1>11 DEF StartCopy, CacheInv, TypeOK, PermitInv, Copying, Working, Filling
  <1>12. ASSUME NEW t \in Tasks, EndCopy(t) PROVE PermitInv'
        BY <1>12, ShrinkPermits DEF EndCopy, CacheInv, TypeOK, PermitInv, Copying, Working, Filling
  <1>13. ASSUME NEW t \in Tasks, Verify(t) PROVE PermitInv'
        BY <1>13, ShrinkPermits DEF Verify, CacheInv, TypeOK, PermitInv, Copying, Working, Filling
  <1>14. ASSUME NEW t \in Tasks, ReadNarinfo(t) PROVE PermitInv'
        BY <1>14 DEF ReadNarinfo, CacheInv, TypeOK, PermitInv, Copying, Working, Filling
  <1>15. ASSUME NEW t \in Tasks, StreamNar(t) PROVE PermitInv'
        BY <1>15 DEF StreamNar, CacheInv, TypeOK, PermitInv, Copying, Working, Filling
  <1>16. ASSUME NEW t \in Tasks, WriteNar(t) PROVE PermitInv'
        BY <1>16 DEF WriteNar, CacheInv, TypeOK, PermitInv, Copying, Working, Filling
  <1>17. ASSUME NEW t \in Tasks, WriteNarinfo(t) PROVE PermitInv'
        BY <1>17 DEF WriteNarinfo, CacheInv, TypeOK, PermitInv, Copying, Working, Filling
  <1>18. ASSUME NEW t \in Tasks, ExitCopy(t) PROVE PermitInv'
        BY <1>18 DEF ExitCopy, CacheInv, TypeOK, PermitInv, Copying, Working, Filling
  <1>19. CASE Restart
    <2>1. \A t \in Tasks : pc'[t] \notin Copying
          BY <1>19 DEF Restart, Copying, Working, Filling
    <2>2. permitted' = {}  BY <1>19 DEF Restart
    <2> QED  BY <2>1, <2>2, FS_EmptySet, CacheAssumption DEF PermitInv
  <1>20. CASE UNCHANGED vars
        BY <1>20 DEF vars, CacheInv, TypeOK, PermitInv, Copying, Working, Filling
  <1> QED
        BY <1>1, <1>2, <1>3, <1>4, <1>5, <1>6, <1>7, <1>8, <1>9,
           <1>10, <1>11, <1>12, <1>13, <1>14, <1>15, <1>16, <1>17, <1>18, <1>19, <1>20
        DEF Next, TaskStep, CopyStep

\* NARs stay, and only a ready entry is gone on with.
LEMMA NarStep ==
  ASSUME CacheInv, [Next]_vars
  PROVE  NarInv'
  <1>1. ASSUME NEW k \in Conns, Serve(k) PROVE NarInv'
        BY <1>1, PathOfType DEF Serve, CacheInv, TypeOK, NarInv, Ready, Working, Filling
  <1>2. ASSUME NEW k \in Conns, CacheDone(k) PROVE NarInv'
        BY <1>2, PathOfType DEF CacheDone, CacheInv, TypeOK, NarInv, Ready, Working, Filling
  <1>3. ASSUME NEW k \in Conns, Drained(k) PROVE NarInv'
        BY <1>3, PathOfType DEF Drained, CacheInv, TypeOK, NarInv, Ready, Working, Filling
  <1>4. ASSUME NEW k \in Conns, Lose(k) PROVE NarInv'
        BY <1>4, PathOfType DEF Lose, CacheInv, TypeOK, NarInv, Ready, Working, Filling
  <1>5. ASSUME NEW t \in Tasks, Request(t) PROVE NarInv'
        BY <1>5, PathOfType DEF Request, CacheInv, TypeOK, NarInv, Ready, Working, Filling
  <1>6. ASSUME NEW t \in Tasks, Check(t) PROVE NarInv'
        BY <1>6, PathOfType DEF Check, CacheInv, TypeOK, NarInv, Ready, Working, Filling
  <1>7. ASSUME NEW t \in Tasks, Lock(t) PROVE NarInv'
        BY <1>7, PathOfType DEF Lock, CacheInv, TypeOK, NarInv, Ready, Working, Filling
  <1>8. ASSUME NEW t \in Tasks, Recheck(t) PROVE NarInv'
        BY <1>8, PathOfType DEF Recheck, CacheInv, TypeOK, NarInv, Ready, Working, Filling
  <1>9. ASSUME NEW t \in Tasks, Permit(t) PROVE NarInv'
        BY <1>9, PathOfType DEF Permit, CacheInv, TypeOK, NarInv, Ready, Working, Filling
  <1>10. ASSUME NEW t \in Tasks, RemoveStale(t) PROVE NarInv'
        BY <1>10, PathOfType DEF RemoveStale, CacheInv, TypeOK, NarInv, Ready, Working, Filling
  <1>11. ASSUME NEW t \in Tasks, StartCopy(t) PROVE NarInv'
        BY <1>11, PathOfType DEF StartCopy, CacheInv, TypeOK, NarInv, Ready, Working, Filling
  <1>12. ASSUME NEW t \in Tasks, EndCopy(t) PROVE NarInv'
        BY <1>12, PathOfType DEF EndCopy, CacheInv, TypeOK, NarInv, Ready, Working, Filling
  <1>13. ASSUME NEW t \in Tasks, Verify(t) PROVE NarInv'
        BY <1>13, PathOfType DEF Verify, CacheInv, TypeOK, NarInv, Ready, Working, Filling
  <1>14. ASSUME NEW t \in Tasks, ReadNarinfo(t) PROVE NarInv'
        BY <1>14, PathOfType DEF ReadNarinfo, CacheInv, TypeOK, NarInv, Ready, Working, Filling
  <1>15. ASSUME NEW t \in Tasks, StreamNar(t) PROVE NarInv'
        BY <1>15, PathOfType DEF StreamNar, CacheInv, TypeOK, NarInv, Ready, Working, Filling
  <1>16. ASSUME NEW t \in Tasks, WriteNar(t) PROVE NarInv'
        BY <1>16, PathOfType DEF WriteNar, CacheInv, TypeOK, NarInv, Ready, Working, Filling
  <1>17. ASSUME NEW t \in Tasks, WriteNarinfo(t) PROVE NarInv'
        BY <1>17, PathOfType DEF WriteNarinfo, CacheInv, TypeOK, NarInv, Ready, Working, Filling
  <1>18. ASSUME NEW t \in Tasks, ExitCopy(t) PROVE NarInv'
        BY <1>18, PathOfType DEF ExitCopy, CacheInv, TypeOK, NarInv, Ready, Working, Filling
  <1>19. CASE Restart
        BY <1>19, PathOfType DEF Restart, CacheInv, TypeOK, NarInv, Ready, Working, Filling
  <1>20. CASE UNCHANGED vars
        BY <1>20, PathOfType DEF vars, CacheInv, TypeOK, NarInv, Ready, Working, Filling
  <1> QED
        BY <1>1, <1>2, <1>3, <1>4, <1>5, <1>6, <1>7, <1>8, <1>9,
           <1>10, <1>11, <1>12, <1>13, <1>14, <1>15, <1>16, <1>17, <1>18, <1>19, <1>20
        DEF Next, TaskStep, CopyStep

\* Only the task that holds the lock removes the narinfo of the path.
LEMMA CopyInvStep ==
  ASSUME CacheInv, [Next]_vars
  PROVE  CopyInv'
  <1>1. ASSUME NEW k \in Conns, Serve(k) PROVE CopyInv'
        BY <1>1, PathOfType DEF Serve, CacheInv, TypeOK, CopyInv, Ready, Working, Filling
  <1>2. ASSUME NEW k \in Conns, CacheDone(k) PROVE CopyInv'
        BY <1>2, PathOfType DEF CacheDone, CacheInv, TypeOK, CopyInv, Ready, Working, Filling
  <1>3. ASSUME NEW k \in Conns, Drained(k) PROVE CopyInv'
        BY <1>3, PathOfType DEF Drained, CacheInv, TypeOK, CopyInv, Ready, Working, Filling
  <1>4. ASSUME NEW k \in Conns, Lose(k) PROVE CopyInv'
        BY <1>4, PathOfType DEF Lose, CacheInv, TypeOK, CopyInv, Ready, Working, Filling
  <1>5. ASSUME NEW t \in Tasks, Request(t) PROVE CopyInv'
        BY <1>5, PathOfType DEF Request, CacheInv, TypeOK, CopyInv, Ready, Working, Filling
  <1>6. ASSUME NEW t \in Tasks, Check(t) PROVE CopyInv'
        BY <1>6, PathOfType DEF Check, CacheInv, TypeOK, CopyInv, Ready, Working, Filling
  <1>7. ASSUME NEW t \in Tasks, Lock(t) PROVE CopyInv'
        BY <1>7, PathOfType DEF Lock, CacheInv, TypeOK, CopyInv, Ready, Working, Filling
  <1>8. ASSUME NEW t \in Tasks, Recheck(t) PROVE CopyInv'
        BY <1>8, PathOfType DEF Recheck, CacheInv, TypeOK, CopyInv, Ready, Working, Filling
  <1>9. ASSUME NEW t \in Tasks, Permit(t) PROVE CopyInv'
        BY <1>9, PathOfType DEF Permit, CacheInv, TypeOK, CopyInv, Ready, Working, Filling
  <1>10. ASSUME NEW t \in Tasks, RemoveStale(t) PROVE CopyInv'
        BY <1>10, PathOfType DEF RemoveStale, CacheInv, TypeOK, CopyInv, Ready, Working, Filling, LockInv
  <1>11. ASSUME NEW t \in Tasks, StartCopy(t) PROVE CopyInv'
        BY <1>11, PathOfType, CacheAssumption DEF StartCopy, CacheInv, TypeOK, CopyInv, Ready, Working, Filling
  <1>12. ASSUME NEW t \in Tasks, EndCopy(t) PROVE CopyInv'
        BY <1>12, PathOfType DEF EndCopy, CacheInv, TypeOK, CopyInv, Ready, Working, Filling
  <1>13. ASSUME NEW t \in Tasks, Verify(t) PROVE CopyInv'
        BY <1>13, PathOfType DEF Verify, CacheInv, TypeOK, CopyInv, Ready, Working, Filling
  <1>14. ASSUME NEW t \in Tasks, ReadNarinfo(t) PROVE CopyInv'
        BY <1>14, PathOfType DEF ReadNarinfo, CacheInv, TypeOK, CopyInv, Ready, Working, Filling
  <1>15. ASSUME NEW t \in Tasks, StreamNar(t) PROVE CopyInv'
        BY <1>15, PathOfType DEF StreamNar, CacheInv, TypeOK, CopyInv, Ready, Working, Filling
  <1>16. ASSUME NEW t \in Tasks, WriteNar(t) PROVE CopyInv'
        BY <1>16, PathOfType DEF WriteNar, CacheInv, TypeOK, CopyInv, Ready, Working, Filling
  <1>17. ASSUME NEW t \in Tasks, WriteNarinfo(t) PROVE CopyInv'
        BY <1>17, PathOfType DEF WriteNarinfo, CacheInv, TypeOK, CopyInv, Ready, Working, Filling
  <1>18. ASSUME NEW t \in Tasks, ExitCopy(t) PROVE CopyInv'
        BY <1>18, PathOfType DEF ExitCopy, CacheInv, TypeOK, CopyInv, Ready, Working, Filling
  <1>19. CASE Restart
        BY <1>19, PathOfType DEF Restart, CacheInv, TypeOK, CopyInv, Ready, Working, Filling
  <1>20. CASE UNCHANGED vars
        BY <1>20, PathOfType DEF vars, CacheInv, TypeOK, CopyInv, Ready, Working, Filling
  <1> QED
        BY <1>1, <1>2, <1>3, <1>4, <1>5, <1>6, <1>7, <1>8, <1>9,
           <1>10, <1>11, <1>12, <1>13, <1>14, <1>15, <1>16, <1>17, <1>18, <1>19, <1>20
        DEF Next, TaskStep, CopyStep

\* A task that has started a copy waits for it, unless its handler is dropped.
LEMMA OrphanStep ==
  ASSUME CacheInv, [Next]_vars
  PROVE  OrphanInv'
  <1>1. ASSUME NEW k \in Conns, Serve(k) PROVE OrphanInv'
    <2>1. /\ copy' = copy
          /\ \A t \in Tasks : pc'[t] = IF ConnOf[t] = k /\ t \in Prewarms
                                      THEN "check" ELSE pc[t]
      BY <1>1 DEF Serve
    <2>2. /\ conn[k] = "none"
          /\ \A t \in Tasks : conn'[ConnOf[t]] = IF ConnOf[t] = k THEN "serving" ELSE conn[ConnOf[t]]
      BY <1>1, CacheAssumption DEF Serve, CacheInv, TypeOK
    <2> QED
      BY <2>1, <2>2 DEF CacheInv, OrphanInv, Working, Filling
  <1>2. ASSUME NEW k \in Conns, CacheDone(k) PROVE OrphanInv'
    <2>1. /\ copy' = copy
          /\ \A t \in Tasks : pc'[t] = pc[t]
      BY <1>2 DEF CacheDone
    <2>2. /\ conn[k] = "serving"
          /\ \A t \in Tasks : conn'[ConnOf[t]] = IF ConnOf[t] = k THEN "draining" ELSE conn[ConnOf[t]]
      BY <1>2, CacheAssumption DEF CacheDone, CacheInv, TypeOK
    <2> QED
      BY <2>1, <2>2 DEF CacheInv, OrphanInv, Working, Filling
  <1>3. ASSUME NEW k \in Conns, Drained(k) PROVE OrphanInv'
    <2>1. /\ copy' = copy
          /\ \A t \in Tasks : pc'[t] = pc[t]
      BY <1>3 DEF Drained
    <2>2. /\ conn[k] = "draining"
          /\ \A t \in Tasks : conn'[ConnOf[t]] = IF ConnOf[t] = k THEN "done" ELSE conn[ConnOf[t]]
      BY <1>3, CacheAssumption DEF Drained, CacheInv, TypeOK
    <2> QED
      BY <2>1, <2>2 DEF CacheInv, OrphanInv, Working, Filling
  <1>4. ASSUME NEW k \in Conns, Lose(k) PROVE OrphanInv'
    <2>1. /\ copy' = copy
          /\ \A t \in Tasks : pc'[t] = IF t \notin Prewarms /\ ConnOf[t] = k /\ pc[t] \in Working
                                      THEN "dropped" ELSE pc[t]
      BY <1>4 DEF Lose
    <2>2. /\ conn[k] = "serving"
          /\ \A t \in Tasks : conn'[ConnOf[t]] = IF ConnOf[t] = k THEN "lost" ELSE conn[ConnOf[t]]
      BY <1>4, CacheAssumption DEF Lose, CacheInv, TypeOK
    <2> QED
      BY <2>1, <2>2 DEF CacheInv, OrphanInv, Working, Filling
  <1>5. ASSUME NEW t \in Tasks, Request(t) PROVE OrphanInv'
        BY <1>5 DEF Request, CacheInv, TypeOK, OrphanInv, Working, Filling
  <1>6. ASSUME NEW t \in Tasks, Check(t) PROVE OrphanInv'
        BY <1>6 DEF Check, CacheInv, TypeOK, OrphanInv, Working, Filling
  <1>7. ASSUME NEW t \in Tasks, Lock(t) PROVE OrphanInv'
        BY <1>7 DEF Lock, CacheInv, TypeOK, OrphanInv, Working, Filling
  <1>8. ASSUME NEW t \in Tasks, Recheck(t) PROVE OrphanInv'
        BY <1>8 DEF Recheck, CacheInv, TypeOK, OrphanInv, Working, Filling
  <1>9. ASSUME NEW t \in Tasks, Permit(t) PROVE OrphanInv'
        BY <1>9 DEF Permit, CacheInv, TypeOK, OrphanInv, Working, Filling
  <1>10. ASSUME NEW t \in Tasks, RemoveStale(t) PROVE OrphanInv'
        BY <1>10 DEF RemoveStale, CacheInv, TypeOK, OrphanInv, Working, Filling
  <1>11. ASSUME NEW t \in Tasks, StartCopy(t) PROVE OrphanInv'
        BY <1>11 DEF StartCopy, CacheInv, TypeOK, OrphanInv, Working, Filling
  <1>12. ASSUME NEW t \in Tasks, EndCopy(t) PROVE OrphanInv'
        BY <1>12 DEF EndCopy, CacheInv, TypeOK, OrphanInv, Working, Filling
  <1>13. ASSUME NEW t \in Tasks, Verify(t) PROVE OrphanInv'
        BY <1>13 DEF Verify, CacheInv, TypeOK, OrphanInv, Working, Filling
  <1>14. ASSUME NEW t \in Tasks, ReadNarinfo(t) PROVE OrphanInv'
        BY <1>14 DEF ReadNarinfo, CacheInv, TypeOK, OrphanInv, Working, Filling
  <1>15. ASSUME NEW t \in Tasks, StreamNar(t) PROVE OrphanInv'
        BY <1>15 DEF StreamNar, CacheInv, TypeOK, OrphanInv, Working, Filling
  <1>16. ASSUME NEW t \in Tasks, WriteNar(t) PROVE OrphanInv'
        BY <1>16 DEF WriteNar, CacheInv, TypeOK, OrphanInv, Working, Filling
  <1>17. ASSUME NEW t \in Tasks, WriteNarinfo(t) PROVE OrphanInv'
        BY <1>17 DEF WriteNarinfo, CacheInv, TypeOK, OrphanInv, Working, Filling
  <1>18. ASSUME NEW t \in Tasks, ExitCopy(t) PROVE OrphanInv'
        BY <1>18 DEF ExitCopy, CacheInv, TypeOK, OrphanInv, Working, Filling
  <1>19. CASE Restart
        BY <1>19, CacheAssumption DEF Restart, CacheInv, TypeOK, OrphanInv, Working, Filling
  <1>20. CASE UNCHANGED vars
        BY <1>20 DEF vars, CacheInv, OrphanInv
  <1> QED
        BY <1>1, <1>2, <1>3, <1>4, <1>5, <1>6, <1>7, <1>8, <1>9,
           <1>10, <1>11, <1>12, <1>13, <1>14, <1>15, <1>16, <1>17, <1>18, <1>19, <1>20
        DEF Next, TaskStep, CopyStep

\* The six parts together are inductive.
THEOREM CacheInvariant == Spec => []CacheInv
  <1>1. Init => CacheInv
    <2> SUFFICES ASSUME Init PROVE CacheInv  OBVIOUS
    <2>1. TypeOK  BY CacheAssumption DEF Init, TypeOK
    <2>2. LockInv  BY DEF Init, LockInv, Filling
    <2>3. PermitInv  BY FS_EmptySet, CacheAssumption DEF Init, PermitInv, Copying
    <2>4. NarInv /\ CopyInv /\ OrphanInv  BY CacheAssumption DEF Init, NarInv, CopyInv, OrphanInv
    <2> QED  BY <2>1, <2>2, <2>3, <2>4 DEF CacheInv
  <1>2. CacheInv /\ [Next]_vars => CacheInv'
        BY TypeStep, LockStep, PermitStep, NarStep, CopyInvStep, OrphanStep DEF CacheInv
  <1> QED  BY <1>1, <1>2, PTL DEF Spec

\* Type correctness, and a task holds a permit only with its lock.
THEOREM CacheTypeCorrect == Spec => []TypeOK
  <1>1. CacheInv => TypeOK  BY DEF CacheInv
  <1> QED  BY <1>1, CacheInvariant, PTL

\* An entry is filled by one task at a time, at most MaxFills tasks copy, and only a
\* lost connection leaves a copy running without its task.
THEOREM EntriesFilledOnce == Spec => []OneFillPerEntry
  <1>1. CacheInv => OneFillPerEntry
    <2> SUFFICES ASSUME CacheInv PROVE OneFillPerEntry  OBVIOUS
    <2>1. \A t, u \in Tasks :
             pc[t] \in Filling /\ pc[u] \in Filling /\ PathOf[t] = PathOf[u] => t = u
          BY DEF CacheInv, LockInv
    <2> DEFINE copiers == {t \in Tasks : pc[t] \in {"remove", "start", "copying", "verify"}}
    <2>2. copiers \subseteq permitted  BY DEF CacheInv, PermitInv, Copying
    <2>3. Cardinality(copiers) <= Cardinality(permitted) /\ IsFiniteSet(copiers)
          BY <2>2, FS_Subset DEF CacheInv, PermitInv
    <2>4. Cardinality(copiers) \in Nat /\ Cardinality(permitted) \in Nat
          BY <2>3, FS_CardinalityType DEF CacheInv, PermitInv
    <2>5. Cardinality(copiers) <= MaxFills
          BY <2>3, <2>4, CacheAssumption DEF CacheInv, PermitInv
    <2> QED  BY <2>1, <2>5 DEF OneFillPerEntry, CacheInv, OrphanInv
  <1> QED  BY <1>1, CacheInvariant, PTL

\* A client that was given a narinfo gets the NAR it names.
THEOREM NarsAreServed == Spec => []NarFollowsNarinfo
  <1>1. CacheInv => NarFollowsNarinfo  BY DEF CacheInv, NarInv, NarFollowsNarinfo
  <1> QED  BY <1>1, CacheInvariant, PTL

\* A copy that ended well leaves its entry ready.
THEOREM CopiesMakeReady == Spec => []CopyMakesReady
  <1>1. CacheInv => CopyMakesReady  BY DEF CacheInv, CopyInv, CopyMakesReady
  <1> QED  BY <1>1, CacheInvariant, PTL
=============================================================================
