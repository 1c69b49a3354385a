---------------------------- MODULE DbLockProofs -----------------------------
(***************************************************************************)
(* Proofs about the database lock, for every set of processes and threads. *)
(***************************************************************************)
EXTENDS DbLock, TLAPS

\* What holds of the lock directory: a thread that is inside the lock finds
\* it there.  It is what keeps a second mkdir from succeeding, and it is
\* what Restart would break if it could run with an orphan inside.
DirInv ==
  /\ MutualExclusion
  /\ \A t \in Thread : Holding(t) => lockDir

\* A thread only ever runs an INSERT if it is its connection's inserter.
InsertInv ==
  /\ \A t \in Thread : stmt[t] # "other" => t \in Inserter
  /\ InsertedRowIsLast

\* The types are kept by every step of every thread and process.
THEOREM TypeCorrect == Spec => []TypeOK
<1>1. Init => TypeOK
  BY DEF Init, TypeOK
<1>2. TypeOK /\ [Next]_vars => TypeOK'
  <2> SUFFICES ASSUME TypeOK, [Next]_vars PROVE TypeOK'
    OBVIOUS
  <2> USE DbLockAssumption DEF TypeOK
  <2>1. ASSUME NEW t \in Thread,
               Call(t) \/ Lock(t) \/ RunStatement(t) \/ Unlock(t) \/ LastInsert(t)
        PROVE TypeOK'
    <3>1. CASE Call(t) BY <3>1 DEF Call
    <3>2. CASE SeeUnused(t) BY <3>2 DEF SeeUnused
    <3>3. CASE Claim(t) BY <3>3 DEF Claim
    <3>4. CASE MakeDir(t) BY <3>4 DEF MakeDir
    <3>5. CASE RunStatement(t) BY <3>5 DEF RunStatement, Inserts
    <3>6. CASE ClearInUse(t) BY <3>6 DEF ClearInUse
    <3>7. CASE RemoveDir(t) BY <3>7 DEF RemoveDir
    <3>8. CASE LastInsert(t) BY <3>8 DEF LastInsert
    <3> QED BY <2>1, <3>1, <3>2, <3>3, <3>4, <3>5, <3>6, <3>7, <3>8
            DEF Lock, Unlock
  <2>2. ASSUME NEW p \in Proc, Spawn(p) \/ Exit(p) \/ Die(p) PROVE TypeOK'
    <3>1. CASE Spawn(p) BY <3>1 DEF Spawn
    <3>2. CASE Exit(p) BY <3>2 DEF Exit
    <3>3. CASE Die(p) BY <3>3 DEF Die
    <3> QED BY <2>2, <3>1, <3>2, <3>3
  <2>3. CASE Restart BY <2>3 DEF Restart
  <2>4. CASE UNCHANGED vars BY <2>4 DEF vars
  <2> QED BY <2>1, <2>2, <2>3, <2>4 DEF Next
<1> QED BY <1>1, <1>2, PTL DEF Spec

\* One step of the lock keeps at most one thread inside it, when the daemon
\* is only restarted with no orphan inside.
LEMMA DirStep ==
  ASSUME QuietRestart, TypeOK, DirInv, [Next]_vars
  PROVE  DirInv'
<1> USE DbLockAssumption DEF TypeOK, DirInv, MutualExclusion, Holding
<1>1. ASSUME NEW t \in Thread,
             Call(t) \/ Lock(t) \/ RunStatement(t) \/ Unlock(t) \/ LastInsert(t)
      PROVE DirInv'
  <2>1. CASE Call(t) BY <2>1 DEF Call
  <2>2. CASE SeeUnused(t) BY <2>2 DEF SeeUnused
  <2>3. CASE Claim(t) BY <2>3 DEF Claim
  <2>4. CASE MakeDir(t) BY <2>4 DEF MakeDir
  <2>5. CASE RunStatement(t) BY <2>5 DEF RunStatement
  <2>6. CASE ClearInUse(t) BY <2>6 DEF ClearInUse
  <2>7. CASE RemoveDir(t) BY <2>7 DEF RemoveDir
  <2>8. CASE LastInsert(t) BY <2>8 DEF LastInsert
  <2> QED BY <1>1, <2>1, <2>2, <2>3, <2>4, <2>5, <2>6, <2>7, <2>8
          DEF Lock, Unlock
<1>2. ASSUME NEW p \in Proc, Spawn(p) \/ Exit(p) \/ Die(p) PROVE DirInv'
  <2>1. CASE Spawn(p) BY <2>1 DEF Spawn, Down, ThreadsOf
  <2>2. CASE Exit(p) BY <2>2 DEF Exit
  <2>3. CASE Die(p) BY <2>3 DEF Die
  <2> QED BY <1>2, <2>1, <2>2, <2>3
<1>3. CASE Restart
  <2>1. \A t \in Thread : ~Holding(t)
    BY <1>3 DEF Restart
  <2> QED BY <1>3, <2>1 DEF Restart
<1>4. CASE UNCHANGED vars BY <1>4 DEF vars
<1> QED BY <1>1, <1>2, <1>3, <1>4 DEF Next

\* Mutual exclusion of all threads of all processes, whatever raced through
\* the connectingInUse loop and whoever died, as long as the daemon is not
\* restarted over a live orphan.
THEOREM Exclusive == ASSUME QuietRestart PROVE Spec => []MutualExclusion
<1>1. Init => DirInv
  BY DEF Init, DirInv, MutualExclusion, Holding
<1>2. TypeOK /\ DirInv /\ [Next]_vars => DirInv'
  BY DirStep
<1>3. DirInv => MutualExclusion
  BY DEF DirInv
<1> QED BY <1>1, <1>2, <1>3, TypeCorrect, PTL DEF Spec

\* connectingInUse is never stuck at 1: no interleaving of the unprotected
\* test-and-set and of the resets loses the last reset.
THEOREM NoStuckFlag == Spec => []FlagHasOwner
<1>1. Init => FlagHasOwner
  BY DEF Init, FlagHasOwner
<1>2. TypeOK /\ FlagHasOwner /\ [Next]_vars => FlagHasOwner'
  <2> SUFFICES ASSUME TypeOK, FlagHasOwner, [Next]_vars PROVE FlagHasOwner'
    OBVIOUS
  <2> USE DbLockAssumption DEF TypeOK, FlagHasOwner, ThreadsOf, Down
  <2>1. ASSUME NEW t \in Thread,
               Call(t) \/ Lock(t) \/ RunStatement(t) \/ Unlock(t) \/ LastInsert(t)
        PROVE FlagHasOwner'
    <3>1. CASE Call(t) BY <3>1 DEF Call
    <3>2. CASE SeeUnused(t) BY <3>2 DEF SeeUnused
    <3>3. CASE Claim(t) BY <3>3 DEF Claim
    <3>4. CASE MakeDir(t) BY <3>4 DEF MakeDir
    <3>5. CASE RunStatement(t) BY <3>5 DEF RunStatement
    <3>6. CASE ClearInUse(t) BY <3>6 DEF ClearInUse
    <3>7. CASE RemoveDir(t) BY <3>7 DEF RemoveDir
    <3>8. CASE LastInsert(t) BY <3>8 DEF LastInsert
    <3> QED BY <2>1, <3>1, <3>2, <3>3, <3>4, <3>5, <3>6, <3>7, <3>8
            DEF Lock, Unlock
  <2>2. ASSUME NEW p \in Proc, Spawn(p) \/ Exit(p) \/ Die(p)
        PROVE FlagHasOwner'
    <3>1. CASE Spawn(p) BY <3>1 DEF Spawn
    <3>2. CASE Exit(p) BY <3>2 DEF Exit
    <3>3. CASE Die(p) BY <3>3 DEF Die
    <3> QED BY <2>2, <3>1, <3>2, <3>3
  <2>3. CASE Restart BY <2>3 DEF Restart
  <2>4. CASE UNCHANGED vars BY <2>4 DEF vars
  <2> QED BY <2>1, <2>2, <2>3, <2>4 DEF Next
<1> QED BY <1>1, <1>2, TypeCorrect, PTL DEF Spec

\* last_insert, called after the lock was given back, returns the row of its
\* caller on every connection that has one inserting thread.
THEOREM OwnRow == Spec => []InsertedRowIsLast
<1>1. Init => InsertInv
  BY DEF Init, InsertInv, InsertedRowIsLast
<1>2. TypeOK /\ InsertInv /\ [Next]_vars => InsertInv'
  <2> SUFFICES ASSUME TypeOK, InsertInv, [Next]_vars PROVE InsertInv'
    OBVIOUS
  <2> USE DbLockAssumption DEF TypeOK, InsertInv, InsertedRowIsLast
  <2>1. ASSUME NEW t \in Thread,
               Call(t) \/ Lock(t) \/ RunStatement(t) \/ Unlock(t) \/ LastInsert(t)
        PROVE InsertInv'
    <3>1. CASE Call(t) BY <3>1 DEF Call
    <3>2. CASE SeeUnused(t) BY <3>2 DEF SeeUnused
    <3>3. CASE Claim(t) BY <3>3 DEF Claim
    <3>4. CASE MakeDir(t) BY <3>4 DEF MakeDir
    <3>5. CASE RunStatement(t) BY <3>5 DEF RunStatement, Inserts
    <3>6. CASE ClearInUse(t) BY <3>6 DEF ClearInUse
    <3>7. CASE RemoveDir(t) BY <3>7 DEF RemoveDir
    <3>8. CASE LastInsert(t) BY <3>8 DEF LastInsert
    <3> QED BY <2>1, <3>1, <3>2, <3>3, <3>4, <3>5, <3>6, <3>7, <3>8
            DEF Lock, Unlock
  <2>2. ASSUME NEW p \in Proc, Spawn(p) \/ Exit(p) \/ Die(p) PROVE InsertInv'
    <3>1. CASE Spawn(p) BY <3>1 DEF Spawn
    <3>2. CASE Exit(p) BY <3>2 DEF Exit
    <3>3. CASE Die(p) BY <3>3 DEF Die
    <3> QED BY <2>2, <3>1, <3>2, <3>3
  <2>3. CASE Restart BY <2>3 DEF Restart
  <2>4. CASE UNCHANGED vars BY <2>4 DEF vars
  <2> QED BY <2>1, <2>2, <2>3, <2>4 DEF Next
<1>3. InsertInv => InsertedRowIsLast
  BY DEF InsertInv
<1> QED BY <1>1, <1>2, <1>3, TypeCorrect, PTL DEF Spec

------------------------------------------------------------------------------
(* The two-part lock implements Mutex                                      *)

\* The locking actions and those around them, seen as steps of Mutex.
LEMMA MutexThreadStep ==
  ASSUME TypeOK, DirInv, NEW t \in Thread,
         Call(t) \/ Lock(t) \/ RunStatement(t) \/ Unlock(t) \/ LastInsert(t)
  PROVE  [Abstract!Next]_Abstract!vars
<1> DEFINE owners == {u \in Thread : Holding(u)}
<1> USE DEF TypeOK, DirInv, MutualExclusion, Abstract!vars
<1>1. CASE Call(t)
  <2>1. owners' = owners /\ lockDir' = lockDir BY <1>1 DEF Call, Holding
  <2> QED BY <2>1
<1>2. CASE SeeUnused(t)
  <2>1. owners' = owners /\ lockDir' = lockDir BY <1>2 DEF SeeUnused, Holding
  <2> QED BY <2>1
<1>3. CASE Claim(t)
  <2>1. owners' = owners /\ lockDir' = lockDir BY <1>3 DEF Claim, Holding
  <2> QED BY <2>1
<1>4. CASE MakeDir(t)
  <2>1. owners = {} /\ ~lockDir BY <1>4 DEF MakeDir
  <2>2. owners' = {t} /\ lockDir' BY <1>4, <2>1 DEF MakeDir, Holding
  <2>3. Abstract!Acquire(t) BY <2>1, <2>2 DEF Abstract!Acquire
  <2> QED BY <2>3 DEF Abstract!Next
<1>5. CASE RunStatement(t)
  <2>1. owners' = owners /\ lockDir' = lockDir
    BY <1>5 DEF RunStatement, Holding
  <2> QED BY <2>1
<1>6. CASE ClearInUse(t)
  <2>1. owners' = owners /\ lockDir' = lockDir
    BY <1>6 DEF ClearInUse, Holding
  <2> QED BY <2>1
<1>7. CASE RemoveDir(t)
  <2>1. owners = {t} BY <1>7 DEF RemoveDir, Holding
  <2>2. owners' = {} /\ ~lockDir' BY <1>7, <2>1 DEF RemoveDir, Holding
  <2>3. Abstract!Release(t) BY <2>1, <2>2 DEF Abstract!Release
  <2> QED BY <2>3 DEF Abstract!Next
<1>8. CASE LastInsert(t)
  <2>1. owners' = owners /\ lockDir' = lockDir
    BY <1>8 DEF LastInsert, Holding
  <2> QED BY <2>1
<1> QED BY <1>1, <1>2, <1>3, <1>4, <1>5, <1>6, <1>7, <1>8 DEF Lock, Unlock

\* The life and death of processes, seen as steps of Mutex.
LEMMA MutexProcessStep ==
  ASSUME QuietRestart, TypeOK, DirInv,
         Restart \/ \E p \in Proc : Spawn(p) \/ Exit(p) \/ Die(p)
  PROVE  [Abstract!Next]_Abstract!vars
<1> DEFINE owners == {u \in Thread : Holding(u)}
<1> USE DEF TypeOK, DirInv, MutualExclusion, Abstract!vars
<1>1. ASSUME NEW p \in Proc, Spawn(p) PROVE [Abstract!Next]_Abstract!vars
  <2>1. owners' = owners /\ lockDir' = lockDir
    BY <1>1 DEF Spawn, Holding, Down, ThreadsOf
  <2> QED BY <2>1
<1>2. ASSUME NEW p \in Proc, Exit(p) PROVE [Abstract!Next]_Abstract!vars
  <2>1. owners' = owners /\ lockDir' = lockDir
    BY <1>2 DEF Exit, Holding, ThreadsOf
  <2> QED BY <2>1
<1>3. ASSUME NEW p \in Proc, Die(p) PROVE [Abstract!Next]_Abstract!vars
  <2>0. lockDir' = lockDir BY <1>3 DEF Die
  <2>1. CASE owners' = owners BY <2>0, <2>1
  <2>2. CASE owners' # owners
    <3>1. PICK t \in Thread : Holding(t) /\ ~Holding(t)'
      BY <1>3, <2>2 DEF Die, Holding
    <3>2. owners' = {} BY <1>3, <3>1 DEF Die, Holding
    <3>3. lockDir /\ owners # {} BY <3>1
    <3>4. Abstract!Abandon BY <2>0, <3>2, <3>3 DEF Abstract!Abandon
    <3> QED BY <3>4 DEF Abstract!Next
  <2> QED BY <2>1, <2>2
<1>4. CASE Restart
  <2>1. owners = {} BY <1>4 DEF Restart
  <2>2. owners' = {} /\ ~lockDir' BY <1>4, <2>1 DEF Restart, Holding
  <2>3. CASE lockDir
    <3>1. Abstract!Reclaim BY <2>1, <2>2, <2>3 DEF Abstract!Reclaim
    <3> QED BY <3>1 DEF Abstract!Next
  <2>4. CASE ~lockDir BY <2>1, <2>2, <2>4
  <2> QED BY <2>3, <2>4
<1> QED BY <1>1, <1>2, <1>3, <1>4

\* The lock of db.c implements the plain lock of Mutex, for any number of
\* processes and threads, crashes included.
THEOREM Refinement == ASSUME QuietRestart PROVE Spec => ImplementsMutex
<1>1. Init => Abstract!Init /\ DirInv
  BY DEF Init, Abstract!Init, Holding, DirInv, MutualExclusion
<1>2. TypeOK /\ DirInv /\ [Next]_vars => DirInv'
  BY DirStep
<1>3. TypeOK /\ DirInv /\ [Next]_vars => [Abstract!Next]_Abstract!vars
  <2> SUFFICES ASSUME TypeOK, DirInv, [Next]_vars
               PROVE  [Abstract!Next]_Abstract!vars
    OBVIOUS
  <2>1. CASE UNCHANGED vars BY <2>1 DEF vars, Abstract!vars, Holding
  <2>2. CASE Next BY <2>2, MutexThreadStep, MutexProcessStep DEF Next
  <2> QED BY <2>1, <2>2
<1> QED BY <1>1, <1>2, <1>3, TypeCorrect, PTL DEF Spec, Abstract!Spec, ImplementsMutex

------------------------------------------------------------------------------
(* Waiting                                                                 *)

\* The thread is inside the lock, or its next step towards it can be taken.
CanMove(t) ==
  \/ Holding(t)
  \/ pc[t] = "spin" /\ inUse[procOf[t]] = 0
  \/ pc[t] = "claim"
  \/ pc[t] = "mkdir" /\ ~lockDir

\* Those who wait never wait for each other: somebody can go on, unless the
\* directory was left behind by a process that died.
WaitersCanMove ==
  (\E t \in Thread : Waiting(t)) /\ ~Orphaned => \E t \in Thread : CanMove(t)

\* The safety half of SomebodyGetsIn, for any processes and threads, whoever
\* dies and restarts: the flag and the directory together have no deadlock.
THEOREM NoDeadlock == Spec => []WaitersCanMove
<1>1. TypeOK /\ FlagHasOwner => WaitersCanMove
  <2> SUFFICES ASSUME TypeOK, FlagHasOwner, ~Orphaned, NEW t \in Thread, Waiting(t)
               PROVE  \E u \in Thread : CanMove(u)
    BY DEF WaitersCanMove
  <2> DEFINE p == procOf[t]
  <2>1. p \in Proc /\ inUse[p] \in {0, 1}
    BY DbLockAssumption DEF TypeOK
  <2>2. CASE lockDir \/ \E u \in Thread : Holding(u)
    BY <2>2 DEF Orphaned, CanMove
  <2>3. CASE ~lockDir /\ pc[t] \in {"claim", "mkdir"}
    BY <2>3 DEF CanMove
  <2>4. CASE ~lockDir /\ pc[t] = "spin" /\ inUse[p] = 0
    BY <2>4 DEF CanMove
  <2>5. CASE ~lockDir /\ pc[t] = "spin" /\ inUse[p] = 1
    <3>1. ~Down(p)
      BY <2>5 DEF Down, ThreadsOf
    <3>2. PICK u \in ThreadsOf(p) : pc[u] \in {"mkdir", "locked", "unlock"}
      BY <2>1, <2>5, <3>1 DEF FlagHasOwner
    <3> QED BY <2>5, <3>2 DEF ThreadsOf, CanMove, Holding
  <2> QED BY <2>1, <2>2, <2>3, <2>4, <2>5 DEF Waiting
<1> QED BY <1>1, TypeCorrect, NoStuckFlag, PTL
==============================================================================
