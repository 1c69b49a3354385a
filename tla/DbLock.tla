------------------------------- MODULE DbLock --------------------------------
(***************************************************************************)
(* The database connection lock of src/src/db.c.                           *)
(*                                                                         *)
(* Every SQL statement is run between wait_for_connection_lock and         *)
(* free_connection_lock.  The lock has two parts: the static flag          *)
(* connectingInUse, one per process, meant to keep the threads of the      *)
(* process apart, and the directory /tmp/opendias.db.lock, whose creation  *)
(* is atomic, shared by the daemon, its SANE workers and opendiasconfig.   *)
(* Processes die (SANE backends crash the worker); the daemon removes the  *)
(* directory unconditionally when it starts.                               *)
(***************************************************************************)
EXTENDS Integers

CONSTANTS
  Proc,         \* processes: the daemon, workers, opendiasconfig
  Main,         \* the daemon
  Thread,       \* threads of all the processes
  procOf,       \* the process a thread belongs to
  Inserter,     \* threads that run INSERTs (in the daemon: the web thread)
  Mortal,       \* processes that may die at any point
  QuietRestart  \* TRUE: no orphan is inside the lock when the daemon starts

ASSUME DbLockAssumption ==
  /\ Main \in Proc
  /\ procOf \in [Thread -> Proc]
  /\ Inserter \subseteq Thread
  /\ \A t, u \in Inserter : procOf[t] = procOf[u] => t = u
  /\ Mortal \subseteq Proc
  /\ QuietRestart \in BOOLEAN

VARIABLES
  pc,        \* where each thread is
  inUse,     \* connectingInUse of each process
  lockDir,   \* does /tmp/opendias.db.lock exist
  lastRow,   \* per connection: the thread whose row was inserted last, if any
  stmt       \* the statement a thread ran: "other", "inserted" or "failed"

vars == <<pc, inUse, lockDir, lastRow, stmt>>

ThreadsOf(p) == {t \in Thread : procOf[t] = p}

Waiting(t) == pc[t] \in {"spin", "claim", "mkdir"}
Holding(t) == pc[t] \in {"locked", "unlock", "rmdir"}
Orphaned   == lockDir /\ \A t \in Thread : ~Holding(t)
Down(p)    == \A t \in ThreadsOf(p) : pc[t] = "dead"

Init ==
  /\ pc = [t \in Thread |-> IF procOf[t] = Main THEN "idle" ELSE "dead"]
  /\ inUse = [p \in Proc |-> 0]
  /\ lockDir = FALSE
  /\ lastRow = [p \in Proc |-> {}]
  /\ stmt = [t \in Thread |-> "other"]

------------------------------------------------------------------------------
(* wait_for_connection_lock                                                *)

\* A thread wants to run a statement.
Call(t) ==
  /\ pc[t] = "idle"
  /\ pc' = [pc EXCEPT ![t] = "spin"]
  /\ UNCHANGED <<inUse, lockDir, lastRow, stmt>>

\* The loop on connectingInUse is left ...
SeeUnused(t) ==
  /\ pc[t] = "spin"
  /\ inUse[procOf[t]] = 0
  /\ pc' = [pc EXCEPT ![t] = "claim"]
  /\ UNCHANGED <<inUse, lockDir, lastRow, stmt>>

\* ... and only then is the flag set.
Claim(t) ==
  /\ pc[t] = "claim"
  /\ inUse' = [inUse EXCEPT ![procOf[t]] = 1]
  /\ pc' = [pc EXCEPT ![t] = "mkdir"]
  /\ UNCHANGED <<lockDir, lastRow, stmt>>

\* Mutant: an existing directory (EEXIST) no longer keeps the caller waiting.
MakeDirIgnoringEEXIST(t) ==
  /\ pc[t] = "mkdir"
  /\ lockDir' = TRUE
  /\ pc' = [pc EXCEPT ![t] = "locked"]
  /\ UNCHANGED <<inUse, lastRow, stmt>>

\* mkdir succeeds only when the directory is not there.
MakeDir(t) ==
  /\ pc[t] = "mkdir"
  /\ ~lockDir
  /\ lockDir' = TRUE
  /\ pc' = [pc EXCEPT ![t] = "locked"]
  /\ UNCHANGED <<inUse, lastRow, stmt>>

------------------------------------------------------------------------------
(* The statement, and free_connection_lock                                 *)

\* Mutant: another thread of the daemon inserts rows as well.
AnyThreadInserts(t) == TRUE

\* INSERTs are run by at most one thread of each connection: the handlers of
\* the single web thread in the daemon, the only thread of a worker.
Inserts(t) == t \in Inserter

\* Mutant: the early return of a failed statement forgets to free the lock.
RunStatementLeaking(t) ==
  /\ pc[t] = "locked"
  /\ \E s \in {"other", "failed"} :
       /\ stmt' = [stmt EXCEPT ![t] = "other"]
       /\ pc' = [pc EXCEPT ![t] = IF s = "failed" THEN "idle" ELSE "unlock"]
  /\ UNCHANGED <<inUse, lockDir, lastRow>>

\* sqlite3_prepare_v2 .. sqlite3_finalize: an INSERT that works moves the
\* last row id of the connection, one that fails leaves it alone.
RunStatement(t) ==
  /\ pc[t] = "locked"
  /\ \E s \in {"other"} \cup (IF Inserts(t) THEN {"inserted", "failed"} ELSE {}) :
       /\ stmt' = [stmt EXCEPT ![t] = s]
       /\ lastRow' = IF s = "inserted"
                     THEN [lastRow EXCEPT ![procOf[t]] = {t}] ELSE lastRow
  /\ pc' = [pc EXCEPT ![t] = "unlock"]
  /\ UNCHANGED <<inUse, lockDir>>

\* Mutant: connectingInUse is never reset.
ClearInUseForgotten(t) ==
  /\ pc[t] = "unlock"
  /\ pc' = [pc EXCEPT ![t] = "rmdir"]
  /\ UNCHANGED <<inUse, lockDir, lastRow, stmt>>

\* connectingInUse is reset before the directory is removed.
ClearInUse(t) ==
  /\ pc[t] = "unlock"
  /\ inUse' = [inUse EXCEPT ![procOf[t]] = 0]
  /\ pc' = [pc EXCEPT ![t] = "rmdir"]
  /\ UNCHANGED <<lockDir, lastRow, stmt>>

RemoveDir(t) ==
  /\ pc[t] = "rmdir"
  /\ lockDir' = FALSE
  /\ pc' = [pc EXCEPT ![t] = IF stmt[t] = "other" THEN "idle" ELSE "rowid"]
  /\ UNCHANGED <<inUse, lastRow, stmt>>

\* last_insert reads the row id of the connection, outside the lock.
LastInsert(t) ==
  /\ pc[t] = "rowid"
  /\ stmt' = [stmt EXCEPT ![t] = "other"]
  /\ pc' = [pc EXCEPT ![t] = "idle"]
  /\ UNCHANGED <<inUse, lockDir, lastRow>>

------------------------------------------------------------------------------
(* Processes come and go                                                   *)

\* A worker or opendiasconfig starts, with an unused flag and connection.
Spawn(p) ==
  /\ p # Main
  /\ Down(p)
  /\ pc' = [t \in Thread |-> IF procOf[t] = p THEN "idle" ELSE pc[t]]
  /\ inUse' = [inUse EXCEPT ![p] = 0]
  /\ lastRow' = [lastRow EXCEPT ![p] = {}]
  /\ stmt' = [t \in Thread |-> IF procOf[t] = p THEN "other" ELSE stmt[t]]
  /\ UNCHANGED lockDir

\* An orderly exit, between two statements.
Exit(p) ==
  /\ p # Main
  /\ \A t \in ThreadsOf(p) : pc[t] = "idle"
  /\ pc' = [t \in Thread |-> IF procOf[t] = p THEN "dead" ELSE pc[t]]
  /\ UNCHANGED <<inUse, lockDir, lastRow, stmt>>

\* The process dies wherever its threads are; the directory stays.
Die(p) ==
  /\ p \in Mortal
  /\ ~Down(p)
  /\ pc' = [t \in Thread |-> IF procOf[t] = p THEN "dead" ELSE pc[t]]
  /\ UNCHANGED <<inUse, lockDir, lastRow, stmt>>

\* setup() of main.c: the daemon starts and removes the directory, whoever
\* made it.
Restart ==
  /\ Down(Main)
  /\ QuietRestart => \A t \in Thread : ~Holding(t)
  /\ lockDir' = FALSE
  /\ pc' = [t \in Thread |-> IF procOf[t] = Main THEN "idle" ELSE pc[t]]
  /\ inUse' = [inUse EXCEPT ![Main] = 0]
  /\ lastRow' = [lastRow EXCEPT ![Main] = {}]
  /\ stmt' = [t \in Thread |-> IF procOf[t] = Main THEN "other" ELSE stmt[t]]

------------------------------------------------------------------------------
Lock(t)   == SeeUnused(t) \/ Claim(t) \/ MakeDir(t)
Unlock(t) == ClearInUse(t) \/ RemoveDir(t)

Next ==
  \/ \E t \in Thread : Call(t) \/ Lock(t) \/ RunStatement(t)
                         \/ Unlock(t) \/ LastInsert(t)
  \/ \E p \in Proc : Spawn(p) \/ Exit(p) \/ Die(p)
  \/ Restart

Spec == Init /\ [][Next]_vars

\* A thread inside db.c keeps running; nobody has to call it.
FairSpec ==
  /\ Spec
  /\ \A t \in Thread :
       WF_vars(Lock(t) \/ RunStatement(t) \/ Unlock(t) \/ LastInsert(t))

------------------------------------------------------------------------------
(* Properties                                                              *)

TypeOK ==
  /\ pc \in [Thread -> {"idle", "spin", "claim", "mkdir", "locked", "unlock",
                        "rmdir", "rowid", "dead"}]
  /\ inUse \in [Proc -> {0, 1}]
  /\ lockDir \in BOOLEAN
  /\ lastRow \in [Proc -> SUBSET Thread]
  /\ stmt \in [Thread -> {"other", "inserted", "failed"}]

\* Of all threads of all processes at most one is between the mkdir that
\* succeeded and its rmdir, so no two statements run at the same time, even
\* though any number of threads may have passed the connectingInUse loop.
MutualExclusion ==
  \A t, u \in Thread : Holding(t) /\ Holding(u) => t = u

\* connectingInUse is never left set with nobody to reset it: when it is 1 a
\* thread of the process that has yet to run free_connection_lock exists,
\* whatever number of threads raced through the loop and overwrote each
\* other's flag.
FlagHasOwner ==
  \A p \in Proc : ~Down(p) /\ inUse[p] = 1 =>
    \E t \in ThreadsOf(p) : pc[t] \in {"mkdir", "locked", "unlock"}

\* last_insert is called after the lock was given back; it still returns the
\* row the caller inserted, because no other thread of the same connection
\* inserts in the meantime (addNewDoc hands this id on as the document id).
InsertedRowIsLast ==
  \A t \in Thread :
    pc[t] \in {"unlock", "rmdir", "rowid"} /\ stmt[t] = "inserted"
      => lastRow[procOf[t]] = {t}

\* Unless processes die again and again: as long as somebody wants the
\* database and no orphaned directory is in the way, somebody gets it; racing
\* threads never lock each other out (which of the waiting threads it is is
\* left to the scheduler).
SomebodyGetsIn ==
  \/ []<><<\E p \in Proc : Die(p)>>_vars
  \/ (\E t \in Thread : Waiting(t)) ~>
       \/ \E t \in Thread : Holding(t)
       \/ \A t \in Thread : ~Waiting(t)
       \/ Orphaned

\* The two-part lock implements the plain one.
Abstract ==
  INSTANCE Mutex WITH
    User  <- Thread,
    owner <- {t \in Thread : Holding(t)},
    lock  <- IF ~lockDir THEN "free"
             ELSE IF \E t \in Thread : Holding(t) THEN "held" ELSE "orphaned"

\* Every step of the lock is a step of Mutex: it is taken when free, given
\* back by its owner, orphaned by a death, and cleared by a restart alone.
ImplementsMutex == Abstract!Spec
==============================================================================
