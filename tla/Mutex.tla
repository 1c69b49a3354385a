-------------------------------- MODULE Mutex --------------------------------
(***************************************************************************)
(* What the database connection lock of openDias promises to the threads   *)
(* and processes that use it: one user at a time, and a lock left behind   *)
(* by a process that died in the middle of its use stays taken until       *)
(* somebody clears it.  DbLock.tla is shown to implement this module.      *)
(***************************************************************************)
CONSTANT User

VARIABLES
  owner,   \* the users inside the lock
  lock     \* "free", "held" by a live owner, or "orphaned" by a dead one

vars == <<owner, lock>>

Init == owner = {} /\ lock = "free"

Acquire(u) ==
  /\ lock = "free"
  /\ lock' = "held"
  /\ owner' = {u}

Release(u) ==
  /\ owner = {u}
  /\ lock' = "free"
  /\ owner' = {}

\* The process of the owner dies inside the lock.
Abandon ==
  /\ lock = "held"
  /\ lock' = "orphaned"
  /\ owner' = {}

\* Somebody decides that the owner is gone and clears the lock.
Reclaim ==
  /\ lock = "orphaned"
  /\ lock' = "free"
  /\ UNCHANGED owner

Next ==
  \/ \E u \in User : Acquire(u) \/ Release(u)
  \/ Abandon
  \/ Reclaim

Spec == Init /\ [][Next]_vars
==============================================================================
