------------------------------ MODULE MCDbLock -------------------------------
(* Instances of DbLock for TLC: a daemon with its web thread and one other  *)
(* thread (a scan or backpopulate thread), and single-threaded workers.     *)
EXTENDS DbLock

CONSTANTS web, scan, work, main, worker

MCThread   == {web, scan, work}
MCProc     == {main, worker}
MCprocOf   == [t \in MCThread |-> IF t = work THEN worker ELSE main]
MCInserter == {web, work}
==============================================================================
