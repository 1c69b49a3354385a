---------------------------- MODULE SaneDispatcher ----------------------------
(***************************************************************************)
(* send_command of src/src/saneDispatcher.c: every use of SANE is a child  *)
(* process, opendias_worker, that the calling thread forks, polls and      *)
(* whose answer it then reads from a pipe.  The flag inLongRunningOperation *)
(* decides which calls are turned away or answered from deviceListCache.   *)
(*                                                                         *)
(* The callers are the web thread of the HTTP daemon and the detached      *)
(* threads of pageRender.c that carry out scans; what a scanning worker    *)
(* does to the database is the subject of ScanJob.tla.                     *)
(***************************************************************************)
EXTENDS Integers

CONSTANTS
  Caller,        \* threads of the daemon that use SANE
  WebThread,     \* the one that serves requests
  Query,         \* what it asks of SANE itself
  ForkMayFail,   \* can pipe() or fork() fail?
  WorkerMayDie   \* can a worker crash?

ASSUME DispatcherAssumption ==
  /\ WebThread \in Caller
  /\ Query \subseteq {"list", "details"}
  /\ ForkMayFail \in BOOLEAN
  /\ WorkerMayDie \in BOOLEAN

Command == {"list", "details", "scan"}

\* What a call returns: the worker's own words, the cached device list, or
\* one of the two words the dispatcher makes up.
Answer == {"ok", "cached", "BUSY", "ERROR"}

VARIABLES
  inLongRunningOperation,  \* the flag
  deviceListCache,         \* is there a cached device list?
  pc,                      \* where each caller is
  command,                 \* what it asked for
  response,                \* what it was or will be answered
  worker,                  \* the child it forked: "none", "running", "exited"
  inherited,               \* callers whose pipe its child also holds open
  pipeOpen                 \* callers whose pipe's write end the daemon holds open

dispatchVars == <<inLongRunningOperation, deviceListCache, pc, command,
                  response, worker, inherited, pipeOpen>>

DispatchInit ==
  /\ inLongRunningOperation = 0
  /\ deviceListCache = FALSE
  /\ pc = [c \in Caller |-> "idle"]
  /\ command = [c \in Caller |-> "list"]
  /\ response = [c \in Caller |-> "ok"]
  /\ worker = [c \in Caller |-> "none"]
  /\ inherited = [c \in Caller |-> {}]
  /\ pipeOpen = {}

Running(c) == worker[c] = "running"

Goto(c, label) == pc' = [pc EXCEPT ![c] = label]

------------------------------------------------------------------------------
(* send_command                                                            *)

Call(c, cmd) ==
  /\ pc[c] = "idle"
  /\ command' = [command EXCEPT ![c] = cmd]
  /\ Goto(c, "check")
  /\ UNCHANGED <<inLongRunningOperation, deviceListCache, response, worker,
                 inherited, pipeOpen>>

\* The words a call is refused with.
Refusal(c) ==
  IF command[c] = "list" /\ deviceListCache THEN "cached" ELSE "BUSY"

\* The busy test: lists and scans look at the flag, details do not.
CheckBusy(c) ==
  /\ pc[c] = "check"
  /\ IF inLongRunningOperation = 1 /\ command[c] # "details"
     THEN /\ response' = [response EXCEPT ![c] = Refusal(c)]
          /\ Goto(c, "return")
     ELSE /\ Goto(c, "lock")
          /\ UNCHANGED response
  /\ UNCHANGED <<inLongRunningOperation, deviceListCache, command, worker,
                 inherited, pipeOpen>>

\* The flag is set some time after it was tested.
SetBusy(c) ==
  /\ pc[c] = "lock"
  /\ inLongRunningOperation' = 1
  /\ Goto(c, "pipe")
  /\ UNCHANGED <<deviceListCache, command, response, worker, inherited, pipeOpen>>

\* pipe(), or the BUSY answer that leaves the flag set.
OpenPipe(c) ==
  /\ pc[c] = "pipe"
  /\ \/ /\ pipeOpen' = pipeOpen \cup {c}
        /\ Goto(c, "fork")
        /\ UNCHANGED response
     \/ /\ ForkMayFail
        /\ response' = [response EXCEPT ![c] = "BUSY"]
        /\ Goto(c, "return")
        /\ UNCHANGED pipeOpen
  /\ UNCHANGED <<inLongRunningOperation, deviceListCache, command, worker, inherited>>

\* fork(): the child gets a copy of every pipe open in the daemon, its own
\* and those of the commands in progress.  A failed fork leaves the flag set
\* (and the two ends of a pipe nobody will use).
Fork(c) ==
  /\ pc[c] = "fork"
  /\ \/ /\ worker' = [worker EXCEPT ![c] = "running"]
        /\ inherited' = [inherited EXCEPT ![c] = pipeOpen]
        /\ Goto(c, "wait")
        /\ UNCHANGED <<response, pipeOpen>>
     \/ /\ ForkMayFail
        /\ response' = [response EXCEPT ![c] = "BUSY"]
        /\ pipeOpen' = pipeOpen \ {c}
        /\ Goto(c, "return")
        /\ UNCHANGED <<worker, inherited>>
  /\ UNCHANGED <<inLongRunningOperation, deviceListCache, command>>

\* The child ends with an answer on its stdout, or with none: it crashed,
\* could not start, or could not open the database.
WorkerExit(c, answered) ==
  /\ Running(c)
  /\ answered \/ WorkerMayDie
  /\ worker' = [worker EXCEPT ![c] = "exited"]
  /\ inherited' = [inherited EXCEPT ![c] = {}]
  /\ response' = [response EXCEPT ![c] = IF answered THEN "ok" ELSE "ERROR"]
  /\ UNCHANGED <<inLongRunningOperation, deviceListCache, pc, command, pipeOpen>>

\* Mutant: the parent keeps its copy of the write end.
ReapOnly(c) ==
  /\ pc[c] = "wait"
  /\ worker[c] = "exited"
  /\ worker' = [worker EXCEPT ![c] = "none"]
  /\ Goto(c, "read")
  /\ UNCHANGED <<inLongRunningOperation, deviceListCache, command, response,
                 inherited, pipeOpen>>

\* waitpid reports the end of the child; the write end is closed.
Reap(c) ==
  /\ pc[c] = "wait"
  /\ worker[c] = "exited"
  /\ worker' = [worker EXCEPT ![c] = "none"]
  /\ pipeOpen' = pipeOpen \ {c}
  /\ Goto(c, "read")
  /\ UNCHANGED <<inLongRunningOperation, deviceListCache, command, response, inherited>>

\* The pipe is read up to its end, which comes only once neither the daemon
\* nor a worker forked in the meantime holds its write end; no byte at all
\* reads as "ERROR".
ReadResponse(c) ==
  /\ pc[c] = "read"
  /\ c \notin pipeOpen
  /\ \A d \in Caller : c \notin inherited[d]
  /\ Goto(c, "unlock")
  /\ UNCHANGED <<inLongRunningOperation, deviceListCache, command, response,
                 worker, inherited, pipeOpen>>

\* Mutant: the flag is not reset after a failed worker.
ClearBusyOnSuccess(c) ==
  /\ pc[c] = "unlock"
  /\ inLongRunningOperation' =
       IF response[c] = "ERROR" THEN inLongRunningOperation ELSE 0
  /\ Goto(c, IF command[c] = "list" THEN "cache" ELSE "return")
  /\ UNCHANGED <<deviceListCache, command, response, worker, inherited, pipeOpen>>

\* The flag is reset, whoever set it last.
ClearBusy(c) ==
  /\ pc[c] = "unlock"
  /\ inLongRunningOperation' = 0
  /\ Goto(c, IF command[c] = "list" THEN "cache" ELSE "return")
  /\ UNCHANGED <<deviceListCache, command, response, worker, inherited, pipeOpen>>

\* freeSaneCache, then the response (whatever it is) becomes the cache.
StoreList(c) ==
  /\ pc[c] = "cache"
  /\ deviceListCache' = TRUE
  /\ Goto(c, "return")
  /\ UNCHANGED <<inLongRunningOperation, command, response, worker, inherited, pipeOpen>>

\* The call is over; nothing of it remains.
Return(c) ==
  /\ pc[c] = "return"
  /\ Goto(c, "idle")
  /\ command' = [command EXCEPT ![c] = "list"]
  /\ response' = [response EXCEPT ![c] = "ok"]
  /\ UNCHANGED <<inLongRunningOperation, deviceListCache, worker, inherited, pipeOpen>>

Proceed(c) ==
  \/ CheckBusy(c) \/ SetBusy(c) \/ OpenPipe(c) \/ Fork(c) \/ Reap(c)
  \/ ReadResponse(c) \/ ClearBusy(c) \/ StoreList(c)

Advance(c) == Proceed(c) \/ Return(c)

------------------------------------------------------------------------------
\* A request for the list or the details of the scanners is served by the
\* web thread itself.
WebCall ==
  \E cmd \in Query : Call(WebThread, cmd)

\* doScan and nextPageReady, run by the web thread, start a thread that calls
\* send_command some time later.
StartScan(c) ==
  /\ c # WebThread
  /\ pc[WebThread] = "idle"
  /\ Call(c, "scan")

Init == DispatchInit
vars == dispatchVars

Next ==
  \/ WebCall
  \/ \E c \in Caller : \/ StartScan(c)
                       \/ Advance(c)
                       \/ \E answered \in BOOLEAN : WorkerExit(c, answered)

Spec == Init /\ [][Next]_vars

------------------------------------------------------------------------------
(* Properties                                                              *)

Labels == {"idle", "check", "lock", "pipe", "fork", "wait", "read", "unlock",
           "cache", "return"}

TypeOK ==
  /\ inLongRunningOperation \in {0, 1}
  /\ deviceListCache \in BOOLEAN
  /\ pc \in [Caller -> Labels]
  /\ command \in [Caller -> Command]
  /\ response \in [Caller -> Answer]
  /\ worker \in [Caller -> {"none", "running", "exited"}]
  /\ inherited \in [Caller -> SUBSET Caller]
  /\ pipeOpen \in SUBSET Caller

\* Between setting the flag and resetting it.
Busy(c) == pc[c] \in {"pipe", "fork", "wait", "read", "unlock"}

\* Nobody is told BUSY for nothing: unless a fork failed, a set flag always
\* has a command in progress that will reset it, in whatever order the
\* commands that overlap set and reset it.
BusyHasCause ==
  ~ForkMayFail /\ inLongRunningOperation = 1 => \E c \in Caller : Busy(c)

\* "Attempt a second scan - ensure it is rejected" (test/t/3_a_scanning.pm):
\* there is never more than one scanning worker.
OneScanAtATime ==
  \A c, d \in Caller :
    Running(c) /\ Running(d) /\ command[c] = "scan" /\ command[d] = "scan" => c = d
==============================================================================
