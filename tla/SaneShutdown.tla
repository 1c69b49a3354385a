---------------------------- MODULE SaneShutdown -----------------------------
(***************************************************************************)
(* server_shutdown of src/src/main.c and waitForSaneProcesses of           *)
(* src/src/saneDispatcher.c: the web thread is stopped, then the daemon    *)
(* waits until inLongRunningOperation is 0, closes the database and exits. *)
(***************************************************************************)
EXTENDS SaneDispatcher

VARIABLE shutdown   \* "up", "waiting" for SANE, "quiet" once it was, or "closed"

shutdownVars == <<dispatchVars, shutdown>>

ShutdownInit == Init /\ shutdown = "up"

\* The daemon serves requests until it is told to stop; its threads run until
\* it exits; a worker outlives it.
Serve ==
  /\ shutdown = "up"
  /\ WebCall \/ \E c \in Caller : StartScan(c)
  /\ UNCHANGED shutdown

DaemonStep ==
  /\ shutdown # "closed"
  /\ \E c \in Caller : Advance(c)
  /\ UNCHANGED shutdown

WorkerStep ==
  /\ \E c \in Caller, answered \in BOOLEAN : WorkerExit(c, answered)
  /\ UNCHANGED shutdown

\* MHD_stop_daemon returns once the web thread has finished its request.
StopServing ==
  /\ shutdown = "up"
  /\ pc[WebThread] = "idle"
  /\ shutdown' = "waiting"
  /\ UNCHANGED dispatchVars

\* waitForSaneProcesses sees the flag reset, looks no more ...
SeeQuiet ==
  /\ shutdown = "waiting"
  /\ inLongRunningOperation = 0
  /\ shutdown' = "quiet"
  /\ UNCHANGED dispatchVars

\* ... and some seconds later the database is closed and the daemon exits.
Close ==
  /\ shutdown = "quiet"
  /\ shutdown' = "closed"
  /\ UNCHANGED dispatchVars

ShutdownNext ==
  Serve \/ DaemonStep \/ WorkerStep \/ StopServing \/ SeeQuiet \/ Close

ShutdownSpec == ShutdownInit /\ [][ShutdownNext]_shutdownVars

\* Threads run, the shutting down thread does, and a worker ends: SANE returns
\* an error when a device does not answer, or the process crashes.
FairShutdown ==
  /\ ShutdownSpec
  /\ \A c \in Caller :
       /\ WF_shutdownVars(shutdown # "closed" /\ Advance(c) /\ UNCHANGED shutdown)
       /\ WF_shutdownVars((\E answered \in BOOLEAN : WorkerExit(c, answered))
                          /\ UNCHANGED shutdown)
  /\ WF_shutdownVars(SeeQuiet) /\ WF_shutdownVars(Close)

------------------------------------------------------------------------------
(* Properties                                                              *)

\* Every call of send_command returns, unless the daemon exits first, even when
\* a worker forked during the call keeps its pipe open and workers crash.
CallReturns ==
  \A c \in Caller : pc[c] = "check" ~> pc[c] = "idle" \/ shutdown = "closed"

\* A daemon that was told to stop stops, whatever commands are in progress,
\* provided that no fork failed.
StopsWhenTold == shutdown = "waiting" ~> shutdown = "closed"
==============================================================================
