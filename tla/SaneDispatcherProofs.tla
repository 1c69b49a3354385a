------------------------ MODULE SaneDispatcherProofs -------------------------
(***************************************************************************)
(* Proofs about send_command, for every set of calling threads: also when  *)
(* the daemon is told to stop meanwhile (SaneShutdown).                    *)
(***************************************************************************)
EXTENDS SaneShutdown, TLAPS

\* A step of the dispatcher, whoever takes it.
DispatchStep(c) ==
  \/ \E cmd \in Command : Call(c, cmd)
  \/ Advance(c)
  \/ \E answered \in BOOLEAN : WorkerExit(c, answered)

\* Next adds to DispatchStep only the conditions under which calls are made.
LEMMA NextIsDispatchStep ==
  ASSUME [Next]_vars
  PROVE  (\E c \in Caller : DispatchStep(c)) \/ UNCHANGED vars
<1>1. CASE WebCall
  <2>1. DispatchStep(WebThread) BY <1>1, DispatcherAssumption DEF WebCall, DispatchStep, Command
  <2> QED BY <2>1, DispatcherAssumption
<1>2. ASSUME NEW c \in Caller, StartScan(c) PROVE DispatchStep(c)
  BY <1>2 DEF StartScan, DispatchStep, Command
<1> QED BY <1>1, <1>2 DEF Next, DispatchStep

\* The types are kept by every step of every caller and worker.
LEMMA TypeStep ==
  ASSUME TypeOK, NEW c \in Caller, DispatchStep(c)
  PROVE  TypeOK'
<1> USE DEF TypeOK, Goto, Labels, Answer, Command
<1>1. ASSUME NEW cmd \in Command, Call(c, cmd) PROVE TypeOK'
  BY <1>1 DEF Call
<1>2. CASE CheckBusy(c) BY <1>2 DEF CheckBusy, Refusal
<1>3. CASE SetBusy(c) BY <1>3 DEF SetBusy
<1>4. CASE OpenPipe(c) BY <1>4 DEF OpenPipe
<1>5. CASE Fork(c) BY <1>5 DEF Fork
<1>6. CASE Reap(c) BY <1>6 DEF Reap
<1>7. CASE ReadResponse(c) BY <1>7 DEF ReadResponse
<1>8. CASE ClearBusy(c) BY <1>8 DEF ClearBusy
<1>9. CASE StoreList(c) BY <1>9 DEF StoreList
<1>10. CASE Return(c) BY <1>10 DEF Return
<1>11. ASSUME NEW answered \in BOOLEAN, WorkerExit(c, answered) PROVE TypeOK'
  BY <1>11 DEF WorkerExit
<1> QED BY <1>1, <1>2, <1>3, <1>4, <1>5, <1>6, <1>7, <1>8, <1>9, <1>10, <1>11
        DEF DispatchStep, Advance, Proceed

\* The state of the dispatcher keeps its types.
THEOREM TypeCorrect == Spec => []TypeOK
<1>1. Init => TypeOK
  <2> SUFFICES ASSUME Init PROVE TypeOK
    OBVIOUS
  <2> USE DEF Init, DispatchInit
  <2>1. inLongRunningOperation \in {0, 1} /\ deviceListCache \in BOOLEAN
    OBVIOUS
  <2>2. pc \in [Caller -> Labels] BY DEF Labels
  <2>3. command \in [Caller -> Command] BY DEF Command
  <2>4. response \in [Caller -> Answer] BY DEF Answer
  <2>5. worker \in [Caller -> {"none", "running", "exited"}] OBVIOUS
  <2>6. inherited \in [Caller -> SUBSET Caller] OBVIOUS
  <2>7. pipeOpen \in SUBSET Caller OBVIOUS
  <2> HIDE DEF Init, DispatchInit
  <2> QED BY <2>1, <2>2, <2>3, <2>4, <2>5, <2>6, <2>7 DEF TypeOK
<1>2. TypeOK /\ [Next]_vars => TypeOK'
  <2> SUFFICES ASSUME TypeOK, [Next]_vars PROVE TypeOK'
    OBVIOUS
  <2>1. CASE \E c \in Caller : DispatchStep(c) BY <2>1, TypeStep
  <2>2. CASE UNCHANGED vars BY <2>2 DEF vars, dispatchVars, TypeOK
  <2> QED BY <2>1, <2>2, NextIsDispatchStep
<1> QED BY <1>1, <1>2, PTL DEF Spec

\* A step keeps somebody responsible for a set flag: the one who set it last,
\* or somebody who overlapped with whoever reset it.
LEMMA CauseStep ==
  ASSUME TypeOK, BusyHasCause, NEW c \in Caller, DispatchStep(c)
  PROVE  BusyHasCause'
<1> USE DEF TypeOK, BusyHasCause, Busy, Goto, Labels
<1>1. ASSUME NEW cmd \in Command, Call(c, cmd) PROVE BusyHasCause'
  BY <1>1 DEF Call
<1>2. CASE CheckBusy(c) BY <1>2 DEF CheckBusy
<1>3. CASE SetBusy(c) BY <1>3 DEF SetBusy
<1>4. CASE OpenPipe(c) BY <1>4 DEF OpenPipe
<1>5. CASE Fork(c) BY <1>5 DEF Fork
<1>6. CASE Reap(c) BY <1>6 DEF Reap
<1>7. CASE ReadResponse(c) BY <1>7 DEF ReadResponse
<1>8. CASE ClearBusy(c) BY <1>8 DEF ClearBusy
<1>9. CASE StoreList(c) BY <1>9 DEF StoreList
<1>10. CASE Return(c) BY <1>10 DEF Return
<1>11. ASSUME NEW answered \in BOOLEAN, WorkerExit(c, answered)
       PROVE BusyHasCause'
  BY <1>11 DEF WorkerExit
<1> QED BY <1>1, <1>2, <1>3, <1>4, <1>5, <1>6, <1>7, <1>8, <1>9, <1>10, <1>11
        DEF DispatchStep, Advance, Proceed

\* No call is refused for nothing, however many threads race through the
\* unprotected test-and-set of the flag.
THEOREM RefusalsHaveCause == Spec => []BusyHasCause
<1>1. Init => BusyHasCause
  BY DEF Init, DispatchInit, BusyHasCause
<1>2. TypeOK /\ BusyHasCause /\ [Next]_vars => BusyHasCause'
  <2> SUFFICES ASSUME TypeOK, BusyHasCause, [Next]_vars PROVE BusyHasCause'
    OBVIOUS
  <2>1. CASE \E c \in Caller : DispatchStep(c) BY <2>1, CauseStep
  <2>2. CASE UNCHANGED vars
    BY <2>2 DEF vars, dispatchVars, BusyHasCause, Busy
  <2> QED BY <2>1, <2>2, NextIsDispatchStep
<1> QED BY <1>1, <1>2, TypeCorrect, PTL DEF Spec

------------------------------------------------------------------------------
(* What a call waits for                                                   *)

\* A call in progress waits only for workers that run: its own until it ends,
\* and after that those that hold its pipe open.  The daemon itself has closed
\* the write end before it reads, so a call never waits for another call.
OnlyWorkersHoldUp ==
  \A c \in Caller :
    /\ pc[c] = "wait" => worker[c] \in {"running", "exited"}
    /\ pc[c] = "read" =>
         c \notin pipeOpen /\ \A d \in Caller : c \in inherited[d] => Running(d)

\* The write end of a pipe is open in the daemon from pipe() to the end of the
\* child; pipes are inherited by running workers only, and a worker has a
\* parent that waits for it.
PipeInv ==
  /\ pipeOpen = {c \in Caller : pc[c] \in {"fork", "wait"}}
  /\ \A c \in Caller :
       /\ worker[c] # "none" <=> pc[c] = "wait"
       /\ inherited[c] # {} => Running(c)

LEMMA PipeStep ==
  ASSUME TypeOK, PipeInv, NEW c \in Caller, DispatchStep(c)
  PROVE  PipeInv'
<1> USE DEF TypeOK, PipeInv, Running, Goto, Labels
<1>1. ASSUME NEW cmd \in Command, Call(c, cmd) PROVE PipeInv'
  BY <1>1 DEF Call
<1>2. CASE CheckBusy(c) BY <1>2 DEF CheckBusy
<1>3. CASE SetBusy(c) BY <1>3 DEF SetBusy
<1>4. CASE OpenPipe(c) BY <1>4 DEF OpenPipe
<1>5. CASE Fork(c) BY <1>5 DEF Fork
<1>6. CASE Reap(c) BY <1>6 DEF Reap
<1>7. CASE ReadResponse(c) BY <1>7 DEF ReadResponse
<1>8. CASE ClearBusy(c) BY <1>8 DEF ClearBusy
<1>9. CASE StoreList(c) BY <1>9 DEF StoreList
<1>10. CASE Return(c) BY <1>10 DEF Return
<1>11. ASSUME NEW answered \in BOOLEAN, WorkerExit(c, answered) PROVE PipeInv'
  BY <1>11 DEF WorkerExit
<1> QED BY <1>1, <1>2, <1>3, <1>4, <1>5, <1>6, <1>7, <1>8, <1>9, <1>10, <1>11
        DEF DispatchStep, Advance, Proceed

\* The safety half of CallReturns, for any callers and with workers and forks
\* that fail: nothing but a worker that still runs holds up a call.
THEOREM WorkersHoldUpCalls == Spec => []OnlyWorkersHoldUp
<1>1. Init => PipeInv
  BY DEF Init, DispatchInit, PipeInv
<1>2. TypeOK /\ PipeInv /\ [Next]_vars => PipeInv'
  <2> SUFFICES ASSUME TypeOK, PipeInv, [Next]_vars PROVE PipeInv'
    OBVIOUS
  <2>1. CASE \E c \in Caller : DispatchStep(c) BY <2>1, PipeStep
  <2>2. CASE UNCHANGED vars
    BY <2>2 DEF vars, dispatchVars, PipeInv, Running
  <2> QED BY <2>1, <2>2, NextIsDispatchStep
<1>3. TypeOK /\ PipeInv => OnlyWorkersHoldUp
  BY DEF TypeOK, PipeInv, OnlyWorkersHoldUp
<1> QED BY <1>1, <1>2, <1>3, TypeCorrect, PTL DEF Spec

------------------------------------------------------------------------------
(* The shutdown                                                            *)

\* A daemon that is being stopped uses the dispatcher as before: what holds of
\* send_command holds until the process exits.
THEOREM ShutdownUsesDispatcher == ShutdownSpec => Spec
<1>1. ShutdownInit => Init BY DEF ShutdownInit
<1>2. [ShutdownNext]_shutdownVars => [Next]_vars
  <2> SUFFICES ASSUME [ShutdownNext]_shutdownVars PROVE Next \/ UNCHANGED vars
    OBVIOUS
  <2> USE DEF Next, vars
  <2>1. CASE Serve BY <2>1 DEF Serve
  <2>2. CASE DaemonStep BY <2>2 DEF DaemonStep
  <2>3. CASE WorkerStep BY <2>3 DEF WorkerStep
  <2>4. CASE StopServing BY <2>4 DEF StopServing
  <2>5. CASE SeeQuiet \/ Close BY <2>5 DEF SeeQuiet, Close
  <2>6. CASE UNCHANGED shutdownVars BY <2>6 DEF shutdownVars
  <2> QED BY <2>1, <2>2, <2>3, <2>4, <2>5, <2>6 DEF ShutdownNext
<1> QED BY <1>1, <1>2, PTL DEF ShutdownSpec, Spec

\* Also while it waits for the flag to be reset the daemon waits for a command
\* that will reset it.
THEOREM ShutdownHasCause == ShutdownSpec => []BusyHasCause
BY ShutdownUsesDispatcher, RefusalsHaveCause, PTL
==============================================================================
