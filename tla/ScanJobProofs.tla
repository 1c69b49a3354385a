---------------------------- MODULE ScanJobProofs ----------------------------
(***************************************************************************)
(* Proofs about scans, for every set of threads and of scans and every     *)
(* number of pages, in four parts: a scan is in the hands of one thread    *)
(* (HandInv); what is saved, announced and worked on fits together         *)
(* (SaveInv); a client may think of a scan as ScanView describes it; and   *)
(* no thread lets go of a scan without a last word.                        *)
(***************************************************************************)
EXTENDS ScanJob, SaneDispatcherProofs, SequenceTheorems

\* Between its fork and its end a worker has a parent that waits for it, and
\* the word BUSY is only ever on its way to the caller: so a thread whose
\* worker has ended has nothing more to write.
ParentInv ==
  \A c \in Caller :
    /\ Running(c) => pc[c] = "wait"
    /\ response[c] = "BUSY" => pc[c] = "return"

\* A thread that has yet to write keeps requests for its scan away: the scan
\* has a status, and not the one nextPageReady waits for, except between the
\* creation of the thread and MarkNextPage, when the web thread is busy.
HandOverInv ==
  /\ \A c \in Scanner : WillWrite(c) =>
       /\ status[jobOf[c]] # "none"
       /\ status[jobOf[c]] = "WAITING_ON_NEW_PAGE" =>
            request.at = "started" /\ request.job = jobOf[c]
  /\ request.at = "accepted" => status[request.job] = "WAITING_ON_NEW_PAGE"

HandInv == OneThreadPerScan /\ ParentInv /\ HandOverInv

------------------------------------------------------------------------------
(* Types                                                                   *)

\* Changing one element of a sequence keeps its type, and so does the change
\* of an element that is not there.
LEMMA ExceptType ==
  ASSUME NEW S, NEW s \in Seq(S), NEW i \in Nat, NEW e,
         i \in 1 .. Len(s) => e \in S
  PROVE  [s EXCEPT ![i] = e] \in Seq(S)
<1>1. CASE i \in 1 .. Len(s) BY <1>1, ExceptSeq
<1>2. CASE i \notin 1 .. Len(s)
  <2>1. DOMAIN s = 1 .. Len(s) OBVIOUS
  <2>2. [s EXCEPT ![i] = e] = s BY <1>2, <2>1
  <2> QED BY <2>2
<1> QED BY <1>1, <1>2

\* Seen from the dispatcher every step is one of its own.
LEMMA DispatchPart ==
  ASSUME [ScanNext]_scanVars
  PROVE  (\E c \in Caller : DispatchStep(c)) \/ UNCHANGED dispatchVars
<1> USE DispatcherAssumption DEF DispatchStep, Advance, Scanner
<1>1. ASSUME NEW c, NEW j, CreateThread(c, j) PROVE \E d \in Caller : DispatchStep(d)
  BY <1>1 DEF CreateThread, StartScan, Command
<1>2. CASE WebStep
  <2>1. ASSUME NEW j \in Job, NEW n \in 1 .. MaxPages[j], doScan(j, n)
        PROVE (\E c \in Caller : DispatchStep(c)) \/ UNCHANGED dispatchVars
    BY <1>1, <2>1 DEF doScan, NoThread
  <2>2. CASE StartNextPage BY <1>1, <2>2 DEF StartNextPage, NoThread
  <2>3. CASE ScannerQuery BY <2>3 DEF ScannerQuery, WebCall, Command
  <2> QED BY <1>2, <2>1, <2>2, <2>3 DEF WebStep, nextPageReady, MarkNextPage
<1>3. CASE DispatcherStep BY <1>3 DEF DispatcherStep
<1>4. ASSUME NEW c \in Scanner, EndThread(c) PROVE DispatchStep(c)
  BY <1>4 DEF EndThread
<1>5. ASSUME NEW c \in Scanner, EndWorker(c) PROVE DispatchStep(c)
  BY <1>5 DEF EndWorker
<1>6. ASSUME NEW c \in Scanner, Work(c) PROVE UNCHANGED dispatchVars
  BY <1>6 DEF Work, Start, Quietly, sane_open, setOptions, sane_start, FirstPage,
    addNewScannedDoc, SaveDocid, LaterPage, SaveOnPage, collectData, Convert,
    WriteImage, OcrImage, OcrDone, updateNewScannedPage, CalculatePhash,
    savePhash, Finish, Report
<1> QED BY <1>2, <1>3, <1>4, <1>5, <1>6 DEF ScanNext, scanVars

\* Indeed a step the dispatcher's specification allows.
LEMMA ScanStepIsDispatch ==
  ASSUME [ScanNext]_scanVars
  PROVE  [Next]_vars
<1> SUFFICES Next \/ UNCHANGED dispatchVars
  BY DEF vars
<1> USE DispatcherAssumption DEF Next, Advance, Scanner
<1>1. ASSUME NEW c, NEW j, CreateThread(c, j) PROVE Next
  BY <1>1 DEF CreateThread
<1>2. CASE WebStep
  <2>1. ASSUME NEW j \in Job, NEW n \in 1 .. MaxPages[j], doScan(j, n)
        PROVE Next \/ UNCHANGED dispatchVars
    BY <1>1, <2>1 DEF doScan, NoThread
  <2>2. CASE StartNextPage BY <1>1, <2>2 DEF StartNextPage, NoThread
  <2>3. CASE ScannerQuery BY <2>3 DEF ScannerQuery
  <2> QED BY <1>2, <2>1, <2>2, <2>3 DEF WebStep, nextPageReady, MarkNextPage
<1>3. CASE DispatcherStep
  <2>1. ASSUME NEW c \in Caller, Proceed(c) PROVE Next BY <2>1
  <2>2. CASE Return(WebThread) BY <2>2
  <2>3. ASSUME NEW a \in BOOLEAN, WorkerExit(WebThread, a) PROVE Next BY <2>3
  <2> QED BY <1>3, <2>1, <2>2, <2>3 DEF DispatcherStep
<1>4. ASSUME NEW c \in Scanner, EndThread(c) PROVE Next
  BY <1>4 DEF EndThread
<1>5. ASSUME NEW c \in Scanner, EndWorker(c) PROVE Next
  BY <1>5 DEF EndWorker
<1>6. ASSUME NEW c \in Scanner, Work(c) PROVE UNCHANGED dispatchVars
  BY <1>6 DEF Work, Start, Quietly, sane_open, setOptions, sane_start, FirstPage,
    addNewScannedDoc, SaveDocid, LaterPage, SaveOnPage, collectData, Convert,
    WriteImage, OcrImage, OcrDone, updateNewScannedPage, CalculatePhash,
    savePhash, Finish, Report
<1> QED BY <1>2, <1>3, <1>4, <1>5, <1>6 DEF ScanNext, scanVars

\* Threads and requests of scans use the dispatcher as its specification says,
\* so what is proved of send_command holds of scans.
THEOREM ScansUseDispatcher == ScanSpec => Spec
<1>1. ScanInit => Init BY DEF ScanInit, Init
<1> QED BY <1>1, ScanStepIsDispatch, PTL DEF ScanSpec, Spec


\* Threads that are not there stand for some scan.
LEMMA AnyJobType == AnyJob \in Job
  BY ScanJobAssumption DEF AnyJob

\* A part of the work that only reports progress.
LEMMA ReportTypes ==
  ASSUME JobTypes, NEW c \in Scanner, NEW from, NEW s \in Status, NEW to \in Steps,
         Report(c, from, s, to)
  PROVE  JobTypes'
BY DEF Report, JobTypes, updateScanProgress, MoveTo, paramVars

\* A part that changes nothing but the worker's place.
LEMMA QuietTypes ==
  ASSUME JobTypes, NEW c \in Scanner, NEW from, NEW to \in Steps, Quietly(c, from, to)
  PROVE  JobTypes'
BY DEF Quietly, JobTypes, MoveTo, progressVars, paramVars

\* The ways a worker changes a document.
LEMMA DocumentChanges ==
  ASSUME NEW d \in Document, NEW p \in Nat
  PROVE  /\ [d EXCEPT !.images = @ \cup {p}] \in Document
         /\ [d EXCEPT !.pages = p, !.text = Append(@, p)] \in Document
         /\ [d EXCEPT !.phash = TRUE] \in Document
<1>1. [d EXCEPT !.images = @ \cup {p}] \in Document
  <2>1. d.images \cup {p} \in SUBSET Nat BY DEF Document
  <2> QED BY <2>1 DEF Document
<1>2. [d EXCEPT !.pages = p, !.text = Append(@, p)] \in Document
  <2>1. Append(d.text, p) \in Seq(Nat) BY DEF Document
  <2> QED BY <2>1 DEF Document
<1>3. [d EXCEPT !.phash = TRUE] \in Document
  BY DEF Document
<1> QED BY <1>1, <1>2, <1>3

\* A change of the document a worker is busy with.
LEMMA DocsType ==
  ASSUME docs \in Seq(Document), NEW i \in Nat, NEW e,
         i \in 1 .. Len(docs) => e \in Document
  PROVE  [docs EXCEPT ![i] = e] \in Seq(Document)
BY ExceptType

LEMMA WorkTypes ==
  ASSUME JobTypes, NEW c \in Scanner, Work(c)
  PROVE  JobTypes'
<1> USE DEF Status, Steps
<1>1. CASE Start(c) BY <1>1, ReportTypes DEF Start
<1>2. CASE sane_open(c) BY <1>2, QuietTypes, ReportTypes DEF sane_open
<1>3. CASE setOptions(c) BY <1>3, QuietTypes, ReportTypes DEF setOptions
<1>18. CASE sane_start(c) BY <1>18, QuietTypes, ReportTypes DEF sane_start
<1>4. CASE FirstPage(c) BY <1>4, ReportTypes DEF FirstPage
<1>5. CASE addNewScannedDoc(c)
  <2> USE <1>5 DEF addNewScannedDoc, JobTypes, progressVars, paramVars, MoveTo
  <2>1. [pages |-> requested[jobOf[c]], text |-> <<>>, images |-> {}, phash |-> FALSE]
          \in Document
    BY DEF Document
  <2>2. docs' \in Seq(Document) BY <2>1
  <2> QED BY <2>2
<1>6. CASE SaveDocid(c)
  BY <1>6 DEF SaveDocid, MoveTo, JobTypes, progressVars
<1>7. CASE LaterPage(c)
  BY <1>7 DEF LaterPage, MoveTo, JobTypes, progressVars, paramVars
<1>8. CASE SaveOnPage(c)
  BY <1>8 DEF SaveOnPage, MoveTo, JobTypes, progressVars
<1>9. CASE collectData(c) BY <1>9, QuietTypes, ReportTypes DEF collectData
<1>10. CASE Convert(c) BY <1>10, ReportTypes DEF Convert
<1>11. CASE WriteImage(c)
  <2> USE <1>11 DEF WriteImage, JobTypes
  <2> DEFINE new == [docs[docid[c]] EXCEPT !.images = @ \cup {page[c]}]
  <2>1. docid[c] \in 1 .. Len(docs) => new \in Document
    BY DocumentChanges, ElementOfSeq
  <2>2. [docs EXCEPT ![docid[c]] = new] \in Seq(Document)
    <3> HIDE DEF new
    <3> QED BY <2>1, DocsType
  <2>3. docs' \in Seq(Document) BY <2>2
  <2> QED BY <2>3 DEF MoveTo, progressVars, paramVars
<1>12. CASE OcrImage(c) BY <1>12, ReportTypes DEF OcrImage
<1>13. CASE OcrDone(c) BY <1>13, ReportTypes DEF OcrDone
<1>14. CASE updateNewScannedPage(c)
  <2> USE <1>14 DEF updateNewScannedPage, JobTypes
  <2> DEFINE old == docs[docid[c]]
             new == [old EXCEPT !.pages = page[c], !.text = Append(@, page[c])]
  <2>1. docid[c] \in 1 .. Len(docs) => new \in Document
    BY DocumentChanges, ElementOfSeq
  <2>2. [docs EXCEPT ![docid[c]] = new] \in Seq(Document)
    <3> HIDE DEF new
    <3> QED BY <2>1, DocsType
  <2>3. docs' = [docs EXCEPT ![docid[c]] = new]
    OBVIOUS
  <2> QED BY <2>2, <2>3 DEF MoveTo, progressVars, paramVars
<1>15. CASE CalculatePhash(c) BY <1>15, ReportTypes DEF CalculatePhash
<1>16. CASE savePhash(c)
  <2> USE <1>16 DEF savePhash, JobTypes
  <2> DEFINE new == [docs[docid[c]] EXCEPT !.phash = TRUE]
  <2>1. docid[c] \in 1 .. Len(docs) => new \in Document
    BY DocumentChanges, ElementOfSeq
  <2>2. [docs EXCEPT ![docid[c]] = new] \in Seq(Document)
    <3> HIDE DEF new
    <3> QED BY <2>1, DocsType
  <2>3. docs' \in Seq(Document) BY <2>2
  <2> QED BY <2>3 DEF MoveTo, progressVars, paramVars
<1>17. CASE Finish(c)
  <2> USE <1>17 DEF Finish, updateScanProgress, JobTypes
  <2>1. jobOf[c] \in Job /\ docid[c] \in Nat /\ page[c] + 1 \in Nat OBVIOUS
  <2>2. status' \in [Job -> Status] /\ value' \in [Job -> Nat]
    <3>1. CASE LastPage(c) BY <2>1, <3>1
    <3>2. CASE ~LastPage(c) BY <2>1, <3>2
    <3> QED BY <3>1, <3>2
  <2> QED BY <2>2 DEF MoveTo, paramVars
<1> QED BY <1>1, <1>2, <1>3, <1>4, <1>5, <1>6, <1>7, <1>8, <1>9, <1>10, <1>11,
        <1>12, <1>13, <1>14, <1>15, <1>16, <1>17, <1>18 DEF Work

LEMMA RequestTypes ==
  ASSUME JobTypes, WebStep
  PROVE  JobTypes'
<1> USE DEF JobTypes, Status, Steps
<1>1. ASSUME NEW c, NEW j \in Job, CreateThread(c, j)
      PROVE  /\ jobOf' \in [Scanner -> Job] /\ step' \in [Scanner -> Steps]
             /\ page' \in [Scanner -> Nat] /\ docid' \in [Scanner -> Nat]
  BY <1>1 DEF CreateThread
<1>2. ASSUME NoThread
      PROVE  /\ jobOf' \in [Scanner -> Job] /\ step' \in [Scanner -> Steps]
             /\ page' \in [Scanner -> Nat] /\ docid' \in [Scanner -> Nat]
  BY <1>2 DEF NoThread, workerVars
<1>3. NoRequest \in Request BY DEF Request
<1>4. ASSUME NEW j \in Job, nextPageReady(j) PROVE JobTypes'
  BY <1>4 DEF nextPageReady, Request, progressVars, paramVars, workerVars
<1>5. ASSUME NEW j \in Job, NEW n \in 1 .. MaxPages[j], doScan(j, n) PROVE JobTypes'
  <2> USE <1>5 DEF doScan
  <2>1. n \in Nat BY ScanJobAssumption
  <2>2. status' \in [Job -> Status] /\ value' \in [Job -> Nat]
    BY DEF updateScanProgress
  <2> QED BY <1>1, <1>2, <2>1, <2>2
<1>6. CASE StartNextPage
  <2> USE <1>6 DEF StartNextPage
  <2>1. request \in [at : {"accepted", "started"}, job : Job]
    BY DEF Request, NoRequest
  <2>2. request' \in Request BY <2>1 DEF Request
  <2> QED BY <1>1, <1>2, <2>1, <2>2 DEF progressVars, paramVars
<1>7. CASE MarkNextPage
  BY <1>3, <1>7 DEF MarkNextPage, updateScanProgress, paramVars, workerVars
<1>8. CASE ScannerQuery
  BY <1>8 DEF ScannerQuery, jobVars, progressVars, paramVars, workerVars
<1> QED BY <1>4, <1>5, <1>6, <1>7, <1>8 DEF WebStep

\* The state of a scan keeps its types: a worker that finds a document in the
\* database finds a number, a client that asks for the status a status.
THEOREM ScanTypeCorrect == ScanSpec => []ScanTypeOK
<1>1. ScanInit => ScanTypeOK
  <2> SUFFICES ASSUME ScanInit PROVE TypeOK /\ JobTypes BY DEF ScanTypeOK
  <2>1. TypeOK
    BY DEF ScanInit, DispatchInit, TypeOK, Labels, Command, Answer
  <2>2. <<>> \in Seq(Document) OBVIOUS
  <2>3. JobTypes
    BY AnyJobType, <2>2 DEF ScanInit, JobTypes, Status, Steps, Request
  <2> QED BY <2>1, <2>3
<1>2. ScanTypeOK /\ [ScanNext]_scanVars => ScanTypeOK'
  <2> SUFFICES ASSUME TypeOK, JobTypes, [ScanNext]_scanVars
               PROVE TypeOK' /\ JobTypes'
    BY DEF ScanTypeOK
  <2>1. TypeOK' 
    <3>1. ASSUME UNCHANGED dispatchVars PROVE TypeOK'
      BY <3>1 DEF dispatchVars, TypeOK
    <3> QED BY <3>1, DispatchPart, TypeStep
  <2>2. CASE WebStep BY <2>1, <2>2, RequestTypes
  <2>3. CASE UNCHANGED jobVars
    BY <2>1, <2>3 DEF JobTypes, jobVars, progressVars, paramVars, workerVars
  <2>4. ASSUME NEW c \in Scanner, EndThread(c) PROVE JobTypes'
    <3> USE <2>4 DEF EndThread, JobTypes
    <3>1. status' \in [Job -> Status] /\ value' \in [Job -> Nat]
      <4>1. CASE response[c] = "BUSY"
        <5>1. updateScanProgress(jobOf[c], "SANE_BUSY", 0) BY <4>1
        <5>2. "SANE_BUSY" \in Status /\ 0 \in Nat BY DEF Status
        <5> QED BY <5>1, <5>2 DEF updateScanProgress
      <4>2. CASE response[c] # "BUSY" BY <4>2 DEF progressVars
      <4> QED BY <4>1, <4>2
    <3> QED BY <3>1, AnyJobType DEF paramVars, Steps
  <2>5. ASSUME NEW c \in Scanner, Work(c) PROVE JobTypes' BY <2>5, WorkTypes
  <2> QED BY <2>1, <2>2, <2>3, <2>4, <2>5
          DEF ScanNext, DispatcherStep, EndWorker, scanVars
<1> QED BY <1>1, <1>2, PTL DEF ScanSpec

------------------------------------------------------------------------------
(* One thread per scan                                                     *)

\* Forking and reaping keep a worker's parent waiting for it.
LEMMA ParentStep ==
  ASSUME TypeOK, ParentInv, NEW c \in Caller, DispatchStep(c)
  PROVE  ParentInv'
<1> USE DEF TypeOK, ParentInv, Running, Goto
<1>1. ASSUME NEW cmd \in Command, Call(c, cmd) PROVE ParentInv'
  BY <1>1 DEF Call
<1>2. CASE CheckBusy(c) BY <1>2 DEF CheckBusy
<1>3. CASE SetBusy(c) BY <1>3 DEF SetBusy
<1>4. CASE OpenPipe(c) BY <1>4 DEF OpenPipe
<1>5. CASE Fork(c) BY <1>5 DEF Fork
<1>6. CASE Reap(c) BY <1>6 DEF Reap
<1>7. CASE ReadResponse(c) BY <1>7 DEF ReadResponse
<1>8. CASE ClearBusy(c) BY <1>8 DEF ClearBusy
<1>9. CASE StoreList(c) BY <1>9 DEF StoreList
<1>10. CASE Return(c) BY <1>10 DEF Return
<1>11. ASSUME NEW answered \in BOOLEAN, WorkerExit(c, answered) PROVE ParentInv'
  BY <1>11 DEF WorkerExit
<1> QED BY <1>1, <1>2, <1>3, <1>4, <1>5, <1>6, <1>7, <1>8, <1>9, <1>10, <1>11
        DEF DispatchStep, Advance, Proceed

\* A thread does not come to have something to write by a step of the
\* dispatcher: only its creation does that.
LEMMA NoNewWriter ==
  ASSUME TypeOK, ParentInv, NEW c \in Caller,
         Proceed(c) \/ Return(c) \/ \E a \in BOOLEAN : WorkerExit(c, a),
         NEW d \in Scanner, step'[d] = step[d], WillWrite(d)'
  PROVE  WillWrite(d) /\ pc'[d] # "idle"
<1> USE DEF TypeOK, ParentInv, Running, Goto, WillWrite, Scanner
<1>1. CASE CheckBusy(c) BY <1>1 DEF CheckBusy
<1>2. CASE SetBusy(c) BY <1>2 DEF SetBusy
<1>3. CASE OpenPipe(c) BY <1>3 DEF OpenPipe
<1>4. CASE Fork(c) BY <1>4 DEF Fork
<1>5. CASE Reap(c) BY <1>5 DEF Reap
<1>6. CASE ReadResponse(c) BY <1>6 DEF ReadResponse
<1>7. CASE ClearBusy(c) BY <1>7 DEF ClearBusy
<1>8. CASE StoreList(c) BY <1>8 DEF StoreList
<1>9. CASE Return(c) BY <1>9 DEF Return
<1>10. ASSUME NEW a \in BOOLEAN, WorkerExit(c, a)
       PROVE WillWrite(d) /\ pc'[d] # "idle"
  BY <1>10 DEF WorkerExit
<1> QED BY <1>1, <1>2, <1>3, <1>4, <1>5, <1>6, <1>7, <1>8, <1>9, <1>10 DEF Proceed

\* What a worker's step does to the status of its scan: nothing, or a word of
\* its own, and the word that asks for the next page is its last.
LEMMA WorkStep ==
  ASSUME JobTypes, ParentInv, NEW c \in Scanner, Work(c)
  PROVE  /\ Running(c) /\ WillWrite(c)
         /\ UNCHANGED <<dispatchVars, jobOf, request>>
         /\ \E to : step' = [step EXCEPT ![c] = to]
         /\ \/ UNCHANGED status
            \/ \E s : /\ status' = [status EXCEPT ![jobOf[c]] = s]
                      /\ s # "none"
                      /\ s = "WAITING_ON_NEW_PAGE" => step'[c] = "done"
<1> DEFINE Goal ==
      /\ At(c, step[c]) /\ step[c] # "done"
      /\ UNCHANGED <<dispatchVars, jobOf, request>>
      /\ \E to : step' = [step EXCEPT ![c] = to]
      /\ \/ UNCHANGED status
         \/ \E s : /\ status' = [status EXCEPT ![jobOf[c]] = s]
                   /\ s # "none"
                   /\ s = "WAITING_ON_NEW_PAGE" => step'[c] = "done"
<1> SUFFICES Goal
  <2>1. Goal => Running(c) /\ WillWrite(c) BY DEF At, WillWrite, ParentInv, Scanner
  <2> QED BY <2>1
<1>1. ASSUME NEW from, NEW s, NEW to, Report(c, from, s, to), from # "done",
             s \notin {"none", "WAITING_ON_NEW_PAGE"}
      PROVE  Goal
  BY <1>1 DEF Report, At, MoveTo, updateScanProgress
<1>2. CASE Start(c) BY <1>1, <1>2 DEF Start
<1>10. ASSUME NEW from, NEW to, Quietly(c, from, to), from # "done" PROVE Goal
  BY <1>10 DEF Quietly, At, MoveTo, progressVars
<1>3. CASE sane_open(c) BY <1>1, <1>3, <1>10 DEF sane_open
<1>4. CASE setOptions(c) BY <1>1, <1>4, <1>10 DEF setOptions
<1>20. CASE sane_start(c) BY <1>1, <1>10, <1>20 DEF sane_start
<1>5. CASE FirstPage(c) BY <1>1, <1>5 DEF FirstPage
<1>6. CASE addNewScannedDoc(c) BY <1>6 DEF addNewScannedDoc, At, MoveTo, progressVars
<1>7. CASE SaveDocid(c) BY <1>7 DEF SaveDocid, At, MoveTo, progressVars
<1>8. CASE LaterPage(c) BY <1>8 DEF LaterPage, At, MoveTo, progressVars
<1>9. CASE SaveOnPage(c) BY <1>9 DEF SaveOnPage, At, MoveTo, progressVars
<1>11. CASE collectData(c) BY <1>1, <1>10, <1>11 DEF collectData
<1>12. CASE Convert(c) BY <1>1, <1>12 DEF Convert
<1>13. CASE WriteImage(c)
  <2>1. /\ At(c, "image") /\ MoveTo(c, "ocr")
        /\ UNCHANGED <<dispatchVars, progressVars, jobOf, request>>
    BY <1>13 DEF WriteImage
  <2> QED BY <2>1 DEF At, MoveTo, progressVars
<1>14. CASE OcrImage(c) BY <1>1, <1>14 DEF OcrImage
<1>15. CASE OcrDone(c) BY <1>1, <1>15 DEF OcrDone
<1>16. CASE updateNewScannedPage(c)
  <2>1. /\ At(c, "update") /\ \E to : MoveTo(c, to)
        /\ UNCHANGED <<dispatchVars, progressVars, jobOf, request>>
    BY <1>16 DEF updateNewScannedPage
  <2> QED BY <2>1 DEF At, MoveTo, progressVars
<1>17. CASE CalculatePhash(c) BY <1>1, <1>17 DEF CalculatePhash
<1>18. CASE savePhash(c)
  <2>1. /\ At(c, "savephash") /\ MoveTo(c, "finish")
        /\ UNCHANGED <<dispatchVars, progressVars, jobOf, request>>
    BY <1>18 DEF savePhash
  <2> QED BY <2>1 DEF At, MoveTo, progressVars
<1>19. CASE Finish(c)
  <2>1. step' = [step EXCEPT ![c] = "done"] /\ step'[c] = "done"
    BY <1>19 DEF Finish, MoveTo, JobTypes
  <2>2. \E s \in {"FINISHED", "WAITING_ON_NEW_PAGE"} :
          status' = [status EXCEPT ![jobOf[c]] = s]
    BY <1>19 DEF Finish, updateScanProgress
  <2> QED BY <1>19, <2>1, <2>2 DEF Finish, At
<1> HIDE DEF Goal
<1> QED
  BY <1>2, <1>3, <1>4, <1>5, <1>6, <1>7, <1>8, <1>9, <1>11, <1>12, <1>13, <1>14,
     <1>15, <1>16, <1>17, <1>18, <1>19, <1>20 DEF Work

\* A thread is created for a scan that nobody is working on, with a status
\* that the creation, or MarkNextPage after it, makes a busy one.
LEMMA CreateStep ==
  ASSUME TypeOK, JobTypes, ParentInv, OneThreadPerScan, NEW c, NEW j \in Job,
         CreateThread(c, j), \A d \in Scanner : WillWrite(d) => jobOf[d] # j
  PROVE  /\ OneThreadPerScan'
         /\ \A d \in Scanner : WillWrite(d)' =>
              \/ d = c /\ jobOf'[d] = j
              \/ WillWrite(d) /\ jobOf'[d] = jobOf[d] /\ jobOf[d] # j
<1> USE DEF TypeOK, JobTypes, CreateThread, StartScan, Call, Goto, Running
<1>1. \A d \in Scanner : d # c /\ WillWrite(d)' =>
        WillWrite(d) /\ jobOf'[d] = jobOf[d] /\ jobOf[d] # j
  BY DEF WillWrite, Scanner
<1>2. c \in Scanner /\ jobOf'[c] = j OBVIOUS
<1> QED BY <1>1, <1>2 DEF OneThreadPerScan

\* A step of the dispatcher that creates no thread.
LEMMA DispatcherHand ==
  ASSUME TypeOK, HandInv, NEW c \in Caller,
         Proceed(c) \/ Return(c) \/ \E a \in BOOLEAN : WorkerExit(c, a),
         UNCHANGED jobVars
  PROVE  HandInv'
<1> USE DEF HandInv
<1>1. ParentInv' BY ParentStep DEF DispatchStep, Advance
<1>2. \A d \in Scanner : WillWrite(d)' => WillWrite(d)
  BY NoNewWriter DEF jobVars, workerVars
<1>3. OneThreadPerScan' BY <1>2 DEF OneThreadPerScan, jobVars
<1>4. HandOverInv' BY <1>2 DEF HandOverInv, jobVars, progressVars
<1> QED BY <1>1, <1>3, <1>4

\* The steps of the web thread.
LEMMA WebHand ==
  ASSUME TypeOK, JobTypes, HandInv, WebStep, ParentInv'
  PROVE  HandInv'
<1> USE DEF HandInv
<1>1. ASSUME UNCHANGED <<dispatchVars, jobOf, workerVars>>
      PROVE  /\ \A d \in Scanner : WillWrite(d)' <=> WillWrite(d)
             /\ OneThreadPerScan'
  BY <1>1 DEF WillWrite, Running, OneThreadPerScan, dispatchVars, workerVars
<1>2. ASSUME NEW j \in Job, nextPageReady(j) PROVE HandInv'
  <2> USE <1>2 DEF nextPageReady, ReadyForPage
  <2>1. request.at # "started" BY DEF NoRequest
  <2>2. HandOverInv'
    BY <1>1, <2>1 DEF HandOverInv, progressVars
  <2> QED BY <1>1, <2>2
<1>3. ASSUME NEW j \in Job, NEW n \in 1 .. MaxPages[j], doScan(j, n) PROVE HandInv'
  <2> USE <1>3 DEF doScan
  <2>1. \A d \in Scanner : WillWrite(d) => jobOf[d] # j BY DEF HandOverInv
  <2>2. request' = NoRequest BY DEF NoRequest
  <2>3. request'.at # "accepted" /\ request.at # "started" BY <2>2 DEF NoRequest
  <2>4. status'[j] = "IDLE" /\ \A k \in Job \ {j} : status'[k] = status[k]
    BY DEF updateScanProgress, JobTypes
  <2>5. CASE NoThread
    <3>1. HandOverInv'
      BY <1>1, <2>1, <2>3, <2>4, <2>5 DEF NoThread, HandOverInv, JobTypes
    <3> QED BY <1>1, <2>5, <3>1 DEF NoThread
  <2>6. ASSUME NEW c \in Scanner, CreateThread(c, j) PROVE HandInv'
    <3>1. OneThreadPerScan' BY <2>1, <2>6, CreateStep
    <3>2. \A d \in Scanner : WillWrite(d)' =>
              \/ d = c /\ jobOf'[d] = j
              \/ WillWrite(d) /\ jobOf'[d] = jobOf[d] /\ jobOf[d] # j
      BY <2>1, <2>6, CreateStep
    <3>3. ASSUME NEW d \in Scanner, WillWrite(d)'
          PROVE  status'[jobOf'[d]] \notin {"none", "WAITING_ON_NEW_PAGE"}
      <4>1. CASE d = c /\ jobOf'[d] = j BY <2>4, <4>1
      <4>2. CASE WillWrite(d) /\ jobOf'[d] = jobOf[d] /\ jobOf[d] # j
        <5>1. status'[jobOf[d]] = status[jobOf[d]] BY <2>4, <4>2 DEF JobTypes
        <5> QED BY <2>3, <4>2, <5>1 DEF HandOverInv
      <4> QED BY <3>2, <3>3, <4>1, <4>2
    <3>4. HandOverInv' BY <2>3, <3>3 DEF HandOverInv
    <3> QED BY <3>1, <3>4
  <2> QED BY <2>5, <2>6
<1>4. CASE StartNextPage
  <2> USE <1>4 DEF StartNextPage
  <2> DEFINE j == request.job
  <2>1. j \in Job /\ status[j] = "WAITING_ON_NEW_PAGE"
    BY DEF JobTypes, Request, NoRequest, HandOverInv
  <2>2. \A d \in Scanner : WillWrite(d) => status[jobOf[d]] # "WAITING_ON_NEW_PAGE"
    BY DEF HandOverInv
  <2>3. \A d \in Scanner : WillWrite(d) => jobOf[d] # j BY <2>1, <2>2
  <2>4. ASSUME NEW c \in Scanner, CreateThread(c, j),
               request' = [request EXCEPT !.at = "started"]
        PROVE  HandInv'
    <3>1. request'.at = "started" /\ request'.job = j
      <4>1. request \in [at : {"accepted", "started"}, job : Job]
        BY DEF JobTypes, Request, NoRequest
      <4> QED BY <2>4, <4>1
    <3>2. OneThreadPerScan' BY <2>1, <2>3, <2>4, CreateStep
    <3>3. \A d \in Scanner : WillWrite(d)' =>
              \/ d = c /\ jobOf'[d] = j
              \/ WillWrite(d) /\ jobOf'[d] = jobOf[d] /\ jobOf[d] # j
      BY <2>1, <2>3, <2>4, CreateStep
    <3>4. HandOverInv'
      BY <2>1, <2>2, <3>1, <3>3 DEF HandOverInv, progressVars
    <3> QED BY <3>2, <3>4
  <2>5. CASE NoThread /\ request' = NoRequest
    <3>1. HandOverInv'
      BY <1>1, <2>2, <2>5 DEF NoThread, HandOverInv, NoRequest, progressVars
    <3> QED BY <1>1, <2>5, <3>1 DEF NoThread
  <2> QED BY <2>4, <2>5
<1>5. CASE MarkNextPage
  <2> USE <1>5 DEF MarkNextPage
  <2>1. request.job \in Job BY DEF JobTypes, Request, NoRequest
  <2>2. /\ status'[request.job] = "WAITING_ON_SCANNER"
        /\ \A k \in Job \ {request.job} : status'[k] = status[k]
    BY <2>1 DEF updateScanProgress, JobTypes
  <2>3. HandOverInv'
    BY <1>1, <2>2 DEF HandOverInv, NoRequest, JobTypes
  <2> QED BY <1>1, <2>3
<1>6. CASE ScannerQuery
  <2>1. \A d \in Scanner : WillWrite(d)' => WillWrite(d)
    BY <1>6 DEF ScannerQuery, WebCall, Call, Goto, WillWrite, Running, TypeOK,
      Scanner, jobVars, workerVars
  <2>2. OneThreadPerScan' BY <1>6, <2>1 DEF ScannerQuery, OneThreadPerScan, jobVars
  <2>3. HandOverInv'
    BY <1>6, <2>1 DEF ScannerQuery, HandOverInv, jobVars, progressVars
  <2> QED BY <2>2, <2>3
<1> QED BY <1>2, <1>3, <1>4, <1>5, <1>6 DEF WebStep

\* The steps of a worker.
LEMMA WorkHand ==
  ASSUME TypeOK, JobTypes, HandInv, NEW c \in Scanner, Work(c)
  PROVE  HandInv'
<1> USE DEF HandInv
<1>1. /\ Running(c) /\ WillWrite(c)
      /\ UNCHANGED <<dispatchVars, jobOf, request>>
      /\ \E to : step' = [step EXCEPT ![c] = to]
      /\ \/ UNCHANGED status
         \/ \E s : /\ status' = [status EXCEPT ![jobOf[c]] = s]
                   /\ s # "none"
                   /\ s = "WAITING_ON_NEW_PAGE" => step'[c] = "done"
  BY WorkStep
<1>2. ParentInv' BY <1>1 DEF ParentInv, Running, dispatchVars
<1>3. \A d \in Scanner : WillWrite(d)' => WillWrite(d)
  BY <1>1 DEF WillWrite, Running, dispatchVars, JobTypes
<1>4. OneThreadPerScan' BY <1>1, <1>3 DEF OneThreadPerScan
<1>5. HandOverInv'
  <2>1. CASE UNCHANGED status BY <1>1, <1>3, <2>1 DEF HandOverInv
  <2>2. ASSUME NEW s, status' = [status EXCEPT ![jobOf[c]] = s], s # "none",
               s = "WAITING_ON_NEW_PAGE" => step'[c] = "done"
        PROVE  HandOverInv'
    <3>1. jobOf[c] \in Job BY DEF JobTypes
    <3>2. \A d \in Scanner : d # c /\ WillWrite(d)' =>
            WillWrite(d) /\ status'[jobOf[d]] = status[jobOf[d]]
      BY <1>1, <1>3, <2>2, <3>1 DEF OneThreadPerScan, JobTypes
    <3>3. WillWrite(c)' => s # "WAITING_ON_NEW_PAGE"
      BY <1>1, <2>2 DEF WillWrite, ParentInv, Running, dispatchVars, Scanner
    <3>4. status'[jobOf[c]] = s BY <2>2, <3>1 DEF JobTypes
    <3>5. request.at = "accepted" =>
            request.job # jobOf[c] /\ status'[request.job] = status[request.job]
      BY <1>1, <2>2, <3>1 DEF HandOverInv, JobTypes, Request, NoRequest
    <3> QED BY <1>1, <2>2, <3>2, <3>3, <3>4, <3>5 DEF HandOverInv
  <2> QED BY <1>1, <2>1, <2>2
<1> QED BY <1>2, <1>4, <1>5

\* The end of a thread.
LEMMA EndHand ==
  ASSUME TypeOK, JobTypes, HandInv, NEW c \in Scanner, EndThread(c)
  PROVE  HandInv'
<1> USE DEF HandInv
<1>1. Return(c) /\ c \in Caller /\ UNCHANGED request BY DEF EndThread, Scanner
<1>2. ParentInv' BY <1>1, ParentStep DEF DispatchStep, Advance
<1>3. \A d \in Scanner : WillWrite(d)' => d # c
  BY <1>1 DEF Return, Goto, WillWrite, TypeOK, Scanner
<1>4. \A d \in Scanner : WillWrite(d)' => WillWrite(d) /\ jobOf'[d] = jobOf[d]
  <2>1. \A d \in Scanner : d # c => step'[d] = step[d] /\ jobOf'[d] = jobOf[d]
    BY DEF EndThread, JobTypes
  <2> QED BY <1>1, <1>3, <2>1, NoNewWriter
<1>5. OneThreadPerScan' BY <1>4 DEF OneThreadPerScan
<1>6. HandOverInv'
  <2>1. CASE UNCHANGED status BY <1>1, <1>4, <2>1 DEF HandOverInv
  <2>2. CASE response[c] = "BUSY"
    <3>1. status' = [status EXCEPT ![jobOf[c]] = "SANE_BUSY"] /\ jobOf[c] \in Job
      BY <2>2 DEF EndThread, updateScanProgress, JobTypes
    <3>2. WillWrite(c) BY <1>1, <2>2 DEF Return, WillWrite
    <3>3. \A d \in Scanner : WillWrite(d)' =>
            WillWrite(d) /\ status'[jobOf[d]] = status[jobOf[d]]
      BY <1>3, <1>4, <3>1, <3>2 DEF OneThreadPerScan, JobTypes
    <3>4. request.at = "accepted" => status'[request.job] = status[request.job]
      BY <3>1, <3>2 DEF HandOverInv, JobTypes, Request, NoRequest
    <3> QED BY <1>1, <1>4, <3>3, <3>4 DEF HandOverInv
  <2> QED BY <2>1, <2>2 DEF EndThread, progressVars
<1> QED BY <1>2, <1>5, <1>6

\* A scan changes hands only between two threads.
LEMMA HandAlways == ScanSpec => []HandInv
<1>1. ScanInit => HandInv
  BY DEF ScanInit, DispatchInit, HandInv, OneThreadPerScan, ParentInv, HandOverInv,
    WillWrite, Running, Scanner, NoRequest
<1>2. ScanTypeOK /\ HandInv /\ [ScanNext]_scanVars => HandInv'
  <2> SUFFICES ASSUME TypeOK, JobTypes, HandInv, [ScanNext]_scanVars PROVE HandInv'
    BY DEF ScanTypeOK
  <2>1. ParentInv'
    <3>1. ASSUME UNCHANGED dispatchVars PROVE ParentInv'
      BY <3>1 DEF dispatchVars, HandInv, ParentInv, Running
    <3> QED BY <3>1, DispatchPart, ParentStep DEF HandInv
  <2>2. CASE WebStep BY <2>1, <2>2, WebHand
  <2>3. CASE DispatcherStep
    BY <2>3, DispatcherHand, DispatcherAssumption DEF DispatcherStep
  <2>4. ASSUME NEW c \in Scanner, EndThread(c) PROVE HandInv' BY <2>4, EndHand
  <2>5. ASSUME NEW c \in Scanner, Work(c) PROVE HandInv' BY <2>5, WorkHand
  <2>6. ASSUME NEW c \in Scanner, EndWorker(c) PROVE HandInv'
    BY <2>6, DispatcherHand DEF EndWorker, Scanner
  <2>7. CASE UNCHANGED scanVars
    BY <2>1, <2>7 DEF scanVars, dispatchVars, jobVars, progressVars, workerVars,
      HandInv, OneThreadPerScan, HandOverInv, WillWrite, Running
  <2> QED BY <2>2, <2>3, <2>4, <2>5, <2>6, <2>7 DEF ScanNext
<1> QED BY <1>1, <1>2, ScanTypeCorrect, PTL DEF ScanSpec

\* Whatever requests, refusals, slow threads and crashed workers follow each
\* other, a scan is in the hands of one thread at most.
THEOREM OneThread == ScanSpec => []OneThreadPerScan
<1>1. HandInv => OneThreadPerScan
  BY DEF HandInv
<1> QED BY <1>1, HandAlways, PTL

------------------------------------------------------------------------------
(* What is saved                                                           *)

\* The pages before n + 1, in order.
Pages(n) == [i \in 1 .. n |-> i]

HasText(i, n)   == docs[i].text = Pages(n)
HasImages(i, n) == ~DiskMayFail => docs[i].images = 1 .. n

\* The thread, or its worker, has yet to work on a page.
Early == {"check", "lock", "pipe", "fork"}
Working(c) == pc[c] \in Early \/ (Running(c) /\ step[c] # "done")

\* Where a worker has not touched the document, where its page has no image
\* yet, where it has no text yet, and where it has both.
Before   == {"start", "open", "options", "device", "record"}
Unimaged == {"onpage", "collect", "convert", "image"}
Untexted == {"ocr", "text", "update"}
Texted   == {"phash", "savephash", "finish"}
Paged    == Unimaged \cup Untexted \cup Texted

\* The document has the pages up to the last one begun, and there is one more
\* to come.
UpToDate(j) ==
  docOf[j] # 0 =>
    /\ HasText(docOf[j], onPage[j])
    /\ HasImages(docOf[j], onPage[j])
    /\ docs[docOf[j]].phash
    /\ onPage[j] < requested[j]

\* The worker has added a document that nobody else knows.
FreshDoc(c) ==
  /\ docOf[jobOf[c]] = 0
  /\ docid[c] \in 1 .. Len(docs)
  /\ HasText(docid[c], 0)
  /\ HasImages(docid[c], 0)
  /\ \A j \in Job : docOf[j] # docid[c]

\* The worker adds its page to the document of the scan.
OwnsPage(c) ==
  LET i == docid[c]  p == page[c]  s == step[c] IN
    /\ i = docOf[jobOf[c]] /\ i # 0
    /\ p \in 1 .. requested[jobOf[c]]
    /\ s # "onpage" => onPage[jobOf[c]] = p
    /\ HasText(i, IF s \in Texted THEN p ELSE p - 1)
    /\ HasImages(i, IF s \in Unimaged THEN p - 1 ELSE p)
    /\ s \in Texted => docs[i].pages = p
    /\ p # 1 \/ s = "finish" => docs[i].phash

Stage(c) ==
  /\ step[c] \in Before => UpToDate(jobOf[c])
  /\ step[c] = "insert" => docOf[jobOf[c]] = 0
  /\ step[c] = "docid" => FreshDoc(c)
  /\ step[c] \in Paged => OwnsPage(c)

StageInv ==
  \A c \in Scanner :
    /\ pc[c] \in Early => step[c] = "start"
    /\ Working(c) => Stage(c)

FreshApart ==
  \A c, d \in Scanner :
    /\ Working(c) /\ step[c] = "docid"
    /\ Working(d) /\ step[d] = "docid"
    /\ docid[c] = docid[d]
    => c = d

\* The words of the status.
StatusInv ==
  /\ \A j \in Job : /\ docOf[j] \in 0 .. Len(docs)
                    /\ docOf[j] # 0 => status[j] # "none"
                    /\ status[j] # "none" => requested[j] # 0
  /\ \A c \in Scanner :
       /\ WillWrite(c) => Told(status[jobOf[c]]) \in {"working", "next"}
       /\ Working(c) /\ step[c] # "start" => Told(status[jobOf[c]]) = "working"
  /\ request.at # "none" => status[request.job] # "none"

SaveInv ==
  /\ StatusInv /\ StageInv /\ FreshApart
  /\ OwnDocument /\ TextInOrder /\ AnnouncedPagesSaved

------------------------------------------------------------------------------
LEMMA PagesFacts ==
  ASSUME NEW n \in Nat
  PROVE  /\ Pages(n) \in Seq(Nat) /\ Len(Pages(n)) = n
         /\ Pages(0) = <<>>
         /\ Append(Pages(n), n + 1) = Pages(n + 1)
<1>1. Pages(n) \in Seq(Nat) /\ Len(Pages(n)) = n
  BY DEF Pages
<1>2. Pages(0) = <<>>
  BY DEF Pages
<1>3. Append(Pages(n), n + 1) = Pages(n + 1)
  BY DEF Pages
<1> QED BY <1>1, <1>2, <1>3

\* What a step of a worker leaves alone: the rows of other scans, other
\* workers, and all documents but the one its page goes to.
LEMMA WorkFrame ==
  ASSUME JobTypes, NEW c \in Scanner, Work(c)
  PROVE  /\ Running(c) /\ step[c] # "done"
         /\ UNCHANGED <<dispatchVars, jobOf, request, requested>>
         /\ \E to : step' = [step EXCEPT ![c] = to]
         /\ \A d \in Scanner \ {c} : page'[d] = page[d] /\ docid'[d] = docid[d]
         /\ \A k \in Job \ {jobOf[c]} :
              /\ status'[k] = status[k] /\ value'[k] = value[k]
              /\ docOf'[k] = docOf[k] /\ onPage'[k] = onPage[k]
         /\ docOf'[jobOf[c]] = docOf[jobOf[c]]
              \/ (step[c] = "docid" /\ docOf'[jobOf[c]] = docid[c])
         /\ Len(docs') \in Nat /\ Len(docs') >= Len(docs)
         /\ \A i \in 1 .. Len(docs) :
              docs'[i] = docs[i] \/ (i = docid[c] /\ step[c] \in Paged)
<1> DEFINE Others ==
      /\ \A d \in Scanner \ {c} : page'[d] = page[d] /\ docid'[d] = docid[d]
      /\ \A k \in Job \ {jobOf[c]} :
           /\ status'[k] = status[k] /\ value'[k] = value[k]
           /\ docOf'[k] = docOf[k] /\ onPage'[k] = onPage[k]
      /\ docOf'[jobOf[c]] = docOf[jobOf[c]]
           \/ (step[c] = "docid" /\ docOf'[jobOf[c]] = docid[c])
    Moves ==
      /\ Running(c) /\ step[c] # "done"
      /\ UNCHANGED <<dispatchVars, jobOf, request, requested>>
      /\ \E to : step' = [step EXCEPT ![c] = to]
    Documents ==
      /\ Len(docs') \in Nat /\ Len(docs') >= Len(docs)
      /\ \A i \in 1 .. Len(docs) :
           docs'[i] = docs[i] \/ (i = docid[c] /\ step[c] \in Paged)
    Goal == Moves /\ Others /\ Documents
<1> SUFFICES Goal
  OBVIOUS
<1>0. docs \in Seq(Document) /\ Len(docs) \in Nat /\ jobOf[c] \in Job
  BY DEF JobTypes
<1>22. docs' = docs => Documents
  BY <1>0
<1>1. ASSUME NEW from, NEW s, NEW to, Report(c, from, s, to), from # "done"
      PROVE  Goal
  <2>1. Moves
    BY <1>1 DEF Report, At, MoveTo, paramVars
  <2>2. Others
    BY <1>0, <1>1 DEF Report, updateScanProgress, paramVars, JobTypes
  <2> QED BY <1>1, <1>22, <2>1, <2>2 DEF Report
<1>23. UNCHANGED <<progressVars, paramVars, page, docid>> => Others
  BY DEF progressVars, paramVars
<1>2. ASSUME NEW from, NEW to, Quietly(c, from, to), from # "done" PROVE Goal
  <2>1. Moves
    BY <1>2 DEF Quietly, At, MoveTo, paramVars
  <2> QED BY <1>2, <1>22, <1>23, <2>1 DEF Quietly
<1>3. CASE Start(c) BY <1>1, <1>3 DEF Start
<1>4. CASE sane_open(c) BY <1>1, <1>2, <1>4 DEF sane_open
<1>5. CASE setOptions(c) BY <1>1, <1>2, <1>5 DEF setOptions
<1>6. CASE sane_start(c) BY <1>1, <1>2, <1>6 DEF sane_start
<1>7. CASE FirstPage(c) BY <1>1, <1>7 DEF FirstPage
<1>8. CASE addNewScannedDoc(c)
  <2> USE <1>8 DEF addNewScannedDoc
  <2>1. \E x : docs' = Append(docs, x)
    OBVIOUS
  <2>2. /\ Len(docs') = Len(docs) + 1
        /\ \A i \in 1 .. Len(docs) : docs'[i] = docs[i]
    BY <1>0, <2>1
  <2>3. Others
    BY DEF progressVars, paramVars, JobTypes
  <2>4. Moves
    BY DEF At, MoveTo, paramVars
  <2>5. Documents
    BY <1>0, <2>2
  <2> QED BY <2>3, <2>4, <2>5
<1>9. CASE SaveDocid(c)
  <2>1. Moves
    BY <1>9 DEF SaveDocid, At, MoveTo
  <2>2. Others
    BY <1>0, <1>9 DEF SaveDocid, At, progressVars, JobTypes
  <2> QED BY <1>9, <1>22, <2>1, <2>2 DEF SaveDocid
<1>10. CASE LaterPage(c)
  <2>1. Moves
    BY <1>10 DEF LaterPage, At, MoveTo, paramVars
  <2>2. Others
    BY <1>0, <1>10 DEF LaterPage, progressVars, paramVars, JobTypes
  <2> QED BY <1>10, <1>22, <2>1, <2>2 DEF LaterPage
<1>11. CASE SaveOnPage(c)
  <2>1. Moves
    BY <1>11 DEF SaveOnPage, At, MoveTo
  <2>2. Others
    BY <1>0, <1>11 DEF SaveOnPage, progressVars, JobTypes
  <2> QED BY <1>11, <1>22, <2>1, <2>2 DEF SaveOnPage
<1>12. CASE collectData(c) BY <1>1, <1>2, <1>12 DEF collectData
<1>13. CASE Convert(c) BY <1>1, <1>13 DEF Convert
<1>14. ASSUME NEW from \in Paged, At(c, from), \E to : MoveTo(c, to),
              UNCHANGED docs \/ \E x : docs' = [docs EXCEPT ![docid[c]] = x],
              UNCHANGED <<dispatchVars, progressVars, paramVars, jobOf, page, docid, request>>
       PROVE  Goal
  <2>1. /\ Len(docs') = Len(docs)
        /\ \A i \in 1 .. Len(docs) : docs'[i] = docs[i] \/ i = docid[c]
    BY <1>0, <1>14
  <2>2. step[c] = from /\ from # "done"
    BY <1>14 DEF At, Paged, Unimaged, Untexted, Texted
  <2>3. Moves
    BY <1>14, <2>2 DEF At, MoveTo, paramVars
  <2>4. Documents
    BY <1>0, <1>14, <2>1, <2>2
  <2> QED BY <1>14, <1>23, <2>3, <2>4
<1>15. CASE WriteImage(c)
  <2>1. "image" \in Paged
    BY DEF Paged, Unimaged
  <2> QED BY <1>14, <1>15, <2>1 DEF WriteImage
<1>16. CASE OcrImage(c) BY <1>1, <1>16 DEF OcrImage
<1>17. CASE OcrDone(c) BY <1>1, <1>17 DEF OcrDone
<1>18. CASE updateNewScannedPage(c)
  <2>1. "update" \in Paged
    BY DEF Paged, Untexted
  <2>2. \E x : docs' = [docs EXCEPT ![docid[c]] = x]
    BY <1>18 DEF updateNewScannedPage
  <2> QED BY <1>14, <1>18, <2>1, <2>2 DEF updateNewScannedPage
<1>19. CASE CalculatePhash(c) BY <1>1, <1>19 DEF CalculatePhash
<1>20. CASE savePhash(c)
  <2>1. "savephash" \in Paged
    BY DEF Paged, Texted
  <2> QED BY <1>14, <1>20, <2>1 DEF savePhash
<1>21. CASE Finish(c)
  <2>1. Others
    BY <1>0, <1>21 DEF Finish, updateScanProgress, paramVars, JobTypes
  <2>2. Moves
    BY <1>21 DEF Finish, At, MoveTo, paramVars
  <2> QED BY <1>21, <1>22, <2>1, <2>2 DEF Finish
<1> HIDE DEF Goal
<1> QED
  BY <1>3, <1>4, <1>5, <1>6, <1>7, <1>8, <1>9, <1>10, <1>11, <1>12, <1>13, <1>15,
     <1>16, <1>17, <1>18, <1>19, <1>20, <1>21 DEF Work

\* A step that moves a worker on within the same stage of its page, or ends it.
LEMMA StageKept ==
  ASSUME NEW c \in Scanner, Stage(c), UNCHANGED <<paramVars, docs, jobOf, page, docid>>,
         \/ step'[c] = "done"
         \/ step[c] \in Before /\ step'[c] \in Before
         \/ step[c] \in {"collect", "convert"} /\ step'[c] \in {"convert", "image"}
         \/ step[c] \in Untexted /\ step'[c] \in Untexted
         \/ step[c] = "phash" /\ step'[c] = "savephash"
  PROVE  Stage(c)'
<1> USE DEF Before, Unimaged, Untexted, Texted, Paged, paramVars
<1>1. CASE step'[c] = "done"
  BY <1>1 DEF Stage
<1>2. CASE step[c] \in Before /\ step'[c] \in Before
  BY <1>2 DEF Stage, UpToDate, HasText, HasImages
<1>3. ASSUME step[c] \in Paged, OwnsPage(c), step'[c] \in Paged \ {"onpage", "finish"},
             step[c] # "onpage",
             step[c] \in Texted <=> step'[c] \in Texted,
             step[c] \in Unimaged <=> step'[c] \in Unimaged
      PROVE  OwnsPage(c)'
  BY <1>3 DEF OwnsPage, HasText, HasImages
<1>4. CASE step[c] \in {"collect", "convert"} /\ step'[c] \in {"convert", "image"}
  BY <1>3, <1>4 DEF Stage
<1>5. CASE step[c] \in Untexted /\ step'[c] \in Untexted
  BY <1>3, <1>5 DEF Stage
<1>6. CASE step[c] = "phash" /\ step'[c] = "savephash"
  BY <1>3, <1>6 DEF Stage
<1> QED BY <1>1, <1>2, <1>4, <1>5, <1>6

\* The document of a page is there.
LEMMA PageHasDoc ==
  ASSUME JobTypes, StatusInv, NEW c \in Scanner, OwnsPage(c)
  PROVE  /\ docid[c] \in 1 .. Len(docs) /\ docs[docid[c]] \in Document
         /\ page[c] \in Nat \ {0} /\ jobOf[c] \in Job
<1>1. jobOf[c] \in Job /\ docs \in Seq(Document) /\ requested[jobOf[c]] \in Nat
  BY DEF JobTypes
<1>2. docid[c] \in 1 .. Len(docs) /\ page[c] \in Nat \ {0}
  BY <1>1 DEF OwnsPage, StatusInv
<1> QED BY <1>1, <1>2, ElementOfSeq

\* A document that is replaced is there.
LEMMA Replaced ==
  ASSUME docs \in Seq(Document), NEW i \in 1 .. Len(docs), NEW e,
         docs' = [docs EXCEPT ![i] = e]
  PROVE  docs'[i] = e
<1>1. i \in DOMAIN docs
  OBVIOUS
<1> QED BY <1>1

\* The image of the page is written.
LEMMA ImageStage ==
  ASSUME JobTypes, StatusInv, NEW c \in Scanner, Stage(c), WriteImage(c)
  PROVE  Stage(c)'
<1> USE DEF WriteImage, At
<1> DEFINE i == docid[c]
<1>0. docs \in Seq(Document)
  BY DEF JobTypes
<1>1. OwnsPage(c)
  BY DEF Stage, Paged, Unimaged
<1>2. i \in 1 .. Len(docs) /\ docs[i] \in Document /\ page[c] \in Nat \ {0}
  BY <1>1, PageHasDoc
<1>3. PICK r : r = docs[i]
  OBVIOUS
<1>4. /\ docs'[i].text = docs[i].text /\ docs'[i].phash = docs[i].phash
      /\ docs'[i].images = docs[i].images \cup {page[c]} \/ (DiskMayFail /\ docs' = docs)
  <2>1. CASE docs' = [docs EXCEPT ![i].images = @ \cup {page[c]}]
    <3>1. docs' = [docs EXCEPT ![i] = [r EXCEPT !.images = r.images \cup {page[c]}]]
      BY <1>3, <2>1
    <3>2. docs'[i] = [r EXCEPT !.images = r.images \cup {page[c]}]
      BY <1>0, <1>2, <3>1, Replaced
    <3> QED BY <1>2, <1>3, <3>2 DEF Document
  <2> QED BY <2>1
<1>5. HasText(i, page[c] - 1)'
  BY <1>1, <1>4 DEF OwnsPage, HasText, Texted
<1>6. HasImages(i, page[c])'
  <2>1. (1 .. page[c] - 1) \cup {page[c]} = 1 .. page[c]
    BY <1>2
  <2> QED BY <1>1, <1>4, <2>1 DEF OwnsPage, HasImages, Unimaged
<1>7. step'[c] = "ocr"
  BY DEF MoveTo, JobTypes
<1>8. OwnsPage(c)'
  BY <1>1, <1>4, <1>5, <1>6, <1>7 DEF OwnsPage, Texted, Unimaged, paramVars, HasText, HasImages
<1> QED BY <1>7, <1>8 DEF Stage, Before

\* Its text is appended.
LEMMA TextStage ==
  ASSUME JobTypes, StatusInv, NEW c \in Scanner, Stage(c), updateNewScannedPage(c)
  PROVE  /\ Stage(c)'
         /\ docs[docid[c]].text = Pages(page[c] - 1)
         /\ docs'[docid[c]].text = Pages(page[c])
<1> USE DEF updateNewScannedPage, At
<1> DEFINE i == docid[c]
           p == page[c]
<1>0. docs \in Seq(Document)
  BY DEF JobTypes
<1>1. OwnsPage(c)
  BY DEF Stage, Paged, Untexted
<1>2. i \in 1 .. Len(docs) /\ docs[i] \in Document /\ p \in Nat \ {0}
  BY <1>1, PageHasDoc
<1>3. PICK r : r = docs[i]
  OBVIOUS
<1>4. /\ docs'[i].text = Append(docs[i].text, p)
      /\ docs'[i].pages = p
      /\ docs'[i].images = docs[i].images
      /\ docs'[i].phash = docs[i].phash
  <2>1. docs' = [docs EXCEPT ![i] = [r EXCEPT !.pages = p, !.text = Append(r.text, p)]]
    BY <1>3
  <2>2. docs'[i] = [r EXCEPT !.pages = p, !.text = Append(r.text, p)]
    BY <1>0, <1>2, <2>1, Replaced
  <2> QED BY <1>2, <1>3, <2>2 DEF Document
<1>5. docs[i].text = Pages(p - 1)
  BY <1>1 DEF OwnsPage, HasText, Texted
<1>6. docs'[i].text = Pages(p)
  <2>1. p - 1 \in Nat /\ (p - 1) + 1 = p
    BY <1>2
  <2>2. Append(Pages(p - 1), (p - 1) + 1) = Pages((p - 1) + 1)
    BY <2>1, PagesFacts
  <2> QED BY <1>4, <1>5, <2>1, <2>2
<1>7. step'[c] = IF p = 1 THEN "phash" ELSE "finish"
  BY DEF MoveTo, JobTypes
<1>8. HasText(i, p)' /\ HasImages(i, p)'
  BY <1>1, <1>4, <1>6 DEF OwnsPage, HasText, HasImages, Unimaged
<1>9. OwnsPage(c)'
  BY <1>1, <1>4, <1>7, <1>8 DEF OwnsPage, Texted, Unimaged, paramVars, HasText, HasImages
<1>10. Stage(c)'
  BY <1>7, <1>9 DEF Stage, Before
<1> QED BY <1>5, <1>6, <1>10

\* The phash of the first page is saved.
LEMMA PhashStage ==
  ASSUME JobTypes, StatusInv, NEW c \in Scanner, Stage(c), savePhash(c)
  PROVE  Stage(c)'
<1> USE DEF savePhash, At
<1> DEFINE i == docid[c]
<1>0. docs \in Seq(Document)
  BY DEF JobTypes
<1>1. OwnsPage(c)
  BY DEF Stage, Paged, Texted
<1>2. i \in 1 .. Len(docs) /\ docs[i] \in Document
  BY <1>1, PageHasDoc
<1>3. PICK r : r = docs[i]
  OBVIOUS
<1>4. /\ docs'[i].text = docs[i].text
      /\ docs'[i].pages = docs[i].pages
      /\ docs'[i].images = docs[i].images
      /\ docs'[i].phash = TRUE
  <2>1. docs' = [docs EXCEPT ![i] = [r EXCEPT !.phash = TRUE]]
    BY <1>3
  <2>2. docs'[i] = [r EXCEPT !.phash = TRUE]
    BY <1>0, <1>2, <2>1, Replaced
  <2> QED BY <1>2, <1>3, <2>2 DEF Document
<1>5. step'[c] = "finish"
  BY DEF MoveTo, JobTypes
<1>6. OwnsPage(c)'
  BY <1>1, <1>4, <1>5 DEF OwnsPage, Texted, Unimaged, paramVars, HasText, HasImages
<1> QED BY <1>5, <1>6 DEF Stage, Before

\* A document is added for the first page.
LEMMA InsertStage ==
  ASSUME JobTypes, StatusInv, NEW c \in Scanner, Stage(c), addNewScannedDoc(c)
  PROVE  /\ Stage(c)'
         /\ step'[c] = "docid" /\ docid'[c] = Len(docs) + 1
         /\ Len(docs') = Len(docs) + 1
         /\ docs'[Len(docs) + 1].text = Pages(0)
<1> USE DEF addNewScannedDoc, At
<1> DEFINE n == Len(docs) + 1
<1>1. docs \in Seq(Document) /\ Len(docs) \in Nat /\ jobOf[c] \in Job
  BY DEF JobTypes
<1>2. PICK r : r = [pages |-> requested[jobOf[c]], text |-> <<>>, images |-> {}, phash |-> FALSE]
  OBVIOUS
<1>3. docs' = Append(docs, r)
  BY <1>2
<1>4. Len(docs') = n /\ docs'[n] = r
  BY <1>1, <1>3
<1>5. docs'[n].text = Pages(0) /\ docs'[n].images = 1 .. 0
  <2>1. 0 \in Nat
    OBVIOUS
  <2>2. Pages(0) = <<>> /\ 1 .. 0 = {}
    BY <2>1, PagesFacts
  <2> QED BY <1>2, <1>4, <2>2
<1>6. step'[c] = "docid" /\ docid'[c] = n
  BY DEF MoveTo, JobTypes
<1>7. docOf[jobOf[c]] = 0
  BY DEF Stage
<1>8. FreshDoc(c)'
  <2>1. \A j \in Job : docOf'[j] # n
    BY <1>1 DEF paramVars, StatusInv
  <2> QED BY <1>1, <1>4, <1>5, <1>6, <1>7, <2>1 DEF FreshDoc, HasText, HasImages, paramVars
<1>9. Stage(c)'
  BY <1>6, <1>8 DEF Stage, Before, Paged, Unimaged, Untexted, Texted
<1> QED BY <1>4, <1>5, <1>6, <1>9

\* The document becomes that of the scan.
LEMMA DocidStage ==
  ASSUME JobTypes, StatusInv, NEW c \in Scanner, Stage(c), SaveDocid(c),
         status[jobOf[c]] # "none"
  PROVE  Stage(c)' /\ FreshDoc(c)
<1> USE DEF SaveDocid, At
<1>1. FreshDoc(c)
  BY DEF Stage
<1>2. /\ step'[c] = "onpage" /\ page'[c] = 1
      /\ jobOf[c] \in Job /\ docOf'[jobOf[c]] = docid[c]
  BY DEF MoveTo, JobTypes
<1>3. docid[c] # 0 /\ 1 \in 1 .. requested[jobOf[c]]
  BY <1>1, <1>2 DEF FreshDoc, StatusInv, JobTypes
<1>4. OwnsPage(c)'
  <2>1. 1 - 1 = 0
    OBVIOUS
  <2>2. HasText(docid[c], 1 - 1)' /\ HasImages(docid[c], 1 - 1)'
    BY <1>1, <2>1 DEF FreshDoc, HasText, HasImages
  <2>3. docid'[c] = docid[c] /\ jobOf' = jobOf
    OBVIOUS
  <2>4. "onpage" \in Unimaged /\ "onpage" \notin Texted
    BY DEF Unimaged, Texted
  <2>5. requested' = requested
    OBVIOUS
  <2> HIDE DEF SaveDocid
  <2> QED BY <1>2, <1>3, <2>2, <2>3, <2>4, <2>5 DEF OwnsPage, HasText, HasImages
<1> QED BY <1>1, <1>2, <1>4 DEF Stage, Before

\* A later page finds the document and the page before it.
LEMMA LaterStage ==
  ASSUME JobTypes, StatusInv, NEW c \in Scanner, Stage(c), LaterPage(c)
  PROVE  Stage(c)'
<1> USE DEF LaterPage, At
<1> DEFINE j == jobOf[c]
<1>1. UpToDate(j) /\ j \in Job
  BY DEF Stage, Before, JobTypes
<1>2. step'[c] = "onpage" /\ page'[c] = onPage[j] + 1 /\ docid'[c] = docOf[j]
  BY DEF MoveTo, JobTypes
<1>3. /\ onPage[j] + 1 \in 1 .. requested[j]
      /\ (onPage[j] + 1) - 1 = onPage[j]
  <2>1. onPage[j] \in Nat /\ requested[j] \in Nat
    BY <1>1 DEF JobTypes
  <2>2. onPage[j] < requested[j]
    BY <1>1 DEF UpToDate
  <2> QED BY <2>1, <2>2
<1>4. OwnsPage(c)'
  BY <1>1, <1>2, <1>3 DEF OwnsPage, UpToDate, HasText, HasImages, Texted, Unimaged, paramVars
<1> QED BY <1>2, <1>4 DEF Stage, Before

\* The page counts as begun.
LEMMA BegunStage ==
  ASSUME JobTypes, StatusInv, NEW c \in Scanner, Stage(c), SaveOnPage(c)
  PROVE  Stage(c)'
<1> USE DEF SaveOnPage, At
<1>1. OwnsPage(c)
  BY DEF Stage, Paged, Unimaged
<1>2. step'[c] = "collect" /\ jobOf[c] \in Job /\ onPage'[jobOf[c]] = page[c]
  BY DEF MoveTo, JobTypes
<1>3. OwnsPage(c)'
  BY <1>1, <1>2 DEF OwnsPage, HasText, HasImages, Texted, Unimaged
<1> QED BY <1>2, <1>3 DEF Stage, Before

\* A worker keeps to the order of its page.
LEMMA WorkStage ==
  ASSUME JobTypes, StatusInv, NEW c \in Scanner, Stage(c), Work(c),
         status[jobOf[c]] # "none"
  PROVE  Stage(c)'
<1>1. ASSUME NEW from, NEW s, NEW to, Report(c, from, s, to),
             \/ to = "done"
             \/ from \in Before /\ to \in Before
             \/ from \in {"collect", "convert"} /\ to \in {"convert", "image"}
             \/ from \in Untexted /\ to \in Untexted
             \/ from = "phash" /\ to = "savephash"
      PROVE  Stage(c)'
  <2>1. step[c] = from /\ step'[c] = to
    BY <1>1 DEF Report, At, MoveTo, JobTypes
  <2> QED BY <1>1, <2>1, StageKept DEF Report
<1>2. ASSUME NEW from, NEW to, Quietly(c, from, to),
             \/ from \in Before /\ to \in Before
             \/ from = "collect" /\ to = "convert"
      PROVE  Stage(c)'
  <2>1. step[c] = from /\ step'[c] = to
    BY <1>2 DEF Quietly, At, MoveTo, JobTypes
  <2> QED BY <1>2, <2>1, StageKept DEF Quietly
<1>3. CASE Start(c) BY <1>1, <1>3 DEF Start, Before
<1>4. CASE sane_open(c) BY <1>1, <1>2, <1>4 DEF sane_open, Before
<1>5. CASE setOptions(c) BY <1>1, <1>2, <1>5 DEF setOptions, Before
<1>6. CASE sane_start(c) BY <1>1, <1>2, <1>6 DEF sane_start, Before
<1>7. CASE FirstPage(c)
  <2>1. step'[c] = "insert" /\ docOf'[jobOf'[c]] = 0
    BY <1>7 DEF FirstPage, Report, MoveTo, JobTypes, paramVars
  <2> QED BY <2>1 DEF Stage, Before, Paged, Unimaged, Untexted, Texted
<1>8. CASE addNewScannedDoc(c) BY <1>8, InsertStage
<1>9. CASE SaveDocid(c) BY <1>9, DocidStage
<1>10. CASE LaterPage(c) BY <1>10, LaterStage
<1>11. CASE SaveOnPage(c) BY <1>11, BegunStage
<1>12. CASE collectData(c) BY <1>1, <1>2, <1>12 DEF collectData
<1>13. CASE Convert(c) BY <1>1, <1>13 DEF Convert
<1>14. CASE WriteImage(c) BY <1>14, ImageStage
<1>15. CASE OcrImage(c) BY <1>1, <1>15 DEF OcrImage, Untexted
<1>16. CASE OcrDone(c) BY <1>1, <1>16 DEF OcrDone, Untexted
<1>17. CASE updateNewScannedPage(c) BY <1>17, TextStage
<1>18. CASE CalculatePhash(c) BY <1>1, <1>18 DEF CalculatePhash
<1>19. CASE savePhash(c) BY <1>19, PhashStage
<1>20. CASE Finish(c)
  <2>1. step'[c] = "done"
    BY <1>20 DEF Finish, MoveTo, JobTypes
  <2> QED BY <2>1 DEF Stage, Before, Paged, Unimaged, Untexted, Texted
<1> QED
  BY <1>3, <1>4, <1>5, <1>6, <1>7, <1>8, <1>9, <1>10, <1>11, <1>12, <1>13, <1>14,
     <1>15, <1>16, <1>17, <1>18, <1>19, <1>20 DEF Work

\* What a worker says: while it works that the scan does, in the end that it
\* failed, or the last word.
LEMMA WorkSays ==
  ASSUME JobTypes, NEW c \in Scanner, Work(c)
  PROVE  \/ UNCHANGED <<status, value>> /\ step[c] # "start"
         \/ /\ Told(status'[jobOf[c]]) = "working"
            /\ status'[jobOf[c]] # "none"
         \/ /\ Told(status'[jobOf[c]]) = "failed"
            /\ status'[jobOf[c]] # "none"
            /\ step'[c] = "done"
         \/ Finish(c)
<1> DEFINE Goal ==
         \/ UNCHANGED <<status, value>> /\ step[c] # "start"
         \/ /\ Told(status'[jobOf[c]]) = "working"
            /\ status'[jobOf[c]] # "none"
         \/ /\ Told(status'[jobOf[c]]) = "failed"
            /\ status'[jobOf[c]] # "none"
            /\ step'[c] = "done"
         \/ Finish(c)
<1> SUFFICES Goal
  OBVIOUS
<1>1. ASSUME NEW from, NEW s, NEW to, Report(c, from, s, to), 
             \/ s \in {"WAITING_ON_SCANNER", "DB_WORKING", "SCANNING", "CONVERTING_FORMAT",
                       "PERFORMING_OCR", "CALULATING_PHASH"}
             \/ s \in {"ERRO_FROM_SCANNER", "INTERNAL_ERROR"} /\ to = "done"
      PROVE  Goal
  <2>1. status'[jobOf[c]] = s /\ step'[c] = to
    BY <1>1 DEF Report, MoveTo, updateScanProgress, JobTypes
  <2> QED BY <1>1, <2>1 DEF Told
<1>2. ASSUME UNCHANGED progressVars, step[c] # "start" PROVE Goal
  BY <1>2 DEF progressVars
<1>3. CASE Start(c) BY <1>1, <1>3 DEF Start
<1>4. ASSUME NEW from, NEW to, Quietly(c, from, to), from # "start" PROVE Goal
  BY <1>2, <1>4 DEF Quietly, At
<1>5. CASE sane_open(c) BY <1>1, <1>4, <1>5 DEF sane_open
<1>6. CASE setOptions(c) BY <1>1, <1>4, <1>6 DEF setOptions
<1>7. CASE sane_start(c) BY <1>1, <1>4, <1>7 DEF sane_start
<1>8. CASE FirstPage(c) BY <1>1, <1>8 DEF FirstPage
<1>9. CASE collectData(c) BY <1>1, <1>4, <1>9 DEF collectData
<1>10. CASE Convert(c) BY <1>1, <1>10 DEF Convert
<1>11. CASE OcrImage(c) BY <1>1, <1>11 DEF OcrImage
<1>12. CASE OcrDone(c) BY <1>1, <1>12 DEF OcrDone
<1>13. CASE CalculatePhash(c) BY <1>1, <1>13 DEF CalculatePhash
<1>14. CASE addNewScannedDoc(c) BY <1>2, <1>14 DEF addNewScannedDoc, At
<1>15. CASE SaveDocid(c) BY <1>2, <1>15 DEF SaveDocid, At
<1>16. CASE LaterPage(c) BY <1>2, <1>16 DEF LaterPage, At
<1>17. CASE SaveOnPage(c) BY <1>2, <1>17 DEF SaveOnPage, At
<1>18. CASE WriteImage(c) BY <1>2, <1>18 DEF WriteImage, At
<1>19. CASE updateNewScannedPage(c) BY <1>2, <1>19 DEF updateNewScannedPage, At
<1>20. CASE savePhash(c) BY <1>2, <1>20 DEF savePhash, At
<1>21. CASE Finish(c) BY <1>21
<1> HIDE DEF Goal
<1> QED
  BY <1>3, <1>5, <1>6, <1>7, <1>8, <1>9, <1>10, <1>11, <1>12, <1>13, <1>14, <1>15,
     <1>16, <1>17, <1>18, <1>19, <1>20, <1>21 DEF Work

\* What AnnouncedPagesSaved says of one scan.
Announced(j) ==
  LET d == docs[docOf[j]] IN
    /\ docOf[j] # 0
    /\ d.pages = onPage[j]
    /\ HasText(docOf[j], onPage[j])
    /\ HasImages(docOf[j], onPage[j])
    /\ d.phash
    /\ IF status[j] = "FINISHED"
       THEN value[j] = docOf[j] /\ onPage[j] = requested[j]
       ELSE value[j] = onPage[j] + 1 /\ onPage[j] < requested[j]

Answers == {"WAITING_ON_NEW_PAGE", "FINISHED"}

LEMMA AnnouncedEach ==
  AnnouncedPagesSaved <=> \A j \in Job : status[j] \in Answers => Announced(j)
BY DEF AnnouncedPagesSaved, Announced, Answers, HasText, HasImages, Pages

\* The last word of a worker is true.
LEMMA FinishAnnounces ==
  ASSUME JobTypes, StatusInv, NEW c \in Scanner, Stage(c), Finish(c)
  PROVE  /\ Announced(jobOf[c])' /\ status'[jobOf[c]] \in Answers
         /\ step'[c] = "done" /\ UNCHANGED docs
<1> USE DEF Finish, At
<1> DEFINE j == jobOf[c]
           i == docid[c]
           p == page[c]
<1>1. OwnsPage(c)
  BY DEF Stage, Paged, Texted
<1>2. /\ j \in Job /\ i = docOf[j] /\ i # 0
      /\ p \in Nat /\ requested[j] \in Nat /\ p <= requested[j]
      /\ onPage[j] = p
  BY <1>1 DEF OwnsPage, JobTypes
<1>3. /\ HasText(i, p) /\ HasImages(i, p)
      /\ docs[i].pages = p /\ docs[i].phash
  BY <1>1 DEF OwnsPage, Texted, Unimaged
<1>4. /\ UNCHANGED <<docOf, onPage, requested, docs, jobOf>>
      /\ step'[c] = "done"
  BY DEF paramVars, MoveTo, JobTypes
<1>5. CASE LastPage(c)
  <2>1. status'[j] = "FINISHED" /\ value'[j] = i
    BY <1>2, <1>5 DEF updateScanProgress, JobTypes
  <2>2. p = requested[j]
    BY <1>2, <1>5 DEF LastPage
  <2> QED BY <1>2, <1>3, <1>4, <2>1, <2>2 DEF Announced, Answers, HasText, HasImages
<1>6. CASE ~LastPage(c)
  <2>1. status'[j] = "WAITING_ON_NEW_PAGE" /\ value'[j] = p + 1
    BY <1>2, <1>6 DEF updateScanProgress, JobTypes
  <2>2. p < requested[j]
    BY <1>2, <1>6 DEF LastPage
  <2> QED BY <1>2, <1>3, <1>4, <2>1, <2>2 DEF Announced, Answers, HasText, HasImages
<1> QED BY <1>5, <1>6

\* The parts of the work that write a document.
LEMMA DocWriters ==
  ASSUME NEW c \in Scanner, Work(c)
  PROVE  \/ UNCHANGED docs \/ addNewScannedDoc(c)
         \/ WriteImage(c) \/ updateNewScannedPage(c) \/ savePhash(c)
BY DEF Work, Start, sane_open, setOptions, sane_start, FirstPage, SaveDocid, LaterPage,
  SaveOnPage, collectData, Convert, OcrImage, OcrDone, CalculatePhash, Finish, Report, Quietly

\* A worker comes to save a docid by adding the document.
LEMMA FreshIsAdded ==
  ASSUME JobTypes, NEW c \in Scanner, Work(c), step'[c] = "docid"
  PROVE  addNewScannedDoc(c)
<1>1. ASSUME NEW to, MoveTo(c, to) PROVE to = "docid"
  BY <1>1 DEF MoveTo, JobTypes
<1> QED
  BY <1>1 DEF Work, Start, sane_open, setOptions, sane_start, FirstPage, SaveDocid, LaterPage,
    SaveOnPage, collectData, Convert, WriteImage, OcrImage, OcrDone, updateNewScannedPage,
    CalculatePhash, savePhash, Finish, Report, Quietly

LEMMA WorkingWillWrite ==
  ASSUME ParentInv, NEW c \in Scanner, Working(c)
  PROVE  WillWrite(c)
BY DEF ParentInv, Working, WillWrite, Early, Scanner

\* Two workers have two scans.
LEMMA OtherScan ==
  ASSUME HandInv, NEW c \in Scanner, NEW d \in Scanner, c # d, Working(c), WillWrite(d)
  PROVE  jobOf[d] # jobOf[c]
BY WorkingWillWrite DEF HandInv, OneThreadPerScan

\* The document of another scan is not touched.
LEMMA OtherDoc ==
  ASSUME JobTypes, SaveInv, NEW c \in Scanner, Work(c), Working(c),
         NEW j \in Job, j # jobOf[c], docOf[j] # 0
  PROVE  /\ docOf'[j] = docOf[j] /\ onPage'[j] = onPage[j] /\ requested' = requested
         /\ docs'[docOf[j]] = docs[docOf[j]]
<1>1. docOf[j] \in 1 .. Len(docs)
  BY DEF SaveInv, StatusInv, JobTypes
<1>2. docs'[docOf[j]] = docs[docOf[j]] \/ (docOf[j] = docid[c] /\ step[c] \in Paged)
  BY <1>1, WorkFrame
<1>3. step[c] \in Paged => docid[c] = docOf[jobOf[c]]
  BY DEF SaveInv, StageInv, Stage, OwnsPage
<1>4. jobOf[c] \in Job
  BY DEF JobTypes
<1>5. docs'[docOf[j]] = docs[docOf[j]]
  BY <1>2, <1>3, <1>4 DEF SaveInv, OwnDocument
<1> QED BY <1>5, WorkFrame

\* A step of one worker keeps the stage of the others.
LEMMA OtherStage ==
  ASSUME JobTypes, HandInv, SaveInv, NEW c \in Scanner, Work(c), Working(c),
         NEW d \in Scanner, d # c, Working(d)
  PROVE  Stage(d)'
<1> DEFINE j == jobOf[d]
<1>1. j \in Job /\ j # jobOf[c]
  BY OtherScan, WorkingWillWrite DEF HandInv, JobTypes
<1>2. Stage(d)
  BY DEF SaveInv, StageInv
<1>3. /\ step'[d] = step[d] /\ page'[d] = page[d] /\ docid'[d] = docid[d]
      /\ jobOf'[d] = j /\ requested' = requested
      /\ docOf'[j] = docOf[j] /\ onPage'[j] = onPage[j]
  BY <1>1, WorkFrame DEF JobTypes
<1>4. docOf[j] # 0 => docs'[docOf[j]] = docs[docOf[j]]
  BY <1>1, OtherDoc
<1>5. UpToDate(j) => UpToDate(j)'
  BY <1>3, <1>4 DEF UpToDate, HasText, HasImages
<1>6. OwnsPage(d) => OwnsPage(d)'
  BY <1>3, <1>4 DEF OwnsPage, HasText, HasImages
<1>7. ASSUME step[d] = "docid", FreshDoc(d) PROVE FreshDoc(d)'
  <2>1. docs'[docid[d]] = docs[docid[d]] \/ (docid[d] = docid[c] /\ step[c] \in Paged)
    BY <1>7, WorkFrame DEF FreshDoc
  <2>2. step[c] \in Paged => docid[c] = docOf[jobOf[c]] /\ jobOf[c] \in Job
    BY DEF SaveInv, StageInv, Stage, OwnsPage, JobTypes
  <2>3. docs'[docid[d]] = docs[docid[d]]
    BY <1>7, <2>1, <2>2 DEF FreshDoc
  <2>4. docid[d] \in 1 .. Len(docs')
    <3>1. Len(docs') \in Nat /\ Len(docs') >= Len(docs)
      BY WorkFrame
    <3>2. Len(docs) \in Nat
      BY DEF JobTypes
    <3> QED BY <1>7, <3>1, <3>2 DEF FreshDoc
  <2>5. step[c] = "docid" => docid[c] # docid[d]
    BY <1>7 DEF SaveInv, FreshApart
  <2>6. \A k \in Job : docOf'[k] # docid[d]
    BY <1>7, <2>5, WorkFrame DEF FreshDoc
  <2> QED BY <1>3, <1>7, <2>3, <2>4, <2>6 DEF FreshDoc, HasText, HasImages
<1> QED BY <1>2, <1>3, <1>5, <1>6, <1>7 DEF Stage

LEMMA WorkStatus ==
  ASSUME TypeOK, JobTypes, HandInv, SaveInv, NEW c \in Scanner, Work(c), Working(c)
  PROVE  StatusInv'
<1> DEFINE j == jobOf[c]
<1>1. /\ j \in Job /\ WillWrite(c) /\ status[j] # "none"
      /\ Told(status[j]) \in {"working", "next"}
      /\ step[c] # "start" => Told(status[j]) = "working"
  BY WorkingWillWrite DEF HandInv, HandOverInv, JobTypes, SaveInv, StatusInv
<1>2. status'[j] # "none"
  BY <1>1, WorkSays, FinishAnnounces DEF SaveInv, StageInv, Answers
<1>3. step'[c] # "done" => Told(status'[j]) = "working"
  <2>1. CASE Finish(c)
    BY <2>1, FinishAnnounces DEF SaveInv, StageInv
  <2> QED BY <1>1, <2>1, WorkSays
<1>4. \A k \in Job : status[k] # "none" => status'[k] # "none"
  BY <1>2, WorkFrame
<1>5. ASSUME NEW k \in Job
      PROVE  /\ docOf'[k] \in 0 .. Len(docs')
             /\ docOf'[k] # 0 => status'[k] # "none"
             /\ status'[k] # "none" => requested'[k] # 0
  <2>1. /\ Len(docs) \in Nat /\ Len(docs') \in Nat /\ Len(docs) <= Len(docs')
        /\ requested' = requested
    BY WorkFrame DEF JobTypes
  <2>2. docOf'[k] = docOf[k] \/ (k = j /\ step[c] = "docid" /\ docOf'[k] = docid[c])
    BY WorkFrame
  <2>3. step[c] = "docid" => docid[c] \in 1 .. Len(docs)
    BY DEF SaveInv, StageInv, Stage, FreshDoc
  <2>4. docOf[k] \in 0 .. Len(docs)
    BY DEF SaveInv, StatusInv
  <2>5. docOf'[k] \in 0 .. Len(docs')
    BY <2>1, <2>2, <2>3, <2>4
  <2>6. docOf'[k] # 0 => status'[k] # "none"
    BY <1>2, <1>4, <2>2 DEF SaveInv, StatusInv
  <2>7. status'[k] # "none" => requested'[k] # 0
    <3>1. status'[k] # "none" => status[k] # "none"
      BY <1>1, WorkFrame
    <3> QED BY <2>1, <3>1 DEF SaveInv, StatusInv
  <2> QED BY <2>5, <2>6, <2>7
<1>6. ASSUME NEW d \in Scanner, d # c
      PROVE  /\ WillWrite(d)' => Told(status'[jobOf'[d]]) \in {"working", "next"}
             /\ Working(d)' /\ step'[d] # "start" => Told(status'[jobOf'[d]]) = "working"
  <2>1. (WillWrite(d)' <=> WillWrite(d)) /\ (Working(d)' <=> Working(d)) /\ step'[d] = step[d]
    <3>1. UNCHANGED dispatchVars /\ \E to : step' = [step EXCEPT ![c] = to]
      BY WorkFrame
    <3>2. step'[d] = step[d]
      BY <1>6, <3>1 DEF JobTypes
    <3> QED BY <3>1, <3>2 DEF WillWrite, Working, Running, dispatchVars
  <2>2. WillWrite(d) => jobOf'[d] = jobOf[d] /\ status'[jobOf[d]] = status[jobOf[d]]
    <3>1. WillWrite(d) => jobOf[d] # jobOf[c]
      BY <1>6, OtherScan
    <3>2. jobOf' = jobOf /\ \A k \in Job \ {jobOf[c]} : status'[k] = status[k]
      BY WorkFrame
    <3>3. jobOf[d] \in Job
      BY DEF JobTypes
    <3> QED BY <3>1, <3>2, <3>3
  <2>3. Working(d) => WillWrite(d)
    BY WorkingWillWrite DEF HandInv
  <2> QED BY <2>1, <2>2, <2>3 DEF SaveInv, StatusInv
<1>7. /\ WillWrite(c)' => Told(status'[jobOf'[c]]) \in {"working", "next"}
      /\ Working(c)' /\ step'[c] # "start" => Told(status'[jobOf'[c]]) = "working"
  <2>1. Running(c) /\ pc[c] = "wait" /\ response[c] # "BUSY"
    BY WorkFrame DEF HandInv, ParentInv, Scanner
  <2>2. pc' = pc /\ worker' = worker /\ response' = response /\ jobOf' = jobOf
    BY WorkFrame DEF dispatchVars
  <2>3. WillWrite(c)' \/ Working(c)' => step'[c] # "done"
    BY <2>1, <2>2 DEF WillWrite, Working, Early
  <2> QED BY <1>3, <2>2, <2>3
<1>8. request'.at # "none" => status'[request'.job] # "none"
  <2>1. request' = request
    BY WorkFrame
  <2>2. request.at # "none" => request.job \in Job
    BY DEF JobTypes, Request, NoRequest
  <2> QED BY <1>4, <2>1, <2>2 DEF SaveInv, StatusInv
<1> QED BY <1>5, <1>6, <1>7, <1>8 DEF StatusInv

LEMMA WorkStages ==
  ASSUME TypeOK, JobTypes, HandInv, SaveInv, NEW c \in Scanner, Work(c), Working(c)
  PROVE  StageInv'
<1>1. /\ pc' = pc /\ worker' = worker /\ Running(c) /\ step[c] # "done"
      /\ \A d \in Scanner \ {c} : step'[d] = step[d]
  BY WorkFrame DEF dispatchVars, JobTypes
<1>2. Stage(c)'
  <2>1. status[jobOf[c]] # "none" /\ Stage(c)
    BY WorkingWillWrite DEF HandInv, HandOverInv, SaveInv, StageInv
  <2> QED BY <2>1, WorkStage DEF SaveInv
<1>3. pc'[c] \notin Early
  BY <1>1 DEF HandInv, ParentInv, Scanner, Early
<1>4. ASSUME NEW d \in Scanner, d # c
      PROVE  /\ pc'[d] \in Early => step'[d] = "start"
             /\ Working(d)' => Stage(d)'
  <2>1. Working(d)' => Working(d)
    BY <1>1, <1>4 DEF Working, Running
  <2> QED BY <1>1, <1>4, <2>1, OtherStage DEF SaveInv, StageInv
<1> QED BY <1>2, <1>3, <1>4 DEF StageInv

LEMMA WorkFresh ==
  ASSUME TypeOK, JobTypes, HandInv, SaveInv, NEW c \in Scanner, Work(c), Working(c)
  PROVE  FreshApart' /\ OwnDocument'
<1>1. ASSUME NEW d \in Scanner, d # c, Working(d)', step'[d] = "docid"
      PROVE  Working(d) /\ FreshDoc(d) /\ docid'[d] = docid[d]
  BY <1>1, WorkFrame DEF Working, Running, dispatchVars, JobTypes, SaveInv, StageInv, Stage
<1>2. step'[c] = "docid" => docid'[c] = Len(docs) + 1
  BY FreshIsAdded, InsertStage DEF SaveInv, StageInv
<1>3. ASSUME NEW d \in Scanner, d # c, Working(d)', step'[d] = "docid", step'[c] = "docid"
      PROVE  docid'[d] # docid'[c]
  BY <1>1, <1>2, <1>3 DEF FreshDoc, JobTypes
<1>4. ASSUME NEW d \in Scanner, NEW e \in Scanner, Working(d)', step'[d] = "docid",
             Working(e)', step'[e] = "docid", docid'[d] = docid'[e], d # e
      PROVE  FALSE
  <2>1. CASE d = c BY <1>3, <1>4, <2>1
  <2>2. CASE e = c BY <1>3, <1>4, <2>2
  <2>3. CASE d # c /\ e # c
    <3>1. step[d] = "docid" /\ step[e] = "docid"
      BY <1>4, <2>3, WorkFrame DEF JobTypes
    <3> QED BY <1>1, <1>4, <2>3, <3>1 DEF SaveInv, FreshApart
  <2> QED BY <2>1, <2>2, <2>3
<1>5. FreshApart'
  BY <1>4 DEF FreshApart
<1>6. OwnDocument'
  <2> SUFFICES ASSUME NEW j \in Job, NEW k \in Job, docOf'[j] # 0, docOf'[j] = docOf'[k], j # k
               PROVE  FALSE
    BY DEF OwnDocument
  <2>1. \A i \in Job : docOf'[i] = docOf[i]
                        \/ (i = jobOf[c] /\ step[c] = "docid" /\ docOf'[i] = docid[c])
    BY WorkFrame
  <2>2. step[c] = "docid" => \A i \in Job : docOf[i] # docid[c]
    BY DEF SaveInv, StageInv, Stage, FreshDoc
  <2> QED BY <2>1, <2>2 DEF SaveInv, OwnDocument
<1> QED BY <1>5, <1>6

LEMMA WorkText ==
  ASSUME JobTypes, SaveInv, NEW c \in Scanner, Work(c), Working(c)
  PROVE  TextInOrder'
<1> DEFINE InOrder(t) == t = [k \in 1 .. Len(t) |-> k]
<1>0. /\ StatusInv /\ Stage(c) /\ docs \in Seq(Document) /\ Len(docs) \in Nat
      /\ \A i \in 1 .. Len(docs) : InOrder(docs[i].text)
  BY DEF SaveInv, StageInv, JobTypes, TextInOrder
<1>1. ASSUME NEW n \in Nat PROVE InOrder(Pages(n))
  <2>1. Len(Pages(n)) = n
    BY PagesFacts
  <2> QED BY <2>1 DEF Pages
<1>2. CASE UNCHANGED docs
  BY <1>0, <1>2 DEF TextInOrder
<1>3. CASE addNewScannedDoc(c)
  <2>1. /\ Len(docs') = Len(docs) + 1 /\ InOrder(docs'[Len(docs) + 1].text)
    <3>1. 0 \in Nat
      OBVIOUS
    <3> QED BY <1>0, <1>1, <1>3, <3>1, InsertStage
  <2>2. \A i \in 1 .. Len(docs) : docs'[i] = docs[i]
    BY <1>0, <1>3, WorkFrame DEF addNewScannedDoc, At, Paged, Unimaged, Untexted, Texted
  <2>3. ASSUME NEW i \in 1 .. Len(docs') PROVE InOrder(docs'[i].text)
    <3>1. i \in 1 .. Len(docs) \/ i = Len(docs) + 1
      BY <1>0, <2>1
    <3> HIDE DEF InOrder
    <3> QED BY <1>0, <2>1, <2>2, <3>1
  <2> QED BY <2>3 DEF TextInOrder
<1>4. ASSUME Len(docs') = Len(docs), docid[c] \in 1 .. Len(docs) => InOrder(docs'[docid[c]].text)
      PROVE  TextInOrder'
  <2>1. \A i \in 1 .. Len(docs) : docs'[i] = docs[i] \/ i = docid[c]
    BY WorkFrame
  <2> QED BY <1>0, <1>4, <2>1 DEF TextInOrder
<1>5. CASE updateNewScannedPage(c)
  <2>1. /\ docs'[docid[c]].text = Pages(page[c]) /\ page[c] \in Nat
    BY <1>0, <1>5, TextStage DEF JobTypes
  <2>2. Len(docs') = Len(docs)
    BY <1>0, <1>5 DEF updateNewScannedPage
  <2> QED BY <1>1, <1>4, <2>1, <2>2
<1>6. ASSUME Stage(c)', step'[c] \in Paged, Len(docs') = Len(docs), UNCHANGED <<docid, page>>
      PROVE  TextInOrder'
  <2>1. OwnsPage(c)' /\ page[c] \in Nat
    BY <1>6 DEF Stage, JobTypes
  <2>2. PICK n \in Nat : docs'[docid[c]].text = Pages(n)
    <3>1. page[c] \in 1 .. requested'[jobOf'[c]]
      BY <1>6, <2>1 DEF OwnsPage
    <3>2. page[c] - 1 \in Nat
      BY <2>1, <3>1
    <3> QED BY <1>6, <2>1, <3>2 DEF OwnsPage, HasText
  <2> QED BY <1>1, <1>4, <1>6, <2>2
<1>7. CASE WriteImage(c)
  <2>1. step'[c] = "ocr" /\ Len(docs') = Len(docs)
    BY <1>0, <1>7 DEF WriteImage, MoveTo, JobTypes
  <2> QED BY <1>0, <1>6, <1>7, <2>1, ImageStage DEF WriteImage, Paged, Untexted
<1>8. CASE savePhash(c)
  <2>1. step'[c] = "finish" /\ Len(docs') = Len(docs)
    BY <1>0, <1>8 DEF savePhash, MoveTo, JobTypes
  <2> QED BY <1>0, <1>6, <1>8, <2>1, PhashStage DEF savePhash, Paged, Texted
<1> QED BY <1>2, <1>3, <1>5, <1>7, <1>8, DocWriters

LEMMA WorkAnnounces ==
  ASSUME JobTypes, HandInv, SaveInv, NEW c \in Scanner, Work(c), Working(c)
  PROVE  AnnouncedPagesSaved'
<1> SUFFICES ASSUME NEW k \in Job, status'[k] \in Answers PROVE Announced(k)'
  BY AnnouncedEach DEF Announced, AnnouncedPagesSaved, Answers, HasText, HasImages, Pages
<1>1. CASE k # jobOf[c]
  <2>1. status'[k] = status[k] /\ value'[k] = value[k]
    BY <1>1, WorkFrame
  <2>2. Announced(k)
    BY <2>1, AnnouncedEach DEF SaveInv
  <2>3. /\ docOf'[k] = docOf[k] /\ onPage'[k] = onPage[k] /\ requested' = requested
        /\ docs'[docOf[k]] = docs[docOf[k]]
    BY <1>1, <2>2, OtherDoc DEF Announced
  <2> QED BY <2>1, <2>2, <2>3 DEF Announced, HasText, HasImages
<1>2. CASE k = jobOf[c]
  <2>1. Told(status'[k]) \notin {"working", "failed"}
    BY DEF Told, Answers
  <2>2. step[c] # "start" => Told(status[k]) = "working"
    BY <1>2 DEF SaveInv, StatusInv
  <2>3. Finish(c)
    BY <1>2, <2>1, <2>2, WorkSays
  <2>4. Announced(jobOf[c])' /\ jobOf'[c] = k
    BY <1>2, <2>3, FinishAnnounces, WorkFrame DEF SaveInv, StageInv
  <2> QED BY <2>4 DEF Announced, HasText, HasImages
<1> QED BY <1>1, <1>2

LEMMA WorkSaves ==
  ASSUME TypeOK, JobTypes, HandInv, SaveInv, NEW c \in Scanner, Work(c)
  PROVE  SaveInv'
<1>1. Working(c)
  BY WorkFrame DEF Working
<1> QED
  BY <1>1, WorkStatus, WorkStages, WorkFresh, WorkText, WorkAnnounces DEF SaveInv

\* A step that leaves documents alone, and every worker where it is.
LEMMA StagesKept ==
  ASSUME SaveInv, UNCHANGED <<docs, docOf, onPage>>,
         \A d \in Scanner :
           /\ pc'[d] \in Early => step'[d] = "start"
           /\ Working(d)' =>
                \/ /\ Working(d) /\ step'[d] = step[d] /\ page'[d] = page[d]
                   /\ docid'[d] = docid[d] /\ jobOf'[d] = jobOf[d]
                   /\ requested'[jobOf[d]] = requested[jobOf[d]]
                \/ step'[d] = "start" /\ UpToDate(jobOf[d])'
  PROVE  StageInv' /\ FreshApart' /\ OwnDocument' /\ TextInOrder'
<1>1. ASSUME NEW d \in Scanner, Working(d)' PROVE Stage(d)'
  <2>1. CASE step'[d] = "start" /\ UpToDate(jobOf[d])'
    BY <2>1 DEF Stage, Before, Paged, Unimaged, Untexted, Texted
  <2>2. CASE /\ Working(d) /\ step'[d] = step[d] /\ page'[d] = page[d]
             /\ docid'[d] = docid[d] /\ jobOf'[d] = jobOf[d]
             /\ requested'[jobOf[d]] = requested[jobOf[d]]
    <3>1. Stage(d)
      BY <2>2 DEF SaveInv, StageInv
    <3>2. UpToDate(jobOf[d]) => UpToDate(jobOf[d])'
      BY <2>2 DEF UpToDate, HasText, HasImages
    <3>3. FreshDoc(d) => FreshDoc(d)'
      BY <2>2 DEF FreshDoc, HasText, HasImages
    <3>4. OwnsPage(d) => OwnsPage(d)'
      BY <2>2 DEF OwnsPage, HasText, HasImages
    <3> QED BY <2>2, <3>1, <3>2, <3>3, <3>4 DEF Stage
  <2> QED BY <1>1, <2>1, <2>2
<1>2. StageInv'
  BY <1>1 DEF StageInv
<1>3. FreshApart'
  BY DEF SaveInv, FreshApart
<1>4. OwnDocument' /\ TextInOrder'
  BY DEF SaveInv, OwnDocument, TextInOrder
<1> QED BY <1>2, <1>3, <1>4

LEMMA AnnouncedKept ==
  ASSUME SaveInv, UNCHANGED <<docs, docOf, onPage>>,
         \A k \in Job : status'[k] \in Answers =>
           status'[k] = status[k] /\ value'[k] = value[k] /\ requested'[k] = requested[k]
  PROVE  AnnouncedPagesSaved'
<1> SUFFICES ASSUME NEW k \in Job, status'[k] \in Answers PROVE Announced(k)'
  BY AnnouncedEach DEF Announced, AnnouncedPagesSaved, Answers, HasText, HasImages, Pages
<1>1. Announced(k)
  BY AnnouncedEach DEF SaveInv
<1> QED BY <1>1 DEF Announced, HasText, HasImages

\* The dispatcher and the end of a worker give nobody work.
LEMMA NoNewWork ==
  ASSUME TypeOK, ParentInv, NEW c \in Caller,
         Proceed(c) \/ Return(c) \/ \E a \in BOOLEAN : WorkerExit(c, a),
         NEW d \in Scanner, pc[d] \in Early => step[d] = "start", step'[d] = step[d]
  PROVE  /\ Working(d)' => Working(d)
         /\ pc'[d] \in Early => pc[d] \in Early
<1> USE DEF TypeOK, ParentInv, Running, Goto, Working, Early, Scanner
<1>1. CASE CheckBusy(c) BY <1>1 DEF CheckBusy
<1>2. CASE SetBusy(c) BY <1>2 DEF SetBusy
<1>3. CASE OpenPipe(c) BY <1>3 DEF OpenPipe
<1>4. CASE Fork(c) BY <1>4 DEF Fork
<1>5. CASE Reap(c) BY <1>5 DEF Reap
<1>6. CASE ReadResponse(c) BY <1>6 DEF ReadResponse
<1>7. CASE ClearBusy(c) BY <1>7 DEF ClearBusy
<1>8. CASE StoreList(c) BY <1>8 DEF StoreList
<1>9. CASE Return(c) BY <1>9 DEF Return
<1>10. ASSUME NEW a \in BOOLEAN, WorkerExit(c, a)
       PROVE (Working(d)' => Working(d)) /\ (pc'[d] \in Early => pc[d] \in Early)
  BY <1>10 DEF WorkerExit
<1> QED BY <1>1, <1>2, <1>3, <1>4, <1>5, <1>6, <1>7, <1>8, <1>9, <1>10 DEF Proceed

LEMMA DispatcherSaves ==
  ASSUME TypeOK, HandInv, SaveInv, NEW c \in Caller,
         Proceed(c) \/ Return(c) \/ \E a \in BOOLEAN : WorkerExit(c, a),
         UNCHANGED jobVars
  PROVE  SaveInv'
<1> USE DEF jobVars, progressVars, paramVars, workerVars
<1>1. \A d \in Scanner : /\ Working(d)' => Working(d)
                         /\ pc'[d] \in Early => pc[d] \in Early
                         /\ pc'[d] \in Early => step'[d] = "start"
  BY NoNewWork DEF HandInv, SaveInv, StageInv
<1>2. \A d \in Scanner : WillWrite(d)' => WillWrite(d)
  BY NoNewWriter DEF HandInv
<1>3. StatusInv'
  BY <1>1, <1>2 DEF SaveInv, StatusInv
<1>4. StageInv' /\ FreshApart' /\ OwnDocument' /\ TextInOrder'
  BY <1>1, StagesKept
<1>5. AnnouncedPagesSaved'
  BY AnnouncedKept
<1> QED BY <1>3, <1>4, <1>5 DEF SaveInv

LEMMA EndSaves ==
  ASSUME TypeOK, JobTypes, HandInv, SaveInv, NEW c \in Scanner, EndThread(c)
  PROVE  SaveInv'
<1>1. Return(c) /\ c \in Caller /\ UNCHANGED <<request, docs, requested, docOf, onPage>>
  BY DEF EndThread, Scanner, paramVars
<1>2. ~Working(c)' /\ ~WillWrite(c)' /\ pc'[c] \notin Early
  BY <1>1 DEF Return, Goto, WillWrite, Working, Running, HandInv, ParentInv, TypeOK, Scanner, Early
<1>3. ASSUME NEW d \in Scanner, d # c
      PROVE  /\ step'[d] = step[d] /\ page'[d] = page[d] /\ docid'[d] = docid[d]
             /\ jobOf'[d] = jobOf[d]
             /\ (Working(d)' => Working(d)) /\ (WillWrite(d)' => WillWrite(d))
             /\ pc'[d] \in Early => pc[d] \in Early
  <2>1. /\ step'[d] = step[d] /\ page'[d] = page[d] /\ docid'[d] = docid[d]
        /\ jobOf'[d] = jobOf[d]
    BY <1>3 DEF EndThread, JobTypes
  <2>2. pc'[d] = pc[d] /\ worker' = worker /\ response'[d] = response[d]
    BY <1>1, <1>3 DEF Return, Goto, TypeOK, Scanner
  <2> QED BY <2>1, <2>2 DEF Working, WillWrite, Running
<1>4. StageInv' /\ FreshApart' /\ OwnDocument' /\ TextInOrder'
  <2>1. \A d \in Scanner : pc[d] \in Early => step[d] = "start"
    BY DEF SaveInv, StageInv
  <2> QED BY <1>1, <1>2, <1>3, <2>1, StagesKept
<1>5. StatusInv' /\ AnnouncedPagesSaved'
  <2>1. CASE UNCHANGED progressVars
    <3>1. StatusInv'
      BY <1>1, <1>2, <1>3, <2>1 DEF SaveInv, StatusInv, progressVars
    <3>2. AnnouncedPagesSaved'
      BY <1>1, <2>1, AnnouncedKept DEF progressVars
    <3> QED BY <3>1, <3>2
  <2>2. CASE response[c] = "BUSY"
    <3> DEFINE j == jobOf[c]
    <3>1. /\ j \in Job /\ status'[j] = "SANE_BUSY"
          /\ \A k \in Job \ {j} : status'[k] = status[k] /\ value'[k] = value[k]
      BY <2>2 DEF EndThread, updateScanProgress, JobTypes
    <3>2. WillWrite(c)
      BY <1>1, <2>2 DEF Return, WillWrite
    <3>3. status[j] # "none"
      BY <3>2 DEF HandInv, HandOverInv
    <3>4. \A d \in Scanner \ {c} : WillWrite(d) => jobOf[d] # j /\ jobOf[d] \in Job
      BY <3>2 DEF HandInv, OneThreadPerScan, JobTypes
    <3>5. \A d \in Scanner : Working(d) => WillWrite(d)
      BY WorkingWillWrite DEF HandInv
    <3>6. \A k \in Job : status'[k] # "none" <=> status[k] # "none"
      BY <3>1, <3>3
    <3>7. request.at # "none" => request.job \in Job
      BY DEF JobTypes, Request, NoRequest
    <3>8. StatusInv'
      <4>1. \A k \in Job : /\ docOf'[k] \in 0 .. Len(docs')
                           /\ docOf'[k] # 0 => status'[k] # "none"
                           /\ status'[k] # "none" => requested'[k] # 0
        BY <1>1, <3>6 DEF SaveInv, StatusInv
      <4>2. request'.at # "none" => status'[request'.job] # "none"
        BY <1>1, <3>6, <3>7 DEF SaveInv, StatusInv
      <4>3. ASSUME NEW d \in Scanner
            PROVE  /\ WillWrite(d)' => Told(status'[jobOf'[d]]) \in {"working", "next"}
                   /\ Working(d)' /\ step'[d] # "start" => Told(status'[jobOf'[d]]) = "working"
        BY <1>2, <1>3, <3>1, <3>4, <3>5 DEF SaveInv, StatusInv
      <4> QED BY <4>1, <4>2, <4>3 DEF StatusInv
    <3>9. AnnouncedPagesSaved'
      BY <1>1, <3>1, AnnouncedKept DEF Answers
    <3> QED BY <3>8, <3>9
  <2> QED BY <2>1, <2>2 DEF EndThread
<1> QED BY <1>4, <1>5 DEF SaveInv

\* A new thread begins its work; the others go on.
LEMMA CreateWork ==
  ASSUME TypeOK, JobTypes, ParentInv, StageInv, NEW c, NEW j \in Job, CreateThread(c, j)
  PROVE  /\ c \in Scanner /\ step'[c] = "start" /\ jobOf'[c] = j
         /\ \A d \in Scanner \ {c} :
              /\ step'[d] = step[d] /\ page'[d] = page[d] /\ docid'[d] = docid[d]
              /\ jobOf'[d] = jobOf[d]
              /\ Working(d)' <=> Working(d)
              /\ WillWrite(d)' <=> WillWrite(d)
              /\ pc'[d] \in Early => step'[d] = "start"
<1>1. c \in Scanner /\ step'[c] = "start" /\ jobOf'[c] = j
  BY DEF CreateThread, JobTypes
<1>2. /\ \A d \in Scanner \ {c} : pc'[d] = pc[d] /\ step'[d] = step[d] /\ jobOf'[d] = jobOf[d]
      /\ UNCHANGED <<worker, response, page, docid>>
  BY DEF CreateThread, StartScan, Call, Goto, TypeOK, JobTypes, Scanner
<1>3. \A d \in Scanner : pc[d] \in Early => step[d] = "start"
  BY DEF StageInv
<1> QED BY <1>1, <1>2, <1>3 DEF Working, WillWrite, Running

LEMMA NobodyNew ==
  ASSUME UNCHANGED <<dispatchVars, jobOf, workerVars>>
  PROVE  /\ UNCHANGED <<page, docid>>
         /\ \A d \in Scanner :
              /\ step'[d] = step[d]
              /\ Working(d)' <=> Working(d)
              /\ WillWrite(d)' <=> WillWrite(d)
              /\ pc'[d] = pc[d]
BY DEF dispatchVars, workerVars, Working, WillWrite, Running

LEMMA AskSaves ==
  ASSUME TypeOK, JobTypes, HandInv, SaveInv, NEW j \in Job, NEW n \in 1 .. MaxPages[j],
         doScan(j, n)
  PROVE  SaveInv'
<1> USE DEF doScan
<1>1. /\ status[j] = "none" /\ docOf[j] = 0
      /\ status'[j] = "IDLE" /\ requested'[j] = n /\ n # 0
      /\ \A k \in Job \ {j} : /\ status'[k] = status[k] /\ value'[k] = value[k]
                              /\ requested'[k] = requested[k]
      /\ UNCHANGED <<docs, docOf, onPage, request>>
  BY ScanJobAssumption DEF updateScanProgress, JobTypes, SaveInv, StatusInv
<1>2. \A d \in Scanner : (WillWrite(d) => jobOf[d] # j) /\ (Working(d) => WillWrite(d))
  BY <1>1, WorkingWillWrite DEF HandInv, HandOverInv
<1>3. \A d \in Scanner : jobOf[d] \in Job
  BY DEF JobTypes
<1>4. AnnouncedPagesSaved'
  BY <1>1, AnnouncedKept DEF Answers
<1>5. /\ \A k \in Job : /\ docOf'[k] \in 0 .. Len(docs')
                        /\ docOf'[k] # 0 => status'[k] # "none"
                        /\ status'[k] # "none" => requested'[k] # 0
      /\ request'.at # "none" => status'[request'.job] # "none"
  BY <1>1 DEF SaveInv, StatusInv, NoRequest
<1>6. Told("IDLE") = "working"
  BY DEF Told
<1>7. CASE NoThread
  <2>1. StageInv' /\ FreshApart' /\ OwnDocument' /\ TextInOrder'
    <3>1. \A d \in Scanner : pc[d] \in Early => step[d] = "start"
      BY DEF SaveInv, StageInv
    <3> QED BY <1>1, <1>2, <1>3, <1>7, <3>1, NobodyNew, StagesKept DEF NoThread
  <2>2. StatusInv'
    BY <1>1, <1>2, <1>3, <1>5, <1>7, NobodyNew DEF NoThread, SaveInv, StatusInv
  <2> QED BY <1>4, <2>1, <2>2 DEF SaveInv
<1>8. ASSUME NEW c \in Scanner, CreateThread(c, j) PROVE SaveInv'
  <2>1. /\ c \in Scanner /\ step'[c] = "start" /\ jobOf'[c] = j
        /\ \A d \in Scanner \ {c} :
             /\ step'[d] = step[d] /\ page'[d] = page[d] /\ docid'[d] = docid[d]
             /\ jobOf'[d] = jobOf[d]
             /\ Working(d)' <=> Working(d)
             /\ WillWrite(d)' <=> WillWrite(d)
             /\ pc'[d] \in Early => step'[d] = "start"
    BY <1>8, CreateWork DEF HandInv, SaveInv
  <2>2. UpToDate(jobOf[c])'
    BY <1>1, <2>1 DEF UpToDate
  <2>3. StageInv' /\ FreshApart' /\ OwnDocument' /\ TextInOrder'
    BY <1>1, <1>2, <1>3, <2>1, <2>2, StagesKept
  <2>4. StatusInv'
    BY <1>1, <1>2, <1>3, <1>5, <1>6, <2>1 DEF SaveInv, StatusInv
  <2> QED BY <1>4, <2>3, <2>4 DEF SaveInv
<1> QED BY <1>7, <1>8

LEMMA NextSaves ==
  ASSUME TypeOK, JobTypes, HandInv, SaveInv, StartNextPage
  PROVE  SaveInv'
<1> USE DEF StartNextPage
<1> DEFINE j == request.job
<1>1. /\ request.at = "accepted" /\ j \in Job /\ status[j] = "WAITING_ON_NEW_PAGE"
      /\ request'.at # "none" => request'.job = j
  <2>1. request \in [at : {"accepted", "started"}, job : Job]
    BY DEF JobTypes, Request, NoRequest
  <2>2. request' = NoRequest \/ request' = [request EXCEPT !.at = "started"]
    OBVIOUS
  <2>3. request'.at # "none" => request'.job = j
    BY <2>1, <2>2 DEF NoRequest
  <2> QED BY <2>1, <2>3 DEF HandInv, HandOverInv
<1>2. UNCHANGED <<docs, docOf, onPage, requested, status, value>>
  BY DEF progressVars, paramVars
<1>3. AnnouncedPagesSaved'
  BY <1>2, AnnouncedKept
<1>4. /\ \A k \in Job : /\ docOf'[k] \in 0 .. Len(docs')
                        /\ docOf'[k] # 0 => status'[k] # "none"
                        /\ status'[k] # "none" => requested'[k] # 0
      /\ request'.at # "none" => status'[request'.job] # "none"
  BY <1>1, <1>2 DEF SaveInv, StatusInv
<1>5. CASE NoThread
  <2>1. StageInv' /\ FreshApart' /\ OwnDocument' /\ TextInOrder'
    <3>1. \A d \in Scanner : pc[d] \in Early => step[d] = "start"
      BY DEF SaveInv, StageInv
    <3> QED BY <1>2, <1>5, <3>1, NobodyNew, StagesKept DEF NoThread
  <2>2. StatusInv'
    BY <1>2, <1>4, <1>5, NobodyNew DEF NoThread, SaveInv, StatusInv
  <2> QED BY <1>3, <2>1, <2>2 DEF SaveInv
<1>6. ASSUME NEW c \in Scanner, CreateThread(c, j) PROVE SaveInv'
  <2>1. /\ c \in Scanner /\ step'[c] = "start" /\ jobOf'[c] = j
        /\ \A d \in Scanner \ {c} :
             /\ step'[d] = step[d] /\ page'[d] = page[d] /\ docid'[d] = docid[d]
             /\ jobOf'[d] = jobOf[d]
             /\ Working(d)' <=> Working(d)
             /\ WillWrite(d)' <=> WillWrite(d)
             /\ pc'[d] \in Early => step'[d] = "start"
    BY <1>1, <1>6, CreateWork DEF HandInv, SaveInv
  <2>2. UpToDate(jobOf[c])'
    <3>1. Announced(j)
      BY <1>1, AnnouncedEach DEF SaveInv, Answers
    <3> QED BY <1>1, <1>2, <2>1, <3>1 DEF UpToDate, Announced, HasText, HasImages
  <2>3. StageInv' /\ FreshApart' /\ OwnDocument' /\ TextInOrder'
    BY <1>2, <2>1, <2>2, StagesKept
  <2>4. Told(status[j]) = "next"
    BY <1>1 DEF Told
  <2>5. StatusInv'
    BY <1>2, <1>4, <2>1, <2>4 DEF SaveInv, StatusInv
  <2> QED BY <1>3, <2>3, <2>5 DEF SaveInv
<1> QED BY <1>5, <1>6

LEMMA MarkSaves ==
  ASSUME TypeOK, JobTypes, HandInv, SaveInv, MarkNextPage
  PROVE  SaveInv'
<1> USE DEF MarkNextPage
<1> DEFINE j == request.job
<1>1. /\ j \in Job /\ status[j] # "none"
      /\ status'[j] = "WAITING_ON_SCANNER"
      /\ \A k \in Job \ {j} : status'[k] = status[k] /\ value'[k] = value[k]
      /\ request'.at = "none"
      /\ UNCHANGED <<docs, docOf, onPage, requested, jobOf>>
  BY DEF JobTypes, Request, NoRequest, updateScanProgress, SaveInv, StatusInv, paramVars
<1>2. \A d \in Scanner : jobOf[d] \in Job
  BY DEF JobTypes
<1>3. AnnouncedPagesSaved'
  BY <1>1, AnnouncedKept DEF Answers
<1>4. StageInv' /\ FreshApart' /\ OwnDocument' /\ TextInOrder'
  <2>1. \A d \in Scanner : pc[d] \in Early => step[d] = "start"
    BY DEF SaveInv, StageInv
  <2> QED BY <1>1, <2>1, NobodyNew, StagesKept
<1>5. Told("WAITING_ON_SCANNER") = "working"
  BY DEF Told
<1>6. StatusInv'
  BY <1>1, <1>2, <1>5, NobodyNew DEF SaveInv, StatusInv
<1> QED BY <1>3, <1>4, <1>6 DEF SaveInv

LEMMA WebSaves ==
  ASSUME TypeOK, JobTypes, HandInv, SaveInv, WebStep
  PROVE  SaveInv'
<1>0. \A d \in Scanner : pc[d] \in Early => step[d] = "start"
  BY DEF SaveInv, StageInv
<1>1. ASSUME NEW j \in Job, nextPageReady(j) PROVE SaveInv'
  <2> USE <1>1 DEF nextPageReady
  <2>1. /\ UNCHANGED <<docs, docOf, onPage, requested, status, value, jobOf>>
        /\ request'.at # "none" => request'.job = j
        /\ status[j] # "none"
    BY DEF progressVars, paramVars, ReadyForPage
  <2>2. StageInv' /\ FreshApart' /\ OwnDocument' /\ TextInOrder'
    BY <1>0, <2>1, NobodyNew, StagesKept
  <2>3. AnnouncedPagesSaved'
    BY <2>1, AnnouncedKept
  <2>4. StatusInv'
    BY <2>1, NobodyNew DEF SaveInv, StatusInv
  <2> QED BY <2>2, <2>3, <2>4 DEF SaveInv
<1>2. CASE ScannerQuery
  <2> USE <1>2 DEF ScannerQuery, jobVars, progressVars, paramVars, workerVars
  <2>1. \A d \in Scanner : pc'[d] = pc[d] /\ worker' = worker /\ response' = response
    BY DEF WebCall, Call, Goto, TypeOK, Scanner
  <2>2. \A d \in Scanner : (Working(d)' <=> Working(d)) /\ (WillWrite(d)' <=> WillWrite(d))
    BY <2>1 DEF Working, WillWrite, Running
  <2>3. StageInv' /\ FreshApart' /\ OwnDocument' /\ TextInOrder'
    BY <1>0, <2>1, <2>2, StagesKept
  <2>4. AnnouncedPagesSaved'
    BY AnnouncedKept
  <2>5. StatusInv'
    BY <2>2 DEF SaveInv, StatusInv
  <2> QED BY <2>3, <2>4, <2>5 DEF SaveInv
<1> QED BY <1>1, <1>2, AskSaves, NextSaves, MarkSaves DEF WebStep

\* What is saved, announced and worked on fits together at any time.
LEMMA SaveAlways == ScanSpec => []SaveInv
<1>1. ScanInit => SaveInv
  <2> SUFFICES ASSUME ScanInit PROVE SaveInv
    OBVIOUS
  <2> USE DEF ScanInit, DispatchInit
  <2>1. \A d \in Scanner : ~Working(d) /\ ~WillWrite(d) /\ pc[d] \notin Early
    BY DEF Working, WillWrite, Running, Scanner, Early
  <2>2. StatusInv
    BY <2>1 DEF StatusInv, NoRequest
  <2>3. StageInv /\ FreshApart /\ OwnDocument
    BY <2>1 DEF StageInv, FreshApart, OwnDocument
  <2>4. TextInOrder /\ AnnouncedPagesSaved
    BY DEF TextInOrder, AnnouncedPagesSaved
  <2> QED BY <2>2, <2>3, <2>4 DEF SaveInv
<1>2. ScanTypeOK /\ HandInv /\ SaveInv /\ [ScanNext]_scanVars => SaveInv'
  <2> SUFFICES ASSUME TypeOK, JobTypes, HandInv, SaveInv, [ScanNext]_scanVars PROVE SaveInv'
    BY DEF ScanTypeOK
  <2>1. CASE WebStep BY <2>1, WebSaves
  <2>2. CASE DispatcherStep
    BY <2>2, DispatcherSaves, DispatcherAssumption DEF DispatcherStep
  <2>3. ASSUME NEW c \in Scanner, EndThread(c) PROVE SaveInv' BY <2>3, EndSaves
  <2>4. ASSUME NEW c \in Scanner, Work(c) PROVE SaveInv' BY <2>4, WorkSaves
  <2>5. ASSUME NEW c \in Scanner, EndWorker(c) PROVE SaveInv'
    BY <2>5, DispatcherSaves DEF EndWorker, Scanner
  <2>6. CASE UNCHANGED scanVars
    <3>1. \A d \in Scanner : pc[d] \in Early => step[d] = "start"
      BY DEF SaveInv, StageInv
    <3>2. UNCHANGED <<dispatchVars, jobOf, workerVars, docs, docOf, onPage, requested,
                      status, value, request>>
      BY <2>6 DEF scanVars, jobVars, progressVars, paramVars
    <3>3. StageInv' /\ FreshApart' /\ OwnDocument' /\ TextInOrder'
      BY <3>1, <3>2, NobodyNew, StagesKept
    <3>4. AnnouncedPagesSaved' /\ StatusInv'
      BY <3>2, AnnouncedKept, NobodyNew DEF SaveInv, StatusInv
    <3> QED BY <3>3, <3>4 DEF SaveInv
  <2> QED BY <2>1, <2>2, <2>3, <2>4, <2>5, <2>6 DEF ScanNext
<1> QED BY <1>1, <1>2, HandAlways, ScanTypeCorrect, PTL DEF ScanSpec

\* OwnDocument, for any scans, threads and workers.
THEOREM DocumentsApart == ScanSpec => []OwnDocument
<1>1. SaveInv => OwnDocument
  BY DEF SaveInv
<1> QED BY <1>1, SaveAlways, PTL

\* TextInOrder, for any number of scans and pages.
THEOREM PagesInOrder == ScanSpec => []TextInOrder
<1>1. SaveInv => TextInOrder
  BY DEF SaveInv
<1> QED BY <1>1, SaveAlways, PTL

\* AnnouncedPagesSaved, for any number of scans and pages, and all failures.
THEOREM ToldIsSaved == ScanSpec => []AnnouncedPagesSaved
<1>1. SaveInv => AnnouncedPagesSaved
  BY DEF SaveInv
<1> QED BY <1>1, SaveAlways, PTL

------------------------------------------------------------------------------
(* The scan its client sees                                                *)

\* An answer that may follow another.
LEMMA AnswerStep ==
  ASSUME NEW j \in Job, UNCHANGED <<requested, SavedPages>>,
         \A k \in Job \ {j} : status'[k] = status[k],
         \/ Told(status'[j]) = Told(status[j])
         \/ Told(status[j]) \in {"working", "next"} /\ Told(status'[j]) = "failed"
         \/ Told(status[j]) \in {"next", "finished", "failed"} /\ Told(status'[j]) = "working"
         \/ /\ Told(status[j]) = "working" /\ Told(status'[j]) = "next"
            /\ Len(SavedPages[j]) \in 1 .. requested[j] - 1
         \/ /\ Told(status[j]) = "working" /\ Told(status'[j]) = "finished"
            /\ Len(SavedPages[j]) = requested[j]
  PROVE  [View!ViewNext]_View!viewVars
<1> DEFINE answer == [k \in Job |-> Told(status[k])]
<1>1. answer' = [answer EXCEPT ![j] = Told(status'[j])]
  OBVIOUS
<1>2. CASE Told(status'[j]) = Told(status[j])
  <2>1. answer' = answer
    BY <1>2
  <2> QED BY <2>1 DEF View!viewVars
<1>3. ASSUME NEW a, Told(status'[j]) = a PROVE View!Tell(j, a)
  BY <1>1, <1>3 DEF View!Tell
<1>4. answer[j] = Told(status[j])
  OBVIOUS
<1>5. CASE Told(status[j]) \in {"working", "next"} /\ Told(status'[j]) = "failed"
  BY <1>3, <1>4, <1>5 DEF View!ViewNext, View!TellFailed
<1>6. CASE Told(status[j]) \in {"next", "finished", "failed"} /\ Told(status'[j]) = "working"
  BY <1>3, <1>4, <1>6 DEF View!ViewNext, View!Wait
<1>7. CASE /\ Told(status[j]) = "working" /\ Told(status'[j]) = "next"
           /\ Len(SavedPages[j]) \in 1 .. requested[j] - 1
  BY <1>3, <1>4, <1>7 DEF View!ViewNext, View!TellNext
<1>8. CASE /\ Told(status[j]) = "working" /\ Told(status'[j]) = "finished"
           /\ Len(SavedPages[j]) = requested[j]
  BY <1>3, <1>4, <1>8 DEF View!ViewNext, View!TellFinished
<1> QED BY <1>2, <1>5, <1>6, <1>7, <1>8

\* A step that saves nothing and changes no status.
LEMMA ViewStutters ==
  ASSUME UNCHANGED <<requested, SavedPages, status>>
  PROVE  [View!ViewNext]_View!viewVars
BY DEF View!viewVars

LEMMA SavedKept ==
  ASSUME UNCHANGED <<docs, docOf>>
  PROVE  UNCHANGED SavedPages
BY DEF SavedPages

\* Only one part of the work saves a page, and it is the next one.
LEMMA WorkSavesPage ==
  ASSUME JobTypes, HandInv, SaveInv, NEW c \in Scanner, Work(c), Working(c)
  PROVE  \/ UNCHANGED SavedPages
         \/ /\ updateNewScannedPage(c)
            /\ page[c] \in 1 .. requested[jobOf[c]]
            /\ SavedPages[jobOf[c]] = Pages(page[c] - 1)
            /\ SavedPages' = [SavedPages EXCEPT ![jobOf[c]] = Pages(page[c])]
<1> DEFINE j == jobOf[c]
<1>0. j \in Job /\ StatusInv /\ Stage(c) /\ status[j] # "none"
  BY WorkingWillWrite DEF HandInv, HandOverInv, JobTypes, SaveInv, StageInv
<1>1. ASSUME NEW k \in Job, k # j PROVE SavedPages'[k] = SavedPages[k]
  <2>1. docOf'[k] = docOf[k]
    BY <1>1, WorkFrame
  <2> QED BY <1>1, <2>1, OtherDoc DEF SavedPages
<1>2. ASSUME SavedPages'[j] = SavedPages[j] PROVE UNCHANGED SavedPages
  <2>1. \A k \in Job : SavedPages'[k] = SavedPages[k]
    BY <1>1, <1>2
  <2> QED BY <2>1 DEF SavedPages
<1>3. CASE UNCHANGED <<docs, docOf>>
  BY <1>3, SavedKept
<1>4. CASE addNewScannedDoc(c)
  <2>1. docOf[j] = 0 /\ docOf' = docOf
    BY <1>0, <1>4 DEF addNewScannedDoc, At, Stage, paramVars
  <2> QED BY <1>0, <1>2, <2>1 DEF SavedPages
<1>5. CASE SaveDocid(c)
  <2>1. FreshDoc(c)
    BY <1>0, <1>5, DocidStage
  <2>2. docOf'[j] = docid[c] /\ docs' = docs /\ docid[c] # 0
    BY <1>0, <1>5, <2>1 DEF SaveDocid, JobTypes, FreshDoc
  <2>3. Pages(0) = <<>>
    <3>1. 0 \in Nat
      OBVIOUS
    <3> QED BY <3>1, PagesFacts
  <2> QED BY <1>0, <1>2, <2>1, <2>2, <2>3 DEF SavedPages, FreshDoc, HasText
<1>6. ASSUME OwnsPage(c), NEW n, docs[docid[c]].text = Pages(n), NEW m,
             docs'[docid[c]].text = Pages(m), docOf' = docOf
      PROVE  SavedPages[j] = Pages(n) /\ SavedPages'[j] = Pages(m)
  BY <1>0, <1>6 DEF OwnsPage, SavedPages
<1>7. CASE updateNewScannedPage(c)
  <2>1. OwnsPage(c)
    BY <1>0, <1>7 DEF updateNewScannedPage, At, Stage, Paged, Untexted
  <2>2. SavedPages[j] = Pages(page[c] - 1) /\ SavedPages'[j] = Pages(page[c])
    BY <1>0, <1>6, <1>7, <2>1, TextStage DEF updateNewScannedPage, paramVars
  <2>3. SavedPages' = [SavedPages EXCEPT ![j] = Pages(page[c])]
    BY <1>0, <1>1, <2>2 DEF SavedPages
  <2> QED BY <1>7, <2>1, <2>2, <2>3 DEF OwnsPage
<1>8. ASSUME OwnsPage(c), OwnsPage(c)', UNCHANGED <<docOf, jobOf, docid, page>>,
             step[c] \in Texted <=> step'[c] \in Texted
      PROVE  SavedPages'[j] = SavedPages[j]
  BY <1>0, <1>6, <1>8 DEF OwnsPage, HasText
<1>9. CASE WriteImage(c)
  <2>1. /\ step[c] = "image" /\ step'[c] = "ocr"
        /\ UNCHANGED <<docOf, jobOf, docid, page>>
    BY <1>9 DEF WriteImage, At, MoveTo, JobTypes, paramVars
  <2>2. OwnsPage(c) /\ OwnsPage(c)'
    BY <1>0, <1>9, <2>1, ImageStage DEF Stage, Paged, Unimaged, Untexted
  <2> QED BY <1>2, <1>8, <2>1, <2>2 DEF Texted
<1>10. CASE savePhash(c)
  <2>1. /\ step[c] = "savephash" /\ step'[c] = "finish"
        /\ UNCHANGED <<docOf, jobOf, docid, page>>
    BY <1>10 DEF savePhash, At, MoveTo, JobTypes, paramVars
  <2>2. OwnsPage(c) /\ OwnsPage(c)'
    BY <1>0, <1>10, <2>1, PhashStage DEF Stage, Paged, Texted
  <2> QED BY <1>2, <1>8, <2>1, <2>2 DEF Texted
<1>11. \/ UNCHANGED <<docs, docOf>> \/ addNewScannedDoc(c) \/ SaveDocid(c)
       \/ WriteImage(c) \/ updateNewScannedPage(c) \/ savePhash(c)
  BY DEF Work, Start, sane_open, setOptions, sane_start, FirstPage, LaterPage, SaveOnPage,
    collectData, Convert, OcrImage, OcrDone, CalculatePhash, Finish, Report, Quietly, paramVars
<1> QED BY <1>3, <1>4, <1>5, <1>7, <1>9, <1>10, <1>11

LEMMA WorkView ==
  ASSUME JobTypes, HandInv, SaveInv, NEW c \in Scanner, Work(c)
  PROVE  [View!ViewNext]_View!viewVars
<1> DEFINE j == jobOf[c]
<1>1. /\ Working(c) /\ j \in Job /\ StatusInv /\ Stage(c)
      /\ Told(status[j]) \in {"working", "next"}
      /\ step[c] # "start" => Told(status[j]) = "working"
  <2>1. Working(c)
    BY WorkFrame DEF Working
  <2> QED BY <2>1, WorkingWillWrite DEF HandInv, SaveInv, StatusInv, StageInv, JobTypes
<1>2. UNCHANGED requested /\ \A k \in Job \ {j} : status'[k] = status[k]
  BY WorkFrame
<1>3. CASE updateNewScannedPage(c) /\ ~UNCHANGED SavedPages
  <2> DEFINE p == page[c]
  <2>1. /\ p \in 1 .. requested[j]
        /\ SavedPages[j] = Pages(p - 1)
        /\ SavedPages' = [SavedPages EXCEPT ![j] = Pages(p)]
    BY <1>1, <1>3, WorkSavesPage
  <2>2. UNCHANGED status /\ Told(status[j]) = "working"
    BY <1>1, <1>3 DEF updateNewScannedPage, progressVars, At
  <2>3. p \in Nat /\ p - 1 \in Nat /\ (p - 1) + 1 = p /\ p - 1 < requested[j]
    BY <1>1, <2>1 DEF JobTypes
  <2>4. Len(Pages(p - 1)) = p - 1 /\ Append(Pages(p - 1), (p - 1) + 1) = Pages((p - 1) + 1)
    BY <2>3, PagesFacts
  <2>5. SavedPages' = [SavedPages EXCEPT ![j] = Append(SavedPages[j], Len(SavedPages[j]) + 1)]
    BY <2>1, <2>3, <2>4
  <2>6. View!SavePage(j)
    BY <1>1, <1>2, <2>1, <2>2, <2>3, <2>4, <2>5 DEF View!SavePage
  <2> QED BY <1>1, <2>6 DEF View!ViewNext
<1>4. CASE UNCHANGED SavedPages
  <2>1. CASE UNCHANGED status
    BY <1>2, <1>4, <2>1, ViewStutters
  <2>2. CASE Told(status'[j]) \in {"working", "failed"}
    BY <1>1, <1>2, <1>4, <2>2, AnswerStep
  <2>3. CASE Finish(c)
    <3>1. /\ Announced(j)' /\ jobOf'[c] = j /\ status'[j] \in Answers
      BY <1>1, <2>3, FinishAnnounces, WorkFrame
    <3>2. OwnsPage(c) /\ step[c] = "finish" /\ onPage' = onPage
      BY <1>1, <2>3 DEF Finish, At, Stage, Paged, Texted, paramVars
    <3>3. onPage'[j] \in Nat \ {0}
      BY <1>1, <3>2 DEF OwnsPage, JobTypes
    <3>4. SavedPages'[j] = Pages(onPage'[j])
      BY <1>1, <3>1 DEF Announced, HasText, SavedPages
    <3>5. Len(SavedPages[j]) = onPage'[j]
      BY <1>4, <3>3, <3>4, PagesFacts
    <3>6. Told(status[j]) = "working"
      BY <1>1, <3>2
    <3>7. CASE status'[j] = "FINISHED"
      <4>1. onPage'[j] = requested[j]
        BY <1>2, <3>1, <3>7 DEF Announced
      <4> QED BY <1>1, <1>2, <1>4, <3>5, <3>6, <3>7, <4>1, AnswerStep DEF Told
    <3>8. CASE status'[j] = "WAITING_ON_NEW_PAGE"
      <4>1. onPage'[j] < requested[j] /\ requested[j] \in Nat
        BY <1>1, <1>2, <3>1, <3>8 DEF Announced, JobTypes
      <4>2. Len(SavedPages[j]) \in 1 .. requested[j] - 1
        BY <3>3, <3>5, <4>1
      <4> QED BY <1>1, <1>2, <1>4, <3>6, <3>8, <4>2, AnswerStep DEF Told
    <3> QED BY <3>1, <3>7, <3>8 DEF Answers
  <2> QED BY <2>1, <2>2, <2>3, WorkSays
<1> QED BY <1>1, <1>3, <1>4, WorkSavesPage

\* A request as the client sees it.
LEMMA WebView ==
  ASSUME JobTypes, SaveInv, WebStep
  PROVE  [View!ViewNext]_View!viewVars
<1>1. ASSUME NEW j \in Job, NEW n \in 1 .. MaxPages[j], doScan(j, n)
      PROVE  [View!ViewNext]_View!viewVars
  <2> DEFINE answer == [k \in Job |-> Told(status[k])]
  <2>1. /\ requested' = [requested EXCEPT ![j] = n] /\ UNCHANGED SavedPages
        /\ status[j] = "none" /\ status' = [status EXCEPT ![j] = "IDLE"]
    BY <1>1, SavedKept DEF doScan, updateScanProgress
  <2>2. answer[j] = "none" /\ answer' = [answer EXCEPT ![j] = "working"]
    BY <2>1 DEF Told, JobTypes
  <2>3. View!Ask(j, n)
    BY <2>1, <2>2 DEF View!Ask
  <2> QED BY <2>3 DEF View!ViewNext
<1>2. CASE MarkNextPage
  <2> DEFINE j == request.job
  <2>1. /\ j \in Job /\ status[j] # "none" /\ status[j] \in Status
        /\ status' = [status EXCEPT ![j] = "WAITING_ON_SCANNER"]
        /\ UNCHANGED <<requested, docs, docOf>>
    BY <1>2 DEF MarkNextPage, updateScanProgress, JobTypes, Request, NoRequest, SaveInv,
      StatusInv, paramVars
  <2>2. Told(status[j]) \in {"working", "next", "finished", "failed"}
    BY <2>1 DEF Told, Status
  <2>3. Told(status'[j]) = "working"
    BY <2>1 DEF Told, JobTypes
  <2>4. \A k \in Job \ {j} : status'[k] = status[k]
    BY <2>1 DEF JobTypes
  <2> QED BY <2>1, <2>2, <2>3, <2>4, AnswerStep, SavedKept
<1>3. ASSUME NEW j \in Job, nextPageReady(j) PROVE [View!ViewNext]_View!viewVars
  BY <1>3, SavedKept, ViewStutters DEF nextPageReady, progressVars, paramVars
<1>4. CASE StartNextPage
  BY <1>4, SavedKept, ViewStutters DEF StartNextPage, progressVars, paramVars
<1>5. CASE ScannerQuery
  BY <1>5, SavedKept, ViewStutters DEF ScannerQuery, jobVars, progressVars, paramVars
<1> QED BY <1>1, <1>2, <1>3, <1>4, <1>5 DEF WebStep

\* The end of a thread as the client sees it.
LEMMA EndView ==
  ASSUME JobTypes, SaveInv, NEW c \in Scanner, EndThread(c)
  PROVE  [View!ViewNext]_View!viewVars
<1> DEFINE j == jobOf[c]
<1>1. UNCHANGED <<requested, SavedPages>>
  BY SavedKept DEF EndThread, paramVars
<1>2. CASE response[c] = "BUSY"
  <2>1. j \in Job /\ status'[j] = "SANE_BUSY" /\ \A k \in Job \ {j} : status'[k] = status[k]
    BY <1>2 DEF EndThread, updateScanProgress, JobTypes
  <2>2. WillWrite(c)
    BY <1>2 DEF EndThread, Return, WillWrite
  <2>3. Told(status[j]) \in {"working", "next"} /\ Told(status'[j]) = "failed"
    BY <2>1, <2>2 DEF SaveInv, StatusInv, Told
  <2> QED BY <1>1, <2>1, <2>3, AnswerStep
<1>3. CASE response[c] # "BUSY"
  BY <1>1, <1>3, ViewStutters DEF EndThread, progressVars
<1> QED BY <1>2, <1>3

\* ImplementsView, for any scans, threads, pages and failures: a client need
\* not know more of a scan than ScanView says.
THEOREM ScanIsViewed == ScanSpec => ImplementsView
<1>1. ScanInit => View!ViewInit
  BY DEF ScanInit, View!ViewInit, SavedPages, Told
<1>2. ScanTypeOK /\ HandInv /\ SaveInv /\ [ScanNext]_scanVars
        => [View!ViewNext]_View!viewVars
  <2> SUFFICES ASSUME JobTypes, HandInv, SaveInv, [ScanNext]_scanVars
               PROVE  [View!ViewNext]_View!viewVars
    BY DEF ScanTypeOK
  <2>1. ASSUME UNCHANGED jobVars PROVE [View!ViewNext]_View!viewVars
    BY <2>1, SavedKept, ViewStutters DEF jobVars, progressVars, paramVars
  <2>2. CASE WebStep BY <2>2, WebView
  <2>3. ASSUME NEW c \in Scanner, EndThread(c) PROVE [View!ViewNext]_View!viewVars
    BY <2>3, EndView
  <2>4. ASSUME NEW c \in Scanner, Work(c) PROVE [View!ViewNext]_View!viewVars
    BY <2>4, WorkView
  <2> QED BY <2>1, <2>2, <2>3, <2>4 DEF ScanNext, DispatcherStep, EndWorker, scanVars
<1> QED
  BY <1>1, <1>2, ScanTypeCorrect, HandAlways, SaveAlways, PTL
  DEF ScanSpec, View!ViewSpec, ImplementsView

------------------------------------------------------------------------------
(* The last word of a thread                                               *)

\* A thread that has taken a scan in hand does not let go of it before it has
\* written a status that tells the client what to do next, whatever cannot be
\* forked, opened or read; only a worker that crashes leaves it unwritten.
LetsGoSettled ==
  \A c \in Scanner : WillWrite(c) /\ ~WillWrite(c)' =>
    status'[jobOf[c]] \in Settled \/ response'[c] = "ERROR"

LastWord == [][LetsGoSettled]_scanVars

\* The words a worker reports its progress with, after the device is open.
Reported == {"DB_WORKING", "SCANNING", "CONVERTING_FORMAT", "PERFORMING_OCR",
             "CALULATING_PHASH"}

\* "the current action being done by the system" (API:132), as far as it is:
\* a scan with a word of the worker's own has a worker that is not done.
ReportHasWorker ==
  \A j \in Job : status[j] \in Reported =>
    \E c \in Scanner : Running(c) /\ jobOf[c] = j /\ step[c] # "done"

\* A worker is done only with a last word.
LEMMA WordStep ==
  ASSUME JobTypes, NEW c \in Scanner, Work(c)
  PROVE  /\ Running(c)
         /\ UNCHANGED <<dispatchVars, jobOf>>
         /\ \A d \in Scanner \ {c} : step'[d] = step[d]
         /\ \/ status' = status /\ step'[c] # "done"
            \/ \E s : /\ status' = [status EXCEPT ![jobOf[c]] = s]
                      /\ IF step'[c] = "done" THEN s \in Settled ELSE s \in Status
<1> DEFINE Goal ==
      /\ Running(c)
      /\ UNCHANGED <<dispatchVars, jobOf>>
      /\ \A d \in Scanner \ {c} : step'[d] = step[d]
      /\ \/ status' = status /\ step'[c] # "done"
         \/ \E s : /\ status' = [status EXCEPT ![jobOf[c]] = s]
                   /\ IF step'[c] = "done" THEN s \in Settled ELSE s \in Status
<1> SUFFICES Goal
  OBVIOUS
<1>0. step \in [Scanner -> Steps]
  BY DEF JobTypes
<1>1. ASSUME NEW from, NEW s, NEW to, Report(c, from, s, to),
             IF to = "done" THEN s \in Settled ELSE s \in Status
      PROVE  Goal
  BY <1>0, <1>1 DEF Report, At, MoveTo, updateScanProgress
<1>2. ASSUME NEW from, NEW to, Quietly(c, from, to), to # "done" PROVE Goal
  BY <1>0, <1>2 DEF Quietly, At, MoveTo, progressVars
<1>3. ASSUME NEW from, NEW to, At(c, from), MoveTo(c, to), to # "done",
             UNCHANGED <<dispatchVars, jobOf, status>>
      PROVE  Goal
  BY <1>0, <1>3 DEF At, MoveTo
<1>4. CASE Start(c) BY <1>1, <1>4 DEF Start, Status
<1>5. CASE sane_open(c) BY <1>1, <1>2, <1>5 DEF sane_open, Settled
<1>6. CASE setOptions(c) BY <1>1, <1>2, <1>6 DEF setOptions, Settled
<1>7. CASE sane_start(c) BY <1>1, <1>2, <1>7 DEF sane_start, Settled
<1>8. CASE FirstPage(c) BY <1>1, <1>8 DEF FirstPage, Status
<1>9. CASE addNewScannedDoc(c) BY <1>3, <1>9 DEF addNewScannedDoc, progressVars
<1>10. CASE SaveDocid(c) BY <1>3, <1>10 DEF SaveDocid, progressVars
<1>11. CASE LaterPage(c) BY <1>3, <1>11 DEF LaterPage, progressVars
<1>12. CASE SaveOnPage(c) BY <1>3, <1>12 DEF SaveOnPage, progressVars
<1>13. CASE collectData(c) BY <1>1, <1>2, <1>13 DEF collectData, Status
<1>14. CASE Convert(c) BY <1>1, <1>14 DEF Convert, Status
<1>15. CASE WriteImage(c)
  <2>1. At(c, "image") /\ MoveTo(c, "ocr") /\ UNCHANGED <<dispatchVars, jobOf, status>>
    BY <1>15 DEF WriteImage, progressVars
  <2> QED BY <1>3, <2>1
<1>16. CASE OcrImage(c) BY <1>1, <1>16 DEF OcrImage, Status
<1>17. CASE OcrDone(c) BY <1>1, <1>17 DEF OcrDone, Status
<1>18. CASE updateNewScannedPage(c)
  <2>1. /\ At(c, "update")
        /\ MoveTo(c, "phash") \/ MoveTo(c, "finish")
        /\ UNCHANGED <<dispatchVars, jobOf, status>>
    BY <1>18 DEF updateNewScannedPage, progressVars
  <2> QED BY <1>3, <2>1
<1>19. CASE CalculatePhash(c) BY <1>1, <1>19 DEF CalculatePhash, Status
<1>20. CASE savePhash(c)
  <2>1. At(c, "savephash") /\ MoveTo(c, "finish") /\ UNCHANGED <<dispatchVars, jobOf, status>>
    BY <1>20 DEF savePhash, progressVars
  <2> QED BY <1>3, <2>1
<1>21. CASE Finish(c)
  <2>1. \E s \in Settled : status' = [status EXCEPT ![jobOf[c]] = s]
    BY <1>21 DEF Finish, updateScanProgress, Settled
  <2>2. Running(c) /\ step' = [step EXCEPT ![c] = "done"] /\ UNCHANGED <<dispatchVars, jobOf>>
    BY <1>21 DEF Finish, At, MoveTo
  <2> QED BY <1>0, <2>1, <2>2
<1> HIDE DEF Goal
<1> QED
  BY <1>4, <1>5, <1>6, <1>7, <1>8, <1>9, <1>10, <1>11, <1>12, <1>13, <1>14, <1>15,
     <1>16, <1>17, <1>18, <1>19, <1>20, <1>21 DEF Work

\* A thread of a scan asks for a scan, so it is never answered from the cache.
ScannersScan == \A c \in Scanner : pc[c] # "idle" => command[c] = "scan"

LEMMA ScannersStep ==
  ASSUME TypeOK, ScannersScan, [ScanNext]_scanVars
  PROVE  ScannersScan'
<1>1. TypeOK /\ ScannersScan /\ [Next]_vars => ScannersScan'
  <2> SUFFICES ASSUME TypeOK, ScannersScan, Next \/ UNCHANGED vars PROVE ScannersScan'
    OBVIOUS
  <2> USE DispatcherAssumption DEF TypeOK, ScannersScan, Goto, Scanner
  <2>1. CASE WebCall BY <2>1 DEF WebCall, Call
  <2>2. ASSUME NEW c \in Caller, StartScan(c) PROVE ScannersScan'
    BY <2>2 DEF StartScan, Call
  <2>3. ASSUME NEW c \in Caller, Proceed(c) PROVE ScannersScan'
    BY <2>3 DEF Proceed, CheckBusy, SetBusy, OpenPipe, Fork, Reap, ReadResponse,
      ClearBusy, StoreList
  <2>4. ASSUME NEW c \in Caller, Return(c) PROVE ScannersScan'
    BY <2>4 DEF Return
  <2>5. ASSUME NEW c \in Caller, NEW a \in BOOLEAN, WorkerExit(c, a) PROVE ScannersScan'
    BY <2>5 DEF WorkerExit
  <2>6. CASE UNCHANGED vars BY <2>6 DEF vars, dispatchVars
  <2> QED BY <2>1, <2>2, <2>3, <2>4, <2>5, <2>6 DEF Next, Advance
<1>2. [Next]_vars BY ScanStepIsDispatch
<1> QED BY <1>1, <1>2
\* What the dispatcher does to a thread that has yet to write: it still has to,
\* or its worker has crashed.
LEMMA DispatcherWord ==
  ASSUME TypeOK, ScannersScan, StageInv, ParentInv, NEW c \in Caller,
         Proceed(c) \/ \E a \in BOOLEAN : WorkerExit(c, a) /\ (~a \/ c = WebThread \/ At(c, "done")),
         NEW d \in Scanner, WillWrite(d), step'[d] = step[d]
  PROVE  WillWrite(d)' \/ response'[d] = "ERROR"
<1> USE DEF TypeOK, Goto, WillWrite, Scanner, Running
<1>1. d # c => pc'[d] = pc[d] /\ worker'[d] = worker[d] /\ response'[d] = response[d]
  BY DEF Proceed, CheckBusy, SetBusy, OpenPipe, Fork, Reap, ReadResponse, ClearBusy,
    StoreList, WorkerExit
<1>2. CASE d # c BY <1>1, <1>2
<1>3. CASE d = c
  <2>1. CASE CheckBusy(c)
    <3>1. Refusal(c) = "BUSY" BY <1>3, <2>1 DEF CheckBusy, ScannersScan, Refusal
    <3> QED BY <1>3, <2>1, <3>1 DEF CheckBusy
  <2>2. CASE SetBusy(c) BY <1>3, <2>2 DEF SetBusy
  <2>3. CASE OpenPipe(c) BY <1>3, <2>3 DEF OpenPipe
  <2>4. CASE Fork(c)
    <3>1. step[d] = "start" BY <1>3, <2>4 DEF Fork, StageInv, Early
    <3> QED BY <1>3, <2>4, <3>1 DEF Fork
  <2>5. CASE Reap(c) BY <1>3, <2>5 DEF Reap
  <2>6. CASE ReadResponse(c) \/ ClearBusy(c) \/ StoreList(c)
    BY <1>3, <2>6 DEF ReadResponse, ClearBusy, StoreList
  <2>7. ASSUME NEW a \in BOOLEAN, WorkerExit(c, a), ~a \/ c = WebThread \/ At(c, "done")
        PROVE response'[d] = "ERROR"
    <3>1. ~a BY <1>3, <2>7 DEF At, WorkerExit, ParentInv
    <3> QED BY <1>3, <2>7, <3>1 DEF WorkerExit
  <2> QED BY <2>1, <2>2, <2>3, <2>4, <2>5, <2>6, <2>7 DEF Proceed
<1> QED BY <1>2, <1>3

\* The safety half of ScanSettles, for any scans, threads, pages and failures.
THEOREM LastWordIsWritten == ScanSpec => LastWord
<1>1. ScanTypeOK /\ HandInv /\ SaveInv /\ ScannersScan /\ [ScanNext]_scanVars => [LetsGoSettled]_scanVars
  <2> SUFFICES ASSUME TypeOK, JobTypes, ParentInv, StageInv, ScannersScan, ScanNext,
                      NEW d \in Scanner, WillWrite(d), ~WillWrite(d)'
               PROVE  status'[jobOf[d]] \in Settled \/ response'[d] = "ERROR"
    BY DEF ScanTypeOK, HandInv, SaveInv, LetsGoSettled
  <2>0. jobOf[d] \in Job /\ status \in [Job -> Status]
    BY DEF JobTypes
  <2>1. ASSUME NEW c, NEW j, CreateThread(c, j) PROVE WillWrite(d)'
    BY <2>1 DEF CreateThread, StartScan, Call, Goto, WillWrite, Running, Scanner, TypeOK, JobTypes
  <2>2. ASSUME UNCHANGED <<dispatchVars, workerVars>> PROVE WillWrite(d)'
    BY <2>2 DEF dispatchVars, workerVars, WillWrite, Running
  <2>3. CASE WebStep
    <3>1. ASSUME NEW j \in Job, NEW n \in 1 .. MaxPages[j], doScan(j, n) PROVE WillWrite(d)'
      BY <2>1, <2>2, <3>1 DEF doScan, NoThread
    <3>2. ASSUME NEW j \in Job, nextPageReady(j) PROVE WillWrite(d)'
      BY <2>2, <3>2 DEF nextPageReady
    <3>3. CASE StartNextPage BY <2>1, <2>2, <3>3 DEF StartNextPage, NoThread
    <3>4. CASE MarkNextPage BY <2>2, <3>4 DEF MarkNextPage
    <3>5. CASE ScannerQuery
      BY <3>5 DEF ScannerQuery, WebCall, Call, Goto, WillWrite, Running, Scanner, TypeOK,
        jobVars, workerVars
    <3> QED BY <2>3, <3>1, <3>2, <3>3, <3>4, <3>5 DEF WebStep
  <2>4. CASE DispatcherStep
    <3>1. step' = step BY <2>4 DEF DispatcherStep, jobVars, workerVars
    <3>2. ASSUME NEW c \in Caller, Proceed(c) PROVE response'[d] = "ERROR"
      BY <3>1, <3>2, DispatcherWord
    <3>3. CASE Return(WebThread)
      BY <3>1, <3>3 DEF Return, Goto, WillWrite, Running, Scanner, TypeOK
    <3>4. ASSUME NEW a \in BOOLEAN, WorkerExit(WebThread, a) PROVE response'[d] = "ERROR"
      BY <3>1, <3>4, DispatcherWord, DispatcherAssumption
    <3> QED BY <2>4, <3>2, <3>3, <3>4 DEF DispatcherStep
  <2>5. ASSUME NEW c \in Scanner, EndThread(c)
        PROVE  status'[jobOf[d]] \in Settled
    <3>1. c = d
      BY <2>5 DEF EndThread, Return, Goto, WillWrite, Running, Scanner, TypeOK, JobTypes
    <3>2. response[d] = "BUSY"
      BY <2>5, <3>1 DEF EndThread, Return, WillWrite
    <3> QED BY <2>0, <2>5, <3>1, <3>2 DEF EndThread, updateScanProgress, Settled
  <2>6. ASSUME NEW c \in Scanner, Work(c)
        PROVE  status'[jobOf[d]] \in Settled
    <3>1. c = d
      BY <2>6, WordStep DEF dispatchVars, WillWrite, Running
    <3>2. step'[c] = "done"
      BY <2>6, <3>1, WordStep DEF dispatchVars, WillWrite, Running
    <3> QED BY <2>0, <2>6, <3>1, <3>2, WordStep
  <2>7. ASSUME NEW c \in Scanner, EndWorker(c)
        PROVE  response'[d] = "ERROR"
    <3>1. step' = step BY <2>7 DEF EndWorker, jobVars, workerVars
    <3> QED BY <2>7, <3>1, DispatcherWord DEF EndWorker, Scanner
  <2> QED BY <2>3, <2>4, <2>5, <2>6, <2>7 DEF ScanNext
<1>2. ScanInit => ScannersScan
  BY DEF ScanInit, DispatchInit, ScannersScan, Scanner
<1>3. ScanTypeOK => TypeOK BY DEF ScanTypeOK
<1> QED BY <1>1, <1>2, <1>3, ScannersStep, ScanTypeCorrect, HandAlways, SaveAlways,
           PTL DEF ScanSpec, LastWord

\* What is left of StatusIsCurrent, which does not hold: while no worker
\* crashes, every progress a client reads, except that a scan is IDLE or waits
\* for the scanner, is that of a worker still at work.
THEOREM ReportsAreTrue ==
  ASSUME ~WorkerMayDie
  PROVE  ScanSpec => []ReportHasWorker
<1>1. ScanInit => ReportHasWorker
  BY DEF ScanInit, ReportHasWorker, Reported
<1>2. ScanTypeOK /\ ParentInv /\ ReportHasWorker /\ [ScanNext]_scanVars => ReportHasWorker'
  <2> SUFFICES ASSUME TypeOK, JobTypes, ParentInv, ReportHasWorker, [ScanNext]_scanVars,
                      NEW j \in Job, status'[j] \in Reported
               PROVE  \E c \in Scanner : Running(c)' /\ jobOf'[c] = j /\ step'[c] # "done"
    BY DEF ScanTypeOK, ReportHasWorker
  <2>1. ASSUME NEW k \in Job, NEW s, status' = [status EXCEPT ![k] = s], s \notin Reported
        PROVE  status'[j] = status[j]
    BY <2>1 DEF JobTypes
  <2>2. ASSUME status'[j] = status[j]
        PROVE  \E c \in Scanner : Running(c) /\ jobOf[c] = j /\ step[c] # "done"
    BY <2>2 DEF ReportHasWorker
  <2>3. ASSUME NEW c, NEW k, CreateThread(c, k), NEW d \in Scanner, Running(d)
        PROVE  Running(d)' /\ jobOf'[d] = jobOf[d] /\ step'[d] = step[d]
    BY <2>3 DEF CreateThread, StartScan, Call, ParentInv, Running, JobTypes, Scanner
  <2>4. ASSUME NEW d \in Scanner, UNCHANGED <<worker, jobOf, workerVars>>, Running(d)
        PROVE  Running(d)' /\ jobOf'[d] = jobOf[d] /\ step'[d] = step[d]
    BY <2>4 DEF workerVars, Running
  <2>5. CASE WebStep
    <3>1. status'[j] = status[j]
      <4>1. ASSUME NEW k \in Job, NEW n \in 1 .. MaxPages[k], doScan(k, n)
            PROVE  status'[j] = status[j]
        BY <2>1, <4>1 DEF doScan, updateScanProgress, Reported
      <4>2. CASE MarkNextPage
        <5>1. request.job \in Job BY <4>2 DEF MarkNextPage, JobTypes, Request, NoRequest
        <5> QED BY <2>1, <4>2, <5>1 DEF MarkNextPage, updateScanProgress, Reported
      <4> QED BY <2>5, <4>1, <4>2 DEF WebStep, nextPageReady, StartNextPage, ScannerQuery,
                progressVars, jobVars
    <3>2. PICK d \in Scanner : Running(d) /\ jobOf[d] = j /\ step[d] # "done"
      BY <2>2, <3>1
    <3>3. Running(d)' /\ jobOf'[d] = jobOf[d] /\ step'[d] = step[d]
      <4>1. ASSUME NEW k \in Job, NEW n \in 1 .. MaxPages[k], doScan(k, n)
            PROVE  Running(d)' /\ jobOf'[d] = jobOf[d] /\ step'[d] = step[d]
        BY <2>3, <2>4, <3>2, <4>1 DEF doScan, NoThread, dispatchVars
      <4>2. CASE StartNextPage
        BY <2>3, <2>4, <3>2, <4>2 DEF StartNextPage, NoThread, dispatchVars
      <4>3. CASE MarkNextPage BY <2>4, <3>2, <4>3 DEF MarkNextPage, dispatchVars
      <4>4. ASSUME NEW k \in Job, nextPageReady(k)
            PROVE  Running(d)' /\ jobOf'[d] = jobOf[d] /\ step'[d] = step[d]
        BY <2>4, <3>2, <4>4 DEF nextPageReady, dispatchVars
      <4>5. CASE ScannerQuery
        BY <2>4, <3>2, <4>5 DEF ScannerQuery, WebCall, Call, jobVars
      <4> QED BY <2>5, <4>1, <4>2, <4>3, <4>4, <4>5 DEF WebStep
    <3> QED BY <3>2, <3>3
  <2>6. CASE DispatcherStep
    <3>1. UNCHANGED <<status, jobOf, step>>
      BY <2>6 DEF DispatcherStep, jobVars, progressVars, workerVars
    <3>2. PICK d \in Scanner : Running(d) /\ jobOf[d] = j /\ step[d] # "done"
      BY <2>2, <3>1
    <3>3. Running(d)'
      <4>1. ASSUME NEW c \in Caller, Proceed(c) PROVE Running(d)'
        <5> USE <3>2 DEF Running, TypeOK, Scanner
        <5>1. CASE Fork(c) BY <5>1 DEF Fork
        <5>2. CASE Reap(c) BY <5>2 DEF Reap
        <5>3. CASE worker' = worker BY <5>3
        <5> QED BY <4>1, <5>1, <5>2, <5>3 DEF Proceed, CheckBusy, SetBusy, OpenPipe,
                  ReadResponse, ClearBusy, StoreList
      <4>2. CASE Return(WebThread) BY <3>2, <4>2 DEF Return, Running
      <4>3. ASSUME NEW a \in BOOLEAN, WorkerExit(WebThread, a) PROVE Running(d)'
        BY <3>2, <4>3 DEF WorkerExit, Running, Scanner, TypeOK
      <4> QED BY <2>6, <4>1, <4>2, <4>3 DEF DispatcherStep
    <3> QED BY <3>1, <3>2, <3>3
  <2>7. ASSUME NEW c \in Scanner, EndThread(c)
        PROVE  \E d \in Scanner : Running(d)' /\ jobOf'[d] = j /\ step'[d] # "done"
    <3>1. status'[j] = status[j]
      <4>1. jobOf[c] \in Job BY DEF JobTypes
      <4> QED BY <2>1, <2>7, <4>1 DEF EndThread, updateScanProgress, progressVars, Reported
    <3>2. PICK d \in Scanner : Running(d) /\ jobOf[d] = j /\ step[d] # "done"
      BY <2>2, <3>1
    <3>3. d # c BY <2>7, <3>2 DEF EndThread, Return, ParentInv, Scanner
    <3> QED BY <2>7, <3>2, <3>3 DEF EndThread, Return, Running, JobTypes
  <2>8. ASSUME NEW c \in Scanner, Work(c)
        PROVE  \E d \in Scanner : Running(d)' /\ jobOf'[d] = j /\ step'[d] # "done"
    <3>1. /\ Running(c)
          /\ UNCHANGED <<dispatchVars, jobOf>>
          /\ \A d \in Scanner \ {c} : step'[d] = step[d]
          /\ \/ status' = status /\ step'[c] # "done"
             \/ \E s : /\ status' = [status EXCEPT ![jobOf[c]] = s]
                       /\ IF step'[c] = "done" THEN s \in Settled ELSE s \in Status
      BY <2>8, WordStep
    <3>2. jobOf[c] \in Job /\ status \in [Job -> Status]
      BY DEF JobTypes
    <3>3. CASE step'[c] # "done" /\ jobOf[c] = j
      BY <3>1, <3>3 DEF Running, dispatchVars
    <3>4. CASE step'[c] = "done" /\ jobOf[c] = j
      <4>1. status'[j] \in Settled BY <3>1, <3>2, <3>4
      <4> QED BY <4>1 DEF Settled, Reported
    <3>5. CASE jobOf[c] # j
      <4>1. status'[j] = status[j] BY <3>1, <3>2, <3>5
      <4>2. PICK d \in Scanner : Running(d) /\ jobOf[d] = j /\ step[d] # "done"
        BY <2>2, <4>1
      <4>3. d # c BY <3>5, <4>2
      <4> QED BY <3>1, <4>2, <4>3 DEF Running, dispatchVars
    <3> QED BY <3>3, <3>4, <3>5
  <2>9. ASSUME NEW c \in Scanner, EndWorker(c)
        PROVE  \E d \in Scanner : Running(d)' /\ jobOf'[d] = j /\ step'[d] # "done"
    <3>1. UNCHANGED <<status, jobOf, step>>
      BY <2>9 DEF EndWorker, jobVars, progressVars, workerVars
    <3>2. At(c, "done") /\ WorkerExit(c, TRUE)
      BY <2>9 DEF EndWorker, WorkerExit
    <3>3. PICK d \in Scanner : Running(d) /\ jobOf[d] = j /\ step[d] # "done"
      BY <2>2, <3>1
    <3>4. d # c BY <3>2, <3>3 DEF At
    <3> QED BY <3>1, <3>2, <3>3, <3>4 DEF WorkerExit, Running
  <2>10. CASE UNCHANGED scanVars
    BY <2>2, <2>10 DEF scanVars, dispatchVars, jobVars, progressVars, workerVars, Running
  <2> QED BY <2>5, <2>6, <2>7, <2>8, <2>9, <2>10 DEF ScanNext
<1>3. HandInv => ParentInv BY DEF HandInv
<1> QED BY <1>1, <1>2, <1>3, ScanTypeCorrect, HandAlways, PTL DEF ScanSpec
==============================================================================
