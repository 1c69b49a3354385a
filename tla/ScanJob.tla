------------------------------- MODULE ScanJob -------------------------------
(***************************************************************************)
(* A scan, page by page: the requests doScan and nextPageReady and the     *)
(* scanning threads of src/src/pageRender.c, the worker's                  *)
(* internalDoScanningOperation of src/src/scan.c, and the rows of          *)
(* scan_progress, scan_params and docs they share (src/src/dbaccess.c).    *)
(*                                                                         *)
(* Threads and workers use the dispatcher of SaneDispatcher.tla.  Each     *)
(* database call is one step: DbLock.tla shows that calls do not overlap.  *)
(***************************************************************************)
EXTENDS SaneDispatcher, Sequences, FiniteSets

CONSTANTS
  Job,            \* uuids of scans
  MaxPages,       \* bounds on the pages asked for (20 in validation.c)
  ThreadMayFail,  \* can pthread_create fail?
  DiskMayFail     \* can a page image fail to be written?

ASSUME ScanJobAssumption ==
  /\ Job # {}
  /\ MaxPages \in [Job -> Nat \ {0}]
  /\ ThreadMayFail \in BOOLEAN
  /\ DiskMayFail \in BOOLEAN

VARIABLES
  status,     \* scan_progress.status of each scan, "none" before doScan
  value,      \* scan_progress.value: the page waited for, the id of the document
  requested,  \* SCAN_PARAM_REQUESTED_PAGES
  docOf,      \* SCAN_PARAM_DOCID, 0 when not set
  onPage,     \* SCAN_PARAM_ON_PAGE, 0 when not set
  docs,       \* the documents, docs[i] has docid i
  jobOf,      \* the scan a scanning thread was created for
  step,       \* where the thread's worker is
  page,       \* its current_page
  docid,      \* its docid
  request     \* the nextPageReady request the web thread is serving

progressVars == <<status, value>>
paramVars    == <<requested, docOf, onPage>>
workerVars   == <<step, page, docid>>
jobVars      == <<progressVars, paramVars, docs, jobOf, workerVars, request>>
scanVars     == <<dispatchVars, jobVars>>

Status == {"none", "IDLE", "INTERNAL_ERROR", "DB_WORKING", "WAITING_ON_SCANNER",
           "ERRO_FROM_SCANNER", "SCANNING", "WAITING_ON_NEW_PAGE",
           "CONVERTING_FORMAT", "PERFORMING_OCR", "SANE_BUSY",
           "CALULATING_PHASH", "FINISHED"}

Scanner == Caller \ {WebThread}

AnyJob == CHOOSE j \in Job : TRUE   \* of threads that are not there

NoRequest == [at |-> "none"]
Request   == {NoRequest} \cup [at : {"accepted", "started"}, job : Job]

\* A document: its pages column, the pages whose text was appended to ocrText,
\* the pages whose image is in the scans directory, and whether it has a phash.
Document ==
  [pages : Nat, text : Seq(Nat), images : SUBSET Nat, phash : BOOLEAN]

ScanInit ==
  /\ DispatchInit
  /\ status = [j \in Job |-> "none"]
  /\ value = [j \in Job |-> 0]
  /\ requested = [j \in Job |-> 0]
  /\ docOf = [j \in Job |-> 0]
  /\ onPage = [j \in Job |-> 0]
  /\ docs = <<>>
  /\ jobOf = [c \in Scanner |-> AnyJob]
  /\ step = [c \in Scanner |-> "done"]
  /\ page = [c \in Scanner |-> 0]
  /\ docid = [c \in Scanner |-> 0]
  /\ request = NoRequest

------------------------------------------------------------------------------
(* The requests, one at a time on the web thread                           *)

updateScanProgress(j, s, v) ==
  /\ status' = [status EXCEPT ![j] = s]
  /\ value' = [value EXCEPT ![j] = v]

\* pthread_create of doScanningOperation for a scan.
CreateThread(c, j) ==
  /\ c \in Scanner
  /\ StartScan(c)
  /\ jobOf' = [jobOf EXCEPT ![c] = j]
  /\ step' = [step EXCEPT ![c] = "start"]
  /\ UNCHANGED <<page, docid>>

NoThread ==
  /\ ThreadMayFail
  /\ UNCHANGED <<dispatchVars, jobOf, workerVars>>

\* doScan: the parameters and the progress row of a fresh uuid, then a thread.
doScan(j, n) ==
  /\ request = NoRequest
  /\ pc[WebThread] = "idle"
  /\ status[j] = "none"
  /\ updateScanProgress(j, "IDLE", 0)
  /\ requested' = [requested EXCEPT ![j] = n]
  /\ NoThread \/ \E c \in Scanner : CreateThread(c, j)
  /\ UNCHANGED <<docOf, onPage, docs, request>>

\* Mutant: the status of the scan is not looked at.
AnyStatusReady(j) == status[j] # "none"

\* The status nextPageReady insists on.
ReadyForPage(j) == status[j] = "WAITING_ON_NEW_PAGE"

\* nextPageReady reads the status; any other one ends the request.
nextPageReady(j) ==
  /\ request = NoRequest
  /\ pc[WebThread] = "idle"
  /\ ReadyForPage(j)
  /\ request' = [at |-> "accepted", job |-> j]
  /\ UNCHANGED <<dispatchVars, progressVars, paramVars, docs, jobOf, workerVars>>

\* It creates the thread ...
StartNextPage ==
  /\ request.at = "accepted"
  /\ \/ /\ \E c \in Scanner : CreateThread(c, request.job)
        /\ request' = [request EXCEPT !.at = "started"]
     \/ /\ NoThread
        /\ request' = NoRequest
  /\ UNCHANGED <<progressVars, paramVars, docs>>

\* ... and then sets the status, whatever the thread has done by now.
MarkNextPage ==
  /\ request.at = "started"
  /\ updateScanProgress(request.job, "WAITING_ON_SCANNER", 0)
  /\ request' = NoRequest
  /\ UNCHANGED <<dispatchVars, paramVars, docs, jobOf, workerVars>>

\* getScannerList and getScannerDetails.
ScannerQuery ==
  /\ request = NoRequest
  /\ WebCall
  /\ UNCHANGED jobVars

------------------------------------------------------------------------------
(* doScanningOperation and send_command                                    *)

DispatcherStep ==
  /\ \/ \E c \in Caller : Proceed(c)
     \/ Return(WebThread)
     \/ WorkerExit(WebThread, TRUE)
     \/ WorkerExit(WebThread, FALSE)
  /\ UNCHANGED jobVars

\* Mutant: a scan that was turned away is not marked either.
EndThreadUnmarked(c) ==
  /\ Return(c)
  /\ jobOf' = [jobOf EXCEPT ![c] = AnyJob]
  /\ step' = [step EXCEPT ![c] = "done"]
  /\ page' = [page EXCEPT ![c] = 0]
  /\ docid' = [docid EXCEPT ![c] = 0]
  /\ UNCHANGED <<progressVars, paramVars, docs, request>>

\* The thread ends; a scan that was turned away is marked, an ERROR is not.
EndThread(c) ==
  /\ Return(c)
  /\ jobOf' = [jobOf EXCEPT ![c] = AnyJob]
  /\ step' = [step EXCEPT ![c] = "done"]
  /\ page' = [page EXCEPT ![c] = 0]
  /\ docid' = [docid EXCEPT ![c] = 0]
  /\ IF response[c] = "BUSY"
     THEN updateScanProgress(jobOf[c], "SANE_BUSY", 0)
     ELSE UNCHANGED progressVars
  /\ UNCHANGED <<paramVars, docs, request>>

------------------------------------------------------------------------------
(* internalDoScanningOperation                                             *)

\* The worker of c is about to do the given part of its work.
At(c, s) == Running(c) /\ step[c] = s

MoveTo(c, s) == step' = [step EXCEPT ![c] = s]

\* A part that only reports progress.
Report(c, from, s, to) ==
  /\ At(c, from)
  /\ updateScanProgress(jobOf[c], s, 0)
  /\ MoveTo(c, to)
  /\ UNCHANGED <<dispatchVars, paramVars, docs, jobOf, page, docid, request>>

Start(c) == Report(c, "start", "WAITING_ON_SCANNER", "open")

\* A part that says nothing.
Quietly(c, from, to) ==
  /\ At(c, from)
  /\ MoveTo(c, to)
  /\ UNCHANGED <<dispatchVars, progressVars, paramVars, docs, jobOf, page, docid, request>>

\* The device is opened, or the scan ends here.
sane_open(c) ==
  \/ Quietly(c, "open", "options")
  \/ Report(c, "open", "ERRO_FROM_SCANNER", "done")

\* Its options are set, one after the other; the first one that cannot be set
\* (or whose outcome is read from a variable never written) ends the scan.
setOptions(c) ==
  \/ Quietly(c, "options", "device")
  \/ Report(c, "options", "ERRO_FROM_SCANNER", "done")

\* It starts, tried up to five times, and delivers a picture that can be read:
\* some resolution was set, and the channels do not come one by one.
sane_start(c) ==
  \/ Quietly(c, "device", "record")
  \/ \E e \in {"ERRO_FROM_SCANNER", "INTERNAL_ERROR"} : Report(c, "device", e, "done")

\* The first page has no document yet ...
FirstPage(c) ==
  /\ docOf[jobOf[c]] = 0
  /\ Report(c, "record", "DB_WORKING", "insert")

addNewScannedDoc(c) ==
  /\ At(c, "insert")
  /\ docs' = Append(docs, [pages |-> requested[jobOf[c]], text |-> <<>>,
                           images |-> {}, phash |-> FALSE])
  /\ docid' = [docid EXCEPT ![c] = Len(docs) + 1]
  /\ MoveTo(c, "docid")
  /\ UNCHANGED <<dispatchVars, progressVars, paramVars, jobOf, page, request>>

\* Mutant: the row id is asked for again, after other inserts.
SaveLastDocid(c) ==
  /\ At(c, "docid")
  /\ docOf' = [docOf EXCEPT ![jobOf[c]] = Len(docs)]
  /\ page' = [page EXCEPT ![c] = 1]
  /\ MoveTo(c, "onpage")
  /\ UNCHANGED <<dispatchVars, progressVars, requested, onPage, docs, jobOf, docid, request>>

SaveDocid(c) ==
  /\ At(c, "docid")
  /\ docOf' = [docOf EXCEPT ![jobOf[c]] = docid[c]]
  /\ page' = [page EXCEPT ![c] = 1]
  /\ MoveTo(c, "onpage")
  /\ UNCHANGED <<dispatchVars, progressVars, requested, onPage, docs, jobOf, docid, request>>

\* Mutant: the page before is scanned again.
SamePage(c) ==
  /\ At(c, "record")
  /\ docOf[jobOf[c]] # 0
  /\ docid' = [docid EXCEPT ![c] = docOf[jobOf[c]]]
  /\ page' = [page EXCEPT ![c] = onPage[jobOf[c]]]
  /\ MoveTo(c, "onpage")
  /\ UNCHANGED <<dispatchVars, progressVars, paramVars, docs, jobOf, request>>

\* ... the others find the document and the page before them.
LaterPage(c) ==
  /\ At(c, "record")
  /\ docOf[jobOf[c]] # 0
  /\ docid' = [docid EXCEPT ![c] = docOf[jobOf[c]]]
  /\ page' = [page EXCEPT ![c] = onPage[jobOf[c]] + 1]
  /\ MoveTo(c, "onpage")
  /\ UNCHANGED <<dispatchVars, progressVars, paramVars, docs, jobOf, request>>

\* The page counts as begun before it is scanned.
SaveOnPage(c) ==
  /\ At(c, "onpage")
  /\ onPage' = [onPage EXCEPT ![jobOf[c]] = page[c]]
  /\ MoveTo(c, "collect")
  /\ UNCHANGED <<dispatchVars, progressVars, requested, docOf, docs, jobOf, page, docid, request>>

\* A short page is read without a progress report.
collectData(c) ==
  \/ Quietly(c, "collect", "convert")
  \/ Report(c, "collect", "SCANNING", "convert")

Convert(c) == Report(c, "convert", "CONVERTING_FORMAT", "image")

\* Mutant: pages share the file name of the first.
WriteFirstImage(c) ==
  /\ At(c, "image")
  /\ docs' = [docs EXCEPT ![docid[c]].images = @ \cup {1}]
  /\ MoveTo(c, "ocr")
  /\ UNCHANGED <<dispatchVars, progressVars, paramVars, jobOf, page, docid, request>>

\* pixWrite of scans/<docid>_<page>.jpg, its result ignored.
WriteImage(c) ==
  /\ At(c, "image")
  /\ \/ docs' = [docs EXCEPT ![docid[c]].images = @ \cup {page[c]}]
     \/ DiskMayFail /\ UNCHANGED docs
  /\ MoveTo(c, "ocr")
  /\ UNCHANGED <<dispatchVars, progressVars, paramVars, jobOf, page, docid, request>>

\* ocrImage: with or without OCR.
OcrImage(c) ==
  \/ Report(c, "ocr", "PERFORMING_OCR", "text")
  \/ Report(c, "ocr", "DB_WORKING", "update")

OcrDone(c) == Report(c, "text", "DB_WORKING", "update")

updateNewScannedPage(c) ==
  /\ At(c, "update")
  /\ docs' = [docs EXCEPT ![docid[c]].pages = page[c],
                          ![docid[c]].text = Append(@, page[c])]
  /\ MoveTo(c, IF page[c] = 1 THEN "phash" ELSE "finish")
  /\ UNCHANGED <<dispatchVars, progressVars, paramVars, jobOf, page, docid, request>>

CalculatePhash(c) == Report(c, "phash", "CALULATING_PHASH", "savephash")

savePhash(c) ==
  /\ At(c, "savephash")
  /\ docs' = [docs EXCEPT ![docid[c]].phash = TRUE]
  /\ MoveTo(c, "finish")
  /\ UNCHANGED <<dispatchVars, progressVars, paramVars, jobOf, page, docid, request>>

\* Mutant: one page too few is waited for.
LastPageEarly(c) == page[c] + 1 >= requested[jobOf[c]]

LastPage(c) == page[c] >= requested[jobOf[c]]

\* The last word of the worker on this page.
Finish(c) ==
  /\ At(c, "finish")
  /\ IF LastPage(c)
     THEN updateScanProgress(jobOf[c], "FINISHED", docid[c])
     ELSE updateScanProgress(jobOf[c], "WAITING_ON_NEW_PAGE", page[c] + 1)
  /\ MoveTo(c, "done")
  /\ UNCHANGED <<dispatchVars, paramVars, docs, jobOf, page, docid, request>>

\* The worker closes SANE and its database and exits; or it crashed.
EndWorker(c) ==
  /\ \/ At(c, "done") /\ WorkerExit(c, TRUE)
     \/ WorkerExit(c, FALSE)
  /\ UNCHANGED jobVars

Work(c) ==
  \/ Start(c) \/ sane_open(c) \/ setOptions(c) \/ sane_start(c)
  \/ FirstPage(c) \/ addNewScannedDoc(c) \/ SaveDocid(c) \/ LaterPage(c)
  \/ SaveOnPage(c) \/ collectData(c) \/ Convert(c) \/ WriteImage(c) \/ OcrImage(c) \/ OcrDone(c) \/ updateNewScannedPage(c)
  \/ CalculatePhash(c) \/ savePhash(c) \/ Finish(c)

------------------------------------------------------------------------------
WebStep ==
  \/ \E j \in Job : nextPageReady(j) \/ \E n \in 1 .. MaxPages[j] : doScan(j, n)
  \/ StartNextPage \/ MarkNextPage \/ ScannerQuery

ScanNext ==
  \/ WebStep
  \/ DispatcherStep
  \/ \E c \in Scanner : EndThread(c) \/ Work(c) \/ EndWorker(c)

ScanSpec == ScanInit /\ [][ScanNext]_scanVars

\* The web thread finishes the request it is serving, threads run, a worker
\* works and exits.
ScanFairness ==
  /\ WF_scanVars(StartNextPage)
  /\ WF_scanVars(MarkNextPage)
  /\ WF_scanVars(DispatcherStep)
  /\ \A c \in Scanner :
       /\ WF_scanVars(Proceed(c) /\ UNCHANGED jobVars)
       /\ WF_scanVars(EndThread(c))
       /\ WF_scanVars(Work(c) \/ EndWorker(c))

FairScan == ScanSpec /\ ScanFairness

------------------------------------------------------------------------------
(* Properties                                                              *)

Steps == {"start", "open", "options", "device", "record", "insert", "docid", "onpage", "collect",
          "convert", "image", "ocr", "text", "update", "phash", "savephash",
          "finish", "done"}

JobTypes ==
  /\ status \in [Job -> Status]
  /\ value \in [Job -> Nat]
  /\ requested \in [Job -> Nat]
  /\ docOf \in [Job -> Nat]
  /\ onPage \in [Job -> Nat]
  /\ docs \in Seq(Document)
  /\ jobOf \in [Scanner -> Job]
  /\ step \in [Scanner -> Steps]
  /\ page \in [Scanner -> Nat]
  /\ docid \in [Scanner -> Nat]
  /\ request \in Request

ScanTypeOK == TypeOK /\ JobTypes

\* The thread, or its worker, has yet to write the status of its scan.
WillWrite(c) ==
  \/ pc[c] \in {"check", "lock", "pipe", "fork"}
  \/ pc[c] = "wait" /\ Running(c) /\ step[c] # "done"
  \/ pc[c] = "return" /\ response[c] = "BUSY"

\* A scan is in the hands of one thread at most: however nextPageReady
\* requests, slow threads and finished workers follow each other, no second
\* thread is started for a scan before the last one has written its last
\* status, so no page is scanned twice and no two workers write one document.
OneThreadPerScan ==
  \A c, d \in Scanner :
    WillWrite(c) /\ WillWrite(d) /\ jobOf[c] = jobOf[d] => c = d

\* Whatever a client is told, by a status that asks for the next page or says
\* the scan has finished, is true of the database and of the disk: all pages
\* up to then are in the document, in order, each once, with their images,
\* the first with its phash; the value names the next page or the document.
AnnouncedPagesSaved ==
  \A j \in Job : status[j] \in {"WAITING_ON_NEW_PAGE", "FINISHED"} =>
    LET d == docs[docOf[j]] IN
      /\ docOf[j] # 0
      /\ d.pages = onPage[j]
      /\ d.text = [i \in 1 .. onPage[j] |-> i]
      /\ ~DiskMayFail => d.images = 1 .. onPage[j]
      /\ d.phash
      /\ IF status[j] = "FINISHED"
         THEN value[j] = docOf[j] /\ onPage[j] = requested[j]
         ELSE value[j] = onPage[j] + 1 /\ onPage[j] < requested[j]

\* The text of a document is that of pages 1, 2, 3, ... at any time, also
\* when scans overlap, are refused, fail or crash in between.
TextInOrder ==
  \A i \in 1 .. Len(docs) :
    docs[i].text = [k \in 1 .. Len(docs[i].text) |-> k]

\* No two scans save pages in the same document.
OwnDocument ==
  \A j, k \in Job : docOf[j] # 0 /\ docOf[j] = docOf[k] => j = k

Settled == {"FINISHED", "WAITING_ON_NEW_PAGE", "SANE_BUSY", "ERRO_FROM_SCANNER",
            "INTERNAL_ERROR"}

\* A scan in the hands of a thread reaches a status that tells the client
\* what to do next, whatever cannot be forked, created or opened, unless its
\* worker crashes.
ScanSettles ==
  \A j \in Job :
    (\E c \in Scanner : WillWrite(c) /\ jobOf[c] = j) ~>
      \/ status[j] \in Settled
      \/ \E c \in Scanner : jobOf[c] = j /\ response[c] = "ERROR"

\* "status* - the current action being done by the system" (API:132): a scan
\* that is said to wait for the scanner has a thread.
StatusIsCurrent ==
  \A j \in Job :
    status[j] = "WAITING_ON_SCANNER" /\ request = NoRequest =>
      \E c \in Scanner : jobOf[c] = j /\ WillWrite(c)

\* What a client sees of a scan.
SavedPages == [j \in Job |-> IF docOf[j] = 0 THEN <<>> ELSE docs[docOf[j]].text]

Told(s) ==
  CASE s = "none" -> "none"
    [] s = "WAITING_ON_NEW_PAGE" -> "next"
    [] s = "FINISHED" -> "finished"
    [] s \in {"SANE_BUSY", "ERRO_FROM_SCANNER", "INTERNAL_ERROR"} -> "failed"
    [] OTHER -> "working"

View == INSTANCE ScanView WITH
  asked <- requested, saved <- SavedPages, answer <- [j \in Job |-> Told(status[j])]

\* Threads, workers, the dispatcher and the tables together behave as a scan
\* of ScanView.tla: pages are saved once each, in order, and only while the
\* client is told that the scan is working; no answer is given before what it
\* says is saved.
ImplementsView == View!ViewSpec
==============================================================================
