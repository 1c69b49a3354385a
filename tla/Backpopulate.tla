----------------------------- MODULE Backpopulate -----------------------------
(***************************************************************************)
(* The start of the daemon after its database is connected (setup and main *)
(* of src/src/main.c) and the back-population it may start                 *)
(* (src/src/backpopulate.c): a pool of threads computes the phash of every *)
(* document that has none and then marks the setting as complete.          *)
(*                                                                         *)
(* The daemon may exit or die at any point and start again; opendiasconfig *)
(* runs next to it, as DbUpgrade.tla has it; documents are deleted by      *)
(* requests meanwhile.                                                     *)
(***************************************************************************)
EXTENDS DbUpgrade

CONSTANTS
  Doc,           \* docids
  Unreadable,    \* documents of whose image no phash can be computed
  Processors,    \* get_nprocs()
  MAX_THREADS,   \* 3
  Deletable,     \* bound: the documents that requests delete
  MaxFailures    \* bound on the times pthread_create fails

ASSUME PoolAssumption ==
  /\ Unreadable \subseteq Doc
  /\ Processors \in Nat \ {0}
  /\ MAX_THREADS \in Nat \ {0}
  /\ Deletable \subseteq Doc
  /\ MaxFailures \in Nat

\* avail_processors, the last slot: all processors but one, and no more than
\* MAX_THREADS.
avail_processors ==
  IF Processors - 1 > MAX_THREADS THEN MAX_THREADS ELSE Processors - 1

Slot == 0 .. avail_processors

VARIABLES
  life,           \* of a connected daemon: "setup", "http", "up"; "down" otherwise
  backpopulate,   \* startedServices.backpopulate
  docs,           \* documents in the database
  hashed,         \* those with a phash
  pool,           \* where backpopulate_phash_inner is, "off" before and after
  todo,           \* the rows it has not come to
  doc,            \* the row it is at
  thread_pointer,
  thread_active,
  thread,         \* the thread last created for each slot
  missed,         \* documents whose thread, or whose UPDATE, failed (history)
  failures        \* how often pthread_create failed

poolVars == <<pool, todo, doc, thread_pointer, thread_active, thread, missed, failures>>
backVars == <<upgradeVars, life, backpopulate, docs, hashed, poolVars>>

NoDoc == "no doc"

\* A thread that ran stub, or process_doc for a document, and how far it is;
\* a joined one is gone.
Thread == [doc : Doc \cup {NoDoc},
           at : {"begin", "save", "clear", "exit", "ended", "joined"},
           hash : BOOLEAN]

Gone == [doc |-> NoDoc, at |-> "joined", hash |-> FALSE]
Stub == [doc |-> NoDoc, at |-> "ended", hash |-> FALSE]

PoolOff ==
  /\ pool' = "off"
  /\ todo' = {}
  /\ doc' = NoDoc
  /\ thread_pointer' = 0
  /\ thread_active' = [s \in Slot |-> 0]
  /\ thread' = [s \in Slot |-> Gone]
  /\ UNCHANGED <<missed, failures>>

BackInit ==
  /\ UpgradeInit
  /\ life = "down"
  /\ backpopulate = FALSE
  /\ docs = IF files = {} THEN {} ELSE Doc
  /\ hashed = {}
  /\ pool = "off"
  /\ todo = {}
  /\ doc = NoDoc
  /\ thread_pointer = 0
  /\ thread_active = [s \in Slot |-> 0]
  /\ thread = [s \in Slot |-> Gone]
  /\ missed = {}
  /\ failures = 0

------------------------------------------------------------------------------
(* The daemon                                                              *)

\* setup reads the settings, once.
ReadConfig ==
  /\ pc[Daemon] = "ready"
  /\ life = "down"
  /\ lock = "free"
  /\ backpopulate' = (db["main"].populate = "yes")
  /\ life' = "http"
  /\ UNCHANGED <<upgradeVars, docs, hashed, poolVars>>

\* main starts the web server and then the back-population.
StartServing ==
  /\ life = "http"
  /\ life' = "up"
  /\ IF backpopulate
     THEN pool' = "stubs" /\ missed' = {}
     ELSE UNCHANGED <<pool, missed>>
  /\ UNCHANGED <<upgradeVars, backpopulate, docs, hashed, todo, doc, thread_pointer,
                 thread_active, thread, failures>>

\* The daemon exits, because it was told to or its port is taken, or dies; the
\* threads of the pool go with it, wherever they are.
DaemonLeaves ==
  /\ Quit(Daemon) \/ Die(Daemon)
  /\ life' = "down"
  /\ backpopulate' = FALSE
  /\ PoolOff
  /\ UNCHANGED <<docs, hashed>>

\* doDelete of a request.
DeleteDoc(d) ==
  /\ life = "up"
  /\ d \in docs \cap Deletable
  /\ lock = "free"
  /\ docs' = docs \ {d}
  /\ hashed' = hashed \ {d}
  /\ UNCHANGED <<upgradeVars, life, backpopulate, poolVars>>

------------------------------------------------------------------------------
(* process_doc                                                             *)

Running(s) == thread[s].at \notin {"ended", "joined"}

SetThread(s, place) == thread' = [thread EXCEPT ![s].at = place]

\* thread_active is set ("belt & braces") and the phash of the image is
\* computed, 0 if there is none.
HashImage(s) ==
  /\ thread[s].at = "begin"
  /\ thread_active' = [thread_active EXCEPT ![s] = 1]
  /\ thread' = [thread EXCEPT ![s].at = "save",
                              ![s].hash = thread[s].doc \in docs \ Unreadable]
  /\ UNCHANGED <<hashed, missed>>

\* Mutant: the row is made again if it is gone.
Upserted(d) == {d}

\* The rows an UPDATE of document d changes.
Updated(d) == docs \cap {d}

\* savePhash, whose result is ignored: it changes nothing when the row is gone,
\* and fails when another program has left a transaction open.
SavePhash(s) ==
  /\ thread[s].at = "save"
  /\ lock = "free"
  /\ LET d == thread[s].doc IN
       IF writer # Nobody
       THEN missed' = missed \cup {d} /\ UNCHANGED hashed
       ELSE /\ hashed' = IF thread[s].hash THEN hashed \cup Updated(d) ELSE hashed
            /\ UNCHANGED missed
  /\ SetThread(s, "clear")
  /\ UNCHANGED thread_active

ClearActive(s) ==
  /\ thread[s].at = "clear"
  /\ thread_active' = [thread_active EXCEPT ![s] = 0]
  /\ SetThread(s, "exit")
  /\ UNCHANGED <<hashed, missed>>

EndThread(s) ==
  /\ thread[s].at = "exit"
  /\ SetThread(s, "ended")
  /\ UNCHANGED <<hashed, thread_active, missed>>

ThreadStep(s) ==
  /\ \/ HashImage(s) \/ SavePhash(s) \/ ClearActive(s) \/ EndThread(s)
  /\ UNCHANGED <<upgradeVars, life, backpopulate, docs, pool, todo, doc, thread_pointer,
                 failures>>

------------------------------------------------------------------------------
(* backpopulate_phash_inner                                                *)

Outside == <<upgradeVars, life, backpopulate, docs, hashed>>

\* Every slot gets a thread that only ends (here at once), to be joined.
CreateStubs ==
  /\ pool = "stubs"
  /\ thread' = [s \in Slot |-> Stub]
  /\ pool' = "query"
  /\ UNCHANGED <<Outside, todo, doc, thread_pointer, thread_active, missed, failures>>

NextRow(rows) ==
  IF rows = {}
  THEN pool' = "finish" /\ todo' = {} /\ doc' = NoDoc /\ thread_pointer' = 0
  ELSE \E d \in rows :
         /\ pool' = "wait"
         /\ todo' = rows \ {d}
         /\ doc' = d
         /\ UNCHANGED thread_pointer

\* SELECT ... WHERE image_phash = 0.
QueryRows ==
  /\ pool = "query"
  /\ lock = "free"
  /\ NextRow(docs \ hashed)
  /\ UNCHANGED <<Outside, thread_active, thread, missed, failures>>

\* Mutant: the last slot is stayed at.
NextOrLast(i) == IF i + 1 > avail_processors THEN i ELSE i + 1

\* The slots are looked at in turn until one is not in use.
NextSlot(i) == IF i + 1 > avail_processors THEN 0 ELSE i + 1

SeeActive ==
  /\ pool = "wait"
  /\ thread_active[thread_pointer] = 1
  /\ thread_pointer' = NextSlot(thread_pointer)
  /\ UNCHANGED <<Outside, pool, todo, doc, thread_active, thread, missed, failures>>

\* Mutant: the slot is taken as soon as its mark is gone.
AnySlot(s) == TRUE

\* pthread_join waits for the thread of the slot to end; a handle that was
\* joined already is turned away.
Joinable(s) == ~Running(s)

\* A slot not in use (only this thread marks one) is joined, marked and given
\* a new thread; when pthread_create fails nobody resets the mark.
GiveOut ==
  /\ pool = "wait"
  /\ thread_active[thread_pointer] = 0
  /\ Joinable(thread_pointer)
  /\ thread_active' = [thread_active EXCEPT ![thread_pointer] = 1]
  /\ \/ /\ thread' = [thread EXCEPT ![thread_pointer] =
                        [doc |-> doc, at |-> "begin", hash |-> FALSE]]
        /\ UNCHANGED <<missed, failures>>
     \/ /\ failures < MaxFailures
        /\ failures' = failures + 1
        /\ missed' = missed \cup {doc}
        /\ thread' = [thread EXCEPT ![thread_pointer] = Gone]
  /\ NextRow(todo)
  /\ UNCHANGED Outside

\* Mutant: the last slot is not waited for.
AfterLast == avail_processors

LastJoined == avail_processors + 1

\* When all rows are given out the threads of all slots are joined.
JoinAll ==
  /\ pool = "finish"
  /\ thread_pointer < LastJoined
  /\ Joinable(thread_pointer)
  /\ thread' = [thread EXCEPT ![thread_pointer] = Gone]
  /\ thread_pointer' = thread_pointer + 1
  /\ UNCHANGED <<Outside, pool, todo, doc, thread_active, missed, failures>>

\* The setting is marked, unless another program keeps the database busy.
MarkComplete ==
  /\ pool = "finish"
  /\ thread_pointer >= LastJoined
  /\ lock = "free"
  /\ db' = IF writer = Nobody THEN [db EXCEPT !["main"].populate = "complete"] ELSE db
  /\ PoolOff
  /\ UNCHANGED <<installed, files, lock, writer, pc, script, starts,
                 life, backpopulate, docs, hashed>>

PoolStep ==
  \/ CreateStubs \/ QueryRows \/ SeeActive \/ GiveOut \/ JoinAll \/ MarkComplete

------------------------------------------------------------------------------
Others == UNCHANGED <<life, backpopulate, docs, hashed, poolVars>>

BackNext ==
  \/ \E p \in Program : (Start(p) \/ Connect(p)) /\ Others
  \/ \E p \in Program \ {Daemon} : (SetPopulate(p) \/ Quit(p) \/ Die(p)) /\ Others
  \/ ReadConfig \/ StartServing \/ DaemonLeaves
  \/ \E d \in Doc : DeleteDoc(d)
  \/ \E s \in Slot : ThreadStep(s)
  \/ PoolStep

BackSpec == BackInit /\ [][BackNext]_backVars

\* Programs that start and threads run; nobody is obliged to start or to exit,
\* except one that has failed or done its work.
FairBack ==
  /\ BackSpec
  /\ \A p \in Program : WF_backVars(Connect(p) /\ Others)
  /\ \A p \in Program \ {Daemon} :
       WF_backVars(pc[p] \in {"failed", "done"} /\ Quit(p) /\ Others)
  /\ \A s \in Slot : WF_backVars(ThreadStep(s))
  /\ WF_backVars(PoolStep)

------------------------------------------------------------------------------
(* Properties                                                              *)

PoolTypeOK ==
  /\ life \in {"down", "http", "up"}
  /\ backpopulate \in BOOLEAN
  /\ docs \subseteq Doc
  /\ hashed \subseteq docs
  /\ pool \in {"off", "stubs", "query", "wait", "finish"}
  /\ todo \subseteq Doc
  /\ doc \in Doc \cup {NoDoc}
  /\ thread_pointer \in 0 .. avail_processors + 1
  /\ thread_active \in [Slot -> {0, 1}]
  /\ thread \in [Slot -> Thread]
  /\ missed \subseteq Doc
  /\ failures \in 0 .. MaxFailures

BackTypeOK == UpgradeTypeOK /\ PoolTypeOK

\* The setting says complete only when every document whose phash can be
\* computed has one: no thread is still at work, and no run that was cut short
\* by an exit, a death or a deletion counts as one that ended.  (Threads that
\* could not be created, and updates that failed, are not noticed.)
CompleteMeansDone ==
  db["main"].populate = "complete" => docs \subseteq hashed \cup Unreadable \cup missed

\* A slot gets a new thread only when the last one has ended, whatever
\* thread_active says: no handle is lost and no thread runs unjoined.
SlotsAreJoined ==
  [][ \A s \in Slot : thread'[s].at = "begin" /\ thread[s].at # "begin" =>
        thread[s].at \in {"ended", "joined"} ]_backVars

\* A slot whose creation failed stays marked and is never used again.
Lost(s) == thread_active[s] = 1 /\ thread[s].at = "joined"

\* A back-population ends (or the daemon does), as long as one slot is not lost
\* to failed creations and no lock was left behind: it neither goes round the
\* slots for ever nor waits for a thread that is gone.
PopulationEnds ==
  pool = "stubs" ~> pool = "off" \/ Orphaned \/ \A s \in Slot : Lost(s)

\* "max number of worker threads on a system with infinate available
\* processors" (backpopulate.c:40): no slot is outside the arrays of
\* MAX_THREADS elements.
SlotInArray == pool = "wait" => thread_pointer < MAX_THREADS
==============================================================================
