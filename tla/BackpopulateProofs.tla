-------------------------- MODULE BackpopulateProofs --------------------------
(***************************************************************************)
(* The back-population, for any number of documents, slots, programs and   *)
(* starts: when the setting says complete, it is.                          *)
(*                                                                         *)
(* A document that still needs its phash is, at any moment of a            *)
(* back-population, among the rows to come, the row at hand, or in the     *)
(* hands of a thread; and a slot that was joined has no such thread.       *)
(***************************************************************************)
EXTENDS Backpopulate, DbUpgradeProofs

\* The daemon is connected while it serves, and only then there is a pool.
LifeInv ==
  /\ life # "down" => pc[Daemon] = "ready"
  /\ life # "up" => pool = "off"

\* What the pool and its threads are at is a document.
PlaceInv ==
  /\ pool # "finish" => thread_pointer \in Slot
  /\ pool = "wait" => doc \in Doc
  /\ \A s \in Slot : Running(s) => thread[s].doc \in Doc

\* Nobody but the pool marks the setting, and it starts only when that is "yes".
NotYetComplete ==
  /\ db["old"].populate # "complete"
  /\ pool # "off" \/ (life = "http" /\ backpopulate) => db["main"].populate # "complete"

\* A thread has a phash to save, if there is one.
HashInv ==
  \A s \in Slot : thread[s].at = "save" /\ thread[s].doc \in docs \ Unreadable => thread[s].hash

Missing == {d \in docs : d \notin hashed /\ d \notin Unreadable /\ d \notin missed}
At(s, d) == thread[s].at \in {"begin", "save"} /\ thread[s].doc = d

MissingIsCovered ==
  pool \in {"wait", "finish"} =>
    \A d \in Missing : d \in todo \/ (pool = "wait" /\ d = doc) \/ \E s \in Slot : At(s, d)

JoinedSoFar ==
  pool = "finish" =>
    /\ todo = {}
    /\ \A s \in Slot : s < thread_pointer => ~Running(s)

PoolInv ==
  /\ PoolTypeOK /\ LifeInv /\ PlaceInv /\ NotYetComplete
  /\ HashInv /\ MissingIsCovered /\ JoinedSoFar /\ CompleteMeansDone

BackInv == UpgradeInv /\ PoolInv

LEMMA SlotsTyped ==
  /\ avail_processors \in Nat /\ 0 \in Slot
  /\ \A s \in Slot : s \in Nat /\ s <= avail_processors
  /\ \A s \in Nat : s <= avail_processors => s \in Slot
BY PoolAssumption DEF avail_processors, Slot

LEMMA ThreadsTyped == Gone \in Thread /\ Stub \in Thread /\ NoDoc \in Doc \cup {NoDoc}
BY DEF Gone, Stub, Thread

LEMMA InitBack == BackInit => BackInv
<1> SUFFICES ASSUME BackInit PROVE BackInv
  OBVIOUS
<1>1. UpgradeInv
  BY InitUpgrade DEF BackInit
<1>2. db["old"].populate # "complete" /\ db["main"].populate # "complete"
  BY DEF BackInit, UpgradeInit, Blank, Found
<1>3. PoolTypeOK
  <2>1. thread_pointer \in 0 .. avail_processors + 1 /\ failures \in 0 .. MaxFailures
    BY SlotsTyped, PoolAssumption DEF BackInit
  <2>2. thread_active \in [Slot -> {0, 1}] /\ thread \in [Slot -> Thread]
    BY ThreadsTyped DEF BackInit
  <2>3. docs \subseteq Doc /\ hashed \subseteq docs /\ todo \subseteq Doc /\ missed \subseteq Doc
    BY DEF BackInit
  <2> QED BY <2>1, <2>2, <2>3 DEF BackInit, PoolTypeOK
<1>4. LifeInv /\ PlaceInv
  BY SlotsTyped DEF BackInit, LifeInv, PlaceInv, Running, Gone
<1>5. NotYetComplete /\ CompleteMeansDone
  BY <1>2 DEF BackInit, NotYetComplete, CompleteMeansDone
<1>6. HashInv /\ MissingIsCovered /\ JoinedSoFar
  BY DEF BackInit, HashInv, MissingIsCovered, JoinedSoFar, Gone
<1> QED BY <1>1, <1>3, <1>4, <1>5, <1>6 DEF BackInv, PoolInv

------------------------------------------------------------------------------
\* Programs at their start leave the pool alone, and never mark the setting.
LEMMA ProgramSettings ==
  ASSUME UpgradeInv, NEW p \in Program,
         Start(p) \/ Connect(p) \/ SetPopulate(p) \/ Quit(p) \/ Die(p),
         db["old"].populate # "complete"
  PROVE  /\ db'["old"].populate # "complete"
         /\ db'["main"].populate = "complete" => db["main"].populate = "complete"
<1>1. db \in [{"main", "old"} -> Database]
  BY DEF UpgradeInv, UpgradeTypeOK
<1>2. CASE UNCHANGED db
  BY <1>2
<1>3. CASE Rename(p)
  BY <1>1, <1>3 DEF Rename, Blank
<1>4. CASE Commit(p)
  <2>1. PICK k, s, x : /\ db' = [db EXCEPT !["main"].version = k, !["main"].applied = s,
                                          !["main"].populate = x]
                       /\ x \in {"yes", db["main"].populate}
    BY <1>4 DEF Commit
  <2> QED BY <1>1, <2>1 DEF Database
<1>5. CASE SetPopulate(p)
  BY <1>1, <1>5 DEF SetPopulate, Database
<1> QED
  BY <1>2, <1>3, <1>4, <1>5 DEF Start, Connect, Look, Find, Create, ReadVersion, SkipScript,
    TakeLock, BeginWriting, Break, Connected, Quit, Die, Leave

LEMMA ProgramLeavesPool ==
  ASSUME BackInv, Others, NEW p \in Program,
         \/ Start(p) \/ Connect(p)
         \/ p # Daemon /\ (SetPopulate(p) \/ Quit(p) \/ Die(p))
  PROVE  BackInv'
<1>1. UpgradeInv'
  BY ProgramKeeps DEF BackInv
<1>2. UNCHANGED <<life, backpopulate, docs, hashed, pool, todo, doc, thread_pointer,
                  thread_active, thread, missed, failures>>
  BY DEF Others, poolVars
<1>3. PoolTypeOK' /\ PlaceInv' /\ HashInv' /\ MissingIsCovered' /\ JoinedSoFar'
  BY <1>2 DEF BackInv, PoolInv, PoolTypeOK, PlaceInv, HashInv, MissingIsCovered, JoinedSoFar,
    Running, At, Missing
<1>4. NotYetComplete' /\ CompleteMeansDone'
  BY <1>2, ProgramSettings DEF BackInv, PoolInv, NotYetComplete, CompleteMeansDone
<1>5. LifeInv'
  <2>1. pc[Daemon] = "ready" => pc'[Daemon] = "ready"
    <3>1. CASE p = Daemon
      BY <3>1 DEF Start, Connect, Look, Rename, Find, Create, ReadVersion, SkipScript,
        TakeLock, BeginWriting, Commit, Break, Connected
    <3>2. CASE p # Daemon
      <4>1. \E there : pc' = [pc EXCEPT ![p] = there] \/ pc' = pc
        BY DEF Start, Connect, Look, Rename, Find, Create, ReadVersion, SkipScript,
          TakeLock, BeginWriting, Commit, Break, Connected, SetPopulate, Quit, Die, Leave, GoTo
      <4>2. Daemon \in Program /\ pc \in [Program -> Place]
        BY UpgradeAssumption DEF BackInv, UpgradeInv, UpgradeTypeOK, Place
      <4> QED BY <3>2, <4>1, <4>2
    <3> QED BY <3>1, <3>2
  <2> QED BY <1>2, <2>1 DEF BackInv, PoolInv, LifeInv
<1> QED BY <1>1, <1>3, <1>4, <1>5 DEF BackInv, PoolInv

------------------------------------------------------------------------------
\* The daemon.
LEMMA ReadConfigKeeps == BackInv /\ ReadConfig => BackInv'
<1> SUFFICES ASSUME BackInv, ReadConfig PROVE BackInv'
  OBVIOUS
<1> USE DEF ReadConfig, BackInv, PoolInv
<1>1. UpgradeInv'
  BY StutterKeeps
<1>2. UNCHANGED <<db, pc, docs, hashed, pool, todo, doc, thread_pointer, thread_active,
                  thread, missed, failures>>
  BY DEF upgradeVars, poolVars
<1>3. PoolTypeOK' /\ LifeInv'
  BY <1>2 DEF PoolTypeOK, LifeInv
<1>4. PlaceInv' /\ HashInv' /\ MissingIsCovered' /\ JoinedSoFar' /\ CompleteMeansDone'
  BY <1>2 DEF PlaceInv, HashInv, MissingIsCovered, JoinedSoFar, CompleteMeansDone,
    Running, At, Missing
<1>5. NotYetComplete'
  BY <1>2 DEF NotYetComplete, LifeInv
<1> QED BY <1>1, <1>3, <1>4, <1>5

LEMMA StartServingKeeps == BackInv /\ StartServing => BackInv'
<1> SUFFICES ASSUME BackInv, StartServing PROVE BackInv'
  OBVIOUS
<1> USE DEF StartServing, BackInv, PoolInv
<1>1. UpgradeInv'
  BY StutterKeeps
<1>2. UNCHANGED <<db, pc, backpopulate, docs, hashed, todo, doc, thread_pointer,
                  thread_active, thread, failures>>
  BY DEF upgradeVars
<1>3. pool = "off" /\ pool' \in {"off", "stubs"}
  BY DEF LifeInv
<1>4. PoolTypeOK' /\ LifeInv'
  BY <1>2, <1>3 DEF PoolTypeOK, LifeInv
<1>5. PlaceInv' /\ HashInv' /\ MissingIsCovered' /\ JoinedSoFar'
  BY <1>2, <1>3 DEF PlaceInv, HashInv, MissingIsCovered, JoinedSoFar, Running
<1>6. NotYetComplete' /\ CompleteMeansDone'
  BY <1>2, <1>3 DEF NotYetComplete, CompleteMeansDone
<1> QED BY <1>1, <1>4, <1>5, <1>6

\* A pool that is off, or was killed, leaves nothing behind.
LEMMA PoolOffKeeps ==
  ASSUME PoolTypeOK, PoolOff, life' \in {"down", "http", "up"}, backpopulate' \in BOOLEAN,
         docs' = docs, hashed' = hashed
  PROVE  PoolTypeOK' /\ PlaceInv' /\ HashInv' /\ MissingIsCovered' /\ JoinedSoFar'
<1>1. PoolTypeOK'
  <2>1. thread_active' \in [Slot -> {0, 1}] /\ thread' \in [Slot -> Thread]
    BY ThreadsTyped DEF PoolOff
  <2>2. thread_pointer' \in 0 .. avail_processors + 1
    BY SlotsTyped DEF PoolOff
  <2> QED BY <2>1, <2>2 DEF PoolOff, PoolTypeOK
<1>2. PlaceInv' /\ HashInv'
  BY SlotsTyped DEF PoolOff, PlaceInv, HashInv, Running, Gone
<1>3. MissingIsCovered' /\ JoinedSoFar'
  BY DEF PoolOff, MissingIsCovered, JoinedSoFar
<1> QED BY <1>1, <1>2, <1>3

LEMMA DaemonLeavesKeeps == BackInv /\ DaemonLeaves => BackInv'
<1> SUFFICES ASSUME BackInv, DaemonLeaves PROVE BackInv'
  OBVIOUS
<1> USE DEF DaemonLeaves, BackInv, PoolInv
<1>1. UpgradeInv'
  BY ProgramKeeps, UpgradeAssumption
<1>2. db' = db
  BY DEF Quit, Die, Leave
<1>3. PoolTypeOK' /\ PlaceInv' /\ HashInv' /\ MissingIsCovered' /\ JoinedSoFar'
  BY PoolOffKeeps
<1>4. LifeInv' /\ NotYetComplete' /\ CompleteMeansDone'
  BY <1>2 DEF PoolOff, LifeInv, NotYetComplete, CompleteMeansDone
<1> QED BY <1>1, <1>3, <1>4

LEMMA DeleteDocKeeps ==
  ASSUME BackInv, NEW d \in Doc, DeleteDoc(d)
  PROVE  BackInv'
<1> USE DEF DeleteDoc, BackInv, PoolInv
<1>1. UpgradeInv'
  BY StutterKeeps
<1>2. UNCHANGED <<db, pc, life, backpopulate, pool, todo, doc, thread_pointer,
                  thread_active, thread, missed, failures>>
  BY DEF upgradeVars, poolVars
<1>3. docs' = docs \ {d} /\ hashed' = hashed \ {d}
  OBVIOUS
<1>4. PoolTypeOK' /\ LifeInv' /\ PlaceInv'
  BY <1>2, <1>3 DEF PoolTypeOK, LifeInv, PlaceInv, Running
<1>5. NotYetComplete' /\ HashInv' /\ JoinedSoFar'
  BY <1>2, <1>3 DEF NotYetComplete, HashInv, JoinedSoFar, Running
<1>6. Missing' \subseteq Missing
  BY <1>2, <1>3 DEF Missing
<1>7. MissingIsCovered' /\ CompleteMeansDone'
  BY <1>2, <1>3, <1>6 DEF MissingIsCovered, CompleteMeansDone, At
<1> QED BY <1>1, <1>4, <1>5, <1>7

------------------------------------------------------------------------------
\* The threads.
LEMMA ThreadMoves ==
  ASSUME BackInv, NEW s \in Slot, ThreadStep(s)
  PROVE  /\ \A r \in Slot : r # s => thread'[r] = thread[r]
         /\ thread'[s].doc = thread[s].doc /\ thread[s].doc \in Doc
         /\ Running(s)
         /\ thread' \in [Slot -> Thread]
         /\ thread_active' \in [Slot -> {0, 1}]
         /\ UNCHANGED <<upgradeVars, db, pc, life, backpopulate, docs, pool, todo, doc,
                        thread_pointer, failures>>
<1>1. /\ thread \in [Slot -> Thread] /\ thread_active \in [Slot -> {0, 1}]
      /\ thread[s] \in Thread
  BY DEF BackInv, PoolInv, PoolTypeOK
<1>2. Running(s)
  BY DEF ThreadStep, HashImage, SavePhash, ClearActive, EndThread, Running
<1>3. PICK r : r = thread[s]
  OBVIOUS
<1>4. r \in Thread /\ r.doc \in Doc \cup {NoDoc} /\ r.hash \in BOOLEAN
  BY <1>1, <1>3 DEF Thread
<1> DEFINE Went(there) == [r EXCEPT !.at = there]
           Hashed(h) == [r EXCEPT !.at = "save", !.hash = h]
<1>5. \A there \in {"save", "clear", "exit", "ended"} :
        Went(there) \in Thread /\ Went(there).doc = r.doc
  BY <1>4 DEF Thread
<1>6. \A h \in BOOLEAN : Hashed(h) \in Thread /\ Hashed(h).doc = r.doc
  BY <1>4 DEF Thread
<1>7. \/ \E there \in {"save", "clear", "exit", "ended"} : thread' = [thread EXCEPT ![s] = Went(there)]
      \/ \E h \in BOOLEAN : thread' = [thread EXCEPT ![s] = Hashed(h)]
  <2>1. CASE HashImage(s)
    <3>1. thread' = [thread EXCEPT ![s] = Hashed(r.doc \in docs \ Unreadable)]
      BY <1>1, <1>3, <2>1 DEF HashImage
    <3>2. (r.doc \in docs \ Unreadable) \in BOOLEAN
      OBVIOUS
    <3> QED BY <3>1, <3>2
  <2>2. CASE SavePhash(s)
    <3>1. thread' = [thread EXCEPT ![s] = Went("clear")]
      BY <1>1, <1>3, <2>2 DEF SavePhash, SetThread
    <3> QED BY <3>1
  <2>3. CASE ClearActive(s)
    <3>1. thread' = [thread EXCEPT ![s] = Went("exit")]
      BY <1>1, <1>3, <2>3 DEF ClearActive, SetThread
    <3> QED BY <3>1
  <2>4. CASE EndThread(s)
    <3>1. thread' = [thread EXCEPT ![s] = Went("ended")]
      BY <1>1, <1>3, <2>4 DEF EndThread, SetThread
    <3> QED BY <3>1
  <2> HIDE DEF Went, Hashed
  <2> QED BY <2>1, <2>2, <2>3, <2>4 DEF ThreadStep
<1>8. /\ \A q \in Slot : q # s => thread'[q] = thread[q]
      /\ thread'[s].doc = thread[s].doc /\ thread' \in [Slot -> Thread]
  <2> HIDE DEF Went, Hashed
  <2> QED BY <1>1, <1>3, <1>5, <1>6, <1>7
<1>9. thread_active' \in [Slot -> {0, 1}]
  BY <1>1 DEF ThreadStep, HashImage, SavePhash, ClearActive, EndThread
<1>10. UNCHANGED <<upgradeVars, db, pc, life, backpopulate, docs, pool, todo, doc,
                  thread_pointer, failures>>
  BY DEF ThreadStep, upgradeVars
<1> QED BY <1>1, <1>2, <1>8, <1>9, <1>10 DEF BackInv, PoolInv, PlaceInv

\* A thread that saves its phash makes its document one that is not missing; one
\* that does anything else keeps it in its hands or has had it before.
LEMMA ThreadKeepsHashes ==
  ASSUME BackInv, NEW s \in Slot, ThreadStep(s)
  PROVE  /\ hashed' \subseteq docs /\ hashed \subseteq hashed'
         /\ missed' \subseteq Doc /\ missed \subseteq missed'
         /\ HashInv'
         /\ Missing' \subseteq Missing
         /\ \A d \in Missing' : At(s, d) => thread'[s].at \in {"begin", "save"}
<1>1. /\ thread \in [Slot -> Thread] /\ hashed \subseteq docs /\ docs \subseteq Doc
      /\ missed \subseteq Doc /\ HashInv
  BY DEF BackInv, PoolInv, PoolTypeOK
<1>2. /\ \A r \in Slot : r # s => thread'[r] = thread[r]
      /\ docs' = docs /\ thread[s].doc \in Doc /\ thread'[s].doc = thread[s].doc
  BY ThreadMoves
<1>3. CASE HashImage(s)
  <2>1. thread'[s].at = "save" /\ thread'[s].hash = (thread[s].doc \in docs \ Unreadable)
    BY <1>1, <1>3 DEF HashImage, Thread
  <2>2. hashed' = hashed /\ missed' = missed
    BY <1>3 DEF HashImage
  <2> QED BY <1>1, <1>2, <2>1, <2>2 DEF HashInv, Missing, At
<1>4. CASE SavePhash(s)
  <2>1. thread[s].at = "save" /\ thread'[s].at = "clear"
    BY <1>1, <1>4 DEF SavePhash, SetThread, Thread
  <2>2. HashInv'
    BY <1>1, <1>2, <2>1 DEF HashInv
  <2>3. CASE writer # Nobody
    <3>1. hashed' = hashed /\ missed' = missed \cup {thread[s].doc}
      BY <1>4, <2>3 DEF SavePhash
    <3> QED BY <1>1, <1>2, <2>2, <3>1 DEF Missing, At
  <2>4. CASE writer = Nobody
    <3>1. /\ missed' = missed
          /\ hashed' = IF thread[s].hash THEN hashed \cup (docs \cap {thread[s].doc}) ELSE hashed
      BY <1>4, <2>4 DEF SavePhash, Updated
    <3>2. thread[s].doc \in docs \ Unreadable => thread[s].hash
      BY <1>1, <2>1 DEF HashInv
    <3> QED BY <1>1, <1>2, <2>2, <3>1, <3>2 DEF Missing, At
  <2> QED BY <2>3, <2>4
<1>5. CASE ClearActive(s) \/ EndThread(s)
  <2>1. thread[s].at \notin {"begin", "save"} /\ thread'[s].at \notin {"begin", "save"}
    BY <1>1, <1>5 DEF ClearActive, EndThread, SetThread, Thread
  <2>2. hashed' = hashed /\ missed' = missed
    BY <1>5 DEF ClearActive, EndThread
  <2> QED BY <1>1, <1>2, <2>1, <2>2 DEF HashInv, Missing, At
<1> QED BY <1>3, <1>4, <1>5 DEF ThreadStep

LEMMA ThreadKeeps ==
  ASSUME BackInv, NEW s \in Slot, ThreadStep(s)
  PROVE  BackInv'
<1> USE DEF BackInv, PoolInv
<1>1. UpgradeInv'
  BY ThreadMoves, StutterKeeps
<1>2. PoolTypeOK' /\ LifeInv'
  BY ThreadMoves, ThreadKeepsHashes DEF PoolTypeOK, LifeInv
<1>3. PlaceInv'
  BY ThreadMoves DEF PlaceInv, Running
<1>4. NotYetComplete' /\ HashInv'
  BY ThreadMoves, ThreadKeepsHashes DEF NotYetComplete
<1>5. MissingIsCovered'
  <2> SUFFICES ASSUME pool \in {"wait", "finish"}, NEW d \in Missing',
                      d \notin todo, ~(pool = "wait" /\ d = doc)
               PROVE  \E r \in Slot : At(r, d)'
    BY ThreadMoves DEF MissingIsCovered
  <2>1. PICK r \in Slot : At(r, d)
    BY ThreadKeepsHashes DEF MissingIsCovered
  <2> QED BY <2>1, ThreadMoves, ThreadKeepsHashes DEF At
<1>6. JoinedSoFar'
  BY ThreadMoves DEF JoinedSoFar, Running
<1>7. CompleteMeansDone'
  <2>1. docs' = docs /\ db' = db
    BY ThreadMoves
  <2> QED BY <2>1, ThreadKeepsHashes DEF CompleteMeansDone
<1> QED BY <1>1, <1>2, <1>3, <1>4, <1>5, <1>6, <1>7

------------------------------------------------------------------------------
\* The pool.
LEMMA NextRowTyped ==
  ASSUME NEW rows, NextRow(rows)
  PROVE  \/ /\ rows = {} /\ pool' = "finish" /\ todo' = {} /\ doc' = NoDoc /\ thread_pointer' = 0
         \/ /\ pool' = "wait" /\ doc' \in rows /\ todo' = rows \ {doc'}
            /\ thread_pointer' = thread_pointer
BY DEF NextRow

LEMMA CreateStubsKeeps == BackInv /\ CreateStubs => BackInv'
<1> SUFFICES ASSUME BackInv, CreateStubs PROVE BackInv'
  OBVIOUS
<1> USE DEF CreateStubs, Outside, BackInv, PoolInv
<1>1. UpgradeInv'
  BY StutterKeeps
<1>2. UNCHANGED <<db, pc>>
  BY DEF upgradeVars
<1>3. PoolTypeOK' /\ LifeInv'
  <2>1. thread' \in [Slot -> Thread]
    BY ThreadsTyped
  <2> QED BY <1>2, <2>1 DEF PoolTypeOK, LifeInv
<1>4. PlaceInv' /\ HashInv'
  BY DEF PlaceInv, HashInv, Running, Stub
<1>5. NotYetComplete' /\ MissingIsCovered' /\ JoinedSoFar' /\ CompleteMeansDone'
  BY <1>2 DEF NotYetComplete, MissingIsCovered, JoinedSoFar, CompleteMeansDone
<1> QED BY <1>1, <1>3, <1>4, <1>5

LEMMA QueryRowsKeeps == BackInv /\ QueryRows => BackInv'
<1> SUFFICES ASSUME BackInv, QueryRows PROVE BackInv'
  OBVIOUS
<1> USE DEF QueryRows, Outside, BackInv, PoolInv
<1>1. UpgradeInv'
  BY StutterKeeps
<1>2. UNCHANGED <<db, pc, docs, hashed, missed, thread>>
  BY DEF upgradeVars
<1>3. \/ /\ docs \ hashed = {} /\ pool' = "finish" /\ todo' = {} /\ doc' = NoDoc
         /\ thread_pointer' = 0
      \/ /\ pool' = "wait" /\ doc' \in docs \ hashed /\ todo' = (docs \ hashed) \ {doc'}
         /\ thread_pointer' = thread_pointer
  BY NextRowTyped
<1>4. PoolTypeOK' /\ LifeInv'
  BY <1>2, <1>3, SlotsTyped DEF PoolTypeOK, LifeInv
<1>5. PlaceInv' /\ HashInv'
  BY <1>2, <1>3 DEF PlaceInv, HashInv, Running, PoolTypeOK
<1>6. MissingIsCovered'
  BY <1>2, <1>3 DEF MissingIsCovered, Missing
<1>7. JoinedSoFar'
  BY <1>3, SlotsTyped DEF JoinedSoFar
<1>8. NotYetComplete' /\ CompleteMeansDone'
  BY <1>2 DEF NotYetComplete, CompleteMeansDone
<1> QED BY <1>1, <1>4, <1>5, <1>6, <1>7, <1>8

LEMMA SeeActiveKeeps == BackInv /\ SeeActive => BackInv'
<1> SUFFICES ASSUME BackInv, SeeActive PROVE BackInv'
  OBVIOUS
<1> USE DEF SeeActive, Outside, BackInv, PoolInv
<1>1. UpgradeInv'
  BY StutterKeeps
<1>2. UNCHANGED <<db, pc>>
  BY DEF upgradeVars
<1>3. thread_pointer' \in Slot
  BY SlotsTyped DEF PlaceInv, NextSlot
<1>4. PoolTypeOK' /\ LifeInv' /\ PlaceInv' /\ HashInv'
  <2>1. thread_pointer' \in 0 .. avail_processors + 1
    BY <1>3, SlotsTyped
  <2> QED BY <1>2, <1>3, <2>1 DEF PoolTypeOK, LifeInv, PlaceInv, HashInv, Running
<1>5. NotYetComplete' /\ MissingIsCovered' /\ JoinedSoFar' /\ CompleteMeansDone'
  BY <1>2 DEF NotYetComplete, MissingIsCovered, JoinedSoFar, CompleteMeansDone, Missing, At
<1> QED BY <1>1, <1>4, <1>5

\* The row at hand goes to a thread, or its failure is known; the slot it goes to
\* had no thread with a document of its own.
LEMMA GiveOutKeeps == BackInv /\ GiveOut => BackInv'
<1> SUFFICES ASSUME BackInv, GiveOut PROVE BackInv'
  OBVIOUS
<1> USE DEF BackInv, PoolInv
<1> DEFINE slot == thread_pointer
           Fresh == [doc |-> doc, at |-> "begin", hash |-> FALSE]
<1>1. UpgradeInv'
  BY StutterKeeps DEF GiveOut, Outside
<1>2. /\ UNCHANGED <<db, pc, life, backpopulate, docs, hashed>>
      /\ pool = "wait" /\ ~Running(slot)
      /\ thread_active' = [thread_active EXCEPT ![slot] = 1]
  BY DEF GiveOut, Outside, upgradeVars, Joinable
<1>3. /\ slot \in Slot /\ doc \in Doc /\ todo \subseteq Doc
      /\ thread \in [Slot -> Thread] /\ thread_active \in [Slot -> {0, 1}]
      /\ missed \subseteq Doc /\ failures \in 0 .. MaxFailures
  BY <1>2 DEF PlaceInv, PoolTypeOK
<1>4. Fresh \in Thread /\ Gone \in Thread
  BY <1>3, ThreadsTyped DEF Thread
<1>5. \/ thread' = [thread EXCEPT ![slot] = Fresh] /\ missed' = missed /\ failures' = failures
      \/ /\ thread' = [thread EXCEPT ![slot] = Gone] /\ missed' = missed \cup {doc}
         /\ failures' \in 0 .. MaxFailures
  BY <1>3, PoolAssumption DEF GiveOut
<1>6. /\ \A s \in Slot : s # slot => thread'[s] = thread[s]
      /\ thread' \in [Slot -> Thread] /\ missed \subseteq missed' /\ missed' \subseteq Doc
      /\ failures' \in 0 .. MaxFailures
      /\ \/ thread'[slot] = Fresh
         \/ thread'[slot] = Gone /\ doc \in missed'
  <2> HIDE DEF Fresh
  <2> QED BY <1>3, <1>4, <1>5
<1>7. \/ /\ todo = {} /\ pool' = "finish" /\ todo' = {} /\ doc' = NoDoc /\ thread_pointer' = 0
      \/ /\ pool' = "wait" /\ doc' \in todo /\ todo' = todo \ {doc'}
         /\ thread_pointer' = slot
  BY NextRowTyped DEF GiveOut
<1>8. PoolTypeOK' /\ LifeInv'
  <2>1. thread_active' \in [Slot -> {0, 1}]
    BY <1>2, <1>3
  <2>2. thread_pointer' \in 0 .. avail_processors + 1
    BY <1>3, <1>7, SlotsTyped
  <2> QED BY <1>2, <1>3, <1>6, <1>7, <2>1, <2>2 DEF PoolTypeOK, LifeInv
<1>9. PlaceInv'
  <2>1. \A s \in Slot : Running(s)' => thread'[s].doc \in Doc
    BY <1>3, <1>6 DEF PlaceInv, Running, Gone
  <2> QED BY <1>3, <1>7, <2>1 DEF PlaceInv
<1>10. HashInv'
  BY <1>2, <1>6 DEF HashInv, Gone
<1>11. MissingIsCovered'
  <2> SUFFICES ASSUME NEW d \in Missing', d \notin todo', ~(pool' = "wait" /\ d = doc')
               PROVE  \E s \in Slot : At(s, d)'
    BY DEF MissingIsCovered
  <2>1. d \in Missing /\ d \notin missed' /\ d \notin todo
    BY <1>2, <1>6, <1>7 DEF Missing
  <2>2. CASE d = doc
    BY <1>3, <1>6, <2>1, <2>2 DEF At
  <2>3. CASE d # doc
    <3>1. PICK s \in Slot : At(s, d)
      BY <1>2, <2>1, <2>3 DEF MissingIsCovered
    <3> QED BY <1>2, <1>6, <3>1 DEF At, Running
  <2> QED BY <2>2, <2>3
<1>12. JoinedSoFar'
  BY <1>7, SlotsTyped DEF JoinedSoFar
<1>13. NotYetComplete' /\ CompleteMeansDone'
  BY <1>2, <1>6 DEF NotYetComplete, CompleteMeansDone
<1> QED BY <1>1, <1>8, <1>9, <1>10, <1>11, <1>12, <1>13

LEMMA JoinAllKeeps == BackInv /\ JoinAll => BackInv'
<1> SUFFICES ASSUME BackInv, JoinAll PROVE BackInv'
  OBVIOUS
<1> USE DEF JoinAll, BackInv, PoolInv
<1>1. UpgradeInv'
  BY StutterKeeps DEF Outside
<1>2. UNCHANGED <<db, pc, life, backpopulate, docs, hashed>>
  BY DEF Outside, upgradeVars
<1>3. /\ thread_pointer \in Slot /\ thread_pointer \in Nat /\ ~Running(thread_pointer)
      /\ thread \in [Slot -> Thread]
  <2>1. thread_pointer \in Nat /\ thread_pointer <= avail_processors
    BY SlotsTyped DEF PoolTypeOK, LastJoined
  <2> QED BY <2>1, SlotsTyped DEF PoolTypeOK, Joinable
<1>4. /\ \A s \in Slot : s # thread_pointer => thread'[s] = thread[s]
      /\ thread'[thread_pointer] = Gone /\ thread' \in [Slot -> Thread]
  BY <1>3, ThreadsTyped
<1>5. PoolTypeOK' /\ LifeInv'
  <2>1. thread_pointer' \in 0 .. avail_processors + 1
    BY <1>3, SlotsTyped
  <2> QED BY <1>2, <1>4, <2>1 DEF PoolTypeOK, LifeInv
<1>6. PlaceInv' /\ HashInv'
  BY <1>2, <1>4 DEF PlaceInv, HashInv, Running, Gone
<1>7. MissingIsCovered'
  BY <1>2, <1>3, <1>4 DEF MissingIsCovered, Missing, At, Running
<1>8. JoinedSoFar'
  <2>1. \A s \in Slot : s < thread_pointer + 1 => s < thread_pointer \/ s = thread_pointer
    BY <1>3, SlotsTyped
  <2> QED BY <1>3, <1>4, <2>1 DEF JoinedSoFar, Running, Gone
<1>9. NotYetComplete' /\ CompleteMeansDone'
  BY <1>2 DEF NotYetComplete, CompleteMeansDone
<1> QED BY <1>1, <1>5, <1>6, <1>7, <1>8, <1>9

\* When the setting is marked all slots were joined, so no document is missing.
LEMMA MarkCompleteKeeps == BackInv /\ MarkComplete => BackInv'
<1> SUFFICES ASSUME BackInv, MarkComplete PROVE BackInv'
  OBVIOUS
<1> USE DEF MarkComplete, BackInv, PoolInv
<1>1. /\ pc[Daemon] = "ready" /\ life = "up" /\ Daemon \in Program
      /\ pc \in [Program -> Place] /\ db \in [{"main", "old"} -> Database]
      /\ life \in {"down", "http", "up"} /\ backpopulate \in BOOLEAN
  BY UpgradeAssumption DEF LifeInv, UpgradeInv, UpgradeTypeOK, Place, PoolTypeOK
<1>2. "old" \notin files
  BY <1>1 DEF UpgradeInv, OldIsAlone, Early
<1>3. \/ db' = db
      \/ db' = [db EXCEPT !["main"].populate = "complete"]
  OBVIOUS
<1>4. UpgradeInv'
  <2>1. CASE db' = db
    BY <2>1, StutterKeeps DEF upgradeVars
  <2>2. CASE db' = [db EXCEPT !["main"].populate = "complete"]
    BY <1>1, <1>2, <2>2, PopulateKeeps
  <2> QED BY <1>3, <2>1, <2>2
<1>5. PoolTypeOK' /\ PlaceInv' /\ HashInv' /\ MissingIsCovered' /\ JoinedSoFar'
  BY <1>1, PoolOffKeeps
<1>6. LifeInv'
  BY <1>1 DEF LifeInv, PoolOff
<1>7. NotYetComplete'
  BY <1>1, <1>3 DEF NotYetComplete, PoolOff
<1>8. Missing = {}
  <2>1. \A s \in Slot : ~Running(s)
    BY SlotsTyped DEF JoinedSoFar, LastJoined, PoolTypeOK
  <2> QED BY <2>1 DEF MissingIsCovered, JoinedSoFar, At, Running
<1>9. CompleteMeansDone'
  BY <1>8 DEF CompleteMeansDone, Missing, PoolOff
<1> QED BY <1>4, <1>5, <1>6, <1>7, <1>9

------------------------------------------------------------------------------
LEMMA BackStep == BackInv /\ [BackNext]_backVars => BackInv'
<1> SUFFICES ASSUME BackInv, [BackNext]_backVars PROVE BackInv'
  OBVIOUS
<1>1. CASE UNCHANGED backVars
  <2>1. UNCHANGED upgradeVars /\ UNCHANGED <<db, pc, life, backpopulate, docs, hashed, pool, todo, doc,
                     thread_pointer, thread_active, thread, missed, failures>>
    BY <1>1 DEF backVars, upgradeVars, poolVars
  <2>2. UpgradeInv'
    BY <2>1, StutterKeeps DEF BackInv
  <2> QED BY <2>1, <2>2 DEF BackInv, PoolInv, PoolTypeOK, LifeInv, PlaceInv, NotYetComplete,
       HashInv, MissingIsCovered, JoinedSoFar, CompleteMeansDone, Running, At, Missing
<1>2. CASE \/ \E p \in Program : (Start(p) \/ Connect(p)) /\ Others
           \/ \E p \in Program \ {Daemon} : (SetPopulate(p) \/ Quit(p) \/ Die(p)) /\ Others
  BY <1>2, ProgramLeavesPool
<1>3. CASE ReadConfig \/ StartServing \/ DaemonLeaves
  BY <1>3, ReadConfigKeeps, StartServingKeeps, DaemonLeavesKeeps
<1>4. CASE \E d \in Doc : DeleteDoc(d)
  BY <1>4, DeleteDocKeeps
<1>5. CASE \E s \in Slot : ThreadStep(s)
  BY <1>5, ThreadKeeps
<1>6. CASE PoolStep
  BY <1>6, CreateStubsKeeps, QueryRowsKeeps, SeeActiveKeeps, GiveOutKeeps, JoinAllKeeps,
    MarkCompleteKeeps DEF PoolStep
<1> QED BY <1>1, <1>2, <1>3, <1>4, <1>5, <1>6 DEF BackNext

\* Every variable keeps its type.
THEOREM BackTypeCorrect == BackSpec => []BackTypeOK
<1>1. BackInv => BackTypeOK
  BY DEF BackInv, UpgradeInv, PoolInv, BackTypeOK
<1> QED BY <1>1, InitBack, BackStep, PTL DEF BackSpec

\* A back-population that is marked as complete has reached every document whose
\* phash can be computed, whichever were deleted and however often it was cut short.
THEOREM CompleteIsDone == BackSpec => []CompleteMeansDone
<1>1. BackInv => CompleteMeansDone
  BY DEF BackInv, PoolInv
<1> QED BY <1>1, InitBack, BackStep, PTL DEF BackSpec

\* What is true of the database while programs start and exit stays true when the
\* daemon also serves requests and marks the setting.
THEOREM ServedVersionHonest == BackSpec => []VersionIsHonest
<1>1. BackInv => VersionIsHonest
  BY DEF BackInv, UpgradeInv
<1> QED BY <1>1, InitBack, BackStep, PTL DEF BackSpec

THEOREM ServedUpgraded == BackSpec => []ReadyIsUpgraded
<1>1. BackInv => ReadyIsUpgraded
  BY DEF BackInv, UpgradeInv
<1> QED BY <1>1, InitBack, BackStep, PTL DEF BackSpec

------------------------------------------------------------------------------
\* Only GiveOut lets a thread begin, in a slot whose last one has ended.
BeginsAfterEnd ==
  \A s \in Slot : thread'[s].at = "begin" /\ thread[s].at # "begin" =>
    thread[s].at \in {"ended", "joined"}

LEMMA BeginsInOrder == BackInv /\ [BackNext]_backVars => BeginsAfterEnd
<1> SUFFICES ASSUME BackInv, [BackNext]_backVars,
                    NEW s \in Slot, thread'[s].at = "begin", thread[s].at # "begin"
             PROVE  thread[s].at \in {"ended", "joined"}
  BY DEF BeginsAfterEnd
<1>1. thread \in [Slot -> Thread] /\ thread[s] \in Thread
  BY DEF BackInv, PoolInv, PoolTypeOK
<1>2. CASE UNCHANGED thread
  BY <1>2
<1>3. ASSUME NEW r \in Slot, ThreadStep(r)
      PROVE  FALSE
  <2>1. r = s
    BY <1>3, ThreadMoves
  <2>2. thread'[s].at \in {"save", "clear", "exit", "ended"}
    BY <1>1, <1>3, <2>1 DEF ThreadStep, HashImage, SavePhash, ClearActive, EndThread, SetThread,
      Thread
  <2> QED BY <2>2
<1>4. CASE CreateStubs \/ DaemonLeaves \/ MarkComplete
  BY <1>4 DEF CreateStubs, DaemonLeaves, MarkComplete, PoolOff, Stub, Gone
<1>5. CASE JoinAll
  BY <1>1, <1>5 DEF JoinAll, Gone
<1>6. CASE GiveOut
  <2>1. ~Running(thread_pointer)
    BY <1>6 DEF GiveOut, Joinable
  <2>2. s = thread_pointer
    BY <1>1, <1>6 DEF GiveOut
  <2> QED BY <2>1, <2>2 DEF Running
<1> QED
  BY <1>2, <1>3, <1>4, <1>5, <1>6 DEF BackNext, PoolStep, QueryRows, SeeActive, ReadConfig,
    StartServing, DeleteDoc, Others, poolVars, backVars

\* A slot gets a new thread only when the one before it has ended.
THEOREM JoinedFirst == BackSpec => SlotsAreJoined
<1>1. BackInv /\ [BackNext]_backVars => [BeginsAfterEnd]_backVars
  BY BeginsInOrder
<1>2. [][BeginsAfterEnd]_backVars => SlotsAreJoined
  BY PTL DEF SlotsAreJoined, BeginsAfterEnd
<1> QED BY <1>1, <1>2, InitBack, BackStep, PTL DEF BackSpec

LEMMA BackStepWrites == BackInv /\ [BackNext]_backVars => KeepsArchive
<1> SUFFICES ASSUME BackInv, [BackNext]_backVars PROVE KeepsArchive
  OBVIOUS
<1>1. UpgradeInv /\ Daemon \in Program
  BY UpgradeAssumption DEF BackInv
<1>2. CASE UNCHANGED upgradeVars
  BY <1>1, <1>2, UpgradeStepWrites
<1>3. CASE \E p \in Program :
             Start(p) \/ Connect(p) \/ SetPopulate(p) \/ Quit(p) \/ Die(p)
  BY <1>1, <1>3, ProgramKeepsArchive
<1>4. CASE MarkComplete
  <2>1. files' = files /\ (db' = db \/ db' = [db EXCEPT !["main"].populate = "complete"])
    BY <1>4 DEF MarkComplete
  <2>2. /\ db \in [{"main", "old"} -> Database] /\ files \subseteq {"main", "old"}
        /\ "old" \in files => files = {"old"}
    BY <1>1 DEF UpgradeInv, UpgradeTypeOK, OldIsAlone
  <2>3. \A f \in {"main", "old"} : db'[f].archive = db[f].archive
    BY <2>1, <2>2 DEF Database
  <2> QED BY <2>1, <2>2, <2>3 DEF KeepsArchive
<1> QED
  BY <1>1, <1>2, <1>3, <1>4 DEF BackNext, PoolStep, CreateStubs, QueryRows, SeeActive, GiveOut,
    JoinAll, ReadConfig, StartServing, DaemonLeaves, DeleteDoc, ThreadStep, Outside, backVars

\* The documents of earlier years stay while the daemon serves, too.
THEOREM ServedArchiveKept == BackSpec => ArchiveIsKept
<1>1. BackInv /\ [BackNext]_backVars => [KeepsArchive]_upgradeVars
  BY BackStepWrites
<1>2. [][KeepsArchive]_upgradeVars => ArchiveIsKept
  BY PTL DEF ArchiveIsKept, KeepsArchive
<1> QED BY <1>1, <1>2, InitBack, BackStep, PTL DEF BackSpec

------------------------------------------------------------------------------
(* Marks and slots                                                         *)

\* The mark of a slot is reset by the thread that has it, unless none could be
\* created: the round over the slots does not look for a mark that stays.
MarksAreReset ==
  \A s \in Slot : thread_active[s] = 1 => thread[s].at \in {"begin", "save", "clear"} \/ Lost(s)

\* A pool begins with no marks and no threads.
FreshPool ==
  pool \in {"off", "stubs"} => \A s \in Slot : thread_active[s] = 0 /\ thread[s] = Gone

MarkInv == MarksAreReset /\ FreshPool

LEMMA ThreadMarks ==
  ASSUME BackInv, MarkInv, NEW s \in Slot, ThreadStep(s)
  PROVE  MarkInv'
<1>1. /\ thread \in [Slot -> Thread] /\ thread_active \in [Slot -> {0, 1}]
      /\ \A r \in Slot : r # s => thread'[r] = thread[r] /\ thread_active'[r] = thread_active[r]
  BY ThreadMoves DEF BackInv, PoolInv, PoolTypeOK, ThreadStep, HashImage, SavePhash,
    ClearActive, EndThread
<1>2. pool \notin {"off", "stubs"} /\ pool' = pool
  BY ThreadMoves DEF MarkInv, FreshPool, Running, Gone
<1>3. thread_active'[s] = 1 => thread'[s].at \in {"save", "clear"}
  <2>1. CASE HashImage(s)
    BY <1>1, <2>1 DEF HashImage, Thread
  <2>2. CASE SavePhash(s)
    BY <1>1, <2>2 DEF SavePhash, SetThread, Thread
  <2>3. CASE ClearActive(s)
    BY <1>1, <2>3 DEF ClearActive
  <2>4. CASE EndThread(s)
    BY <1>1, <2>4 DEF EndThread, MarkInv, MarksAreReset, Lost
  <2> QED BY <2>1, <2>2, <2>3, <2>4 DEF ThreadStep
<1> QED BY <1>1, <1>2, <1>3 DEF MarkInv, MarksAreReset, FreshPool, Lost

LEMMA PoolMarks ==
  ASSUME BackInv, MarkInv, PoolStep
  PROVE  MarkInv'
<1>1. /\ thread \in [Slot -> Thread] /\ thread_active \in [Slot -> {0, 1}]
      /\ pool # "finish" => thread_pointer \in Slot
  BY DEF BackInv, PoolInv, PoolTypeOK, PlaceInv
<1> USE DEF MarkInv, MarksAreReset, FreshPool, Lost
<1>2. CASE CreateStubs
  BY <1>2 DEF CreateStubs
<1>3. CASE QueryRows \/ SeeActive
  BY <1>3 DEF QueryRows, SeeActive, NextRow
<1>4. CASE GiveOut
  <2>1. /\ thread_active' = [thread_active EXCEPT ![thread_pointer] = 1]
        /\ \E t : /\ thread' = [thread EXCEPT ![thread_pointer] = t]
                  /\ t.at \in {"begin", "joined"}
        /\ pool = "wait"
    BY <1>4 DEF GiveOut, Gone
  <2>2. pool' \in {"wait", "finish"}
    BY <1>4 DEF GiveOut, NextRow
  <2> QED BY <1>1, <2>1, <2>2
<1>5. CASE JoinAll
  <2>1. ~Running(thread_pointer) /\ UNCHANGED <<thread_active, pool>> /\ pool = "finish"
    BY <1>5 DEF JoinAll, Joinable
  <2>2. thread' = [thread EXCEPT ![thread_pointer] = Gone]
    BY <1>5 DEF JoinAll
  <2> QED BY <1>1, <2>1, <2>2 DEF Running, Gone
<1>6. CASE MarkComplete
  BY <1>6 DEF MarkComplete, PoolOff
<1> QED BY <1>2, <1>3, <1>4, <1>5, <1>6 DEF PoolStep

LEMMA MarkStep == BackInv /\ MarkInv /\ [BackNext]_backVars => MarkInv'
<1> SUFFICES ASSUME BackInv, MarkInv, [BackNext]_backVars PROVE MarkInv'
  OBVIOUS
<1>1. ASSUME thread' = thread, thread_active' = thread_active,
             pool' = pool \/ (pool' = "stubs" /\ pool = "off")
      PROVE  MarkInv'
  BY <1>1 DEF MarkInv, MarksAreReset, FreshPool, Lost
<1>2. CASE StartServing
  <2>1. pool = "off"
    BY <1>2 DEF StartServing, BackInv, PoolInv, LifeInv
  <2> QED BY <1>1, <1>2, <2>1 DEF StartServing
<1>3. CASE DaemonLeaves
  BY <1>3 DEF DaemonLeaves, PoolOff, MarkInv, MarksAreReset, FreshPool
<1>4. CASE ReadConfig \/ Others \/ UNCHANGED backVars \/ \E d \in Doc : DeleteDoc(d)
  <2>1. UNCHANGED poolVars
    BY <1>4 DEF ReadConfig, Others, backVars, DeleteDoc
  <2>2. thread' = thread /\ thread_active' = thread_active /\ pool' = pool
    BY <2>1 DEF poolVars
  <2> QED BY <1>1, <2>2
<1> QED BY <1>2, <1>3, <1>4, ThreadMarks, PoolMarks DEF BackNext

\* The safety half of PopulationEnds, for any number of documents and slots,
\* failed creations, deletions and deaths.
THEOREM MarksHaveThreads == BackSpec => []MarksAreReset
<1>1. BackInit => MarkInv
  BY DEF BackInit, MarkInv, MarksAreReset, FreshPool
<1>2. MarkInv => MarksAreReset
  BY DEF MarkInv
<1> QED BY <1>1, <1>2, InitBack, BackStep, MarkStep, PTL DEF BackSpec

\* SlotInArray, which does not hold of every machine, holds of those with no
\* more processors than the arrays have elements.
THEOREM SlotsFit ==
  ASSUME Processors <= MAX_THREADS
  PROVE  BackSpec => []SlotInArray
<1>1. \A s \in Slot : s < MAX_THREADS
  BY PoolAssumption DEF Slot, avail_processors
<1>2. BackInv => SlotInArray
  BY <1>1 DEF BackInv, PoolInv, PlaceInv, SlotInArray
<1> QED BY <1>2, InitBack, BackStep, PTL DEF BackSpec

\* The daemon's own work leaves the locks of DbUpgrade as they are, so its
\* threads too wait only for a program that will go on.
THEOREM ServedLockHasHolder == BackSpec => [](LockHasHolder /\ OneScriptAtATime)
<1>1. BackInit => LockInv
  BY InitLock DEF BackInit
<1>2. BackInv /\ LockInv /\ [BackNext]_backVars => LockInv'
  <2> SUFFICES ASSUME UpgradeTypeOK, LockInv, [BackNext]_backVars PROVE LockInv'
    BY DEF BackInv, UpgradeInv
  <2>1. CASE UNCHANGED <<lock, writer, pc>>
    BY <2>1 DEF LockInv, LockHasHolder, WriterInv
  <2>2. CASE \E p \in Program :
               Start(p) \/ Connect(p) \/ SetPopulate(p) \/ Quit(p) \/ Die(p)
    BY <2>2, ProgramLocks
  <2> QED
    BY <2>1, <2>2, UpgradeAssumption DEF BackNext, PoolStep, CreateStubs, QueryRows, SeeActive,
      GiveOut, JoinAll, MarkComplete, ReadConfig, StartServing, DaemonLeaves, DeleteDoc,
      ThreadStep, Outside, backVars, upgradeVars
<1>3. LockInv => LockHasHolder /\ OneScriptAtATime
  BY DEF LockInv, WriterInv, OneScriptAtATime
<1> QED BY <1>1, <1>2, <1>3, InitBack, BackStep, PTL DEF BackSpec
===============================================================================
