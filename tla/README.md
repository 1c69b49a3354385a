# openDias in TLA+

This directory is a verification development of openDias, a document archive: a daemon with an embedded
web server, a SQLite database, scanners driven through SANE, and a directory of page images. The modules
are translated from the C code in `src/`; the properties are about what is hard to test in it - threads and
processes that overlap, workers that crash, steps that fail half way.

Paths below are those of the repository (`src/scan.c` is the C file, `API` the description of the requests).

## 1. The system

### Processes and threads

* **The daemon** (`src/main.c`). libmicrohttpd serves every request on *one* thread
  (`MHD_USE_SELECT_INTERNALLY`, main.c:411), so request handlers never overlap each other; they overlap
  everything else. The *web thread* also asks SANE for the list and the details of scanners.
* **Scanning threads** (`doScanningOperation`, pageRender.c): one detached thread for each page of a scan.
* **Workers** (`src/opendias_worker.c`): a child process for every use of SANE, because backends crash. It
  opens the database itself and writes the progress, the document and the page images of a scan.
* **Back-population threads** (`src/backpopulate.c`), which compute the phash of old documents.
* **opendiasconfig**, a command line tool that opens (and upgrades) the same database.

They share the database (tables `docs`, `scan_progress`, `scan_params`, `doc_links`, tags, users), the directory
`scans/`, and the directory `/tmp/opendias.db.lock` that serialises statements across processes.

### Components

| component | state | operations | correct when | hard because |
|---|---|---|---|---|
| database lock (`db.c`) | `connectingInUse` per process, the lock directory, the last row id of each connection | take, run a statement, give back, `last_insert`; processes start, exit, die; the daemon removes the directory at start | statements never overlap; the flag is never left set; the row id is the caller's | unprotected test-and-set, death inside the lock, row id read outside it |
| SANE dispatcher (`saneDispatcher.c`) | `inLongRunningOperation`, `deviceListCache`, one pipe and child per call | `send_command`: busy test, flag, pipe, fork, wait, read, reset, cache | a refusal has a cause; every call returns; one scan at a time | the flag is shared by all callers without protection; pipes are inherited by later children; children crash |
| shutdown (`main.c`) | the flag, what is still running | stop serving, wait for SANE, close | stops; leaves nobody behind | looks only at the flag |
| scan job (`pageRender.c`, `scan.c`, `dbaccess.c`) | progress row, parameters, document, page images, per-worker page and docid | `doScan`, `nextPageReady`, the worker's chain of steps, the thread's end | one thread per scan; what the client is told is saved; pages in order; scans do not mix; every scan settles | request, thread and worker write the same rows; every step may fail |
| sessions and users (`sessionmanagement.c`, `pageRender.c`) | list of sessions with keys, `user_access` | look-up, creation, expiry, login, logout, update, delete | a session acts for one login at a time, until logout or expiry; users change at the hands of those who may | entries are lists with duplicates; users change while logged in |
| web requests (`web_handler.c`) | client counter, `con_info` of each connection | first callback, upload, last callback, completion | the counter returns to zero; a session pointer is alive when used | callbacks of connections interleave on one thread; no request has to hurry |
| document store (`doc_editor.c`, `pageRender.c`, `import_doc.c`, `dbaccess.c`) | docs, tags, links, files | import, edit, tag, link, delete, search | rows and files agree | deletions are many statements and files; row ids are used again |
| one page (`scan.c`, `scanner.c`) | the options of the device, what was read of the page | `setOptions`, `sane_start`, `collectData` | the options hold when the scan starts; the page is read to its end, inside its image; it ends | options change each other, every call may fail, reads are cut anywhere |
| back-population (`backpopulate.c`) | slots, threads, a flag in `config` | start, join, finish | every document done before the flag | slot arithmetic, joins, exits and deletions in between |
| database upgrade (`db.c`, `sql/`) | version, scripts | open, create, upgrade | scripts in order, each once; no document is lost | two processes, deaths, failing or missing scripts |

The remaining parts (validation, linked lists, localisation, logging, image, OCR, PDF and ODF plug-ins, the
JavaScript client) are listed in PROJECT.json with the reason they are modelled in part or not at all.

How they interact: a request enters `answer_to_connection`, which finds the session and the role, validates the
post data, and calls one handler. `doScan` and `nextPageReady` write the progress row and create a thread; the
thread calls `send_command`, which forks a worker; the worker reads the parameters, drives the scanner, writes
rows and files and exits; the thread reads the worker's answer from a pipe and marks the scan when it was
refused. The client learns all this by polling `scan_progress`. Every row access goes through the database lock.

## 2. Modules

| module | models | builds on |
|---|---|---|
| `Mutex` | what the database lock promises | |
| `DbLock` | `wait_for_connection_lock`, the statement, `free_connection_lock`, `last_insert`, processes | refines `Mutex` |
| `DbLockProofs` | theorems about `DbLock` | |
| `SaneDispatcher` | `send_command` for the web thread and scanning threads | |
| `SaneDispatcherProofs` | theorems about it | |
| `SaneShutdown` | `server_shutdown` and `waitForSaneProcesses` | composed with `SaneDispatcher` |
| `ScanJob` | `doScan`, `nextPageReady`, the scanning thread, `internalDoScanningOperation` and the rows they share | composed with `SaneDispatcher` |
| `ScanView` | a scan as its client sees it | refined by `ScanJob` |
| `ScanJobProofs` | theorems about `ScanJob` | uses those of the dispatcher |
| `PageCapture` | `setOptions`, the start of a scan and `collectData`, with any device | |
| `DbUpgrade` | `connect_db` in the daemon and opendiasconfig | |
| `Backpopulate` | the start of the daemon and the pool of `backpopulate_phash_inner` | extends `DbUpgrade` |
| `DocStore` | documents, tags, links and page files: uploads, edits, deletions, searches, and a scan that writes at the same time | refines `DocView` |
| `DocView` | documents, tags and links as the readers of the store see them | |
| `Sessions` | callbacks of web requests, sessions, login and logout, users | |
| `PageCaptureProofs`, `DbUpgradeProofs`, `DocStoreProofs`, `SessionsProofs` | theorems about each | |
| `BackpopulateProofs` | theorems about `Backpopulate` | uses those of the upgrade |
| `MC...` | instances for TLC | |

### DbLock

One value of `pc` for each point of db.c where a thread can be overtaken: the loop on the flag (`spin`), between
loop and assignment (`claim`), the loop on `mkdir`, the statement, between resetting the flag and `rmdir`, and the
read of the row id outside the lock (`rowid`). `inUse` is a variable of each process, `lockDir` one of the
system. Processes start (`Spawn`), exit between statements, and die anywhere (`Mortal` names the ones that may);
a daemon that starts again removes the directory (`Restart`). `QuietRestart` says that no orphaned worker is inside the
lock at that moment. The code does not look: with `QuietRestart = FALSE` in `DbLock_All.cfg` TLC finds MutualExclusion and
the refinement of `Mutex` violated after a crash and a restart. The claim the project makes, and proves, is the one under the assumption.

`Inserter` says which threads run INSERTs. In the daemon only the web thread does (back-population updates rows),
and a worker has one thread; the assumption that no two inserters share a connection is what makes `last_insert`
safe, and the mutant that drops it shows so.

### SaneDispatcher and SaneShutdown

Each caller goes through check, lock, pipe, fork, wait, read, unlock, cache, return. The flag is tested and set in
different steps; details requests skip the test; whoever ends resets the flag. `inherited` and `pipeOpen` track who
holds the write end of which pipe, since the read of an answer ends only when nobody does. A worker ends with an
answer or without (`WorkerMayDie`); `pipe` and `fork` may fail (`ForkMayFail`). The answer "(null)" of a worker that
could not build one counts as an answer. `Query` names the commands the web thread may send (`Scan_Two` uses the details
only, which is the one that ignores the flag). SaneShutdown adds the thread that stops the web server, waits for the
flag and closes; since the flag says little about the workers, one may outlive the daemon, and nothing claims it does
not.

### ScanJob

The rows of a scan are functions of its uuid (`status`, `value`, `requested`, `docOf`, `onPage`), documents a sequence
indexed by docid. Every database call is one step: DbLock shows that calls do not overlap. `doScan` is one step,
since nobody else knows the uuid before it answers; `nextPageReady` is three (read the status; create the thread; set
the status), since threads and workers run in between. The worker does its parts in the order of
`internalDoScanningOperation`, each with the progress it reports; `value` is kept only where a client acts on it (the
page to put into the scanner, the document that is finished) and is 0 otherwise. `setOptions` may fail at any
option, which also covers the variable it reads uninitialised. The build is the one with OCR and phash. Statements
that fail are modelled in DbLock and not here.

`ScanView` is what remains when threads, workers, the dispatcher and the tables are taken away: pages are saved one at a
time while an answer is waited for, and "next" and "finished" are true of what is saved. The refinement maps `saved` to the
pages whose text is in the document (`SavedPages`; the text is what `ocrImage` appends last) and `answer` to what the status
tells (`Told`). Two things had to be allowed that one would rather forbid: a page that was accepted may be refused
later (`TellFailed` after "next"), and an answer may be overwritten by the request for the page (`Wait`; `Scan_Current`).

### PageCapture

The program's side of a capture is the loop of `setOptions` - which options are left alone, set, chosen by the device, or
end the scan - and the tries of `sane_start` and reads of `collectData`. The device is a constant record: the kind of each
option (what the program does with it), the options it changes (`disturbs`) and activates (`wakes`), and those after which
it asks for a reload, always when other options changed (`ObeysSane`; SANE asks that of a backend). `held` says which
options have the value wanted. What the values are is left out. `status` is the C variable, which is checked after an option
that did not assign it: before the first one it may be anything, so the check may fail (`GarbageFails`). Bytes are counted
one by one with a `Chunk` of 2 for 32768.

`setOptions` ends only with devices that are `Polite`; `CaptureEnds` says so in its premise, since nothing in the code
limits the restarts. `StaysInside` leaves out images smaller than the first request, for which the code relies on the
device not to send more than the image holds.

### DbUpgrade and Backpopulate

Each program that calls `connect_db` looks for the database, renames the one v0.8 put elsewhere, opens or creates it, reads
its version and runs the scripts from there. What a script is made of is reduced to the scripts whose tables and columns it
needs (`SqlNeeds` in MCBackpopulate, read from `src/sql`) and to the fact that none of them can be run twice. A script is
a transaction: `BeginWriting` and `Commit` or `Break` are its first write and its end. `Break` leaves the transaction open, as
`sqlite3_exec` does, and with it SQLite's write lock (`writer`), until the program ends; `connect_db` then returns 1 and the
programs exit. `lock` is the directory of `db.c`: "left" when its owner died.

`Backpopulate` adds what the daemon does next: `ReadConfig`, `StartServing`, and the pool with one step for each place a
thread of it can be overtaken. `thread_active` is the array the code polls; `thread` is the thread a slot's handle stands
for, which has ended only after it reset the mark. A `pthread_create` that fails leaves the mark set (`Lost`), and the slot is
never used again. The pool is killed with the daemon wherever it is, since `server_shutdown` does not wait for it.
Requests that delete documents come in between.

### DocStore

A request is the list of calls its handler makes (`todo`), one statement or file each, in the order of the code:
`DoDelete` fills it with the unlinks of all pages, then `removeDocTags`, the two statements of `removeDocLinks` and
`removeDoc`. The web server is one thread, so requests do not overlap; a scan (its row, then image and text of each page)
advances between any two calls, and the daemon or the worker may die there (one death in a run). `interrupted` names the
documents such a death left half way; properties about files and links exempt them, `TagRowsHaveTag`, `SearchFinds`
and `NewDocIsBlank` do not. A document id is one more than the largest in use, as SQLite gives them, so ids come back.

`CarefulClient` says that requests come from the pages in `src/webcontent`, which do not send a tag a document already
has, offer only documents that exist and are not linked yet (`titleAutoComplete`), and do not delete the document they
scan. The daemon checks none of this, and without it `SearchFinds` and `ImagesHaveDocument` do not hold.

`DocView` is what remains without tables, calls and files: a set of documents, the tags they have, a symmetric relation of
links, and requests that change them at once. The refinement maps it to the tables as they will be when the calls in `todo`
have been made (`DocsAfter`, `TaggedAfter`, `LinkedAfter`); so a request is seen when its handler begins, which is
right because its answer comes after its last call and no other handler runs before. What one would rather forbid and
has to allow are deaths: a deletion that leaves its document with some of its tags and links (`HalfRemoved`), and a link
with one of its rows (`HalfLinked`). That nothing else is ever left is the point of the refinement.

`DocFilter` models a search by text and tags with the values in the order in which the code binds them: with both, the text
is compared with the count of tags, and `SearchFinds` says that nothing is found then (`API`:278 speaks of documents "that fit a
specific set of criteria"). What is left out: dates, the "action required" criterion, sorting and paging, phash, OCR text, `extractThumbnail`, failing statements.

### Sessions

The callbacks of a request are `Open` (sessions too old are cleared, the session of the cookie is found or made, the
client is counted when it posts), one of the requests or `Serve` (any other), and `RequestCompleted`, which also comes
when the client goes away before the answer. In between, callbacks of other connections run. The entries of a session are
a sequence, because the code keeps them in a linked list that may hold a key twice. Time is idle time, one tick a step;
ages are counted to one more than the limit that is tested.

A request may take any time: the daemon sets no timeout for connections, and nobody but other requests clears sessions.
`con_info` keeps a pointer, so a POST slower than `MAX_AGE` can be left with a session that was freed (`~Intact`), and its
last callback then reads that memory (`UseFreed`). What the program does afterwards the code does not define; the model
stops there (`broken`). `SessionOutlivesRequest` says that this is the only way to lose a session: whoever is no older than
`MAX_AGE` has the session it began with, whatever other connections do meanwhile.

`checkLogin` takes a login from anybody, also on a session that has one, and appends its name and role behind those that are
there; `doLogout` removes the first entry of each key. `logins` is the history of this: the logins of a session, oldest first,
one less for every logout. `SessionActsForOldest` is what the code really does - a session acts for the oldest login left, and
never for the name of one with the role of another. The API says otherwise (a login assigns its role to the session, a
logout removes what is specific to the user), which `LoginTakesHold` states and `Sessions_Second` refutes: after two
logins and a logout the session acts for the second user. `LoginTakesHold` also fails, with `MaxSessions = 1` there,
when a login comes without a session, because there are too many: it is answered OK and nothing is kept.

The list of sessions starts with an element whose key is a placeholder; a cookie with that name would be taken for a
session. It is not modelled: cookies name ids the daemon gave, or nothing.

## 3. What the runs check

| run | module | result | shows |
|---|---|---|---|
| `DbLock_All` | MCDbLock | holds | MutualExclusion, FlagHasOwner, InsertedRowIsLast, refinement of Mutex, SomebodyGetsIn |
| `Dispatch_All` | MCSaneShutdown | holds | BusyHasCause, CallReturns, StopsWhenTold |
| `Dispatch_Second` | MCSaneShutdown | violated | OneScanAtATime: two scans that start together |
| `Scan_One` | MCScanJob | holds | OneThreadPerScan, AnnouncedPagesSaved, TextInOrder, ScanSettles with all failures |
| `Scan_Two` | MCScanJob | holds | refinement of ScanView, AnnouncedPagesSaved, OwnDocument with two scans |
| `Scan_Current` | MCScanJob | violated | StatusIsCurrent: a status set after the thread was created |
| `Capture_All` | MCPageCapture | holds | OptionsHold, StaysInside, PageIsWhole, CaptureEnds |
| `Docs_All` | MCDocStore | holds | TagRowsHaveTag, LinksBothWays, ImagesHaveDocument, PagesArePresent, SearchFinds, OffersUnlinked, NewDocIsBlank, refinement of DocView |
| `Sessions_All` | MCSessions | holds | SessionsTypeOK, ClientsCounted, SessionOutlivesRequest, SessionActsForOldest, UsedSessionStays |
| `Sessions_Second` | MCSessions | violated | LoginTakesHold: a logout after two logins leaves the second one |
| `Start_All` | MCBackpopulate | holds | BackTypeOK, VersionIsHonest, ReadyIsUpgraded, CompleteMeansDone, ArchiveIsKept, SlotsAreJoined, StartEnds, PopulationEnds |
| `Pool_Slots` | MCBackpopulate | violated | SlotInArray: the fourth slot of three |

The type invariants of the modules without one in this table are only proved (section 4).

**Bounds.** Two threads in the daemon and one in a worker are enough for both parts of the lock to matter: two
threads can race on the flag while a third holds the directory from another process. Two scanning threads and the
web thread give every pair of commands, and a third that inherits the pipe of both. In `Scan_One` a scan of two pages meets every
failure, with SANE queries in between (the details, which ignore the flag); a thread of the next page can overlap the thread of the page before it. In
`Scan_Two` a scan of three pages has a first, a middle and a last one (`MaxPages` is 20 in validation.c), and another of one
page overlaps it anywhere, so documents and parameters could mix; there nothing fails, and images are claimed as well.

`Docs_All` has two document ids (`MaxDoc`), two tags and scans of up to two pages: two documents can be linked and share a
tag, an id is given again after a deletion, and a page may be the first or the last. `MaxRepeat` bounds equal rows, a title
can be set for one document (`Retitled`), a PDF is uploaded under one id (`Pdfs`), and one process dies. `Sessions_All` has two connections, two session ids and
two users; with `MaxSessions = 1` both sessions fit (the code compares with `>`) and a third request goes without one;
`MaxAge` is 1, so a session, and a request, can be younger than, exactly at and beyond the limit; `RetryThrottle` is 0, so a
second try comes too soon or a tick later. Logins that were not logged out are at most two at a time (`MaxLogins`), on one session or
on two, of one user or of two, whose role is that of an editor or the one users are created with. `Sessions_Second` has `MaxSessions = 2`, so
that no request goes without a session and the second login is what is found.

`Capture_All` has every device of three options in two families: options of any kind that activate each other forwards and
backwards, and options with values that change each other, in circles or not; an option is before, at and behind the one
that makes the loop start over. A page of 1 is smaller than the first request and one of 5 takes three; the image is
empty, shorter or longer than the parameters say. Two tries for five, one read without data at a time.

`Start_All` starts from no database or one of version 6, in the right or the old place, with all seven scripts, or from no
database without the fourth; the daemon starts twice and opendiasconfig once, so that an upgrade meets another, a half-done one, and a
finished one. Version 6 has one script to run, 0 all of them. Three documents on two slots make a slot be given out
again; one of them cannot be hashed, one (`Deletable`) may be deleted, and one failed
`pthread_create` happens anywhere. Four processors
are the fewest with which `Pool_Slots` leaves the arrays.

The symmetry sets are permutations of scanning threads, of tags, and of connections and session ids, none of which the
modules tell apart; the runs that use them check no liveness.

**Fairness.** Threads inside a call keep running (weak fairness of each thread's next step); nobody is obliged to send
a request, to create a thread, or to die. A worker ends: SANE returns an error when a device does not answer, or the
process crashes. A thread that waits for the lock is not promised to get it (`SomebodyGetsIn` is about somebody).
Programs that start go on to connect (`FairBack`), and a program that failed or did its
work exits; nobody has to start. The threads of the pool and the pool itself run: they are plain threads that sleep and join.
They do wait for the database lock, which a death may leave behind, and StartEnds and PopulationEnds exempt exactly
that. A capture is one process that does nothing else (`FairCapture`); devices answer each call. `StopsWhenTold` assumes that signals reach the main thread, as they do when they are sent to the process.

**The violated ones** are disagreements between the code and its own comments, tests or API text; PROJECT.json quotes
both under `findings`.

## 4. What is proved

Theorems hold for every value of the constants; they assume only the `ASSUME` of each module and the hypotheses named below.
`QuietRestart` and `CarefulClient` are choices the runs make too; `SearchesFind` takes a finite set of
tags, `ReportsAreTrue` workers that do not crash, `SlotsFit` few enough processors. Every invariant, action property
and refinement of a passing run is a theorem, in its run's words; PROJECT.json lists which.

### Invariants and refinements

* `DbLockProofs`: `TypeCorrect`, `Exclusive`, `NoStuckFlag`, `OwnRow`, `Refinement`. `MutualExclusion` alone is not
  inductive: a thread that leaves `mkdir` must know that nobody else holds, which is what `DirInv` adds (whoever holds
  has the directory in place). It needs `QuietRestart`.
* `SaneDispatcherProofs`: `TypeCorrect`, `RefusalsHaveCause`. With the types, `BusyHasCause` is inductive as it stands: the
  command that tested the flag too early still sets it before its own reset. `ShutdownUsesDispatcher` and `ScansUseDispatcher`
  (in `ScanJobProofs`) show that shutdown and scans add to the dispatcher without changing it, so its invariants hold there
  too: `ShutdownHasCause` is the one `Dispatch_All` checks.
* `ScanJobProofs`: `ScanTypeCorrect`, `OneThread`, `DocumentsApart`, `PagesInOrder`, `ToldIsSaved`, `ScanIsViewed`.
  `OneThreadPerScan` needs `HandInv`: a scan whose status asks for the next page, or for which `nextPageReady` was accepted
  and has not yet made its thread, is in nobody's hands; a running worker has a caller that waits for it. On it rests
  `SaveInv`, which says for every step of a worker what its document holds (`Stage`: up to date before the page is recorded,
  a fresh document nobody knows, then the page's own image and text, in this order), and that a scan that is worked on is
  said to be worked on (`StatusInv`). `OwnDocument`, `TextInOrder` and `AnnouncedPagesSaved` are parts of it, since none
  holds by itself: a later page is appended to what was announced before. `ScanIsViewed` is the refinement of `ScanView`:
  `updateNewScannedPage` is its `SavePage`, and all other steps change the answer or stutter.
* `DocStoreProofs`: `RowsHaveTags`, `NewDocsAreBlank`, `LinkedBothWays`, `SuggestionsAreRight`, `NoImageIsLeft`,
  `PagesCanBeShown`, `DocTypeCorrect`, `SearchesFind`, `StoreIsViewed`, `NoLooseRows`. What the tables say is not inductive: that a tag row can be added
  follows from the call before it (`TagIsLookedUp`), and that a document without a row has no tags and links from the
  order of the calls a deletion has yet to make (`RowGoesLast`) and from the documents additions are meant for
  (`AddsToDocs`). `NewDocsAreBlank` needs `CarefulClient`: the daemon itself adds tags to documents that do not exist.
  For links, `LinkInv` says what the next call will even out: the table of links after that call (`LinksAfter`) has both
  rows of every link, and only the documents the call touches may lack one before it; the suggestions follow from it.
  For files, `FileInv` ties a file to the row of its document, to the calls that are still to bring or remove it, and to the
  page a scan is at: an image has a page (`NoStrays`), and a page has an image (`AllThere`). Both theorems need
  `CarefulClient`, so that nobody deletes the document that is being scanned, and that a new id is not in use, which
  is `NextIsFresh` (the greatest element of a bounded set of numbers exists).
  The type invariant bounds the number of equal rows, and that is not inductive either: whether there is room for a row is
  decided when the request begins, and the row is added some calls later. `RoomInv` says that there is room for the rows still
  to be added, also for the two equal rows of a document linked to itself.
  `SearchesFind` rests on what `docFilter` relies on (`TagSearchExact`): it counts the rows of the tags it looks for and compares with the
  number of tags, which finds the documents with *all* of them only while no row is there twice. That takes `MostRows = 1`,
  hence `CarefulClient`, and that the sum over a finite set of tags is the number of tags a document has
  (`FoldCounts`, by a smallest counterexample, since induction over a set is out of reach).
  `StoreIsViewed` is the refinement of `DocView`. Its steps are a request (seen at once), a scan that inserts a document, and
  a death; the calls in between stutter (`CallIsStutter`), since each does what the mapping already says. That fails for a row
  that is added while one of the same document is to be removed, so it needs `OneThing`: the calls left that matter are for
  one deletion, one tag or one link. A death takes the calls away (`DeathIsSeen`): what is left of a deletion is about
  its own document, which is still there, because the row goes last (`BlankInv`). From the refinement follows
  `NoLooseRows`: no row of `doc_tags` or `doc_links` is about a document that is not there. It needs `CarefulClient` too.
* `SessionsProofs`: `SessionIsThere`, `UsedSessionsStay`, `CounterIsRight`, `ActsForOldestLogin`, `OnlyEditors`,
  `SessionsTypeCorrect`, for any pace of the clients and any number of logins on a session. A session in the hands of a
  request has been idle no longer than the request has run (`HeldIsCovered`); so when another request clears it, the
  request is already too slow, and since ids are never given twice (`IdsAreSpent`) it does not get another session instead.
  `BrokenBySlow` is the same for the memory that was used after that. For `ActsForOldestLogin` the entries of a session
  have a shape (`Shape`): name and role of each of its logins, oldest first, and behind them one failed attempt at most. `OldestShows`
  says what the search for a key finds in it, `ClearedShape`, `LoginShape` and `LogoutShape` that the requests keep it.
  `OnlyEditors` (who may change users) rests on it and has no run. `SessionsTypeCorrect` adds the bounds (`LimitInv`).
* `PageCaptureProofs`: `CaptureTypeCorrect`, `ValuesHold`, `ImageIsEnough`, `PagesAreWhole`. That every option holds when
  the scan starts needs `PassedHold`: the active options the loop has passed hold their values, because an option that
  disturbs or wakes others makes the loop start over (`ObeysSane`). `BufferInv` says how large the next read is when
  bytes are still to come, and `TriesInv` that the device is asked only while tries are left.
* `DbUpgradeProofs`: `UpgradeTypeCorrect`, `HonestVersion`, `UpgradedWhenReady`, `ArchiveKept`, and `Forward`, the version
  never going back, which has no run. What a program read as the version, however stale, is that of a state the database
  has passed through, so the script it is at has run or is the next one (`MayBeAt`, `LoopCounts`). While the database is
  where v0.8 put it, nobody has come further than renaming it (`OldIsAlone`). `ScriptsOneByOne` shows why two programs may
  upgrade at once although the daemon removes the lock of whoever is inside: SQLite's own write lock (`WriterInv`) keeps
  scripts apart. For it the value that stands for nobody must not be a program (`UpgradeAssumption`).
* `BackpopulateProofs`: `BackTypeCorrect`, `CompleteIsDone`, `JoinedFirst`, and the theorems of `DbUpgradeProofs` again with
  the rest of the daemon's life around them. `CompleteMeansDone` needs `MissingIsCovered`: a document that still needs its
  hash is among the rows to come, the row at hand, or in the hands of a thread. `JoinedSoFar` carries this through the
  last joins, `NotYetComplete` says that only the pool marks the setting, and `LifeInv` ties the pool to the daemon
  that owns it.

### The safety half of liveness

TLAPS cannot prove liveness. What can go wrong with it in this code is mostly that somebody waits for nobody, or for
somebody who waits in turn, or that a loop makes no headway. That is a matter of states and steps, and it is proved:
each row names what the rest of the liveness property, that those who can go on do so, then builds on.

| liveness (run) | theorem | says |
|---|---|---|
| SomebodyGetsIn (`DbLock_All`) | `NoDeadlock` | whoever waits for the lock, somebody can go on, unless a process died inside |
| CallReturns (`Dispatch_All`) | `WorkersHoldUpCalls` | a call waits for running workers only, its own and those that inherited its pipe (`PipeInv`) |
| StopsWhenTold (`Dispatch_All`) | `ShutdownHasCause` | the flag shutdown waits for is set by a command in progress, if no fork failed |
| ScanSettles (`Scan_One`) | `LastWordIsWritten` | a thread leaves a scan with a last word for the client, or after a crash of its worker |
| CaptureEnds (`Capture_All`) | `LoopGoesOn`, `OtherLoopsGoOn` | `setOptions` starts over only for a value gained; no read asks for nothing |
| StartEnds (`Start_All`) | `HeldLockHasHolder`, `ServedLockHasHolder` | a lock that is held has a holder that goes on |
| PopulationEnds (`Start_All`) | `MarksHaveThreads` | a mark has a thread that will reset it, or never had one (`pthread_create` failed) |

### What is true of the violated properties

`SlotsFit`: `SlotInArray`, which `Pool_Slots` finds violated, holds on machines with no more processors than `MAX_THREADS`.
`ReportsAreTrue`: while no worker crashes, a scan that is said to be scanned, converted, recognised or hashed has a worker
at it; what `Scan_Current` finds is the status before the worker's first word. `ActsForOldestLogin`: whom a session acts for
instead of the user `LoginTakesHold` expects.

### Only model-checked

The liveness properties themselves, and the counterexamples to `OneScanAtATime`, `StatusIsCurrent`, `LoginTakesHold` and
`SlotInArray`. That the loop of `setOptions` comes to an end also needs the order of options that disturb each other, a
well-founded induction over the device, which the provers here do not do.

## 5. Plan

1. Done: the lock, the dispatcher, shutdown, the scan job and its view, the capture of a page, the document store, sessions
   and requests, start-up, upgrade and back-population; every invariant the runs check is proved, and the safety half
   of every liveness property; the lock, the scan and the store refine their abstract specifications.
2. Models: the upload of post data between the first and the last callback of a request; dates, sorting and paging of
   `docFilter`; documents that are added while a back-population runs.

## 6. Not modelled

The content of images and text, formatting of answers, localisation, logging, the external libraries (Leptonica,
Tesseract, Poppler, pHash, libarchive), the JavaScript client beyond the requests it sends, build scripts and contrib.
Request validation is a table of fields and checks of their characters: the models take requests that pass it. The lists of
scanners and their details are read from devices and laid out as XML, with no state beyond the cache of the dispatcher.
Signals are not modelled, nor a shutdown in the middle of a back-population other than as its end.
