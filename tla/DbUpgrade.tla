------------------------------ MODULE DbUpgrade ------------------------------
(***************************************************************************)
(* connect_db of src/src/db.c: finding, creating and upgrading the         *)
(* database with the numbered scripts of src/sql, as the daemon            *)
(* (src/src/main.c) and opendiasconfig do it when they start, possibly at  *)
(* the same time.  A script is a transaction that SQLite commits or rolls  *)
(* back as a whole; programs may fail, exit or die between any two steps.  *)
(***************************************************************************)
EXTENDS Integers

CONSTANTS
  Program,        \* processes that call connect_db
  Daemon,         \* the one of them that is the daemon
  DB_VERSION,     \* the version this program wants (7 in configure.ac)
  Needs,          \* Needs[k]: the scripts whose tables and columns script k uses
  Installations,  \* sets of scripts that may be installed
  FoundVersions,  \* with each, versions of the database found at first, 0 when there is none
  MaxStarts,      \* bounds on the starts of each program
  Mortal,         \* programs that may die at any point
  ScriptMayFail   \* can a script fail for a reason of its own (a full disk)?

Script == 1 .. DB_VERSION

Nobody == "nobody"   \* no program

ASSUME UpgradeAssumption ==
  /\ Daemon \in Program
  /\ Nobody \notin Program
  /\ DB_VERSION \in Nat \ {0}
  /\ Needs \in [Script -> SUBSET Script]
  /\ \A k \in Script : Needs[k] \subseteq 1 .. (k - 1)
  /\ Installations \subseteq SUBSET Script
  /\ FoundVersions \in [Installations -> SUBSET (0 .. DB_VERSION)]
  /\ MaxStarts \in [Program -> Nat]
  /\ Mortal \subseteq Program
  /\ ScriptMayFail \in BOOLEAN

VARIABLES
  installed,  \* the scripts in SHARE_DIR (they do not change)
  files,      \* which database files exist: "main", and "old" in the place v0.8 used
  db,         \* what is in each of them
  lock,       \* /tmp/opendias.db.lock: "free" when it does not exist, "held", or
              \* "left" there by a program that died
  writer,     \* the program that holds SQLite's write lock, or Nobody
  pc,         \* where each program is, "off" when it does not run
  script,     \* its i, the script to run next, from one more than the version it read
  starts      \* how often it was started

upgradeVars == <<installed, files, db, lock, writer, pc, script, starts>>

\* The version table, the scripts that were committed, whether the documents
\* of earlier years are in it, and the setting backpopulate_phash.
Database ==
  [version : 0 .. DB_VERSION, applied : SUBSET Script, archive : BOOLEAN,
   populate : {"absent", "yes", "no", "complete"}]

Blank == [version |-> 0, applied |-> {}, archive |-> FALSE, populate |-> "absent"]

\* A database an earlier release left behind.
Found(v) ==
  [version |-> v, applied |-> 1 .. v, archive |-> TRUE,
   populate |-> IF v = DB_VERSION THEN "yes" ELSE "absent"]

UpgradeInit ==
  /\ installed \in Installations
  /\ \E v \in FoundVersions[installed], place \in {"main", "old"} :
       IF v = 0
       THEN files = {} /\ db = [f \in {"main", "old"} |-> Blank]
       ELSE /\ files = {place}
            /\ db = [f \in {"main", "old"} |-> IF f = place THEN Found(v) ELSE Blank]
  /\ lock = "free"
  /\ writer = Nobody
  /\ pc = [p \in Program |-> "off"]
  /\ script = [p \in Program |-> 0]
  /\ starts = [p \in Program |-> 0]

GoTo(p, there) == pc' = [pc EXCEPT ![p] = there]

------------------------------------------------------------------------------
(* Finding the database                                                    *)

\* A program starts; the daemon first removes the directory of the lock,
\* whoever made it.
Start(p) ==
  /\ pc[p] = "off"
  /\ starts[p] < MaxStarts[p]
  /\ starts' = [starts EXCEPT ![p] = @ + 1]
  /\ lock' = IF p = Daemon THEN "free" ELSE lock
  /\ GoTo(p, "look")
  /\ UNCHANGED <<installed, files, db, writer, script>>

\* Mutant: the place v0.8 used is not looked at.
LookOnce(p) == "find"

\* Where to go on once the database was looked for.
LookAgain(p) ==
  IF pc[p] = "look"
  THEN IF "main" \in files THEN "find" ELSE "lookold"
  ELSE IF "old" \in files THEN "rename" ELSE "find"

\* Is the database where it should be, and if not, where v0.8 put it?
Look(p) ==
  /\ pc[p] \in {"look", "lookold"}
  /\ GoTo(p, LookAgain(p))
  /\ UNCHANGED <<installed, files, db, lock, writer, script, starts>>

\* rename replaces what has the new name, and fails when the old one is gone.
Rename(p) ==
  /\ pc[p] = "rename"
  /\ IF "old" \in files
     THEN /\ files' = {"main"}
          /\ db' = [db EXCEPT !["main"] = db["old"], !["old"] = Blank]
     ELSE UNCHANGED <<files, db>>
  /\ GoTo(p, "find")
  /\ UNCHANGED <<installed, lock, writer, script, starts>>

\* A database that is there is opened and asked for its version.
Find(p) ==
  /\ pc[p] = "find"
  /\ GoTo(p, IF "main" \in files THEN "read" ELSE "create")
  /\ UNCHANGED <<installed, files, db, lock, writer, script, starts>>

\* One that is not there, or is empty, is created, unless another program
\* was faster, and asked for its version (again).
Create(p) ==
  /\ pc[p] = "create"
  /\ files' = files \cup {"main"}
  /\ GoTo(p, "reread")
  /\ UNCHANGED <<installed, db, lock, writer, script, starts>>

\* get_db_version, which sees what was committed.
ReadVersion(p) ==
  /\ pc[p] \in {"read", "reread"}
  /\ lock = "free"
  /\ script' = [script EXCEPT ![p] = db["main"].version + 1]
  /\ GoTo(p, IF pc[p] = "read" /\ db["main"].version = 0 THEN "create" ELSE "upgrade")
  /\ UNCHANGED <<installed, files, db, lock, writer, starts>>

------------------------------------------------------------------------------
(* Upgrading it                                                            *)

\* A script that is not installed is passed over without a word.
SkipScript(p) ==
  /\ pc[p] = "upgrade"
  /\ script[p] \in Script \ installed
  /\ script' = [script EXCEPT ![p] = @ + 1]
  /\ UNCHANGED <<installed, files, db, lock, writer, pc, starts>>

\* runUpdate_db waits for the lock and hands the script to sqlite3_exec.
TakeLock(p) ==
  /\ pc[p] = "upgrade"
  /\ script[p] \in installed
  /\ lock = "free"
  /\ lock' = "held"
  /\ GoTo(p, "exec")
  /\ UNCHANGED <<installed, files, db, writer, script, starts>>

\* Its first statement that writes needs SQLite's write lock ...
BeginWriting(p) ==
  /\ pc[p] = "exec"
  /\ writer = Nobody
  /\ writer' = p
  /\ GoTo(p, "write")
  /\ UNCHANGED <<installed, files, db, lock, script, starts>>

\* Mutant: a script that can be run twice (CREATE TABLE IF NOT EXISTS ...).
NeedsMet(k) == Needs[k] \subseteq db["main"].applied

\* No statement of script k fails: the tables and columns it uses are there,
\* and those it makes are not.
Applies(k) == k \notin db["main"].applied /\ Needs[k] \subseteq db["main"].applied

\* The last script adds the setting backpopulate_phash.
Commit(p) ==
  LET k == script[p] IN
    /\ pc[p] = "write"
    /\ Applies(k)
    /\ db' = [db EXCEPT !["main"].version = k,
                        !["main"].applied = @ \cup {k},
                        !["main"].populate = IF k = DB_VERSION THEN "yes" ELSE @]
    /\ writer' = Nobody
    /\ lock' = "free"
    /\ script' = [script EXCEPT ![p] = k + 1]
    /\ GoTo(p, "upgrade")
    /\ UNCHANGED <<installed, files, starts>>

\* Mutant: the lock is kept by a script that failed.
BreakLocked(p) ==
  /\ \/ pc[p] = "exec" /\ writer # Nobody
     \/ pc[p] = "write" /\ (ScriptMayFail \/ ~Applies(script[p]))
  /\ GoTo(p, "failed")
  /\ UNCHANGED <<installed, files, db, lock, writer, script, starts>>

\* The database is busy, or a statement fails: the script is left there, its
\* transaction open, and connect_db returns 1.
Break(p) ==
  /\ \/ pc[p] = "exec" /\ writer # Nobody
     \/ pc[p] = "write" /\ (ScriptMayFail \/ ~Applies(script[p]))
  /\ lock' = "free"
  /\ GoTo(p, "failed")
  /\ UNCHANGED <<installed, files, db, writer, script, starts>>

\* Mutant: the last script is left out.
LastButOne == DB_VERSION - 1

LastScript == DB_VERSION

\* All scripts were looked at: connect_db returns 0.  (What it does to a new
\* database afterwards changes a setting the last script has deleted.)
Connected(p) ==
  /\ pc[p] = "upgrade"
  /\ script[p] > LastScript
  /\ GoTo(p, "ready")
  /\ UNCHANGED <<installed, files, db, lock, writer, script, starts>>

------------------------------------------------------------------------------
(* Afterwards                                                              *)

\* The end of a program rolls back what it left open.
Leave(p) ==
  /\ writer' = IF writer = p THEN Nobody ELSE writer
  /\ GoTo(p, "off")
  /\ UNCHANGED <<installed, files, db, script, starts>>

\* Without a database a program gives up; one that has done its work exits.
Quit(p) ==
  /\ pc[p] \in {"failed", "ready", "done"}
  /\ Leave(p)
  /\ UNCHANGED lock

\* It may also be killed; a lock it held stays behind.
Die(p) ==
  /\ p \in Mortal
  /\ pc[p] # "off"
  /\ Leave(p)
  /\ lock' = IF lock = "held" /\ pc[p] \in {"exec", "write"} THEN "left" ELSE lock

\* opendiasconfig -s backpopulate_phash -v yes: an UPDATE of a row that exists.
SetPopulate(p) ==
  /\ p # Daemon
  /\ pc[p] = "ready"
  /\ lock = "free"
  /\ \E choice \in {"yes", "no"} :
       db' = IF writer = Nobody /\ db["main"].populate # "absent"
             THEN [db EXCEPT !["main"].populate = choice]
             ELSE db
  /\ GoTo(p, "done")
  /\ UNCHANGED <<installed, files, lock, writer, script, starts>>

Connect(p) ==
  \/ Look(p) \/ Rename(p) \/ Find(p) \/ Create(p) \/ ReadVersion(p)
  \/ SkipScript(p) \/ TakeLock(p) \/ BeginWriting(p) \/ Commit(p) \/ Break(p)
  \/ Connected(p)

UpgradeNext ==
  \E p \in Program : Start(p) \/ Connect(p) \/ SetPopulate(p) \/ Quit(p) \/ Die(p)

UpgradeSpec == UpgradeInit /\ [][UpgradeNext]_upgradeVars

------------------------------------------------------------------------------
(* Properties                                                              *)

UpgradeTypeOK ==
  /\ installed \in Installations
  /\ files \subseteq {"main", "old"}
  /\ db \in [{"main", "old"} -> Database]
  /\ lock \in {"free", "held", "left"}
  /\ writer \in Program \cup {Nobody}
  /\ pc \in [Program -> {"off", "look", "lookold", "rename", "find", "read", "create",
                         "reread", "upgrade", "exec", "write", "failed", "ready", "done"}]
  /\ script \in [Program -> 0 .. DB_VERSION + 1]
  /\ starts \in [Program -> Nat]

\* The version says which scripts were run, when all of them are installed:
\* each once and in order, also when two programs read the same version and
\* both go on from there, one dies in the middle, or scripts fail.
VersionIsHonest ==
  installed = Script => db["main"].applied = 1 .. db["main"].version

\* A program that goes on with a database has run, or found run, every script
\* that is installed, whoever else was upgrading it meanwhile.
ReadyIsUpgraded ==
  \A p \in Program : pc[p] = "ready" => installed \subseteq db["main"].applied

\* A program whose version is stale never runs an old script over a newer
\* database, whatever becomes of the lock between them.
VersionNeverGoesBack ==
  [][db'["main"].version >= db["main"].version]_upgradeVars

\* Documents that were there are never lost, nor hidden behind a new database:
\* whoever finds a database finds the one they are in.
ArchiveIsKept ==
  [][ (\E f \in files : db[f].archive) =>
        /\ \E f \in files' : db'[f].archive
        /\ "main" \in files' => db'["main"].archive ]_upgradeVars

\* The lock of a program that died in the middle of a script.
Orphaned == lock = "left"

\* A program that starts gets its database or gives up, unless the lock was
\* left behind by one that died.
StartEnds ==
  \A p \in Program :
    pc[p] = "look" ~> pc[p] \in {"ready", "failed", "off"} \/ Orphaned
==============================================================================
