--------------------------- MODULE DbUpgradeProofs ---------------------------
(***************************************************************************)
(* What the programs of DbUpgrade may rely on, for any number of programs, *)
(* versions and scripts, whoever is started, killed or fails when: the     *)
(* version of the database is never a lie, and its documents stay.         *)
(*                                                                         *)
(* Two facts carry it.  While the database is still where v0.8 put it,     *)
(* nobody has come further than renaming it.  And what a program read as   *)
(* the version, however stale, is the version of a state the database      *)
(* has passed through, in order.                                           *)
(***************************************************************************)
EXTENDS DbUpgrade, TLAPS

Place == {"off", "look", "lookold", "rename", "find", "read", "create",
          "reread", "upgrade", "exec", "write", "failed", "ready", "done"}
Early == {"off", "look", "lookold", "rename"}
Loop == {"upgrade", "exec", "write"}

\* The database of v0.8 is the only one, and nobody has passed it by.
OldIsAlone ==
  "old" \in files =>
    /\ files = {"old"}
    /\ db["main"] = Blank
    /\ \A p \in Program : pc[p] \in Early

\* A version stands for all installed scripts up to it.
ScriptsUpTo(k) == {i \in installed : i <= k}
VersionCounts == ScriptsUpTo(db["main"].version) \subseteq db["main"].applied
OldCounts == db["old"].applied = 1 .. db["old"].version

\* So does the script a program is at, which is no later than the next one as
\* long as every script is installed.
MayBeAt(k) ==
  /\ k \in Script \cup {DB_VERSION + 1}
  /\ ScriptsUpTo(k - 1) \subseteq db["main"].applied
  /\ installed = Script => k <= db["main"].version + 1
LoopCounts ==
  \A p \in Program : pc[p] \in Loop =>
    /\ MayBeAt(script[p])
    /\ pc[p] # "upgrade" => script[p] \in installed

UpgradeInv ==
  /\ UpgradeTypeOK
  /\ OldIsAlone
  /\ VersionIsHonest
  /\ VersionCounts
  /\ OldCounts
  /\ LoopCounts
  /\ ReadyIsUpgraded

LEMMA ConstantsTyped ==
  /\ DB_VERSION \in Nat \ {0}
  /\ installed \in Installations => installed \subseteq 1 .. DB_VERSION
BY UpgradeAssumption DEF Script

LEMMA InitUpgrade == UpgradeInit => UpgradeInv
<1> SUFFICES ASSUME UpgradeInit PROVE UpgradeInv
  OBVIOUS
<1> USE ConstantsTyped DEF UpgradeInit
<1>1. PICK v \in FoundVersions[installed], place \in {"main", "old"} :
       IF v = 0
       THEN files = {} /\ db = [f \in {"main", "old"} |-> Blank]
       ELSE /\ files = {place}
            /\ db = [f \in {"main", "old"} |-> IF f = place THEN Found(v) ELSE Blank]
  OBVIOUS
<1>2. v \in 0 .. DB_VERSION
  BY UpgradeAssumption
<1>3. Blank \in Database /\ Found(v) \in Database
  BY <1>2 DEF Blank, Found, Database, Script
<1>4. UpgradeTypeOK
  <2>1. files \subseteq {"main", "old"} /\ db \in [{"main", "old"} -> Database]
    BY <1>1, <1>3
  <2>2. script \in [Program -> 0 .. DB_VERSION + 1] /\ starts \in [Program -> Nat]
    OBVIOUS
  <2> QED BY <2>1, <2>2 DEF UpgradeTypeOK
<1>5. ASSUME NEW f \in {"main", "old"}
      PROVE  db[f].applied = 1 .. db[f].version
  <2>1. db[f] = Blank \/ db[f] = Found(v)
    BY <1>1
  <2>2. 1 .. 0 = {}
    OBVIOUS
  <2>3. Blank.version = 0 /\ Blank.applied = {}
    BY DEF Blank
  <2>4. Found(v).version = v /\ Found(v).applied = 1 .. v
    BY DEF Found
  <2> QED BY <2>1, <2>2, <2>3, <2>4
<1>6. VersionCounts
  BY <1>5, <1>4 DEF VersionCounts, ScriptsUpTo, UpgradeTypeOK, Database
<1>7. OldIsAlone
  BY <1>1 DEF OldIsAlone, Early
<1>8. LoopCounts /\ ReadyIsUpgraded
  BY DEF LoopCounts, Loop, ReadyIsUpgraded
<1> QED
  BY <1>4, <1>5, <1>6, <1>7, <1>8 DEF UpgradeInv, VersionIsHonest, OldCounts

------------------------------------------------------------------------------
\* A program that goes from one place to another, with the database as it is,
\* keeps the invariant when it does not pass by the database of v0.8, enters
\* the loop with a script it may be at, and is ready only after the last.
LEMMA Moves ==
  ASSUME UpgradeInv, NEW p \in Program, NEW there \in Place, NEW k \in 0 .. DB_VERSION + 1,
         pc' = [pc EXCEPT ![p] = there],
         script' = [script EXCEPT ![p] = k],
         UNCHANGED <<installed, files, db>>,
         lock' \in {"free", "held", "left"},
         writer' \in Program \cup {Nobody},
         starts' \in [Program -> Nat],
         "old" \in files => there \in Early,
         there \in Loop => MayBeAt(k) /\ (there # "upgrade" => k \in installed),
         there = "ready" => installed \subseteq db["main"].applied
  PROVE  UpgradeInv'
<1> USE DEF UpgradeInv
<1>1. UpgradeTypeOK'
  BY DEF UpgradeTypeOK, Place
<1>2. OldIsAlone'
  BY DEF OldIsAlone, UpgradeTypeOK
<1>3. (VersionIsHonest /\ VersionCounts /\ OldCounts)'
  BY DEF VersionIsHonest, VersionCounts, OldCounts, ScriptsUpTo
<1>4. LoopCounts'
  BY DEF LoopCounts, MayBeAt, ScriptsUpTo, UpgradeTypeOK
<1>5. ReadyIsUpgraded'
  BY DEF ReadyIsUpgraded, UpgradeTypeOK
<1> QED BY <1>1, <1>2, <1>3, <1>4, <1>5

\* The same without a change of the script.
LEMMA MovesOn ==
  ASSUME UpgradeInv, NEW p \in Program, NEW there \in Place,
         pc' = [pc EXCEPT ![p] = there],
         UNCHANGED <<installed, files, db, script>>,
         lock' \in {"free", "held", "left"},
         writer' \in Program \cup {Nobody},
         starts' \in [Program -> Nat],
         "old" \in files => there \in Early,
         there \in Loop => pc[p] \in Loop /\ (there # "upgrade" => script[p] \in installed),
         there = "ready" => installed \subseteq db["main"].applied
  PROVE  UpgradeInv'
<1>1. script[p] \in 0 .. DB_VERSION + 1 /\ script' = [script EXCEPT ![p] = script[p]]
  BY DEF UpgradeInv, UpgradeTypeOK
<1>2. pc[p] \in Loop => MayBeAt(script[p])
  BY DEF UpgradeInv, LoopCounts
<1> QED BY <1>1, <1>2, Moves

------------------------------------------------------------------------------
LEMMA ConnectKeeps ==
  ASSUME UpgradeInv, NEW p \in Program,
         \/ Start(p) \/ Look(p) \/ Find(p) \/ ReadVersion(p) \/ SkipScript(p) \/ TakeLock(p)
         \/ BeginWriting(p) \/ Break(p) \/ Connected(p) \/ Quit(p) \/ Die(p)
  PROVE  UpgradeInv'
<1>1. /\ UpgradeTypeOK /\ OldIsAlone /\ VersionIsHonest /\ VersionCounts /\ LoopCounts
      /\ lock \in {"free", "held", "left"} /\ writer \in Program \cup {Nobody}
      /\ starts \in [Program -> Nat]
  BY DEF UpgradeInv, UpgradeTypeOK
<1>2. installed \subseteq 1 .. DB_VERSION
  BY <1>1, ConstantsTyped DEF UpgradeTypeOK
<1> USE DEF Place, Early, Loop, GoTo
<1>3. CASE Start(p)
  <2>1. starts' \in [Program -> Nat]
    BY <1>1, <1>3 DEF Start
  <2> QED BY <1>1, <1>3, <2>1, MovesOn DEF Start
<1>4. CASE Look(p)
  <2>1. "old" \in files => LookAgain(p) \in Early
    BY <1>1, <1>4 DEF Look, LookAgain, OldIsAlone
  <2>2. LookAgain(p) \in {"find", "lookold", "rename"}
    BY DEF LookAgain
  <2> QED BY <1>1, <1>4, <2>1, <2>2, MovesOn DEF Look
<1>5. CASE Find(p)
  <2>1. "old" \notin files
    BY <1>1, <1>5 DEF Find, OldIsAlone
  <2> QED BY <1>1, <1>5, <2>1, MovesOn DEF Find
<1>6. CASE ReadVersion(p)
  <2>1. "old" \notin files
    BY <1>1, <1>6 DEF ReadVersion, OldIsAlone
  <2>2. db["main"].version \in 0 .. DB_VERSION
    BY <1>1 DEF UpgradeTypeOK, Database
  <2>3. MayBeAt(db["main"].version + 1)
    BY <1>1, <1>2, <2>2, ConstantsTyped DEF MayBeAt, VersionCounts, ScriptsUpTo, Script
  <2>4. db["main"].version + 1 \in 0 .. DB_VERSION + 1
    BY <2>2, ConstantsTyped
  <2>5. \E there \in {"create", "upgrade"} : pc' = [pc EXCEPT ![p] = there]
    BY <1>6 DEF ReadVersion
  <2> QED BY <1>1, <1>6, <2>1, <2>3, <2>4, <2>5, Moves DEF ReadVersion
<1>7. CASE SkipScript(p)
  <2>1. "old" \notin files
    BY <1>1, <1>7 DEF SkipScript, OldIsAlone
  <2>2. script[p] \in 1 .. DB_VERSION /\ script[p] \notin installed /\ MayBeAt(script[p])
    BY <1>1, <1>7 DEF SkipScript, Script, LoopCounts
  <2>3. ScriptsUpTo(script[p]) \subseteq ScriptsUpTo(script[p] - 1)
    <3> SUFFICES ASSUME NEW i \in installed, i <= script[p]
                 PROVE  i <= script[p] - 1
      BY DEF ScriptsUpTo
    <3>1. i \in Int /\ i # script[p] /\ script[p] \in Int
      BY <1>2, <2>2
    <3> QED BY <3>1
  <2>4. MayBeAt(script[p] + 1)
    BY <1>2, <2>2, <2>3, ConstantsTyped DEF MayBeAt, Script
  <2>5. script[p] + 1 \in 0 .. DB_VERSION + 1
    BY <2>2, ConstantsTyped
  <2>6. pc' = [pc EXCEPT ![p] = "upgrade"]
    BY <1>1, <1>7 DEF SkipScript, UpgradeTypeOK
  <2> QED BY <1>1, <1>7, <2>1, <2>4, <2>5, <2>6, Moves DEF SkipScript
<1>8. CASE TakeLock(p) \/ BeginWriting(p)
  <2>1. "old" \notin files
    BY <1>1, <1>8 DEF TakeLock, BeginWriting, OldIsAlone
  <2>2. script[p] \in installed
    BY <1>1, <1>8 DEF TakeLock, BeginWriting, LoopCounts
  <2> QED BY <1>1, <1>8, <2>1, <2>2, MovesOn DEF TakeLock, BeginWriting
<1>9. CASE Break(p)
  <2>1. "old" \notin files
    BY <1>1, <1>9 DEF Break, OldIsAlone
  <2> QED BY <1>1, <1>9, <2>1, MovesOn DEF Break
<1>10. CASE Connected(p)
  <2>1. "old" \notin files
    BY <1>1, <1>10 DEF Connected, OldIsAlone
  <2>2. MayBeAt(script[p]) /\ script[p] > DB_VERSION
    BY <1>1, <1>10 DEF Connected, LastScript, LoopCounts
  <2>3. installed \subseteq ScriptsUpTo(script[p] - 1)
    BY <1>2, <2>2, ConstantsTyped DEF ScriptsUpTo, MayBeAt, Script
  <2>4. installed \subseteq db["main"].applied
    BY <2>2, <2>3 DEF MayBeAt
  <2> QED BY <1>1, <1>10, <2>1, <2>4, MovesOn DEF Connected
<1>11. CASE Quit(p)
  BY <1>1, <1>11, MovesOn DEF Quit, Leave
<1>12. CASE Die(p)
  BY <1>1, <1>12, MovesOn DEF Die, Leave
<1> QED BY <1>3, <1>4, <1>5, <1>6, <1>7, <1>8, <1>9, <1>10, <1>11, <1>12

\* The database of v0.8 takes its place while nobody is beyond that.
LEMMA RenameKeeps ==
  ASSUME UpgradeInv, NEW p \in Program, Rename(p)
  PROVE  UpgradeInv'
<1>1. UpgradeTypeOK /\ OldIsAlone
  BY DEF UpgradeInv
<1>2. CASE "old" \notin files
  BY <1>1, <1>2, MovesOn DEF Rename, GoTo, Place, Early, Loop, UpgradeTypeOK
<1>3. CASE "old" \in files
  <2> USE <1>3 DEF Rename, GoTo
  <2>1. /\ \A q \in Program : pc'[q] \in Early \cup {"find"}
        /\ files' = {"main"} /\ db'["main"] = db["old"] /\ db'["old"] = Blank
        /\ UNCHANGED <<installed, lock, writer, script, starts>>
    BY <1>1 DEF OldIsAlone, UpgradeTypeOK
  <2>2. Blank \in Database
    BY ConstantsTyped DEF Blank, Database, Script
  <2>3. UpgradeTypeOK'
    <3>1. db' \in [{"main", "old"} -> Database] /\ files' \subseteq {"main", "old"}
      BY <1>1, <2>1, <2>2 DEF UpgradeTypeOK
    <3> QED BY <1>1, <2>1, <3>1 DEF UpgradeTypeOK
  <2>4. OldIsAlone' /\ LoopCounts' /\ ReadyIsUpgraded'
    BY <2>1 DEF OldIsAlone, LoopCounts, ReadyIsUpgraded, Early, Loop
  <2>5. db'["main"].applied = 1 .. db'["main"].version
    BY <2>1 DEF UpgradeInv, OldCounts
  <2>6. VersionIsHonest' /\ VersionCounts'
    BY <2>1, <2>3, <2>5, ConstantsTyped
    DEF VersionIsHonest, VersionCounts, ScriptsUpTo, UpgradeTypeOK, Database
  <2>7. OldCounts'
    <3>1. 1 .. 0 = {}
      OBVIOUS
    <3> QED BY <2>1, <3>1 DEF OldCounts, Blank
  <2> QED BY <2>3, <2>4, <2>6, <2>7 DEF UpgradeInv
<1> QED BY <1>2, <1>3

LEMMA CreateKeeps ==
  ASSUME UpgradeInv, NEW p \in Program, Create(p)
  PROVE  UpgradeInv'
<1> USE DEF Create, GoTo
<1>1. "old" \notin files /\ "old" \notin files'
  BY DEF UpgradeInv, OldIsAlone, Early
<1>2. UpgradeTypeOK'
  BY DEF UpgradeInv, UpgradeTypeOK
<1>3. OldIsAlone'
  BY <1>1 DEF OldIsAlone
<1>4. (VersionIsHonest /\ VersionCounts /\ OldCounts)'
  BY DEF UpgradeInv, VersionIsHonest, VersionCounts, OldCounts, ScriptsUpTo
<1>5. LoopCounts' /\ ReadyIsUpgraded'
  BY DEF UpgradeInv, LoopCounts, ReadyIsUpgraded, MayBeAt, ScriptsUpTo, Loop, UpgradeTypeOK
<1> QED BY <1>2, <1>3, <1>4, <1>5 DEF UpgradeInv

\* A script that applies is a new one, and no later than the next.
LEMMA NextScript ==
  ASSUME UpgradeInv, NEW p \in Program, Commit(p)
  PROVE  /\ "old" \notin files
         /\ script[p] \in installed /\ script[p] \in Script
         /\ script[p] > db["main"].version
         /\ installed = Script => script[p] = db["main"].version + 1
<1>1. "old" \notin files /\ MayBeAt(script[p]) /\ script[p] \in installed
  BY DEF UpgradeInv, Commit, OldIsAlone, LoopCounts, Early, Loop
<1>2. script[p] \in Script /\ db["main"].version \in 0 .. DB_VERSION
  BY <1>1, ConstantsTyped DEF UpgradeInv, UpgradeTypeOK, Script, Database
<1>3. script[p] > db["main"].version
  <2>1. script[p] \notin db["main"].applied
    BY DEF Commit, Applies
  <2>2. script[p] <= db["main"].version => script[p] \in ScriptsUpTo(db["main"].version)
    BY <1>1 DEF ScriptsUpTo
  <2>3. script[p] \in Int /\ db["main"].version \in Int
    BY <1>2, ConstantsTyped DEF Script
  <2> QED BY <2>1, <2>2, <2>3 DEF UpgradeInv, VersionCounts
<1>4. installed = Script => script[p] = db["main"].version + 1
  BY <1>1, <1>2, <1>3, ConstantsTyped DEF MayBeAt, Script
<1> QED BY <1>1, <1>2, <1>3, <1>4

LEMMA CommitKeeps ==
  ASSUME UpgradeInv, NEW p \in Program, Commit(p)
  PROVE  UpgradeInv'
<1> DEFINE k == script[p]
           main == db["main"]
<1>1. /\ "old" \notin files /\ k \in installed /\ k \in 1 .. DB_VERSION
      /\ k > main.version /\ (installed = Script => k = main.version + 1)
  BY NextScript DEF Script
<1>2. /\ UpgradeTypeOK /\ VersionIsHonest /\ VersionCounts /\ OldCounts
      /\ LoopCounts /\ ReadyIsUpgraded /\ MayBeAt(k)
  BY DEF UpgradeInv, LoopCounts, Commit, Loop
<1>3. main \in Database /\ main.version \in 0 .. DB_VERSION
  BY <1>2 DEF UpgradeTypeOK, Database
<1>4. /\ db'["old"] = db["old"] /\ db' \in [{"main", "old"} -> Database]
      /\ db'["main"].version = k /\ db'["main"].applied = main.applied \cup {k}
  <2>1. PICK r, x : r = main /\ x = (IF k = DB_VERSION THEN "yes" ELSE main.populate)
    OBVIOUS
  <2> DEFINE new == [r EXCEPT !.version = k, !.applied = r.applied \cup {k}, !.populate = x]
  <2>2. db' = [db EXCEPT !["main"] = new]
    BY <1>2, <2>1 DEF Commit, UpgradeTypeOK
  <2>3. /\ r \in Database
        /\ k \in 0 .. DB_VERSION /\ r.applied \cup {k} \in SUBSET Script
        /\ x \in {"absent", "yes", "no", "complete"}
    BY <1>1, <1>3, <2>1 DEF Database, Script
  <2>4. new \in Database /\ new.version = k /\ new.applied = r.applied \cup {k}
    BY <2>3 DEF Database
  <2> HIDE DEF new
  <2> QED BY <1>2, <2>1, <2>2, <2>4 DEF UpgradeTypeOK
<1>5. /\ UNCHANGED <<installed, files, starts>>
      /\ script' = [script EXCEPT ![p] = k + 1] /\ pc' = [pc EXCEPT ![p] = "upgrade"]
      /\ lock' = "free" /\ writer' = Nobody
  BY DEF Commit, GoTo
<1>6. UpgradeTypeOK'
  <2>1. script' \in [Program -> 0 .. DB_VERSION + 1]
    BY <1>1, <1>2, <1>5, ConstantsTyped DEF UpgradeTypeOK
  <2> QED BY <1>2, <1>4, <1>5, <2>1 DEF UpgradeTypeOK
<1>7. OldIsAlone'
  BY <1>1, <1>5 DEF OldIsAlone
<1>8. VersionIsHonest'
  <2>1. installed = Script => main.applied \cup {k} = 1 .. k
    BY <1>1, <1>2, <1>3 DEF VersionIsHonest
  <2> QED BY <1>4, <1>5, <2>1 DEF VersionIsHonest
<1>9. ScriptsUpTo(k) \subseteq main.applied \cup {k}
  <2> SUFFICES ASSUME NEW i \in installed, i <= k, i # k
               PROVE  i \in main.applied
    BY DEF ScriptsUpTo
  <2>1. i \in Int /\ k \in Int
    BY <1>1, <1>2, ConstantsTyped DEF UpgradeTypeOK
  <2>2. i <= k - 1
    BY <2>1
  <2> QED BY <1>2, <2>2 DEF MayBeAt, ScriptsUpTo
<1>10. VersionCounts' /\ OldCounts'
  BY <1>2, <1>4, <1>5, <1>9 DEF VersionCounts, OldCounts, ScriptsUpTo
<1>11. LoopCounts'
  <2> SUFFICES ASSUME NEW q \in Program, pc'[q] \in Loop
               PROVE  MayBeAt(script[q])' /\ (pc'[q] # "upgrade" => script'[q] \in installed')
    BY DEF LoopCounts
  <2>1. CASE q = p
    <3>1. script'[q] = k + 1 /\ pc'[q] = "upgrade"
      BY <1>2, <1>5, <2>1 DEF UpgradeTypeOK
    <3>2. k + 1 \in Script \cup {DB_VERSION + 1} /\ (k + 1) - 1 = k
      BY <1>1, ConstantsTyped DEF Script
    <3>3. MayBeAt(script[q])'
      <4>1. script'[q] \in Script \cup {DB_VERSION + 1}
        BY <3>1, <3>2
      <4>2. ScriptsUpTo(script[q] - 1)' \subseteq db'["main"].applied
        BY <1>4, <1>5, <1>9, <3>1, <3>2 DEF ScriptsUpTo
      <4>3. installed' = Script => script'[q] <= db'["main"].version + 1
        BY <1>1, <1>4, <3>1
      <4> QED BY <4>1, <4>2, <4>3 DEF MayBeAt
    <3> QED BY <3>1, <3>3
  <2>2. CASE q # p
    <3>1. /\ script'[q] = script[q] /\ pc'[q] = pc[q] /\ MayBeAt(script[q])
          /\ pc[q] # "upgrade" => script[q] \in installed
      BY <1>2, <1>5, <2>2 DEF UpgradeTypeOK, LoopCounts
    <3>2. installed = Script => script[q] <= k + 1
      BY <1>1, <1>3, <3>1, ConstantsTyped DEF MayBeAt, Script
    <3>3. MayBeAt(script[q])'
      <4>1. script'[q] \in Script \cup {DB_VERSION + 1}
        BY <3>1 DEF MayBeAt
      <4>2. ScriptsUpTo(script[q] - 1)' \subseteq db'["main"].applied
        BY <1>4, <1>5, <3>1 DEF MayBeAt, ScriptsUpTo
      <4>3. installed' = Script => script'[q] <= db'["main"].version + 1
        BY <1>4, <1>5, <3>1, <3>2
      <4> QED BY <4>1, <4>2, <4>3 DEF MayBeAt
    <3> QED BY <1>5, <3>1, <3>3
  <2> QED BY <2>1, <2>2
<1>12. ReadyIsUpgraded'
  BY <1>2, <1>4, <1>5 DEF ReadyIsUpgraded, UpgradeTypeOK
<1> QED BY <1>6, <1>7, <1>8, <1>10, <1>11, <1>12 DEF UpgradeInv

\* The setting backpopulate_phash may change at any time.
LEMMA PopulateKeeps ==
  ASSUME UpgradeInv, "old" \notin files,
         NEW x \in {"absent", "yes", "no", "complete"},
         db' = [db EXCEPT !["main"].populate = x],
         UNCHANGED <<installed, files, lock, writer, script, starts>>,
         pc' \in [Program -> Place],
         \A q \in Program : pc'[q] \in Loop \cup {"ready"} => pc'[q] = pc[q]
  PROVE  UpgradeInv'
<1>1. PICK r : r = db["main"]
  OBVIOUS
<1> DEFINE new == [r EXCEPT !.populate = x]
<1>2. r \in Database /\ db \in [{"main", "old"} -> Database]
  BY <1>1 DEF UpgradeInv, UpgradeTypeOK
<1>3. new \in Database /\ new.version = r.version /\ new.applied = r.applied
  BY <1>2 DEF Database
<1>4. db' = [db EXCEPT !["main"] = new]
  BY <1>1, <1>2
<1> HIDE DEF new
<1>5. /\ db'["old"] = db["old"] /\ db' \in [{"main", "old"} -> Database]
      /\ db'["main"].version = db["main"].version /\ db'["main"].applied = db["main"].applied
  BY <1>1, <1>2, <1>3, <1>4
<1>6. UpgradeTypeOK'
  BY <1>5 DEF UpgradeInv, UpgradeTypeOK, Place
<1>7. OldIsAlone' /\ VersionIsHonest' /\ VersionCounts' /\ OldCounts'
  BY <1>5 DEF UpgradeInv, OldIsAlone, VersionIsHonest, VersionCounts, OldCounts, ScriptsUpTo
<1>8. LoopCounts' /\ ReadyIsUpgraded'
  BY <1>5 DEF UpgradeInv, LoopCounts, ReadyIsUpgraded, MayBeAt, ScriptsUpTo
<1> QED BY <1>6, <1>7, <1>8 DEF UpgradeInv

LEMMA SetPopulateKeeps ==
  ASSUME UpgradeInv, NEW p \in Program, SetPopulate(p)
  PROVE  UpgradeInv'
<1>1. "old" \notin files
  BY DEF UpgradeInv, OldIsAlone, SetPopulate, Early
<1>2. pc' = [pc EXCEPT ![p] = "done"] /\ pc \in [Program -> Place]
  BY DEF SetPopulate, GoTo, UpgradeInv, UpgradeTypeOK, Place
<1>3. CASE db' = db
  BY <1>1, <1>3, MovesOn DEF SetPopulate, GoTo, UpgradeInv, UpgradeTypeOK, Place, Loop
<1>4. CASE \E x \in {"yes", "no"} : db' = [db EXCEPT !["main"].populate = x]
  <2>1. pc' \in [Program -> Place]
    BY <1>2 DEF Place
  <2>2. \A q \in Program : pc'[q] \in Loop \cup {"ready"} => pc'[q] = pc[q]
    BY <1>2 DEF Loop
  <2>3. PICK x \in {"yes", "no"} : db' = [db EXCEPT !["main"].populate = x]
    BY <1>4
  <2> QED BY <1>1, <2>1, <2>2, <2>3, PopulateKeeps DEF SetPopulate
<1> QED BY <1>3, <1>4 DEF SetPopulate

LEMMA StutterKeeps ==
  ASSUME UpgradeInv, UNCHANGED upgradeVars
  PROVE  UpgradeInv'
BY DEF upgradeVars, UpgradeInv, UpgradeTypeOK, OldIsAlone, VersionIsHonest, VersionCounts,
  OldCounts, LoopCounts, ReadyIsUpgraded, ScriptsUpTo, MayBeAt

\* Whatever a program does keeps the invariant.
LEMMA ProgramKeeps ==
  ASSUME UpgradeInv, NEW p \in Program,
         Start(p) \/ Connect(p) \/ SetPopulate(p) \/ Quit(p) \/ Die(p)
  PROVE  UpgradeInv'
BY ConnectKeeps, RenameKeeps, CreateKeeps, CommitKeeps, SetPopulateKeeps DEF Connect

LEMMA UpgradeStep == UpgradeInv /\ [UpgradeNext]_upgradeVars => UpgradeInv'
BY ProgramKeeps, StutterKeeps DEF UpgradeNext

------------------------------------------------------------------------------
\* What a program does to the version and to the archive: nothing, except that
\* a script is committed or the database put in its place.
LEMMA ProgramWrites ==
  ASSUME UpgradeInv, NEW p \in Program,
         Start(p) \/ Connect(p) \/ SetPopulate(p) \/ Quit(p) \/ Die(p)
  PROVE  /\ db'["main"].version >= db["main"].version
         /\ db'["main"].archive = db["main"].archive \/ Rename(p)
         /\ files' = files \/ Create(p) \/ Rename(p)
<1>1. UpgradeTypeOK /\ OldIsAlone /\ db["main"] \in Database /\ db["main"].version \in Nat
  BY ConstantsTyped DEF UpgradeInv, UpgradeTypeOK, Database
<1>2. CASE UNCHANGED <<db, files>>
  BY <1>1, <1>2
<1>3. CASE Rename(p)
  <2>1. CASE "old" \in files
    <3>1. db["main"].version = 0
      BY <1>1, <2>1 DEF OldIsAlone, Blank
    <3>2. db'["main"].version \in Nat
      <4>1. UpgradeInv'
        BY <1>3, RenameKeeps
      <4> QED BY <4>1, ConstantsTyped DEF UpgradeInv, UpgradeTypeOK, Database
    <3> QED BY <1>3, <3>1, <3>2
  <2>2. CASE "old" \notin files
    BY <1>1, <1>3, <2>2 DEF Rename
  <2> QED BY <2>1, <2>2
<1>4. CASE Create(p)
  BY <1>1, <1>4 DEF Create
<1>5. CASE Commit(p)
  <2>1. script[p] > db["main"].version
    BY <1>5, NextScript
  <2>2. db'["main"].version = script[p] /\ db'["main"].archive = db["main"].archive
    <3>1. PICK r, k, s, x : db' = [db EXCEPT !["main"].version = k, !["main"].applied = s,
                                             !["main"].populate = x]
                            /\ k = script[p]
      BY <1>5 DEF Commit
    <3> QED BY <1>1, <3>1 DEF UpgradeTypeOK, Database
  <2>3. files' = files
    BY <1>5 DEF Commit
  <2> QED BY <1>1, <1>5, <2>1, <2>2, <2>3, NextScript, ConstantsTyped DEF Script
<1>6. CASE SetPopulate(p)
  <2>1. db'["main"].version = db["main"].version /\ db'["main"].archive = db["main"].archive
    BY <1>1, <1>6 DEF SetPopulate, UpgradeTypeOK, Database
  <2> QED BY <1>1, <1>6, <2>1 DEF SetPopulate
<1> QED
  BY <1>2, <1>3, <1>4, <1>5, <1>6 DEF Start, Connect, Look, Find, ReadVersion, SkipScript,
    TakeLock, BeginWriting, Break, Connected, Quit, Die, Leave

\* The part of ArchiveIsKept that is about one step.
KeepsArchive ==
  (\E f \in files : db[f].archive) =>
    /\ \E f \in files' : db'[f].archive
    /\ "main" \in files' => db'["main"].archive

\* A database that is found is the one with the documents, and one that is
\* created is created only where there was none.
LEMMA ProgramKeepsArchive ==
  ASSUME UpgradeInv, NEW p \in Program,
         Start(p) \/ Connect(p) \/ SetPopulate(p) \/ Quit(p) \/ Die(p)
  PROVE  KeepsArchive
<1> SUFFICES ASSUME NEW f \in files, db[f].archive
             PROVE  \/ "main" \in files' /\ db'["main"].archive
                    \/ "old" \in files' /\ "main" \notin files' /\ db'["old"].archive
  BY DEF KeepsArchive
<1>1. files \subseteq {"main", "old"} /\ OldIsAlone
  BY DEF UpgradeInv, UpgradeTypeOK
<1>2. CASE f = "main"
  <2>1. "old" \notin files
    BY <1>1, <1>2 DEF OldIsAlone
  <2>2. "main" \in files' /\ db'["main"].archive = db["main"].archive
    BY <1>2, <2>1, ProgramWrites DEF Rename, Create
  <2> QED BY <1>2, <2>2
<1>3. CASE f = "old"
  <2>1. files = {"old"} /\ pc[p] \in Early
    BY <1>1, <1>3 DEF OldIsAlone
  <2>2. CASE Rename(p)
    BY <1>3, <2>1, <2>2 DEF Rename, UpgradeInv, UpgradeTypeOK
  <2>3. CASE ~Rename(p)
    <3>1. Start(p) \/ Look(p) \/ Die(p)
      BY <2>1, <2>3 DEF Connect, Find, Create, ReadVersion, SkipScript, TakeLock,
        BeginWriting, Commit, Break, Connected, SetPopulate, Quit, Early
    <3>2. UNCHANGED <<files, db>>
      BY <3>1 DEF Start, Look, Die, Leave
    <3> QED BY <1>3, <2>1, <3>2
  <2> QED BY <2>2, <2>3
<1> QED BY <1>1, <1>2, <1>3

LEMMA UpgradeStepWrites ==
  UpgradeInv /\ [UpgradeNext]_upgradeVars =>
    db'["main"].version >= db["main"].version /\ KeepsArchive
<1> SUFFICES ASSUME UpgradeInv, [UpgradeNext]_upgradeVars
             PROVE  db'["main"].version >= db["main"].version /\ KeepsArchive
  OBVIOUS
<1>1. CASE UpgradeNext
  BY <1>1, ProgramWrites, ProgramKeepsArchive DEF UpgradeNext
<1>2. CASE UNCHANGED upgradeVars
  <2>1. db["main"].version \in Int /\ files \subseteq {"main", "old"} /\ OldIsAlone
    BY ConstantsTyped DEF UpgradeInv, UpgradeTypeOK, Database
  <2> QED BY <1>2, <2>1 DEF upgradeVars, KeepsArchive, OldIsAlone, Blank
<1> QED BY <1>1, <1>2

------------------------------------------------------------------------------
\* Everything keeps its type, for any programs, scripts and installations.
THEOREM UpgradeTypeCorrect == UpgradeSpec => []UpgradeTypeOK
<1>1. UpgradeInv => UpgradeTypeOK
  BY DEF UpgradeInv
<1> QED BY <1>1, InitUpgrade, UpgradeStep, PTL DEF UpgradeSpec

\* With all scripts installed the version says which of them were run.
THEOREM HonestVersion == UpgradeSpec => []VersionIsHonest
<1>1. UpgradeInv => VersionIsHonest
  BY DEF UpgradeInv
<1> QED BY <1>1, InitUpgrade, UpgradeStep, PTL DEF UpgradeSpec

\* A program goes on only with a database that has all installed scripts.
THEOREM UpgradedWhenReady == UpgradeSpec => []ReadyIsUpgraded
<1>1. UpgradeInv => ReadyIsUpgraded
  BY DEF UpgradeInv
<1> QED BY <1>1, InitUpgrade, UpgradeStep, PTL DEF UpgradeSpec

\* The version never goes back, whoever runs old scripts.
THEOREM Forward == UpgradeSpec => VersionNeverGoesBack
<1>1. UpgradeInv /\ [UpgradeNext]_upgradeVars =>
        [db'["main"].version >= db["main"].version]_upgradeVars
  BY UpgradeStepWrites
<1> QED BY <1>1, InitUpgrade, UpgradeStep, PTL DEF UpgradeSpec, VersionNeverGoesBack

\* The documents of earlier years stay, where they are looked for.
THEOREM ArchiveKept == UpgradeSpec => ArchiveIsKept
<1>1. UpgradeInv /\ [UpgradeNext]_upgradeVars => [KeepsArchive]_upgradeVars
  BY UpgradeStepWrites
<1>2. [][KeepsArchive]_upgradeVars => ArchiveIsKept
  BY PTL DEF ArchiveIsKept, KeepsArchive
<1> QED BY <1>1, <1>2, InitUpgrade, UpgradeStep, PTL DEF UpgradeSpec

------------------------------------------------------------------------------
(* Waiting and writing                                                     *)

Inside == {"exec", "write"}

\* A program that waits for the lock waits for one that can go on (to commit its
\* script or to leave it), or for a lock that was left behind.
LockHasHolder == lock = "held" => \E p \in Program : pc[p] \in Inside

\* No two scripts are half way at the same time, although the daemon removes the
\* lock of whoever is inside when it starts: SQLite's own lock is left.
OneScriptAtATime ==
  \A p, q \in Program : pc[p] = "write" /\ pc[q] = "write" => p = q

\* SQLite's lock is held by a program in the middle of a script, or by one that
\* left it there.
WriterInv ==
  /\ writer # Nobody => pc[writer] \in {"write", "failed"}
  /\ \A p \in Program : pc[p] = "write" => writer = p

LockInv == LockHasHolder /\ WriterInv

LEMMA ProgramLocks ==
  ASSUME UpgradeTypeOK, LockInv, NEW p \in Program,
         Start(p) \/ Connect(p) \/ SetPopulate(p) \/ Quit(p) \/ Die(p)
  PROVE  LockInv'
<1> USE UpgradeAssumption DEF UpgradeTypeOK, LockInv, LockHasHolder, WriterInv, Inside, GoTo
<1>1. CASE Start(p) BY <1>1 DEF Start
<1>2. CASE Look(p)
  <2>1. LookAgain(p) \in {"find", "lookold", "rename"}
    BY DEF LookAgain
  <2> QED BY <1>2, <2>1 DEF Look
<1>3. CASE Rename(p) BY <1>3 DEF Rename
<1>4. CASE Find(p) \/ Create(p) BY <1>4 DEF Find, Create
<1>5. CASE ReadVersion(p) BY <1>5 DEF ReadVersion
<1>6. CASE SkipScript(p) BY <1>6 DEF SkipScript
<1>7. CASE TakeLock(p) BY <1>7 DEF TakeLock
<1>8. CASE BeginWriting(p) BY <1>8 DEF BeginWriting
<1>9. CASE Commit(p) BY <1>9 DEF Commit
<1>10. CASE Break(p) BY <1>10 DEF Break
<1>11. CASE Connected(p) BY <1>11 DEF Connected
<1>12. CASE SetPopulate(p) BY <1>12 DEF SetPopulate
<1>13. CASE Quit(p) BY <1>13 DEF Quit, Leave
<1>14. CASE Die(p) BY <1>14 DEF Die, Leave
<1> QED BY <1>1, <1>2, <1>3, <1>4, <1>5, <1>6, <1>7, <1>8, <1>9, <1>10, <1>11, <1>12,
           <1>13, <1>14 DEF Connect

LEMMA InitLock == UpgradeInit => LockInv
BY DEF UpgradeInit, LockInv, LockHasHolder, WriterInv

LEMMA LockStep ==
  UpgradeTypeOK /\ LockInv /\ [UpgradeNext]_upgradeVars => LockInv'
<1> SUFFICES ASSUME UpgradeTypeOK, LockInv, [UpgradeNext]_upgradeVars
             PROVE  LockInv'
  OBVIOUS
<1>1. CASE UpgradeNext BY <1>1, ProgramLocks DEF UpgradeNext
<1>2. CASE UNCHANGED upgradeVars
  BY <1>2 DEF upgradeVars, LockInv, LockHasHolder, WriterInv
<1> QED BY <1>1, <1>2

\* The safety half of StartEnds, for any programs and scripts, whoever fails or
\* dies: a lock that is held has somebody who will give it back.
THEOREM HeldLockHasHolder == UpgradeSpec => []LockHasHolder
<1>1. LockInv => LockHasHolder
  BY DEF LockInv
<1> QED BY <1>1, InitLock, LockStep, UpgradeTypeCorrect, PTL DEF UpgradeSpec

\* Also with two programs inside the lock, scripts are run one after the other.
THEOREM ScriptsOneByOne == UpgradeSpec => []OneScriptAtATime
<1>1. LockInv => OneScriptAtATime
  BY DEF LockInv, WriterInv, OneScriptAtATime
<1> QED BY <1>1, InitLock, LockStep, UpgradeTypeCorrect, PTL DEF UpgradeSpec
=============================================================================
