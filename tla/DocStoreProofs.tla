--------------------------- MODULE DocStoreProofs ---------------------------
(***************************************************************************)
(* The tables of DocStore, for any number of documents, pages and tags,    *)
(* whatever is cut short by a death: no row of doc_tags refers to a tag    *)
(* that is gone, a document that gets the id of a deleted one gets none of *)
(* its tags, links and images, a link has both its rows or none, the pages *)
(* of a document have their files, a search by tags finds what it is asked *)
(* for, and all of it implements DocView.tla.                              *)
(*                                                                         *)
(* None of it follows from the tables and files alone.  The calls the      *)
(* request in progress has yet to make say why a tag is there when a row   *)
(* is added for it, what of a document is gone when its own row goes,      *)
(* which side of a link is missing, and which files are on their way.      *)
(***************************************************************************)
EXTENDS DocStore, FiniteSetTheorems, SequenceTheorems, WellFoundedInduction, TLAPS

TagCalls == {"getTagId", "addTagToDoc", "removeTagFromDoc", "deleteUnusedTag"}
DocCalls == {"addDocToDoc", "removeDocFromDoc", "removeDocTags", "removeLinksOf",
             "removeLinksTo", "removeDoc"}
FileCalls == {"fcopy", "unlink"}
Adding == {"addTagToDoc", "addDocToDoc"}

CallSet == [op : TagCalls, doc : DocId, arg : Tag]
             \cup [op : DocCalls, doc : DocId, arg : DocId]
             \cup [op : FileCalls, doc : DocId, arg : File]

DocSet == [kind : {"jpg", "pdf", "scan"}, pages : 1..MaxPages, titled : BOOLEAN]

Typed ==
  /\ DOMAIN docs \subseteq DocId
  /\ \A d \in DOMAIN docs : docs[d] \in DocSet
  /\ tags \subseteq Tag
  /\ tagRows \in [DocId \X Tag -> Nat]
  /\ links \in [DocId \X DocId -> Nat]
  /\ todo \in Seq(CallSet)
  /\ scan.pc # "none" => scan.page \in 1..MaxPages
  /\ DOMAIN scan = {"pc", "doc", "page"}

At(i, op) == i \in 1..Len(todo) /\ todo[i].op = op

\* A row for a tag is added right after the tag was looked up, and between the
\* two calls nobody removes it.
TagIsLookedUp ==
  \A i \in 1..Len(todo) : At(i, "addTagToDoc") =>
    \/ i = 1 /\ todo[1].arg \in tags
    \/ i = 2 /\ At(1, "getTagId") /\ todo[1].arg = todo[2].arg

TagInv == Typed /\ TagIsLookedUp /\ TagRowsHaveTag

\* The ids without tags, without links of their own, without links to them.
Untagged  == {d \in DocId : \A t \in Tag : tagRows[<<d, t>>] = 0}
Unlinking == {d \in DocId : \A e \in DocId : links[<<d, e>>] = 0}
Unlinked  == {d \in DocId : \A e \in DocId : links[<<e, d>>] = 0}

\* The documents for which the call op is still to come before the i-th.
ToCome(i, op) == {d \in DocId : \E j \in 1..(i - 1) : At(j, op) /\ todo[j].doc = d}

\* When the row of a document goes, its tags and links are gone.
RowGoesLast ==
  \A i \in 1..Len(todo), d \in DocId : At(i, "removeDoc") /\ todo[i].doc = d =>
    /\ \A j \in 1..Len(todo) : todo[j].op \notin Adding
    /\ d \in Untagged \cup ToCome(i, "removeDocTags")
    /\ d \in Unlinking \cup ToCome(i, "removeLinksOf")
    /\ d \in Unlinked \cup ToCome(i, "removeLinksTo")

\* Tags and links are added to documents that are there.
AddsToDocs ==
  \A i \in 1..Len(todo) : todo[i].op \in Adding =>
    /\ todo[i].doc \in DOMAIN docs
    /\ At(i, "addDocToDoc") => todo[i].arg \in DOMAIN docs

\* An id that is not in use has no rows.
UnusedIsBlank == DocId \ DOMAIN docs \subseteq Untagged \cap Unlinking \cap Unlinked

BlankInv == Typed /\ RowGoesLast /\ AddsToDocs /\ UnusedIsBlank

------------------------------------------------------------------------------
(* Calls, and the requests that list them                                  *)

LEMMA CallFields ==
  ASSUME NEW c \in CallSet
  PROVE  /\ c.doc \in DocId
         /\ c.op \in TagCalls => c.arg \in Tag
         /\ c.op \in DocCalls => c.arg \in DocId
BY DEF CallSet, TagCalls, DocCalls, FileCalls

\* The first call is made, and the others move up.
LEMMA MakeCallOnce ==
  ASSUME Typed, NEW op, Make(op)
  PROVE  /\ Len(todo) \in Nat /\ Len(todo) > 0
         /\ todo[1] \in CallSet /\ The = todo[1] /\ todo[1].op = op
         /\ todo' \in Seq(CallSet) /\ Len(todo') = Len(todo) - 1
         /\ \A i \in 1..Len(todo') : todo'[i] = todo[i + 1]
         /\ UNCHANGED scan
BY DEF Typed, Make, Idle, The

LEMMA UnlinksAreCalls ==
  ASSUME Typed, NEW d \in DOMAIN docs
  PROVE  /\ UnlinkPages(d) \in Seq(CallSet)
         /\ Len(UnlinkPages(d)) = docs[d].pages
         /\ docs[d].pages \in Nat
         /\ \A i \in 1..docs[d].pages : UnlinkPages(d)[i].op = "unlink"
<1>1. docs[d].pages \in 1..MaxPages /\ d \in DocId
  BY DEF Typed, DocSet
<1>2. ASSUME NEW i \in 1..docs[d].pages PROVE Call("unlink", d, Image(d, i)) \in CallSet
  <2>1. Image(d, i) \in File
    BY <1>1, DocStoreAssumption DEF File
  <2> QED BY <1>1, <2>1 DEF Call, CallSet, FileCalls
<1>3. UnlinkPages(d) = [i \in 1..docs[d].pages |-> Call("unlink", d, Image(d, i))]
  BY DEF UnlinkPages
<1>4. docs[d].pages \in Nat
  BY <1>1, DocStoreAssumption
<1>5. UnlinkPages(d) \in Seq(CallSet)
  BY <1>2, <1>3, <1>4
<1>6. Len(UnlinkPages(d)) = docs[d].pages
  BY <1>3, <1>4
<1>7. \A i \in 1..docs[d].pages : UnlinkPages(d)[i].op = "unlink"
  BY <1>3 DEF Call
<1> QED BY <1>4, <1>5, <1>6, <1>7

LEMMA RemovesAreCalls ==
  ASSUME NEW d \in DocId
  PROVE  /\ RemoveRows(d) \in Seq(CallSet) /\ Len(RemoveRows(d)) = 4
         /\ RemoveRows(d)[1].op = "removeDocTags" /\ RemoveRows(d)[1].doc = d
         /\ RemoveRows(d)[2].op = "removeLinksOf" /\ RemoveRows(d)[2].doc = d
         /\ RemoveRows(d)[3].op = "removeLinksTo" /\ RemoveRows(d)[3].doc = d
         /\ RemoveRows(d)[4].op = "removeDoc" /\ RemoveRows(d)[4].doc = d
         /\ \A i \in 1..4 : RemoveRows(d)[i].op \in DocCalls \ {"addDocToDoc"}
<1>1. /\ RemoveRows(d) \in Seq(CallSet) /\ Len(RemoveRows(d)) = 4
      /\ RemoveRows(d)[1] = Call("removeDocTags", d, d)
      /\ RemoveRows(d)[2] = Call("removeLinksOf", d, d)
      /\ RemoveRows(d)[3] = Call("removeLinksTo", d, d)
      /\ RemoveRows(d)[4] = Call("removeDoc", d, d)
  BY DEF RemoveRows, CallSet, Call, DocCalls
<1>2. \A op \in DocCalls : Call(op, d, d).op = op /\ Call(op, d, d).doc = d
  BY DEF Call
<1>3. /\ RemoveRows(d)[1].op = "removeDocTags" /\ RemoveRows(d)[1].doc = d
      /\ RemoveRows(d)[2].op = "removeLinksOf" /\ RemoveRows(d)[2].doc = d
      /\ RemoveRows(d)[3].op = "removeLinksTo" /\ RemoveRows(d)[3].doc = d
      /\ RemoveRows(d)[4].op = "removeDoc" /\ RemoveRows(d)[4].doc = d
  BY <1>1, <1>2 DEF DocCalls
<1>4. \A i \in 1..4 : i = 1 \/ i = 2 \/ i = 3 \/ i = 4
  OBVIOUS
<1>5. \A i \in 1..4 : RemoveRows(d)[i].op \in DocCalls \ {"addDocToDoc"}
  BY <1>3, <1>4 DEF DocCalls
<1> QED BY <1>1, <1>3, <1>5

\* The calls of a deletion: the images page by page, then the rows.
Deletion(s, d, k) ==
  /\ Len(s) = k + 4
  /\ \A i \in 1..k :
       s[i].op = "unlink" /\ s[i].doc = d /\ s[i].arg = Image(d, i)
  /\ s[k + 1].op = "removeDocTags" /\ s[k + 1].doc = d
  /\ s[k + 2].op = "removeLinksOf" /\ s[k + 2].doc = d
  /\ s[k + 3].op = "removeLinksTo" /\ s[k + 3].doc = d
  /\ s[k + 4].op = "removeDoc" /\ s[k + 4].doc = d
  /\ \A i \in 1..Len(s) :
       i \in 1..k \/ i = k + 1 \/ i = k + 2 \/ i = k + 3 \/ i = k + 4

LEMMA DeleteCalls ==
  ASSUME Typed, NEW d \in DocId, DoDelete(d)
  PROVE  /\ d \in DOMAIN docs
         /\ \E k \in Nat : k = docs[d].pages /\ Deletion(todo', d, k)
<1> DEFINE U == UnlinkPages(d)
           R == RemoveRows(d)
<1>1. d \in DOMAIN docs /\ todo' = U \o R
  BY DEF DoDelete
<1>2. PICK k \in Nat : k = docs[d].pages
  BY <1>1, UnlinksAreCalls
<1>3. U \in Seq(CallSet) /\ Len(U) = k
  BY <1>1, <1>2, UnlinksAreCalls
<1>4. \A i \in 1..k : /\ U[i].op = "unlink" /\ U[i].doc = d
                      /\ U[i].arg = Image(d, i)
  BY <1>2 DEF UnlinkPages, Call
<1>5. /\ R \in Seq(CallSet) /\ Len(R) = 4
      /\ R[1].op = "removeDocTags" /\ R[1].doc = d
      /\ R[2].op = "removeLinksOf" /\ R[2].doc = d
      /\ R[3].op = "removeLinksTo" /\ R[3].doc = d
      /\ R[4].op = "removeDoc" /\ R[4].doc = d
  BY RemovesAreCalls
<1> HIDE DEF U, R
<1>6. /\ Len(U \o R) = Len(U) + Len(R)
      /\ \A i \in 1..(Len(U) + Len(R)) :
           (U \o R)[i] = IF i <= Len(U) THEN U[i] ELSE R[i - Len(U)]
  BY <1>3, <1>5, ConcatProperties, Zenon
<1>7. /\ Len(todo') = k + 4
      /\ \A i \in 1..(k + 4) : todo'[i] = IF i <= k THEN U[i] ELSE R[i - k]
  BY <1>1, <1>3, <1>5, <1>6
<1>8. \A i \in 1..k : todo'[i] = U[i]
  BY <1>7
<1>9. /\ todo'[k + 1] = R[1] /\ todo'[k + 2] = R[2] /\ todo'[k + 3] = R[3]
      /\ todo'[k + 4] = R[4]
  <2>1. /\ k + 1 \in 1..(k + 4) /\ k + 2 \in 1..(k + 4) /\ k + 3 \in 1..(k + 4)
        /\ k + 4 \in 1..(k + 4)
        /\ ~(k + 1 <= k) /\ ~(k + 2 <= k) /\ ~(k + 3 <= k) /\ ~(k + 4 <= k)
        /\ (k + 1) - k = 1 /\ (k + 2) - k = 2 /\ (k + 3) - k = 3 /\ (k + 4) - k = 4
    OBVIOUS
  <2> QED BY <1>7, <2>1
<1>10. \A i \in 1..(k + 4) :
         i \in 1..k \/ i = k + 1 \/ i = k + 2 \/ i = k + 3 \/ i = k + 4
  OBVIOUS
<1>11. \A i \in 1..k : /\ todo'[i].op = "unlink" /\ todo'[i].doc = d
                       /\ todo'[i].arg = Image(d, i)
  BY <1>4, <1>8
<1>12. /\ todo'[k + 1].op = "removeDocTags" /\ todo'[k + 1].doc = d
       /\ todo'[k + 2].op = "removeLinksOf" /\ todo'[k + 2].doc = d
       /\ todo'[k + 3].op = "removeLinksTo" /\ todo'[k + 3].doc = d
       /\ todo'[k + 4].op = "removeDoc" /\ todo'[k + 4].doc = d
  BY <1>5, <1>9
<1>13. Len(todo') = k + 4
  BY <1>7
<1>14. \A i \in 1..Len(todo') :
         i \in 1..k \/ i = k + 1 \/ i = k + 2 \/ i = k + 3 \/ i = k + 4
  BY <1>10, <1>13
<1>15. Deletion(todo', d, k)
  BY <1>11, <1>12, <1>13, <1>14 DEF Deletion
<1> QED BY <1>1, <1>2, <1>15

LEMMA FilesOf ==
  ASSUME NEW d \in DocId
  PROVE  {Image(d, 1), Datafile(d), Thumb(d)} \subseteq File
BY DocStoreAssumption DEF File

LEMMA InsertTyped ==
  ASSUME Typed, NextDocId \in DocId, NEW kind \in {"jpg", "pdf", "scan"},
         NEW pages \in 1..MaxPages, InsertDoc(kind, pages)
  PROVE  /\ DOMAIN docs' \subseteq DocId
         /\ \A d \in DOMAIN docs' : docs'[d] \in DocSet
         /\ DOMAIN docs \subseteq DOMAIN docs'
<1> DEFINE n == NextDocId
<1>1. docs' = [d \in DOMAIN docs \cup {n} |->
                 IF d = n THEN [kind |-> kind, pages |-> pages, titled |-> FALSE]
                 ELSE docs[d]]
  BY DEF InsertDoc
<1> HIDE DEF n
<1>2. n \in DocId
  BY DEF n
<1> QED BY <1>1, <1>2 DEF Typed, DocSet

LEMMA InitTyped == Init => Typed
BY DocStoreAssumption DEF Init, Typed

LEMMA StepTyped == Typed /\ [Next]_vars => Typed'
<1> SUFFICES ASSUME Typed, [Next]_vars PROVE Typed'
  OBVIOUS
<1> USE DocStoreAssumption
<1>1. ASSUME NEW kind \in {"jpg", "pdf"}, UploadFile(kind) PROVE Typed'
  <2> DEFINE n == NextDocId
  <2>1. n \in DocId /\ InsertDoc(kind, 1) /\ 1 \in 1..MaxPages
    BY <1>1 DEF UploadFile
  <2>2. /\ todo' = IF kind = "jpg" THEN <<Call("fcopy", n, Image(n, 1))>>
                   ELSE <<Call("fcopy", n, Datafile(n)), Call("fcopy", n, Thumb(n))>>
        /\ UNCHANGED <<tags, tagRows, links, scan>>
    BY <1>1 DEF UploadFile
  <2>3. DOMAIN docs' \subseteq DocId /\ \A d \in DOMAIN docs' : docs'[d] \in DocSet
    BY <2>1, InsertTyped
  <2> HIDE DEF n
  <2>4. \A f \in File : Call("fcopy", n, f) \in CallSet
    BY <2>1 DEF Call, CallSet, FileCalls
  <2>5. todo' \in Seq(CallSet)
    BY <2>1, <2>2, <2>4, FilesOf
  <2> QED BY <2>2, <2>3, <2>5 DEF Typed
<1>2. ASSUME NEW d \in DocId, DoDelete(d) PROVE Typed'
  <2>1. /\ d \in DOMAIN docs /\ todo' = UnlinkPages(d) \o RemoveRows(d)
        /\ UNCHANGED <<docs, tags, tagRows, links, scan>>
    BY <1>2 DEF DoDelete
  <2>2. todo' \in Seq(CallSet)
    BY <2>1, UnlinksAreCalls, RemovesAreCalls
  <2> QED BY <2>1, <2>2 DEF Typed
<1>3. ASSUME NEW d \in DocId, SetTitle(d) PROVE Typed'
  BY <1>3 DEF SetTitle, Typed, DocSet
<1>4. ASSUME NEW d \in DocId, NEW t \in Tag, AddTag(d, t) \/ RemoveTag(d, t) 
      PROVE  Typed'
  <2>1. \A op \in TagCalls : Call(op, d, t) \in CallSet
    BY DEF Call, CallSet
  <2>2. todo' \in Seq(CallSet)
    <3>1. CASE AddTag(d, t)
      <4>1. todo' = <<Call("getTagId", d, t), Call("addTagToDoc", d, t)>>
        BY <3>1 DEF AddTag
      <4> QED BY <2>1, <4>1 DEF TagCalls
    <3>2. CASE RemoveTag(d, t)
      <4>1. todo' = <<Call("getTagId", d, t), Call("removeTagFromDoc", d, t),
                      Call("deleteUnusedTag", d, t)>>
        BY <3>2 DEF RemoveTag
      <4> QED BY <2>1, <4>1 DEF TagCalls
    <3> QED BY <1>4, <3>1, <3>2
  <2> QED BY <1>4, <2>2 DEF AddTag, RemoveTag, Typed
<1>5. ASSUME NEW d \in DocId, NEW e \in DocId, AddDoc(d, e) \/ RemoveDoc(d, e) 
      PROVE  Typed'
  <2>1. \A op \in DocCalls : Call(op, d, e) \in CallSet /\ Call(op, e, d) \in CallSet
    BY DEF Call, CallSet
  <2>2. \E op \in {"addDocToDoc", "removeDocFromDoc"} :
          todo' = <<Call(op, d, e), Call(op, e, d)>>
    BY <1>5 DEF AddDoc, RemoveDoc, UnlinkDocs
  <2>3. todo' \in Seq(CallSet)
    BY <2>1, <2>2 DEF DocCalls
  <2> QED BY <1>5, <2>3 DEF AddDoc, RemoveDoc, Typed
<1>6. CASE Fcopy \/ Unlink
  BY <1>6, MakeCallOnce DEF Fcopy, Unlink, rows, Typed
<1>7. CASE GetTagId
  <2>1. todo[1].arg \in Tag
    BY <1>7, MakeCallOnce, CallFields DEF GetTagId, TagCalls
  <2> QED BY <1>7, <2>1, MakeCallOnce DEF GetTagId, Typed
<1>8. CASE AddTagToDoc \/ RemoveTagFromDoc
  <2>1. The.doc \in DocId /\ The.arg \in Tag /\ todo' \in Seq(CallSet) /\ UNCHANGED scan
    BY <1>8, MakeCallOnce, CallFields DEF AddTagToDoc, RemoveTagFromDoc, TagCalls
  <2> DEFINE r == <<The.doc, The.arg>>
  <2>2. r \in DocId \X Tag
    BY <2>1
  <2>3. tagRows' = [tagRows EXCEPT ![r] = @ + 1] \/ tagRows' = [tagRows EXCEPT ![r] = 0]
    BY <1>8 DEF AddTagToDoc, RemoveTagFromDoc
  <2> HIDE DEF r
  <2>4. tagRows' \in [DocId \X Tag -> Nat]
    BY <2>2, <2>3 DEF Typed
  <2> QED BY <1>8, <2>1, <2>4 DEF AddTagToDoc, RemoveTagFromDoc, Typed
<1>9. CASE DeleteUnusedTag
  BY <1>9, MakeCallOnce DEF DeleteUnusedTag, Typed
<1>10. CASE AddDocToDoc \/ RemoveDocFromDoc
  <2>1. The.doc \in DocId /\ The.arg \in DocId /\ todo' \in Seq(CallSet) /\ UNCHANGED scan
    BY <1>10, MakeCallOnce, CallFields DEF AddDocToDoc, RemoveDocFromDoc, DocCalls
  <2> DEFINE r == <<The.doc, The.arg>>
  <2>2. r \in DocId \X DocId
    BY <2>1
  <2>3. links' = [links EXCEPT ![r] = @ + 1] \/ links' = [links EXCEPT ![r] = 0]
    BY <1>10 DEF AddDocToDoc, RemoveDocFromDoc
  <2> HIDE DEF r
  <2>4. links' \in [DocId \X DocId -> Nat]
    BY <2>2, <2>3 DEF Typed
  <2> QED BY <1>10, <2>1, <2>4 DEF AddDocToDoc, RemoveDocFromDoc, Typed
<1>11. CASE RemoveDocTags
  BY <1>11, MakeCallOnce DEF RemoveDocTags, Typed
<1>12. CASE RemoveLinks
  BY <1>12, MakeCallOnce DEF RemoveLinks, Typed
<1>13. CASE DropDoc
  BY <1>13, MakeCallOnce DEF DropDoc, Typed
<1>14. ASSUME NEW n \in 1..MaxPages, ScanInsert(n) PROVE Typed'
  <2>1. DOMAIN docs' \subseteq DocId /\ \A d \in DOMAIN docs' : docs'[d] \in DocSet
    BY <1>14, InsertTyped DEF ScanInsert
  <2> QED BY <1>14, <2>1 DEF ScanInsert, Typed
<1>15. CASE ScanImage \/ ScanNext \/ ScanEnd \/ WorkerDies
  <2>1. CASE ScanImage
    BY <1>15, <2>1 DEF ScanImage, Typed
  <2>2. CASE ScanNext
    BY <1>15, <2>2 DEF ScanNext, Typed
  <2>3. CASE ScanEnd
    BY <1>15, <2>3 DEF ScanEnd, Typed
  <2>4. CASE WorkerDies
    BY <1>15, <2>4 DEF WorkerDies, Typed
  <2> QED BY <1>15, <2>1, <2>2, <2>3, <2>4
<1>16. CASE ScanText
  <2>1. scan.page \in 1..MaxPages
    BY <1>16 DEF ScanText, Typed
  <2>2. \A d \in DOMAIN docs' : docs'[d] \in DocSet
    BY <1>16, <2>1 DEF ScanText, PagesSoFar, Typed, DocSet
  <2> QED BY <1>16, <2>1, <2>2 DEF ScanText, Typed
<1>17. CASE DaemonDies
  BY <1>17 DEF DaemonDies, Typed
<1>18. CASE UNCHANGED vars
  BY <1>18 DEF vars, Typed
<1> QED BY <1>1, <1>2, <1>3, <1>4, <1>5, <1>6, <1>7, <1>8, <1>9, <1>10, <1>11,
  <1>12, <1>13, <1>14, <1>15, <1>16, <1>17, <1>18 DEF Next, Request, MakeCall, Scan

------------------------------------------------------------------------------
(* No row refers to a tag that is gone                                     *)

\* A request that starts has looked nothing up yet: what it adds a tag for is
\* the second of its calls.
LEMMA RequestLooksUp ==
  ASSUME Typed, Request PROVE TagIsLookedUp'
<1>1. ASSUME NEW kind \in {"jpg", "pdf"}, UploadFile(kind) PROVE TagIsLookedUp'
  <2>1. \A i \in 1..Len(todo') : todo'[i].op = "fcopy"
    BY <1>1 DEF UploadFile, Call
  <2> QED BY <2>1 DEF TagIsLookedUp, At
<1>2. ASSUME NEW d \in DocId, DoDelete(d) PROVE TagIsLookedUp'
  <2>1. PICK k \in Nat : Deletion(todo', d, k)
    BY <1>2, DeleteCalls
  <2>2. \A i \in 1..Len(todo') : todo'[i].op # "addTagToDoc"
    BY <2>1 DEF Deletion
  <2> QED BY <2>2 DEF TagIsLookedUp, At
<1>3. ASSUME NEW d \in DocId, SetTitle(d) PROVE TagIsLookedUp'
  <2>1. todo' = << >>
    BY <1>3 DEF SetTitle, Idle
  <2> QED BY <2>1 DEF TagIsLookedUp
<1>4. ASSUME NEW d \in DocId, NEW t \in Tag, AddTag(d, t) PROVE TagIsLookedUp'
  <2>1. todo' = <<Call("getTagId", d, t), Call("addTagToDoc", d, t)>>
    BY <1>4 DEF AddTag
  <2> QED BY <2>1 DEF TagIsLookedUp, At, Call
<1>5. ASSUME NEW d \in DocId, NEW t \in Tag, RemoveTag(d, t) PROVE TagIsLookedUp'
  <2>1. todo' = <<Call("getTagId", d, t), Call("removeTagFromDoc", d, t),
                  Call("deleteUnusedTag", d, t)>>
    BY <1>5 DEF RemoveTag
  <2> QED BY <2>1 DEF TagIsLookedUp, At, Call
<1>6. ASSUME NEW d \in DocId, NEW e \in DocId, AddDoc(d, e) \/ RemoveDoc(d, e)
      PROVE  TagIsLookedUp'
  <2>1. \A i \in 1..Len(todo') : todo'[i].op \in {"addDocToDoc", "removeDocFromDoc"}
    BY <1>6 DEF AddDoc, RemoveDoc, UnlinkDocs, Call
  <2> QED BY <2>1 DEF TagIsLookedUp, At
<1> QED BY <1>1, <1>2, <1>3, <1>4, <1>5, <1>6 DEF Request

\* A call that is made moves the others up; only deleteTag takes a tag away.
LEMMA CallLooksUp ==
  ASSUME TagInv, NEW op, Make(op),
         op = "getTagId" => tags' = tags \cup {The.arg},
         op \notin {"getTagId", "deleteUnusedTag"} => tags' = tags
  PROVE  TagIsLookedUp'
<1>1. /\ Len(todo) \in Nat /\ todo[1].op = op /\ The = todo[1]
      /\ Len(todo') = Len(todo) - 1
      /\ \A i \in 1..Len(todo') : todo'[i] = todo[i + 1]
  BY MakeCallOnce DEF TagInv
<1>2. ASSUME NEW i \in 1..Len(todo'), todo'[i].op = "addTagToDoc"
      PROVE  i = 1 /\ todo'[1].arg \in tags'
  <2>1. i + 1 \in 1..Len(todo) /\ todo[i + 1].op = "addTagToDoc" /\ i + 1 # 1
    BY <1>1, <1>2
  <2>2. i + 1 = 2 /\ todo[1].op = "getTagId" /\ todo[1].arg = todo[2].arg
    BY <2>1 DEF TagInv, TagIsLookedUp, At
  <2> QED BY <1>1, <2>1, <2>2
<1> QED BY <1>2 DEF TagIsLookedUp, At

LEMMA TagInvStep == TagInv /\ [Next]_vars => TagInv'
<1> SUFFICES ASSUME TagInv, [Next]_vars PROVE TagIsLookedUp' /\ TagRowsHaveTag'
  BY StepTyped DEF TagInv
<1>1. ASSUME tags \subseteq tags', UNCHANGED tagRows PROVE TagRowsHaveTag'
  BY <1>1 DEF TagInv, TagRowsHaveTag
<1>2. ASSUME UNCHANGED <<tags, todo>> PROVE TagIsLookedUp'
  BY <1>2 DEF TagInv, TagIsLookedUp, At
<1>3. CASE Request
  <2>1. UNCHANGED <<tags, tagRows>>
    BY <1>3 DEF Request, UploadFile, DoDelete, SetTitle, AddTag, RemoveTag,
      AddDoc, RemoveDoc
  <2> QED BY <1>1, <1>3, <2>1, RequestLooksUp DEF TagInv
<1>4. CASE Scan
  <2>1. UNCHANGED <<tags, tagRows, todo>>
    BY <1>4 DEF Scan, ScanInsert, ScanImage, ScanText, ScanNext, ScanEnd
  <2> QED BY <1>1, <1>2, <2>1
<1>5. CASE WorkerDies \/ UNCHANGED vars
  <2>1. UNCHANGED <<tags, tagRows, todo>>
    BY <1>5 DEF WorkerDies, vars
  <2> QED BY <1>1, <1>2, <2>1
<1>6. CASE DaemonDies
  <2>1. UNCHANGED <<tags, tagRows>> /\ todo' = << >>
    BY <1>6 DEF DaemonDies
  <2> QED BY <1>1, <2>1 DEF TagIsLookedUp
<1>7. CASE Fcopy \/ Unlink \/ AddDocToDoc \/ RemoveDocFromDoc \/ RemoveLinks \/ DropDoc
  <2>1. UNCHANGED <<tags, tagRows>>
    BY <1>7 DEF Fcopy, Unlink, rows, AddDocToDoc, RemoveDocFromDoc, RemoveLinks, DropDoc
  <2>2. TagIsLookedUp'
    BY <1>7, <2>1, CallLooksUp DEF Fcopy, Unlink, AddDocToDoc, RemoveDocFromDoc,
      RemoveLinks, DropDoc
  <2> QED BY <1>1, <2>1, <2>2
<1>8. CASE GetTagId
  <2>1. UNCHANGED tagRows /\ tags' = tags \cup {The.arg}
    BY <1>8 DEF GetTagId
  <2> QED BY <1>1, <1>8, <2>1, CallLooksUp DEF GetTagId
<1>9. CASE AddTagToDoc
  <2>1. UNCHANGED tags /\ TagIsLookedUp'
    BY <1>9, CallLooksUp DEF AddTagToDoc
  <2>2. The.doc \in DocId /\ The.arg \in Tag /\ The.arg \in tags
    BY <1>9, MakeCallOnce, CallFields
      DEF AddTagToDoc, TagInv, TagIsLookedUp, At, TagCalls
  <2>3. ASSUME NEW d \in DocId, NEW t \in Tag, tagRows'[<<d, t>>] > 0, t # The.arg
        PROVE  tagRows[<<d, t>>] > 0
    BY <1>9, <2>2, <2>3 DEF AddTagToDoc, TagInv, Typed
  <2> QED BY <2>1, <2>2, <2>3 DEF TagInv, TagRowsHaveTag
<1>10. CASE RemoveTagFromDoc \/ RemoveDocTags
  <2>1. UNCHANGED tags /\ TagIsLookedUp'
    BY <1>10, CallLooksUp DEF RemoveTagFromDoc, RemoveDocTags
  <2>2. ASSUME NEW d \in DocId, NEW t \in Tag, tagRows'[<<d, t>>] > 0
        PROVE  tagRows[<<d, t>>] > 0
    <3>1. <<d, t>> \in DocId \X Tag /\ tagRows \in [DocId \X Tag -> Nat]
      BY DEF TagInv, Typed
    <3>2. CASE RemoveTagFromDoc
      <4> DEFINE r == <<The.doc, The.arg>>
                 q == <<d, t>>
      <4>1. tagRows' = [tagRows EXCEPT ![r] = 0]
        BY <3>2 DEF RemoveTagFromDoc
      <4> HIDE DEF r, q
      <4>2. tagRows'[q] = tagRows[q] \/ tagRows'[q] = 0
        BY <3>1, <4>1 DEF q
      <4> QED BY <2>2, <4>2 DEF q
    <3>3. CASE RemoveDocTags
      BY <2>2, <3>1, <3>3 DEF RemoveDocTags
    <3> QED BY <1>10, <3>2, <3>3
  <2> QED BY <2>1, <2>2 DEF TagInv, TagRowsHaveTag
<1>11. CASE DeleteUnusedTag
  <2>1. TagIsLookedUp'
    BY <1>11, CallLooksUp DEF DeleteUnusedTag
  <2>2. TagRowsHaveTag'
    BY <1>11 DEF DeleteUnusedTag, Unused, TagInv, TagRowsHaveTag
  <2> QED BY <2>1, <2>2
<1> QED BY <1>3, <1>4, <1>5, <1>6, <1>7, <1>8, <1>9, <1>10, <1>11 DEF Next, MakeCall

\* TagRowsHaveTag, for any number of documents and tags: deleteTag runs only
\* when no document has the tag, also after a death cut a request short.
THEOREM RowsHaveTags == Spec => []TagRowsHaveTag
<1>1. Init => TagInv
  BY InitTyped DEF Init, TagInv, TagIsLookedUp, TagRowsHaveTag
<1>2. TagInv => TagRowsHaveTag
  BY DEF TagInv
<1> QED BY <1>1, <1>2, TagInvStep, PTL DEF Spec

------------------------------------------------------------------------------
(* A document starts blank                                                 *)

\* What a call does to the rows RowGoesLast speaks of: unless it adds some it
\* leaves what is gone gone, and each of three calls clears one kind.
Clears(op) ==
  /\ op \notin Adding =>
       /\ Untagged \subseteq Untagged'
       /\ Unlinking \subseteq Unlinking'
       /\ Unlinked \subseteq Unlinked'
  /\ op = "removeDocTags" => todo[1].doc \in Untagged'
  /\ op = "removeLinksOf" => todo[1].doc \in Unlinking'
  /\ op = "removeLinksTo" => todo[1].doc \in Unlinked'

LEMMA CallKeepsOrder ==
  ASSUME BlankInv, NEW op, Make(op), Clears(op)
  PROVE  RowGoesLast'
<1>1. /\ Len(todo) \in Nat /\ Len(todo) > 0 /\ todo[1].op = op
      /\ Len(todo') = Len(todo) - 1 /\ todo' \in Seq(CallSet)
      /\ \A i \in 1..Len(todo') : todo'[i] = todo[i + 1]
  BY MakeCallOnce DEF BlankInv
<1> SUFFICES ASSUME NEW i \in 1..Len(todo'), NEW d \in DocId,
                    todo'[i].op = "removeDoc", todo'[i].doc = d
             PROVE  /\ \A j \in 1..Len(todo') : todo'[j].op \notin Adding
                    /\ d \in Untagged' \cup ToCome(i, "removeDocTags")'
                    /\ d \in Unlinking' \cup ToCome(i, "removeLinksOf")'
                    /\ d \in Unlinked' \cup ToCome(i, "removeLinksTo")'
  BY DEF RowGoesLast, At
<1>2. i + 1 \in 1..Len(todo) /\ todo[i + 1].op = "removeDoc" /\ todo[i + 1].doc = d
  BY <1>1
<1>3. /\ \A j \in 1..Len(todo) : todo[j].op \notin Adding
      /\ d \in Untagged \cup ToCome(i + 1, "removeDocTags")
      /\ d \in Unlinking \cup ToCome(i + 1, "removeLinksOf")
      /\ d \in Unlinked \cup ToCome(i + 1, "removeLinksTo")
  BY <1>2 DEF BlankInv, RowGoesLast, At
<1>4. op \notin Adding /\ \A j \in 1..Len(todo') : todo'[j].op \notin Adding
  <2>1. 1 \in 1..Len(todo) /\ \A j \in 1..Len(todo') : j + 1 \in 1..Len(todo)
    BY <1>1
  <2> QED BY <1>1, <1>3, <2>1
<1>5. ASSUME NEW other, d \in ToCome(i + 1, other)
      PROVE  (op = other /\ todo[1].doc = d) \/ d \in ToCome(i, other)'
  <2>1. PICK j \in 1..i : j \in 1..Len(todo) /\ todo[j].op = other /\ todo[j].doc = d
    BY <1>1, <1>5 DEF ToCome, At
  <2>2. CASE j = 1
    BY <1>1, <2>1, <2>2
  <2>3. CASE j # 1
    <3>1. j - 1 \in 1..(i - 1) /\ j - 1 \in 1..Len(todo') /\ todo'[j - 1] = todo[(j - 1) + 1]
      BY <1>1, <2>1, <2>3
    <3>2. todo'[j - 1].op = other /\ todo'[j - 1].doc = d
      BY <2>1, <3>1
    <3> QED BY <3>1, <3>2 DEF ToCome, At
  <2> QED BY <2>2, <2>3
<1>6. d \in Untagged' \cup ToCome(i, "removeDocTags")'
  BY <1>3, <1>4, <1>5 DEF Clears
<1>7. d \in Unlinking' \cup ToCome(i, "removeLinksOf")'
  BY <1>3, <1>4, <1>5 DEF Clears
<1>8. d \in Unlinked' \cup ToCome(i, "removeLinksTo")'
  BY <1>3, <1>4, <1>5 DEF Clears
<1> QED BY <1>4, <1>6, <1>7, <1>8

\* Requests add to documents their pages offer, and a deletion lists the calls
\* for the rows in their order, the row of the document last.
LEMMA RequestKeepsOrder ==
  ASSUME CarefulClient, BlankInv, Request
  PROVE  RowGoesLast' /\ AddsToDocs'
<1>1. ASSUME \A i \in 1..Len(todo') : todo'[i].op \notin Adding \cup {"removeDoc"}
      PROVE  RowGoesLast' /\ AddsToDocs'
  BY <1>1 DEF RowGoesLast, AddsToDocs, At
<1>2. ASSUME NEW kind \in {"jpg", "pdf"}, UploadFile(kind)
      PROVE  RowGoesLast' /\ AddsToDocs'
  <2>1. \A i \in 1..Len(todo') : todo'[i].op = "fcopy"
    BY <1>2 DEF UploadFile, Call
  <2> QED BY <1>1, <2>1 DEF Adding
<1>3. ASSUME NEW d \in DocId, DoDelete(d) PROVE RowGoesLast' /\ AddsToDocs'
  <2>0. PICK n \in Nat : Deletion(todo', d, n)
    BY <1>3, DeleteCalls DEF BlankInv
  <2>1. /\ Len(todo') = n + 4
        /\ todo'[n + 1].op = "removeDocTags" /\ todo'[n + 1].doc = d
        /\ todo'[n + 2].op = "removeLinksOf" /\ todo'[n + 2].doc = d
        /\ todo'[n + 3].op = "removeLinksTo" /\ todo'[n + 3].doc = d
        /\ todo'[n + 4].op = "removeDoc" /\ todo'[n + 4].doc = d
    BY <2>0 DEF Deletion
  <2>2. \A i \in 1..Len(todo') : todo'[i].op \notin Adding
    BY <2>0 DEF Deletion, Adding
  <2>3. \A i \in 1..Len(todo') : todo'[i].op = "removeDoc" => i = n + 4
    BY <2>0 DEF Deletion
  <2>4. /\ d \in ToCome(n + 4, "removeDocTags")'
        /\ d \in ToCome(n + 4, "removeLinksOf")'
        /\ d \in ToCome(n + 4, "removeLinksTo")'
    <3>1. {n + 1, n + 2, n + 3} \subseteq 1..((n + 4) - 1)
          /\ {n + 1, n + 2, n + 3} \subseteq 1..Len(todo')
      BY <2>1
    <3> QED BY <2>1, <3>1 DEF ToCome, At
  <2>5. AddsToDocs'
    BY <2>2 DEF AddsToDocs
  <2>6. RowGoesLast'
    <3> SUFFICES ASSUME NEW i \in 1..Len(todo'), NEW e \in DocId,
                        todo'[i].op = "removeDoc", todo'[i].doc = e
                 PROVE  /\ \A j \in 1..Len(todo') : todo'[j].op \notin Adding
                        /\ e \in Untagged' \cup ToCome(i, "removeDocTags")'
                        /\ e \in Unlinking' \cup ToCome(i, "removeLinksOf")'
                        /\ e \in Unlinked' \cup ToCome(i, "removeLinksTo")'
      BY DEF RowGoesLast, At
    <3>1. i = n + 4 /\ e = d
      BY <2>1, <2>3
    <3> QED BY <2>2, <2>4, <3>1
  <2> QED BY <2>5, <2>6
<1>4. ASSUME NEW d \in DocId, SetTitle(d) PROVE RowGoesLast' /\ AddsToDocs'
  <2>1. todo' = << >>
    BY <1>4 DEF SetTitle, Idle
  <2> QED BY <1>1, <2>1
<1>5. ASSUME NEW d \in DocId, NEW t \in Tag, AddTag(d, t)
      PROVE  RowGoesLast' /\ AddsToDocs'
  <2>1. /\ todo' = <<Call("getTagId", d, t), Call("addTagToDoc", d, t)>>
        /\ d \in DOMAIN docs /\ docs' = docs
    BY <1>5 DEF AddTag, Offered
  <2> QED BY <2>1 DEF RowGoesLast, AddsToDocs, At, Call, Adding
<1>6. ASSUME NEW d \in DocId, NEW t \in Tag, RemoveTag(d, t)
      PROVE  RowGoesLast' /\ AddsToDocs'
  <2>1. \A i \in 1..Len(todo') :
          todo'[i].op \in {"getTagId", "removeTagFromDoc", "deleteUnusedTag"}
    BY <1>6 DEF RemoveTag, Call
  <2> QED BY <1>1, <2>1 DEF Adding
<1>7. ASSUME NEW d \in DocId, NEW e \in DocId, AddDoc(d, e)
      PROVE  RowGoesLast' /\ AddsToDocs'
  <2>1. /\ todo' = <<Call("addDocToDoc", d, e), Call("addDocToDoc", e, d)>>
        /\ {d, e} \subseteq DOMAIN docs /\ docs' = docs
    BY <1>7 DEF AddDoc, Offered
  <2> QED BY <2>1 DEF RowGoesLast, AddsToDocs, At, Call, Adding
<1>8. ASSUME NEW d \in DocId, NEW e \in DocId, RemoveDoc(d, e)
      PROVE  RowGoesLast' /\ AddsToDocs'
  <2>1. \A i \in 1..Len(todo') : todo'[i].op = "removeDocFromDoc"
    BY <1>8 DEF RemoveDoc, UnlinkDocs, Call
  <2> QED BY <1>1, <2>1 DEF Adding
<1> QED BY <1>2, <1>3, <1>4, <1>5, <1>6, <1>7, <1>8 DEF Request

\* Apart from the two calls that add rows, a call clears rows or leaves them.
LEMMA CallsClear ==
  ASSUME Typed, MakeCall
  PROVE  \E op : Make(op) /\ Clears(op)
<1>1. ASSUME NEW op, Make(op), UNCHANGED <<tagRows, links>>,
             op \notin {"removeDocTags", "removeLinksOf", "removeLinksTo"}
      PROVE  Clears(op)
  BY <1>1 DEF Clears, Untagged, Unlinking, Unlinked
<1>2. CASE Fcopy
  BY <1>1, <1>2 DEF Fcopy, rows
<1>3. CASE Unlink
  BY <1>1, <1>3 DEF Unlink, rows
<1>4. CASE GetTagId
  BY <1>1, <1>4 DEF GetTagId
<1>5. CASE DeleteUnusedTag
  BY <1>1, <1>5 DEF DeleteUnusedTag
<1>6. CASE DropDoc
  BY <1>1, <1>6 DEF DropDoc
<1>7. CASE AddTagToDoc \/ AddDocToDoc
  <2>1. PICK op \in Adding : Make(op)
    BY <1>7 DEF AddTagToDoc, AddDocToDoc, Adding
  <2>2. Clears(op)
    BY DEF Clears, Adding
  <2> QED BY <2>1, <2>2
<1>8. CASE RemoveTagFromDoc
  <2> DEFINE r == <<The.doc, The.arg>>
  <2>1. /\ Make("removeTagFromDoc") /\ links' = links
        /\ tagRows' = [tagRows EXCEPT ![r] = 0]
    BY <1>8 DEF RemoveTagFromDoc
  <2> HIDE DEF r
  <2>2. \A q \in DocId \X Tag : tagRows[q] = 0 => tagRows'[q] = 0
    BY <2>1 DEF Typed
  <2>3. Clears("removeTagFromDoc")
    BY <2>1, <2>2 DEF Clears, Untagged, Unlinking, Unlinked
  <2> QED BY <2>1, <2>3
<1>9. CASE RemoveDocFromDoc
  <2> DEFINE r == <<The.doc, The.arg>>
  <2>1. /\ Make("removeDocFromDoc") /\ tagRows' = tagRows
        /\ links' = [links EXCEPT ![r] = 0]
    BY <1>9 DEF RemoveDocFromDoc
  <2> HIDE DEF r
  <2>2. \A q \in DocId \X DocId : links[q] = 0 => links'[q] = 0
    BY <2>1 DEF Typed
  <2>3. Clears("removeDocFromDoc")
    BY <2>1, <2>2 DEF Clears, Untagged, Unlinking, Unlinked
  <2> QED BY <2>1, <2>3
<1>10. CASE RemoveDocTags
  <2>1. /\ Make("removeDocTags") /\ links' = links
        /\ tagRows' = [r \in DocId \X Tag |-> IF r[1] = The.doc THEN 0 ELSE tagRows[r]]
    BY <1>10 DEF RemoveDocTags
  <2>2. The = todo[1] /\ The.doc \in DocId
    BY <2>1, MakeCallOnce, CallFields
  <2>3. Clears("removeDocTags")
    BY <2>1, <2>2 DEF Clears, Untagged, Unlinking, Unlinked
  <2> QED BY <2>1, <2>3
<1>11. CASE RemoveLinks
  <2>1. CASE Make("removeLinksOf")
             /\ links' = [r \in DocId \X DocId |-> IF r[1] = The.doc THEN 0 ELSE links[r]]
    <3>1. The = todo[1] /\ The.doc \in DocId /\ tagRows' = tagRows
      BY <1>11, <2>1, MakeCallOnce, CallFields DEF RemoveLinks
    <3>2. Clears("removeLinksOf")
      BY <2>1, <3>1 DEF Clears, Untagged, Unlinking, Unlinked
    <3> QED BY <2>1, <3>2
  <2>2. CASE Make("removeLinksTo")
             /\ links' = [r \in DocId \X DocId |-> IF r[2] = The.doc THEN 0 ELSE links[r]]
    <3>1. The = todo[1] /\ The.doc \in DocId /\ tagRows' = tagRows
      BY <1>11, <2>2, MakeCallOnce, CallFields DEF RemoveLinks
    <3>2. Clears("removeLinksTo")
      BY <2>2, <3>1 DEF Clears, Untagged, Unlinking, Unlinked
    <3> QED BY <2>2, <3>2
  <2> QED BY <1>11, <2>1, <2>2 DEF RemoveLinks
<1> QED BY <1>2, <1>3, <1>4, <1>5, <1>6, <1>7, <1>8, <1>9, <1>10, <1>11 DEF MakeCall

\* A call moves the additions up; the row of a document goes only when nothing
\* is left to add.
LEMMA CallKeepsTargets ==
  ASSUME BlankInv, MakeCall PROVE AddsToDocs'
<1>1. PICK op : Make(op) /\ (docs' = docs \/ op = "removeDoc")
  BY DEF MakeCall, Fcopy, Unlink, rows, GetTagId, AddTagToDoc, RemoveTagFromDoc,
    DeleteUnusedTag, AddDocToDoc, RemoveDocFromDoc, RemoveDocTags, RemoveLinks, DropDoc
<1>2. /\ Len(todo) \in Nat /\ Len(todo) > 0 /\ todo[1].op = op /\ todo[1] \in CallSet
      /\ Len(todo') = Len(todo) - 1
      /\ \A i \in 1..Len(todo') : todo'[i] = todo[i + 1]
  BY <1>1, MakeCallOnce DEF BlankInv
<1>3. 1 \in 1..Len(todo) /\ \A i \in 1..Len(todo') : i + 1 \in 1..Len(todo)
  BY <1>2
<1>4. CASE docs' = docs
  BY <1>2, <1>3, <1>4 DEF BlankInv, AddsToDocs, At
<1>5. CASE op = "removeDoc"
  <2>1. At(1, "removeDoc") /\ todo[1].doc \in DocId
    BY <1>2, <1>3, <1>5, CallFields DEF At
  <2>2. \A j \in 1..Len(todo) : todo[j].op \notin Adding
    BY <1>3, <2>1 DEF BlankInv, RowGoesLast
  <2>3. \A i \in 1..Len(todo') : todo'[i].op \notin Adding
    BY <1>2, <1>3, <2>2
  <2> QED BY <2>3 DEF AddsToDocs
<1> QED BY <1>1, <1>4, <1>5

\* What is added belongs to documents that are there, and the row of a document
\* goes when it has nothing else.
LEMMA CallKeepsBlank ==
  ASSUME BlankInv, MakeCall PROVE UnusedIsBlank'
<1> DEFINE Blank == Untagged \cap Unlinking \cap Unlinked
<1>1. DocId \ DOMAIN docs \subseteq Blank
  BY DEF BlankInv, UnusedIsBlank
<1>2. CASE AddTagToDoc
  <2> DEFINE r == <<The.doc, The.arg>>
  <2>1. The.doc \in DOMAIN docs /\ UNCHANGED <<docs, links>>
    BY <1>2, MakeCallOnce DEF AddTagToDoc, BlankInv, AddsToDocs, Adding
  <2>2. tagRows' = [tagRows EXCEPT ![r] = @ + 1] /\ r[1] = The.doc
    BY <1>2 DEF AddTagToDoc
  <2> HIDE DEF r
  <2>3. \A q \in DocId \X Tag : q[1] # The.doc => tagRows'[q] = tagRows[q]
    BY <2>2 DEF BlankInv, Typed
  <2>4. \A d \in DocId \ DOMAIN docs, t \in Tag : tagRows'[<<d, t>>] = tagRows[<<d, t>>]
    BY <2>1, <2>3
  <2> QED BY <1>1, <2>1, <2>4 DEF UnusedIsBlank, Untagged, Unlinking, Unlinked
<1>3. CASE AddDocToDoc
  <2> DEFINE r == <<The.doc, The.arg>>
  <2>1. /\ The.doc \in DOMAIN docs /\ The.arg \in DOMAIN docs
        /\ UNCHANGED <<docs, tagRows>>
    BY <1>3, MakeCallOnce DEF AddDocToDoc, BlankInv, AddsToDocs, Adding, At
  <2>2. links' = [links EXCEPT ![r] = @ + 1] /\ r[1] = The.doc /\ r[2] = The.arg
    BY <1>3 DEF AddDocToDoc
  <2> HIDE DEF r
  <2>3. \A q \in DocId \X DocId :
          q[1] # The.doc \/ q[2] # The.arg => links'[q] = links[q]
    BY <2>2 DEF BlankInv, Typed
  <2>4. \A d \in DocId \ DOMAIN docs, e \in DocId :
          links'[<<d, e>>] = links[<<d, e>>] /\ links'[<<e, d>>] = links[<<e, d>>]
    BY <2>1, <2>3
  <2>5. DocId \ DOMAIN docs \subseteq Untagged'
    BY <1>1, <2>1 DEF Untagged
  <2>6. DocId \ DOMAIN docs \subseteq Unlinking'
    BY <1>1, <2>4 DEF Unlinking
  <2>7. DocId \ DOMAIN docs \subseteq Unlinked'
    BY <1>1, <2>4 DEF Unlinked
  <2> QED BY <2>1, <2>5, <2>6, <2>7 DEF UnusedIsBlank
<1>4. CASE DropDoc
  <2>1. /\ todo[1].op = "removeDoc" /\ todo[1].doc \in DocId /\ The = todo[1]
        /\ 1 \in 1..Len(todo) /\ UNCHANGED <<tagRows, links>>
        /\ DOMAIN docs' = DOMAIN docs \ {todo[1].doc}
    BY <1>4, MakeCallOnce, CallFields DEF DropDoc, BlankInv
  <2>2. \A op : ToCome(1, op) = {}
    BY DEF ToCome
  <2>3. todo[1].doc \in Blank
    BY <2>1, <2>2 DEF BlankInv, RowGoesLast, At
  <2>4. UNCHANGED Blank
    BY <2>1 DEF Untagged, Unlinking, Unlinked
  <2> QED BY <1>1, <2>1, <2>3, <2>4 DEF UnusedIsBlank
<1>5. ASSUME ~AddTagToDoc, ~AddDocToDoc, ~DropDoc PROVE UnusedIsBlank'
  <2>1. PICK op : Make(op) /\ Clears(op)
    BY CallsClear DEF BlankInv
  <2>2. todo[1].op = op
    BY <2>1, MakeCallOnce DEF BlankInv
  <2>3. docs' = docs /\ op \notin Adding
    BY <1>5, <2>1 DEF MakeCall, Make, Adding, Fcopy, Unlink, rows, GetTagId,
      RemoveTagFromDoc, DeleteUnusedTag, RemoveDocFromDoc, RemoveDocTags, RemoveLinks
  <2>4. Blank \subseteq Blank'
    BY <2>1, <2>3 DEF Clears
  <2> QED BY <1>1, <2>3, <2>4 DEF UnusedIsBlank
<1> QED BY <1>2, <1>3, <1>4, <1>5

LEMMA BlankInvStep ==
  ASSUME CarefulClient PROVE BlankInv /\ [Next]_vars => BlankInv'
<1> SUFFICES ASSUME BlankInv, [Next]_vars
             PROVE  RowGoesLast' /\ AddsToDocs' /\ UnusedIsBlank'
  BY StepTyped DEF BlankInv
<1>1. ASSUME UNCHANGED <<tagRows, links>>, DOMAIN docs \subseteq DOMAIN docs'
      PROVE  UnusedIsBlank'
  BY <1>1 DEF BlankInv, UnusedIsBlank, Untagged, Unlinking, Unlinked
<1>2. ASSUME UNCHANGED <<tagRows, links, todo>>, DOMAIN docs \subseteq DOMAIN docs'
      PROVE  RowGoesLast' /\ AddsToDocs'
  <2>1. RowGoesLast'
    BY <1>2 DEF BlankInv, RowGoesLast, ToCome, At, Untagged, Unlinking, Unlinked
  <2>2. AddsToDocs'
    BY <1>2 DEF BlankInv, AddsToDocs, At
  <2> QED BY <2>1, <2>2
<1>3. CASE Request
  <2>1. UNCHANGED <<tagRows, links>>
    BY <1>3 DEF Request, UploadFile, DoDelete, SetTitle, AddTag, RemoveTag,
      AddDoc, RemoveDoc
  <2>2. DOMAIN docs \subseteq DOMAIN docs'
    BY <1>3 DEF Request, UploadFile, InsertDoc, DoDelete, SetTitle, AddTag,
      RemoveTag, AddDoc, RemoveDoc
  <2> QED BY <1>1, <1>3, <2>1, <2>2, RequestKeepsOrder
<1>4. CASE MakeCall
  <2>1. RowGoesLast'
    BY <1>4, CallsClear, CallKeepsOrder DEF BlankInv
  <2> QED BY <1>4, <2>1, CallKeepsTargets, CallKeepsBlank
<1>5. CASE Scan
  <2>1. UNCHANGED <<tagRows, links, todo>>
    BY <1>5 DEF Scan, ScanInsert, ScanImage, ScanText, ScanNext, ScanEnd
  <2>2. DOMAIN docs \subseteq DOMAIN docs'
    BY <1>5 DEF Scan, ScanInsert, InsertDoc, ScanImage, ScanText, ScanNext, ScanEnd
  <2> QED BY <1>1, <1>2, <2>1, <2>2
<1>6. CASE DaemonDies
  <2>1. UNCHANGED <<docs, tagRows, links>> /\ todo' = << >>
    BY <1>6 DEF DaemonDies
  <2>2. RowGoesLast' /\ AddsToDocs'
    BY <2>1 DEF RowGoesLast, AddsToDocs, At
  <2> QED BY <1>1, <2>1, <2>2
<1>7. CASE WorkerDies \/ UNCHANGED vars
  BY <1>1, <1>2, <1>7 DEF WorkerDies, vars
<1> QED BY <1>3, <1>4, <1>5, <1>6, <1>7 DEF Next

\* NewDocIsBlank, for any number of documents and tags: when the client asks
\* only for documents it was offered, a document whose id was used before has
\* none of the tags and links of its predecessor, however often deletions of
\* that one were cut short.
THEOREM NewDocsAreBlank ==
  ASSUME CarefulClient PROVE Spec => NewDocIsBlank
<1>1. Init => BlankInv
  BY InitTyped DEF Init, BlankInv, RowGoesLast, AddsToDocs, UnusedIsBlank,
    Untagged, Unlinking, Unlinked
<1>2. BlankInv /\ [Next]_vars =>
        [\A d \in DOMAIN docs' \ DOMAIN docs :
           /\ \A t \in Tag : tagRows[<<d, t>>] = 0
           /\ \A e \in DocId : links[<<d, e>>] = 0 /\ links[<<e, d>>] = 0]_vars
  <2> SUFFICES ASSUME BlankInv, [Next]_vars,
                      NEW d \in DOMAIN docs' \ DOMAIN docs
               PROVE  /\ \A t \in Tag : tagRows[<<d, t>>] = 0
                      /\ \A e \in DocId : links[<<d, e>>] = 0 /\ links[<<e, d>>] = 0
    OBVIOUS
  <2>1. d \in DocId
    BY StepTyped DEF BlankInv, Typed
  <2> QED BY <2>1 DEF BlankInv, UnusedIsBlank, Untagged, Unlinking, Unlinked
<1> QED BY <1>1, <1>2, BlankInvStep, PTL DEF Spec, NewDocIsBlank
------------------------------------------------------------------------------
(* A link has both its rows or none                                        *)

LinkCalls == {"addDocToDoc", "removeDocFromDoc", "removeLinksOf", "removeLinksTo"}

\* The table doc_links when the call c has been made.
LinksAfter(c) ==
  IF c.op = "addDocToDoc" THEN [links EXCEPT ![<<c.doc, c.arg>>] = @ + 1]
  ELSE IF c.op = "removeDocFromDoc" THEN [links EXCEPT ![<<c.doc, c.arg>>] = 0]
  ELSE IF c.op = "removeLinksOf"
    THEN [r \in DocId \X DocId |-> IF r[1] = c.doc THEN 0 ELSE links[r]]
  ELSE IF c.op = "removeLinksTo"
    THEN [r \in DocId \X DocId |-> IF r[2] = c.doc THEN 0 ELSE links[r]]
  ELSE links

\* Outside the documents of D, every row of the table l has its counterpart.
Even(l, D) == \A d, e \in DocId \ D : l[<<d, e>>] = l[<<e, d>>]

NoneFrom(n) == \A i \in 1..Len(todo) : i >= n => todo[i].op \notin LinkCalls

\* No call for a link is to come, ...
LinksRest == NoneFrom(1) /\ Even(links, interrupted)

\* ... or the next one is the last of them and evens out what the one before it
\* has left, ...
LinksHalf ==
  /\ Len(todo) >= 1 /\ todo[1].op \in LinkCalls /\ NoneFrom(2)
  /\ Even(LinksAfter(todo[1]), interrupted)
  /\ Even(links, interrupted \cup Touches(todo[1]))

\* ... or both are, for a link ...
LinksPair ==
  /\ Even(links, interrupted)
  /\ \E op \in {"addDocToDoc", "removeDocFromDoc"}, d, e \in DocId :
       todo = <<Call(op, d, e), Call(op, e, d)>>

\* ... or for a document that is deleted.
LinksDrop ==
  /\ Even(links, interrupted)
  /\ \E n \in Nat, d \in DocId :
       /\ Len(todo) = n + 3
       /\ todo[n + 1].op = "removeLinksOf" /\ todo[n + 1].doc = d
       /\ todo[n + 2].op = "removeLinksTo" /\ todo[n + 2].doc = d
       /\ NoneFrom(n + 3)
       /\ \A i \in 1..n : todo[i].op \notin LinkCalls

LinkInv == Typed /\ (LinksRest \/ LinksHalf \/ LinksPair \/ LinksDrop)

LEMMA CallLinks ==
  ASSUME Typed, MakeCall
  PROVE  /\ \E op : Make(op)
         /\ links' = LinksAfter(todo[1])
<1>1. \E op : Make(op)
  BY DEF MakeCall, Fcopy, Unlink, GetTagId, AddTagToDoc, RemoveTagFromDoc,
    DeleteUnusedTag, AddDocToDoc, RemoveDocFromDoc, RemoveDocTags, RemoveLinks, DropDoc
<1>2. The = todo[1]
  BY <1>1, MakeCallOnce
<1>3. ASSUME NEW op, Make(op), op \notin LinkCalls, links' = links
      PROVE  links' = LinksAfter(todo[1])
  <2>1. todo[1].op = op
    BY <1>3, MakeCallOnce
  <2> QED BY <1>3, <2>1 DEF LinksAfter, LinkCalls
<1>4. CASE Fcopy \/ Unlink
  BY <1>3, <1>4 DEF Fcopy, Unlink, rows, LinkCalls
<1>5. CASE GetTagId \/ AddTagToDoc \/ RemoveTagFromDoc \/ DeleteUnusedTag
  BY <1>3, <1>5 DEF GetTagId, AddTagToDoc, RemoveTagFromDoc, DeleteUnusedTag, LinkCalls
<1>6. CASE RemoveDocTags \/ DropDoc
  BY <1>3, <1>6 DEF RemoveDocTags, DropDoc, LinkCalls
<1>7. CASE AddDocToDoc
  <2>1. todo[1].op = "addDocToDoc"
    BY <1>7, MakeCallOnce DEF AddDocToDoc
  <2> QED BY <1>2, <1>7, <2>1 DEF AddDocToDoc, LinksAfter
<1>8. CASE RemoveDocFromDoc
  <2>1. todo[1].op = "removeDocFromDoc"
    BY <1>8, MakeCallOnce DEF RemoveDocFromDoc
  <2> QED BY <1>2, <1>8, <2>1 DEF RemoveDocFromDoc, LinksAfter
<1>9. CASE RemoveLinks
  <2>1. CASE Make("removeLinksOf")
             /\ links' = [r \in DocId \X DocId |-> IF r[1] = The.doc THEN 0 ELSE links[r]]
    <3>1. todo[1].op = "removeLinksOf"
      BY <2>1, MakeCallOnce
    <3> QED BY <1>2, <2>1, <3>1 DEF LinksAfter
  <2>2. CASE Make("removeLinksTo")
             /\ links' = [r \in DocId \X DocId |-> IF r[2] = The.doc THEN 0 ELSE links[r]]
    <3>1. todo[1].op = "removeLinksTo"
      BY <2>2, MakeCallOnce
    <3> QED BY <1>2, <2>2, <3>1 DEF LinksAfter
  <2> QED BY <1>9, <2>1, <2>2 DEF RemoveLinks
<1> QED BY <1>1, <1>4, <1>5, <1>6, <1>7, <1>8, <1>9 DEF MakeCall

\* The second row of a link follows the first, ...
LEMMA PairEvens ==
  ASSUME Typed, Even(links, interrupted), NEW d \in DocId, NEW e \in DocId,
         NEW op \in {"addDocToDoc", "removeDocFromDoc"},
         links' = LinksAfter(Call(op, d, e)), UNCHANGED interrupted
  PROVE  /\ Even(LinksAfter(Call(op, e, d))', interrupted')
         /\ Even(links', interrupted' \cup Touches(Call(op, e, d)))
<1> DEFINE p == <<d, e>>
           q == <<e, d>>
<1>1. links \in [DocId \X DocId -> Nat] /\ p \in DocId \X DocId /\ q \in DocId \X DocId
  BY DEF Typed
<1>2. Call(op, d, e) = [op |-> op, doc |-> d, arg |-> e]
      /\ Call(op, e, d) = [op |-> op, doc |-> e, arg |-> d]
      /\ Touches(Call(op, e, d)) = {e, d}
  BY DEF Call, Touches
<1>3. CASE op = "addDocToDoc"
  <2>1. links' = [links EXCEPT ![p] = @ + 1]
        /\ LinksAfter(Call(op, e, d))' = [links' EXCEPT ![q] = @ + 1]
    BY <1>2, <1>3 DEF LinksAfter
  <2> HIDE DEF p, q
  <2>2. \A r \in DocId \X DocId :
          /\ r # p => links'[r] = links[r]
          /\ r # p /\ r # q => LinksAfter(Call(op, e, d))'[r] = links[r]
          /\ p # q /\ r \in {p, q} => LinksAfter(Call(op, e, d))'[r] = links[r] + 1
    BY <1>1, <2>1
  <2>3. Even(LinksAfter(Call(op, e, d))', interrupted')
    <3> SUFFICES ASSUME NEW x \in DocId \ interrupted, NEW y \in DocId \ interrupted
                 PROVE  LinksAfter(Call(op, e, d))'[<<x, y>>]
                          = LinksAfter(Call(op, e, d))'[<<y, x>>]
      BY DEF Even
    <3>1. links[<<x, y>>] = links[<<y, x>>]
      BY DEF Even
    <3> QED BY <2>2, <3>1 DEF p, q
  <2>4. Even(links', interrupted' \cup {e, d})
    <3> SUFFICES ASSUME NEW x \in DocId \ (interrupted \cup {e, d}),
                        NEW y \in DocId \ (interrupted \cup {e, d})
                 PROVE  links'[<<x, y>>] = links'[<<y, x>>]
      BY DEF Even
    <3>1. links[<<x, y>>] = links[<<y, x>>]
      BY DEF Even
    <3>2. /\ <<x, y>> \in DocId \X DocId /\ <<x, y>> # p
          /\ <<y, x>> \in DocId \X DocId /\ <<y, x>> # p
      BY DEF p
    <3> QED BY <2>2, <3>1, <3>2
  <2> QED BY <1>2, <2>3, <2>4
<1>4. CASE op = "removeDocFromDoc"
  <2>1. links' = [links EXCEPT ![p] = 0]
        /\ LinksAfter(Call(op, e, d))' = [links' EXCEPT ![q] = 0]
    BY <1>2, <1>4 DEF LinksAfter
  <2> HIDE DEF p, q
  <2>2. \A r \in DocId \X DocId :
          /\ r # p => links'[r] = links[r]
          /\ r # p /\ r # q => LinksAfter(Call(op, e, d))'[r] = links[r]
          /\ r \in {p, q} => LinksAfter(Call(op, e, d))'[r] = 0
    BY <1>1, <2>1
  <2>3. Even(LinksAfter(Call(op, e, d))', interrupted')
    <3> SUFFICES ASSUME NEW x \in DocId \ interrupted, NEW y \in DocId \ interrupted
                 PROVE  LinksAfter(Call(op, e, d))'[<<x, y>>]
                          = LinksAfter(Call(op, e, d))'[<<y, x>>]
      BY DEF Even
    <3>1. links[<<x, y>>] = links[<<y, x>>]
      BY DEF Even
    <3> QED BY <2>2, <3>1 DEF p, q
  <2>4. Even(links', interrupted' \cup {e, d})
    <3> SUFFICES ASSUME NEW x \in DocId \ (interrupted \cup {e, d}),
                        NEW y \in DocId \ (interrupted \cup {e, d})
                 PROVE  links'[<<x, y>>] = links'[<<y, x>>]
      BY DEF Even
    <3>1. links[<<x, y>>] = links[<<y, x>>]
      BY DEF Even
    <3>2. /\ <<x, y>> \in DocId \X DocId /\ <<x, y>> # p
          /\ <<y, x>> \in DocId \X DocId /\ <<y, x>> # p
      BY DEF p
    <3> QED BY <2>2, <3>1, <3>2
  <2> QED BY <1>2, <2>3, <2>4
<1> QED BY <1>3, <1>4

\* ... and the rows to a document go after those of it.
LEMMA DropEvens ==
  ASSUME Typed, Even(links, interrupted), NEW c, NEW b,
         c.op = "removeLinksOf", b.op = "removeLinksTo", b.doc = c.doc,
         links' = LinksAfter(c), UNCHANGED interrupted
  PROVE  /\ Even(LinksAfter(b)', interrupted')
         /\ Even(links', interrupted' \cup Touches(b))
<1>1. links' = [r \in DocId \X DocId |-> IF r[1] = c.doc THEN 0 ELSE links[r]]
      /\ LinksAfter(b)' = [r \in DocId \X DocId |-> IF r[2] = b.doc THEN 0 ELSE links'[r]]
  BY DEF LinksAfter
<1>2. \A x, y \in DocId :
        /\ links'[<<x, y>>] = IF x = c.doc THEN 0 ELSE links[<<x, y>>]
        /\ LinksAfter(b)'[<<x, y>>] =
             IF x = c.doc \/ y = c.doc THEN 0 ELSE links[<<x, y>>]
  BY <1>1
<1>3. b.doc \in Touches(b)
  BY DEF Touches
<1> QED BY <1>2, <1>3 DEF Even
LEMMA LinkCallStep ==
  ASSUME LinkInv, MakeCall, UNCHANGED interrupted
  PROVE  (LinksRest \/ LinksHalf \/ LinksPair \/ LinksDrop)'
<1>1. /\ Len(todo) \in Nat /\ Len(todo) > 0 /\ todo' \in Seq(CallSet)
      /\ Len(todo') = Len(todo) - 1
      /\ \A i \in 1..Len(todo') : todo'[i] = todo[i + 1]
      /\ links' = LinksAfter(todo[1])
  BY CallLinks, MakeCallOnce DEF LinkInv
<1>2. \A i \in 1..Len(todo') : i + 1 \in 1..Len(todo)
  BY <1>1
<1>3. CASE LinksRest
  <2>1. todo[1].op \notin LinkCalls
    BY <1>1, <1>3 DEF LinksRest, NoneFrom
  <2>2. links' = links
    BY <1>1, <2>1 DEF LinksAfter, LinkCalls
  <2>3. NoneFrom(1)'
    BY <1>1, <1>2, <1>3 DEF LinksRest, NoneFrom
  <2> QED BY <1>3, <2>2, <2>3 DEF LinksRest
<1>4. CASE LinksHalf
  <2>1. NoneFrom(1)'
    BY <1>1, <1>2, <1>4 DEF LinksHalf, NoneFrom
  <2>2. Even(links', interrupted')
    BY <1>1, <1>4 DEF LinksHalf
  <2> QED BY <2>1, <2>2 DEF LinksRest
<1>5. CASE LinksPair
  <2>1. PICK op \in {"addDocToDoc", "removeDocFromDoc"}, d \in DocId, e \in DocId :
               todo = <<Call(op, d, e), Call(op, e, d)>>
    BY <1>5 DEF LinksPair
  <2>2. /\ todo[1] = Call(op, d, e) /\ Len(todo') = 1 /\ todo'[1] = Call(op, e, d)
        /\ todo'[1].op = op
    BY <1>1, <2>1 DEF Call
  <2>3. Even(LinksAfter(Call(op, e, d))', interrupted')
        /\ Even(links', interrupted' \cup Touches(Call(op, e, d)))
    BY <1>1, <1>5, <2>2, PairEvens DEF LinksPair, LinkInv
  <2>4. NoneFrom(2)'
    BY <2>2 DEF NoneFrom
  <2>5. LinksAfter(todo[1])' = LinksAfter(Call(op, e, d))'
        /\ Touches(todo[1])' = Touches(Call(op, e, d))
    BY <2>2
  <2> QED BY <2>2, <2>3, <2>4, <2>5 DEF LinksHalf, LinkCalls
<1>6. CASE LinksDrop
  <2>1. PICK n \in Nat, d \in DocId :
               /\ Len(todo) = n + 3
               /\ todo[n + 1].op = "removeLinksOf" /\ todo[n + 1].doc = d
               /\ todo[n + 2].op = "removeLinksTo" /\ todo[n + 2].doc = d
               /\ NoneFrom(n + 3)
               /\ \A i \in 1..n : todo[i].op \notin LinkCalls
    BY <1>6 DEF LinksDrop
  <2>2. CASE n = 0
    <3>1. /\ todo[1].op = "removeLinksOf" /\ todo[1].doc = d
          /\ todo'[1] = todo[2] /\ todo[2].op = "removeLinksTo" /\ todo[2].doc = d
          /\ Len(todo') = 2
      BY <1>1, <2>1, <2>2
    <3>2. Even(links, interrupted) /\ Typed
      BY <1>6 DEF LinksDrop, LinkInv
    <3>0. PICK c, b : c = todo[1] /\ b = todo[2]
      OBVIOUS
    <3>3. /\ c.op = "removeLinksOf" /\ b.op = "removeLinksTo" /\ b.doc = c.doc
          /\ links' = LinksAfter(c) /\ UNCHANGED interrupted
      BY <1>1, <3>0, <3>1
    <3>4. Even(LinksAfter(b)', interrupted') /\ Even(links', interrupted' \cup Touches(b))
      BY <3>2, <3>3, DropEvens
    <3>5. NoneFrom(2)'
      BY <1>1, <2>1, <2>2 DEF NoneFrom
    <3>6. todo[1]' = b
      BY <3>0, <3>1
    <3>7. LinksAfter(todo[1])' = LinksAfter(b)' /\ Touches(todo[1])' = Touches(b)
      BY <3>6
    <3> QED BY <3>1, <3>4, <3>5, <3>7 DEF LinksHalf, LinkCalls
  <2>3. CASE n > 0
    <3>1. todo[1].op \notin LinkCalls
      BY <2>1, <2>3
    <3>2. links' = links
      BY <1>1, <3>1 DEF LinksAfter, LinkCalls
    <3> DEFINE m == n - 1
    <3>3. /\ m \in Nat /\ Len(todo') = m + 3
          /\ todo'[m + 1] = todo[n + 1] /\ todo'[m + 2] = todo[n + 2]
          /\ \A i \in 1..m : todo'[i] = todo[i + 1] /\ i + 1 \in 1..n
      BY <1>1, <2>1, <2>3
    <3>4. NoneFrom(m + 3)'
      BY <1>1, <1>2, <2>1 DEF NoneFrom
    <3> HIDE DEF m
    <3>5. \A i \in 1..m : todo'[i].op \notin LinkCalls
      BY <2>1, <3>3
    <3> QED BY <1>6, <2>1, <3>2, <3>3, <3>4, <3>5 DEF LinksDrop
  <2> QED BY <2>1, <2>2, <2>3
<1> QED BY <1>3, <1>4, <1>5, <1>6 DEF LinkInv

\* A request that starts finds the links even.
LEMMA LinkRequestStep ==
  ASSUME LinkInv, Request
  PROVE  (LinksRest \/ LinksHalf \/ LinksPair \/ LinksDrop)'
<1>1. Idle /\ UNCHANGED <<links, interrupted>>
  BY DEF Request, UploadFile, DoDelete, SetTitle, AddTag, RemoveTag, AddDoc, RemoveDoc
<1>2. Even(links, interrupted)
  <2>1. Len(todo) = 0
    BY <1>1 DEF Idle
  <2> QED BY <2>1 DEF LinkInv, LinksRest, LinksHalf, LinksPair, LinksDrop
<1>3. ASSUME \A i \in 1..Len(todo') : todo'[i].op \notin LinkCalls PROVE LinksRest'
  BY <1>1, <1>2, <1>3 DEF LinksRest, NoneFrom
<1>4. ASSUME NEW kind \in {"jpg", "pdf"}, UploadFile(kind) PROVE LinksRest'
  <2>1. \A i \in 1..Len(todo') : todo'[i].op = "fcopy"
    BY <1>4 DEF UploadFile, Call
  <2> QED BY <1>3, <2>1 DEF LinkCalls
<1>5. ASSUME NEW d \in DocId, DoDelete(d) PROVE LinksDrop'
  <2>1. PICK k \in Nat :
          /\ Len(todo') = k + 4
          /\ \A i \in 1..(k + 1) : todo'[i].op \notin LinkCalls
          /\ todo'[k + 2].op = "removeLinksOf" /\ todo'[k + 2].doc = d
          /\ todo'[k + 3].op = "removeLinksTo" /\ todo'[k + 3].doc = d
          /\ todo'[k + 4].op = "removeDoc"
    <3>0. PICK k \in Nat : Deletion(todo', d, k)
      BY <1>5, DeleteCalls DEF LinkInv
    <3>1. /\ Len(todo') = k + 4 /\ \A i \in 1..k : todo'[i].op = "unlink"
          /\ todo'[k + 1].op = "removeDocTags"
          /\ todo'[k + 2].op = "removeLinksOf" /\ todo'[k + 2].doc = d
          /\ todo'[k + 3].op = "removeLinksTo" /\ todo'[k + 3].doc = d
          /\ todo'[k + 4].op = "removeDoc"
      BY <3>0 DEF Deletion
    <3>2. \A i \in 1..(k + 1) : i \in 1..k \/ i = k + 1
      OBVIOUS
    <3>3. \A i \in 1..(k + 1) : todo'[i].op \notin LinkCalls
      BY <3>1, <3>2 DEF LinkCalls
    <3> QED BY <3>1, <3>3
  <2>2. PICK n \in Nat : n = k + 1
    OBVIOUS
  <2>3. /\ Len(todo') = n + 3
        /\ \A i \in 1..n : todo'[i].op \notin LinkCalls
        /\ todo'[n + 1].op = "removeLinksOf" /\ todo'[n + 1].doc = d
        /\ todo'[n + 2].op = "removeLinksTo" /\ todo'[n + 2].doc = d
        /\ todo'[n + 3].op = "removeDoc"
    <3>1. n + 1 = k + 2 /\ n + 2 = k + 3 /\ n + 3 = k + 4
      BY <2>2
    <3> QED BY <2>1, <2>2, <3>1
  <2>4. NoneFrom(n + 3)'
    BY <2>3 DEF NoneFrom, LinkCalls
  <2> QED BY <1>1, <1>2, <2>3, <2>4 DEF LinksDrop
<1>6. ASSUME NEW d \in DocId, SetTitle(d) PROVE LinksRest'
  <2>1. todo' = << >>
    BY <1>6 DEF SetTitle, Idle
  <2> QED BY <1>3, <2>1
<1>7. ASSUME NEW d \in DocId, NEW t \in Tag, AddTag(d, t) \/ RemoveTag(d, t)
      PROVE  LinksRest'
  <2>1. \A i \in 1..Len(todo') : todo'[i].op \in TagCalls
    BY <1>7 DEF AddTag, RemoveTag, Call, TagCalls
  <2> QED BY <1>3, <2>1 DEF LinkCalls, TagCalls
<1>8. ASSUME NEW d \in DocId, NEW e \in DocId, AddDoc(d, e) \/ RemoveDoc(d, e)
      PROVE  LinksPair'
  <2>1. \E op \in {"addDocToDoc", "removeDocFromDoc"} :
          todo' = <<Call(op, d, e), Call(op, e, d)>>
    BY <1>8 DEF AddDoc, RemoveDoc, UnlinkDocs
  <2> QED BY <1>1, <1>2, <2>1 DEF LinksPair
<1> QED BY <1>4, <1>5, <1>6, <1>7, <1>8 DEF Request

LEMMA LinkInvStep == LinkInv /\ [Next]_vars => LinkInv'
<1> SUFFICES ASSUME LinkInv, [Next]_vars
             PROVE  (LinksRest \/ LinksHalf \/ LinksPair \/ LinksDrop)'
  BY StepTyped DEF LinkInv
<1>1. ASSUME UNCHANGED <<links, todo>>, interrupted \subseteq interrupted'
      PROVE  (LinksRest \/ LinksHalf \/ LinksPair \/ LinksDrop)'
  <2>1. \A l, D : Even(l, interrupted \cup D) => Even(l, interrupted' \cup D)
    BY <1>1 DEF Even
  <2>2. \A l : Even(l, interrupted) => Even(l, interrupted')
    BY <1>1 DEF Even
  <2>3. /\ \A n : NoneFrom(n) => NoneFrom(n)'
        /\ \A c : LinksAfter(c)' = LinksAfter(c)
    BY <1>1 DEF NoneFrom, LinksAfter
  <2>4. LinksRest => LinksRest'
    BY <1>1, <2>2, <2>3 DEF LinksRest
  <2>5. LinksHalf => LinksHalf'
    BY <1>1, <2>1, <2>2, <2>3 DEF LinksHalf
  <2>6. LinksPair => LinksPair'
    BY <1>1, <2>2 DEF LinksPair
  <2>7. LinksDrop => LinksDrop'
    BY <1>1, <2>2, <2>3 DEF LinksDrop
  <2> QED BY <2>4, <2>5, <2>6, <2>7 DEF LinkInv
<1>2. CASE Request
  BY <1>2, LinkRequestStep
<1>3. CASE MakeCall
  <2>1. UNCHANGED interrupted
    BY <1>3, CallLinks DEF LinkInv, Make
  <2> QED BY <1>3, <2>1, LinkCallStep
<1>4. CASE Scan
  BY <1>1, <1>4 DEF Scan, ScanInsert, ScanImage, ScanText, ScanNext, ScanEnd
<1>5. CASE DaemonDies
  <2>1. /\ todo' = << >> /\ links' = links
        /\ interrupted \subseteq interrupted'
        /\ \A i \in 1..Len(todo) : Touches(todo[i]) \subseteq interrupted'
    BY <1>5 DEF DaemonDies, LinkInv, Typed
  <2>2. Even(links, interrupted')
    <3>1. CASE Even(links, interrupted)
      BY <2>1, <3>1 DEF Even
    <3>2. CASE LinksHalf
      <4>1. 1 \in 1..Len(todo)
        BY <3>2 DEF LinksHalf, LinkInv, Typed
      <4> QED BY <2>1, <3>2, <4>1 DEF LinksHalf, Even
    <3> QED BY <3>1, <3>2 DEF LinkInv, LinksRest, LinksPair, LinksDrop
  <2>3. NoneFrom(1)'
    BY <2>1 DEF NoneFrom
  <2> QED BY <2>1, <2>2, <2>3 DEF LinksRest
<1>6. CASE WorkerDies \/ UNCHANGED vars
  BY <1>1, <1>6 DEF WorkerDies, vars
<1> QED BY <1>2, <1>3, <1>4, <1>5, <1>6 DEF Next

LEMMA LinkInvInit == Init => LinkInv
<1> SUFFICES ASSUME Init PROVE LinksRest
  BY InitTyped DEF LinkInv
<1>1. NoneFrom(1)
  BY DEF Init, NoneFrom
<1>2. Even(links, interrupted)
  BY DEF Init, Even
<1> QED BY <1>1, <1>2 DEF LinksRest

LEMMA IdleIsEven ==
  ASSUME LinkInv, Idle PROVE Even(links, interrupted)
<1>1. Len(todo) = 0
  BY DEF Idle
<1> QED BY <1>1 DEF LinkInv, LinksRest, LinksHalf, LinksPair, LinksDrop

\* LinksBothWays, for any number of documents and whatever requests are cut
\* short by a death, of clients of any kind: between two requests a link has
\* both its rows or none, or a death left one side of it.
THEOREM LinkedBothWays == Spec => []LinksBothWays
<1>1. LinkInv => LinksBothWays
  BY IdleIsEven DEF LinksBothWays, Even
<1> QED BY <1>1, LinkInvInit, LinkInvStep, PTL DEF Spec

\* OffersUnlinked, for any number of documents: the suggestions and the list of
\* links read different rows of a link, and both are there or none.
THEOREM SuggestionsAreRight == Spec => []OffersUnlinked
<1>1. LinkInv => OffersUnlinked
  <2> SUFFICES ASSUME LinkInv, Idle, NEW d \in DOMAIN docs \ interrupted,
                      NEW e \in DOMAIN docs \ interrupted
               PROVE  links[<<e, d>>] = 0 <=> ~(links[<<d, e>>] > 0)
    BY DEF OffersUnlinked, TitlesFor, LinksOf
  <2>1. d \in DocId /\ e \in DocId
    BY DEF LinkInv, Typed
  <2>2. links[<<d, e>>] = links[<<e, d>>]
    BY <2>1, IdleIsEven DEF Even
  <2>3. links[<<d, e>>] \in Nat
    BY <2>1 DEF LinkInv, Typed
  <2> QED BY <2>2, <2>3
<1> QED BY <1>1, LinkInvInit, LinkInvStep, PTL DEF Spec

------------------------------------------------------------------------------
(* The files of a document                                                 *)

\* The calls to come: the documents they delete, the files they remove and
\* the files they bring.
Deleting == {c.doc : c \in {k \in Left : k.op = "removeDoc"}}
ToUnlink == {c.arg : c \in {k \in Left : k.op = "unlink"}}
ToCopy   == {c.arg : c \in {k \in Left : k.op = "fcopy"}}

\* The document that is being scanned.
Scanned == IF scan.pc = "none" THEN {} ELSE {scan.doc}

\* What is opened to show a document.
Shown(d) ==
  IF docs[d].kind = "pdf" THEN {Datafile(d), Thumb(d)}
  ELSE {Image(d, n) : n \in 1..docs[d].pages}

\* A scan works on a document that is there and that nobody deletes.
ScanFits ==
  /\ scan.pc \in {"none", "image", "text", "waiting"}
  /\ Scanned \subseteq DOMAIN docs \ Deleting
  /\ scan.pc # "none" => docs[scan.doc].kind = "scan"
  /\ scan.pc = "waiting" => docs[scan.doc].pages = scan.page

\* An upload brings files of its document; a deletion removes images of its
\* document, and its row at the very end.
CallsFit ==
  /\ \A c \in Left : c.op = "fcopy" =>
       c.doc \in DOMAIN docs \ Scanned /\ c.arg \in Shown(c.doc)
  /\ \A c \in Left : c.op = "unlink" =>
       c.doc \in Deleting /\ \E n \in 1..MaxPages : c.arg = Image(c.doc, n)
  /\ \A i \in 1..Len(todo) : todo[i].op = "removeDoc" => i = Len(todo)
  /\ Deleting \subseteq DOMAIN docs
  /\ ToCopy = {} \/ Deleting = {}

\* An image belongs to a page the document has, or is about to have; when the
\* document is deleted, the image is yet to be removed.
NoStrays ==
  \A d \in DocId \ interrupted, n \in 1..MaxPages : Image(d, n) \in files =>
    /\ d \in DOMAIN docs
    /\ n <= IF d \in Scanned THEN scan.page ELSE docs[d].pages
    /\ d \in Deleting => Image(d, n) \in ToUnlink

\* What a document is said to have is there or on its way; of one that is being
\* scanned, the pages up to the current one.
AllThere ==
  \A d \in DOMAIN docs \ (interrupted \cup Deleting) :
    IF d \in Scanned
    THEN \A n \in 1..scan.page :
           Image(d, n) \in files \/ (scan.pc = "image" /\ n = scan.page)
    ELSE Shown(d) \subseteq files \cup ToCopy

FileInv == Typed /\ ScanFits /\ CallsFit /\ NoStrays /\ AllThere

LEMMA NatLeast ==
  ASSUME NEW T \in SUBSET Nat, T # {} PROVE \E x \in T : \A y \in T : x <= y
<1> DEFINE R == OpToRel(<, Nat)
<1>1. IsWellFoundedOn(R, Nat)
  BY NatLessThanWellFounded
<1>2. \A x, y \in Nat : <<y, x>> \in R <=> y < x
  BY DEF OpToRel
<1> HIDE DEF R
<1>3. PICK x \in T : \A y \in T : ~ (<<y, x>> \in R)
  BY <1>1, WFMin
<1>4. ASSUME NEW y \in T PROVE x <= y
  <2>1. x \in Nat /\ y \in Nat /\ <<y, x>> \notin R
    BY <1>3
  <2>2. ~(y < x)
    BY <1>2, <2>1
  <2> QED BY <2>1, <2>2
<1> QED BY <1>4

LEMMA HasGreatest ==
  ASSUME NEW n \in Nat, NEW S \in SUBSET (0..n), S # {}
  PROVE  Max(S) \in S /\ \A y \in S : Max(S) >= y
<1> DEFINE T == {n - x : x \in S}
<1>1. T \in SUBSET Nat /\ T # {}
  <2>1. \A x \in S : n - x \in Nat
    OBVIOUS
  <2>2. PICK x \in S : TRUE
    OBVIOUS
  <2> QED BY <2>1, <2>2
<1>2. PICK t \in T : \A y \in T : t <= y
  BY <1>1, NatLeast
<1>3. PICK x \in S : t = n - x
  OBVIOUS
<1>4. \A y \in S : x >= y
  BY <1>2, <1>3
<1> QED BY <1>4 DEF Max

\* The id of a new document is not in use.
LEMMA NextIsFresh ==
  ASSUME Typed PROVE NextDocId \notin DOMAIN docs
<1> DEFINE S == {0} \cup DOMAIN docs
<1>1. S \in SUBSET (0..MaxDoc) /\ S # {} /\ MaxDoc \in Nat
  BY DocStoreAssumption DEF Typed, DocId
<1> HIDE DEF S
<1>2. PICK m : m = Max(S) /\ m \in S /\ \A y \in S : m >= y
  BY <1>1, HasGreatest
<1>3. NextDocId = 1 + m
  BY <1>2 DEF NextDocId, S
<1>4. m \in Nat /\ NextDocId \notin S
  BY <1>1, <1>2, <1>3
<1> QED BY <1>4 DEF S

LEMMA InsertFresh ==
  ASSUME Typed, NextDocId \in DocId, NEW kind, NEW pages, InsertDoc(kind, pages)
  PROVE  /\ NextDocId \notin DOMAIN docs
         /\ DOMAIN docs' = DOMAIN docs \cup {NextDocId}
         /\ \A d \in DOMAIN docs : docs'[d] = docs[d]
         /\ docs'[NextDocId].kind = kind /\ docs'[NextDocId].pages = pages
BY NextIsFresh DEF InsertDoc

\* A call that is made is no longer left.
LEMMA MakeLeft ==
  ASSUME Typed, NEW op, Make(op)
  PROVE  /\ The \in Left /\ The \in CallSet /\ The.op = op
         /\ Left' \subseteq Left /\ Left \subseteq Left' \cup {The}
<1>1. /\ Len(todo) \in Nat /\ Len(todo) > 0
      /\ todo[1] \in CallSet /\ The = todo[1] /\ todo[1].op = op
      /\ Len(todo') = Len(todo) - 1
      /\ \A i \in 1..Len(todo') : todo'[i] = todo[i + 1]
  BY MakeCallOnce
<1>2. Left' \subseteq Left
  BY <1>1 DEF Left
<1>3. ASSUME NEW i \in 1..Len(todo), i # 1 PROVE todo[i] \in Left'
  <2>1. i - 1 \in 1..Len(todo') /\ todo'[i - 1] = todo[(i - 1) + 1] /\ (i - 1) + 1 = i
    BY <1>1, <1>3
  <2> QED BY <2>1 DEF Left
<1>4. Left \subseteq Left' \cup {The}
  BY <1>1, <1>3 DEF Left
<1>5. The \in Left
  BY <1>1 DEF Left
<1> QED BY <1>1, <1>2, <1>4, <1>5

\* What a call takes off the lists.
LEMMA MakeLists ==
  ASSUME FileInv, NEW op, Make(op)
  PROVE  /\ op # "removeDoc" => Deleting' = Deleting
         /\ ToUnlink' \subseteq ToUnlink
         /\ ToUnlink \subseteq ToUnlink' \cup (IF op = "unlink" THEN {The.arg} ELSE {})
         /\ ToCopy' \subseteq ToCopy
         /\ ToCopy \subseteq ToCopy' \cup (IF op = "fcopy" THEN {The.arg} ELSE {})
BY MakeLeft DEF FileInv, Deleting, ToUnlink, ToCopy

\* When the row goes, nothing else is left of the deletion.
LEMMA RowIsLast ==
  ASSUME FileInv, Make("removeDoc")
  PROVE  /\ Left' = {} /\ Deleting = {The.doc}
         /\ ToUnlink = {} /\ ToCopy = {}
         /\ Deleting' = {} /\ ToUnlink' = {} /\ ToCopy' = {}
<1>1. /\ Len(todo) \in Nat /\ Len(todo) > 0 /\ todo[1].op = "removeDoc"
      /\ The = todo[1] /\ Len(todo') = Len(todo) - 1
  BY MakeCallOnce DEF FileInv
<1>2. Len(todo) = 1
  BY <1>1 DEF FileInv, CallsFit
<1>3. Left = {The} /\ Left' = {}
  BY <1>1, <1>2 DEF Left
<1> QED BY <1>1, <1>3 DEF Deleting, ToUnlink, ToCopy

\* Between two requests the lists are empty.
LEMMA IdleLists ==
  ASSUME Idle
  PROVE  Left = {} /\ Deleting = {} /\ ToUnlink = {} /\ ToCopy = {}
BY DEF Idle, Left, Deleting, ToUnlink, ToCopy

SamePages ==
  /\ DOMAIN docs' = DOMAIN docs
  /\ \A d \in DOMAIN docs :
       docs'[d].kind = docs[d].kind /\ docs'[d].pages = docs[d].pages

LEMMA SameShown ==
  ASSUME NEW d, docs'[d].kind = docs[d].kind, docs'[d].pages = docs[d].pages
  PROVE  Shown(d)' = Shown(d)
BY DEF Shown

\* Steps that leave the lists, the pages and the files alone.
LEMMA QuietStep ==
  ASSUME FileInv, SamePages, UNCHANGED <<files, scan, interrupted>>,
         UNCHANGED <<Deleting, ToUnlink, ToCopy>>
  PROVE  ScanFits' /\ NoStrays' /\ AllThere'
<1>1. UNCHANGED Scanned
  BY DEF Scanned
<1>2. scan.pc # "none" => scan.doc \in DOMAIN docs
  BY DEF FileInv, ScanFits, Scanned
<1>3. ScanFits'
  BY <1>1, <1>2 DEF FileInv, ScanFits, SamePages
<1>4. NoStrays'
  BY <1>1 DEF FileInv, NoStrays, SamePages
<1>5. AllThere'
  <2>1. \A d \in DOMAIN docs : Shown(d)' = Shown(d)
    BY SameShown DEF SamePages
  <2> QED BY <1>1, <2>1 DEF FileInv, AllThere, SamePages
<1> QED BY <1>3, <1>4, <1>5

LEMMA CallsStillFit ==
  ASSUME FileInv, UNCHANGED <<docs, scan>>, NEW op, Make(op), op # "removeDoc"
  PROVE  CallsFit'
<1>1. /\ Left' \subseteq Left /\ Deleting' = Deleting /\ ToCopy' \subseteq ToCopy
      /\ UNCHANGED Scanned
  BY MakeLeft, MakeLists DEF FileInv, Scanned
<1>2. \A d : Shown(d)' = Shown(d)
  BY DEF Shown
<1>3. \A i \in 1..Len(todo') : todo'[i].op = "removeDoc" => i = Len(todo')
  <2>1. /\ Len(todo) \in Nat /\ Len(todo') = Len(todo) - 1
        /\ \A i \in 1..Len(todo') : todo'[i] = todo[i + 1] /\ i + 1 \in 1..Len(todo)
    BY MakeCallOnce DEF FileInv
  <2> QED BY <2>1 DEF FileInv, CallsFit
<1> QED BY <1>1, <1>2, <1>3 DEF FileInv, CallsFit
\* An upload starts: the files of the new document are on their way.
LEMMA UploadFits ==
  ASSUME FileInv, NEW kind \in {"jpg", "pdf"}, UploadFile(kind)
  PROVE  ScanFits' /\ CallsFit' /\ NoStrays' /\ AllThere'
<1>1. PICK n : n = NextDocId
  OBVIOUS
<1>2. /\ Idle /\ n \in DocId /\ InsertDoc(kind, 1)
      /\ UNCHANGED <<files, scan, interrupted>>
      /\ todo' = IF kind = "jpg" THEN <<Call("fcopy", n, Image(n, 1))>>
                 ELSE <<Call("fcopy", n, Datafile(n)), Call("fcopy", n, Thumb(n))>>
  BY <1>1 DEF UploadFile
<1>3. /\ n \notin DOMAIN docs /\ DOMAIN docs' = DOMAIN docs \cup {n}
      /\ \A d \in DOMAIN docs : docs'[d] = docs[d]
      /\ docs'[n].kind = kind /\ docs'[n].pages = 1
  BY <1>1, <1>2, InsertFresh DEF FileInv
<1>4. Shown(n)' = IF kind = "jpg" THEN {Image(n, 1)} ELSE {Datafile(n), Thumb(n)}
  BY <1>3 DEF Shown
<1>5. Left' = {Call("fcopy", n, f) : f \in Shown(n)'}
  BY <1>2, <1>4 DEF Left
<1>6. Deleting' = {} /\ ToUnlink' = {} /\ ToCopy' = Shown(n)'
  <2>1. \A f : Call("fcopy", n, f).op = "fcopy" /\ Call("fcopy", n, f).arg = f
    BY DEF Call
  <2>2. \A c \in Left' : c.op = "fcopy" /\ c.arg \in Shown(n)'
    BY <1>5, <2>1
  <2>3. \A f \in Shown(n)' : \E c \in Left' : c.op = "fcopy" /\ c.arg = f
    BY <1>5, <2>1
  <2>4. Deleting' = {} /\ ToUnlink' = {}
    BY <2>2 DEF Deleting, ToUnlink
  <2>5. ToCopy' = Shown(n)'
    BY <2>2, <2>3 DEF ToCopy
  <2> QED BY <2>4, <2>5
<1>7. Deleting = {} /\ ToCopy = {} /\ UNCHANGED Scanned
  BY <1>2, IdleLists DEF Scanned
<1>8. Scanned \subseteq DOMAIN docs /\ n \notin Scanned
  BY <1>3 DEF FileInv, ScanFits
<1>9. ScanFits'
  <2>1. scan.pc # "none" => scan.doc \in DOMAIN docs
    BY <1>8 DEF Scanned
  <2> QED BY <1>2, <1>3, <1>6, <1>7, <1>8, <2>1 DEF FileInv, ScanFits
<1>10. CallsFit'
  <2>1. \A c \in Left' : c.op = "fcopy" /\ c.doc = n /\ c.arg \in Shown(n)'
    BY <1>5 DEF Call
  <2>2. \A i \in 1..Len(todo') : todo'[i].op = "fcopy"
    BY <2>1 DEF Left
  <2> QED BY <1>3, <1>6, <1>7, <1>8, <2>1, <2>2 DEF CallsFit
<1>11. NoStrays'
  BY <1>2, <1>3, <1>6, <1>7 DEF FileInv, NoStrays
<1>12. AllThere'
  <2>1. \A d \in DOMAIN docs : Shown(d)' = Shown(d)
    BY <1>3, SameShown
  <2> QED BY <1>2, <1>3, <1>6, <1>7, <1>8, <2>1 DEF FileInv, AllThere
<1> QED BY <1>9, <1>10, <1>11, <1>12

\* A deletion starts: every image of the document is to be removed.
LEMMA DeleteFits ==
  ASSUME CarefulClient, FileInv, NEW d \in DocId, DoDelete(d)
  PROVE  ScanFits' /\ CallsFit' /\ NoStrays' /\ AllThere'
<1>1. /\ Idle /\ d \in DOMAIN docs
      /\ UNCHANGED <<docs, files, scan, interrupted>>
      /\ scan.pc # "none" => scan.doc # d
  BY DEF DoDelete
<1>2. PICK k \in Nat : k = docs[d].pages /\ Deletion(todo', d, k)
  BY DeleteCalls DEF FileInv
<1>3. \A i \in 1..Len(todo') :
        \/ /\ i \in 1..k /\ todo'[i].op = "unlink"
           /\ todo'[i].doc = d /\ todo'[i].arg = Image(d, i)
        \/ todo'[i].op \in {"removeDocTags", "removeLinksOf", "removeLinksTo"}
        \/ i = k + 4 /\ todo'[i].op = "removeDoc" /\ todo'[i].doc = d
  BY <1>2 DEF Deletion
<1>4. Deleting' = {d}
  <2>1. todo'[k + 4] \in Left' /\ todo'[k + 4].op = "removeDoc" /\ todo'[k + 4].doc = d
    BY <1>2 DEF Left, Deletion
  <2>2. \A c \in Left' : c.op = "removeDoc" => c.doc = d
    BY <1>3 DEF Left
  <2> QED BY <2>1, <2>2 DEF Deleting
<1>5. ToCopy' = {}
  <2>1. \A c \in Left' : c.op # "fcopy"
    BY <1>3 DEF Left
  <2> QED BY <2>1 DEF ToCopy
<1>6. \A i \in 1..k : Image(d, i) \in ToUnlink'
  <2> SUFFICES ASSUME NEW i \in 1..k PROVE Image(d, i) \in ToUnlink'
    OBVIOUS
  <2>1. todo'[i] \in Left' /\ todo'[i].op = "unlink" /\ todo'[i].arg = Image(d, i)
    BY <1>2 DEF Left, Deletion
  <2> QED BY <2>1 DEF ToUnlink
<1>7. Deleting = {} /\ ToCopy = {} /\ UNCHANGED Scanned /\ d \notin Scanned
  BY <1>1, IdleLists DEF Scanned
<1>8. ScanFits'
  BY <1>1, <1>4, <1>7 DEF FileInv, ScanFits
<1>9. CallsFit'
  <2>1. \A c \in Left' : c.op # "fcopy"
    BY <1>3 DEF Left
  <2>2. \A c \in Left' : c.op = "unlink" =>
          c.doc = d /\ \E n \in 1..k : c.arg = Image(d, n)
    BY <1>3 DEF Left
  <2>3. k \in 1..MaxPages
    BY <1>1, <1>2 DEF FileInv, Typed, DocSet
  <2>4. \A n \in 1..k : n \in 1..MaxPages
    BY <2>3, DocStoreAssumption
  <2>5. \A i \in 1..Len(todo') : todo'[i].op = "removeDoc" => i = Len(todo')
    BY <1>2, <1>3 DEF Deletion
  <2>6. \A c \in Left' : c.op = "unlink" =>
          c.doc \in Deleting' /\ \E n \in 1..MaxPages : c.arg = Image(c.doc, n)
    BY <1>4, <2>2, <2>4
  <2> QED BY <1>1, <1>4, <1>5, <2>1, <2>5, <2>6 DEF CallsFit
<1>10. NoStrays'
  <2> SUFFICES ASSUME NEW e \in DocId \ interrupted, NEW n \in 1..MaxPages,
                      Image(e, n) \in files
               PROVE  /\ e \in DOMAIN docs
                      /\ n <= IF e \in Scanned THEN scan.page ELSE docs[e].pages
                      /\ e \in Deleting' => Image(e, n) \in ToUnlink'
    BY <1>1, <1>7 DEF NoStrays
  <2>1. e \in DOMAIN docs /\ n <= IF e \in Scanned THEN scan.page ELSE docs[e].pages
    BY DEF FileInv, NoStrays
  <2>2. CASE e = d
    <3>1. n \in 1..k
      BY <1>2, <1>7, <2>1, <2>2
    <3> QED BY <1>6, <2>1, <2>2, <3>1
  <2>3. CASE e # d
    BY <1>4, <2>1, <2>3
  <2> QED BY <2>2, <2>3
<1>11. AllThere'
  <2>1. \A e : Shown(e)' = Shown(e)
    BY <1>1 DEF Shown
  <2> QED BY <1>1, <1>4, <1>5, <1>7, <2>1 DEF FileInv, AllThere
<1> QED BY <1>8, <1>9, <1>10, <1>11

\* The other requests list no call for a file or for the row of a document.
LEMMA OtherRequestFits ==
  ASSUME FileInv, Idle, SamePages, UNCHANGED <<files, scan, interrupted>>,
         \A i \in 1..Len(todo') : todo'[i].op \notin {"fcopy", "unlink", "removeDoc"}
  PROVE  ScanFits' /\ CallsFit' /\ NoStrays' /\ AllThere'
<1>1. \A c \in Left' : c.op \notin {"fcopy", "unlink", "removeDoc"}
  BY DEF Left
<1>2. Deleting' = {} /\ ToUnlink' = {} /\ ToCopy' = {}
  BY <1>1 DEF Deleting, ToUnlink, ToCopy
<1>3. CallsFit'
  BY <1>1, <1>2 DEF CallsFit
<1>4. UNCHANGED <<Deleting, ToUnlink, ToCopy>>
  BY <1>2, IdleLists
<1> QED BY <1>3, <1>4, QuietStep

LEMMA RequestFits ==
  ASSUME CarefulClient, FileInv, Request
  PROVE  ScanFits' /\ CallsFit' /\ NoStrays' /\ AllThere'
<1>1. ASSUME NEW d \in DocId, SetTitle(d)
      PROVE  ScanFits' /\ CallsFit' /\ NoStrays' /\ AllThere'
  <2>1. SamePages
    BY <1>1 DEF SetTitle, SamePages, FileInv, Typed, DocSet
  <2>2. Idle /\ UNCHANGED <<files, scan, interrupted>> /\ todo' = << >>
    BY <1>1 DEF SetTitle, Idle
  <2> QED BY <2>1, <2>2, OtherRequestFits
<1>2. ASSUME NEW d \in DocId, NEW t \in Tag, AddTag(d, t) \/ RemoveTag(d, t)
      PROVE  ScanFits' /\ CallsFit' /\ NoStrays' /\ AllThere'
  <2>1. Idle /\ SamePages /\ UNCHANGED <<files, scan, interrupted>>
    BY <1>2 DEF AddTag, RemoveTag, SamePages
  <2>2. \A i \in 1..Len(todo') : todo'[i].op \in TagCalls
    BY <1>2 DEF AddTag, RemoveTag, Call, TagCalls
  <2>3. \A i \in 1..Len(todo') : todo'[i].op \notin {"fcopy", "unlink", "removeDoc"}
    BY <2>2 DEF TagCalls
  <2> QED BY <2>1, <2>3, OtherRequestFits
<1>3. ASSUME NEW d \in DocId, NEW e \in DocId, AddDoc(d, e) \/ RemoveDoc(d, e)
      PROVE  ScanFits' /\ CallsFit' /\ NoStrays' /\ AllThere'
  <2>1. Idle /\ SamePages /\ UNCHANGED <<files, scan, interrupted>>
    BY <1>3 DEF AddDoc, RemoveDoc, SamePages
  <2>2. \A i \in 1..Len(todo') : todo'[i].op \in {"addDocToDoc", "removeDocFromDoc"}
    BY <1>3 DEF AddDoc, RemoveDoc, UnlinkDocs, Call
  <2>3. \A i \in 1..Len(todo') : todo'[i].op \notin {"fcopy", "unlink", "removeDoc"}
    BY <2>2
  <2> QED BY <2>1, <2>3, OtherRequestFits
<1> QED BY <1>1, <1>2, <1>3, UploadFits, DeleteFits DEF Request
\* A file tells its document.
LEMMA FileNames ==
  /\ \A d, n : Image(d, n)[1] = d /\ Image(d, n)[3] = n
  /\ \A d, n, e : Image(d, n) # Datafile(e) /\ Image(d, n) # Thumb(e)
  /\ \A d : \A f \in Shown(d) : f[1] = d
BY DEF Image, Datafile, Thumb, Shown

LEMMA FcopyFits ==
  ASSUME FileInv, Fcopy
  PROVE  ScanFits' /\ CallsFit' /\ NoStrays' /\ AllThere'
<1>1. /\ Make("fcopy") /\ files' = files \cup {The.arg}
      /\ UNCHANGED <<docs, scan, interrupted>>
  BY DEF Fcopy, Make, rows
<1>2. /\ UNCHANGED <<Deleting, Scanned>> /\ ToUnlink \subseteq ToUnlink'
      /\ ToCopy \subseteq ToCopy' \cup {The.arg}
  BY <1>1, MakeLists DEF Scanned
<1>3. \A d : Shown(d)' = Shown(d)
  BY <1>1 DEF Shown
<1>4. /\ The \in Left /\ The.op = "fcopy"
      /\ The.doc \in DOMAIN docs \ Scanned /\ The.arg \in Shown(The.doc)
  BY <1>1, MakeLeft DEF FileInv, CallsFit
<1>5. Deleting = {}
  <2>1. The.arg \in ToCopy
    BY <1>4 DEF ToCopy
  <2> QED BY <2>1 DEF FileInv, CallsFit
<1>6. ScanFits'
  BY <1>1, <1>2 DEF FileInv, ScanFits
<1>7. CallsFit'
  BY <1>1, CallsStillFit
<1>8. NoStrays'
  <2> SUFFICES ASSUME NEW d \in DocId \ interrupted, NEW n \in 1..MaxPages,
                      Image(d, n) \in files'
               PROVE  /\ d \in DOMAIN docs
                      /\ n <= IF d \in Scanned THEN scan.page ELSE docs[d].pages
                      /\ d \in Deleting => Image(d, n) \in ToUnlink'
    BY <1>1, <1>2 DEF NoStrays
  <2>1. CASE Image(d, n) \in files
    BY <1>2, <2>1 DEF FileInv, NoStrays
  <2>2. CASE Image(d, n) = The.arg
    <3>1. d = The.doc
      BY <1>4, <2>2, FileNames
    <3>2. Image(d, n) \in Shown(d)
      BY <1>4, <2>2, <3>1
    <3>3. \E m \in 1..docs[d].pages : Image(d, n) = Image(d, m)
      BY <3>2, FileNames DEF Shown
    <3>4. n \in 1..docs[d].pages
      BY <3>3, FileNames
    <3> QED BY <1>4, <1>5, <3>1, <3>4
  <2> QED BY <1>1, <2>1, <2>2
<1>9. AllThere'
  BY <1>1, <1>2, <1>3 DEF FileInv, AllThere
<1> QED BY <1>6, <1>7, <1>8, <1>9

LEMMA UnlinkFits ==
  ASSUME FileInv, Unlink
  PROVE  ScanFits' /\ CallsFit' /\ NoStrays' /\ AllThere'
<1>1. /\ Make("unlink") /\ files' = files \ {The.arg}
      /\ UNCHANGED <<docs, scan, interrupted>>
  BY DEF Unlink, Make, rows
<1>2. /\ UNCHANGED <<Deleting, Scanned>> /\ ToUnlink \subseteq ToUnlink' \cup {The.arg}
      /\ ToCopy \subseteq ToCopy'
  BY <1>1, MakeLists DEF Scanned
<1>3. \A d : Shown(d)' = Shown(d)
  BY <1>1 DEF Shown
<1>4. The.doc \in Deleting /\ The.arg[1] = The.doc
  BY <1>1, MakeLeft, FileNames DEF FileInv, CallsFit
<1>5. ScanFits'
  BY <1>1, <1>2 DEF FileInv, ScanFits
<1>6. CallsFit'
  BY <1>1, CallsStillFit
<1>7. NoStrays'
  BY <1>1, <1>2 DEF FileInv, NoStrays
<1>8. AllThere'
  <2> SUFFICES ASSUME NEW d \in DOMAIN docs \ (interrupted \cup Deleting)
               PROVE  IF d \in Scanned
                      THEN \A n \in 1..scan.page :
                             Image(d, n) \in files' \/ (scan.pc = "image" /\ n = scan.page)
                      ELSE Shown(d) \subseteq files' \cup ToCopy'
    BY <1>1, <1>2, <1>3 DEF AllThere
  <2>1. d # The.doc
    BY <1>4
  <2>2. \A n : Image(d, n) # The.arg
    BY <1>4, <2>1, FileNames
  <2>3. \A f \in Shown(d) : f # The.arg
    BY <1>4, <2>1, FileNames
  <2> QED BY <1>1, <1>2, <2>2, <2>3 DEF FileInv, AllThere
<1> QED BY <1>5, <1>6, <1>7, <1>8

LEMMA DropDocFits ==
  ASSUME FileInv, DropDoc
  PROVE  ScanFits' /\ CallsFit' /\ NoStrays' /\ AllThere'
<1>1. /\ Make("removeDoc") /\ UNCHANGED <<files, scan, interrupted>>
      /\ docs' = [d \in DOMAIN docs \ {The.doc} |-> docs[d]]
  BY DEF DropDoc, Make
<1>2. /\ Left' = {} /\ Deleting = {The.doc} /\ ToUnlink = {} /\ ToCopy = {}
      /\ Deleting' = {} /\ ToUnlink' = {} /\ ToCopy' = {} /\ UNCHANGED Scanned
  BY <1>1, RowIsLast DEF Scanned
<1>3. \A d \in DOMAIN docs' : d \in DOMAIN docs /\ d \notin Deleting /\ docs'[d] = docs[d]
  BY <1>1, <1>2
<1>4. Scanned \subseteq DOMAIN docs'
  BY <1>1, <1>2 DEF FileInv, ScanFits
<1>5. ScanFits'
  <2>1. scan.pc # "none" => scan.doc \in DOMAIN docs'
    BY <1>4 DEF Scanned
  <2> QED BY <1>1, <1>2, <1>3, <1>4, <2>1 DEF FileInv, ScanFits
<1>6. CallsFit'
  BY <1>2 DEF CallsFit, Left
<1>7. NoStrays'
  <2> SUFFICES ASSUME NEW d \in DocId \ interrupted, NEW n \in 1..MaxPages,
                      Image(d, n) \in files
               PROVE  /\ d \in DOMAIN docs'
                      /\ n <= IF d \in Scanned THEN scan.page ELSE docs'[d].pages
    BY <1>1, <1>2 DEF NoStrays
  <2>1. /\ d \in DOMAIN docs /\ d \notin Deleting
        /\ n <= IF d \in Scanned THEN scan.page ELSE docs[d].pages
    BY <1>2 DEF FileInv, NoStrays
  <2> QED BY <1>1, <1>2, <2>1
<1>8. AllThere'
  <2>1. \A d \in DOMAIN docs' : Shown(d)' = Shown(d)
    BY <1>3, SameShown
  <2> QED BY <1>1, <1>2, <1>3, <2>1 DEF FileInv, AllThere
<1> QED BY <1>5, <1>6, <1>7, <1>8

LEMMA CallFits ==
  ASSUME FileInv, MakeCall
  PROVE  ScanFits' /\ CallsFit' /\ NoStrays' /\ AllThere'
<1>1. CASE Fcopy
  BY <1>1, FcopyFits
<1>2. CASE Unlink
  BY <1>2, UnlinkFits
<1>3. CASE DropDoc
  BY <1>3, DropDocFits
<1>4. ASSUME ~Fcopy, ~Unlink, ~DropDoc
      PROVE  ScanFits' /\ CallsFit' /\ NoStrays' /\ AllThere'
  <2>1. /\ \E op \in (TagCalls \cup DocCalls) \ {"removeDoc"} : Make(op)
        /\ UNCHANGED <<docs, files>>
    BY <1>4 DEF MakeCall, GetTagId, AddTagToDoc, RemoveTagFromDoc, DeleteUnusedTag,
      AddDocToDoc, RemoveDocFromDoc, RemoveDocTags, RemoveLinks, TagCalls, DocCalls
  <2>2. PICK op : Make(op) /\ op \notin {"fcopy", "unlink", "removeDoc"}
    BY <2>1 DEF TagCalls, DocCalls
  <2>3. UNCHANGED <<Deleting, ToUnlink, ToCopy>>
    BY <2>2, MakeLists
  <2>4. UNCHANGED <<scan, interrupted>> /\ SamePages
    BY <2>1, <2>2 DEF Make, SamePages
  <2>5. CallsFit'
    BY <2>1, <2>2, <2>4, CallsStillFit
  <2> QED BY <2>1, <2>3, <2>4, <2>5, QuietStep
<1> QED BY <1>1, <1>2, <1>3, <1>4
\* A scan starts: no image of the new id is left of an earlier document.
LEMMA InsertFits ==
  ASSUME FileInv, NEW pages \in 1..MaxPages, ScanInsert(pages)
  PROVE  ScanFits' /\ CallsFit' /\ NoStrays' /\ AllThere'
<1>1. PICK n : n = NextDocId
  OBVIOUS
<1>2. /\ n \in DocId /\ InsertDoc("scan", pages) /\ scan.pc = "none"
      /\ scan' = [pc |-> "image", doc |-> n, page |-> 1]
      /\ UNCHANGED <<files, todo, interrupted>>
  BY <1>1 DEF ScanInsert
<1>3. /\ n \notin DOMAIN docs /\ DOMAIN docs' = DOMAIN docs \cup {n}
      /\ \A d \in DOMAIN docs : docs'[d] = docs[d]
      /\ docs'[n].kind = "scan" /\ docs'[n].pages = pages
  BY <1>1, <1>2, InsertFresh DEF FileInv
<1>4. UNCHANGED <<Left, Deleting, ToUnlink, ToCopy>>
  BY <1>2 DEF Left, Deleting, ToUnlink, ToCopy
<1>5. /\ Scanned = {} /\ Scanned' = {n}
      /\ scan'.pc = "image" /\ scan'.doc = n /\ scan'.page = 1
  BY <1>2 DEF Scanned
<1>6. n \notin Deleting
  BY <1>3 DEF FileInv, CallsFit
<1>7. \A d \in DOMAIN docs : Shown(d)' = Shown(d)
  BY <1>3, SameShown
<1>8. ScanFits'
  BY <1>3, <1>4, <1>5, <1>6 DEF ScanFits
<1>9. CallsFit'
  <2>1. \A c \in Left : c.op = "fcopy" =>
          c.doc \in DOMAIN docs /\ c.doc # n /\ c.arg \in Shown(c.doc)
    BY <1>3 DEF FileInv, CallsFit
  <2>2. \A c \in Left' : c.op = "fcopy" =>
          c.doc \in DOMAIN docs' \ Scanned' /\ c.arg \in Shown(c.doc)'
    BY <1>3, <1>4, <1>5, <1>7, <2>1
  <2> QED BY <1>2, <1>3, <1>4, <2>2 DEF FileInv, CallsFit
<1>10. NoStrays'
  BY <1>2, <1>3, <1>4, <1>5 DEF FileInv, NoStrays
<1>11. AllThere'
  <2>1. \A m \in 1..1 : m = 1
    OBVIOUS
  <2> QED BY <1>2, <1>3, <1>4, <1>5, <1>7, <2>1 DEF FileInv, AllThere
<1> QED BY <1>8, <1>9, <1>10, <1>11

\* The steps of a page, and the end of a scan.
LEMMA ScanStepFits ==
  ASSUME FileInv, ScanImage \/ ScanText \/ ScanNext \/ ScanEnd
  PROVE  ScanFits' /\ CallsFit' /\ NoStrays' /\ AllThere'
<1>1. UNCHANGED <<todo, interrupted>> /\ UNCHANGED <<Left, Deleting, ToUnlink, ToCopy>>
  BY DEF ScanImage, ScanText, ScanNext, ScanEnd, Left, Deleting, ToUnlink, ToCopy
<1>2. PICK d : d = scan.doc
  OBVIOUS
<1>3. /\ scan.pc # "none" /\ Scanned = {d} /\ d \in DOMAIN docs \ Deleting /\ d \in DocId
      /\ docs[d].kind = "scan" /\ scan.page \in 1..MaxPages /\ MaxPages \in Nat
      /\ DOMAIN scan = {"pc", "doc", "page"}
      /\ scan.pc = "waiting" => docs[d].pages = scan.page
  BY <1>2, DocStoreAssumption
    DEF FileInv, ScanFits, Scanned, Typed, ScanImage, ScanText, ScanNext, ScanEnd
<1>4. \A c \in Left : c.op = "fcopy" =>
        c.doc \in DOMAIN docs /\ c.doc # d /\ c.arg \in Shown(c.doc)
  BY <1>3 DEF FileInv, CallsFit
<1>5. ASSUME DOMAIN docs' = DOMAIN docs, Scanned' \subseteq {d},
             \A e \in DOMAIN docs : e # d => Shown(e)' = Shown(e)
      PROVE  CallsFit'
  <2>1. \A c \in Left' : c.op = "fcopy" =>
          c.doc \in DOMAIN docs' \ Scanned' /\ c.arg \in Shown(c.doc)'
    BY <1>1, <1>4, <1>5
  <2> QED BY <1>1, <1>5, <2>1 DEF FileInv, CallsFit
<1>6. CASE ScanImage
  <2>1. /\ scan.pc = "image" /\ files' = files \cup {Image(d, scan.page)}
        /\ scan' = [scan EXCEPT !.pc = "text"] /\ docs' = docs
    BY <1>2, <1>6 DEF ScanImage
  <2>2. scan'.pc = "text" /\ scan'.doc = d /\ scan'.page = scan.page /\ Scanned' = {d}
    BY <1>2, <1>3, <2>1 DEF Scanned
  <2>3. \A e : Shown(e)' = Shown(e)
    BY <2>1 DEF Shown
  <2>4. ScanFits'
    BY <1>1, <1>3, <2>1, <2>2 DEF ScanFits
  <2>5. CallsFit'
    BY <1>5, <2>1, <2>2, <2>3
  <2>6. NoStrays'
    <3> SUFFICES ASSUME NEW e \in DocId \ interrupted, NEW n \in 1..MaxPages,
                        Image(e, n) \in files'
                 PROVE  /\ e \in DOMAIN docs
                        /\ n <= IF e \in Scanned THEN scan.page ELSE docs[e].pages
                        /\ e \in Deleting => Image(e, n) \in ToUnlink
      BY <1>1, <1>3, <2>1, <2>2 DEF NoStrays
    <3>1. CASE Image(e, n) \in files
      BY <3>1 DEF FileInv, NoStrays
    <3>2. CASE Image(e, n) = Image(d, scan.page)
      <4>1. e = d /\ n = scan.page
        BY <3>2, FileNames
      <4> QED BY <1>3, <4>1
    <3> QED BY <2>1, <3>1, <3>2
  <2>7. AllThere'
    BY <1>1, <1>3, <2>1, <2>2, <2>3 DEF FileInv, AllThere
  <2> QED BY <2>4, <2>5, <2>6, <2>7
<1>7. CASE ScanText
  <2>1. /\ scan.pc = "text" /\ files' = files /\ scan' = [scan EXCEPT !.pc = "waiting"]
        /\ docs' = [e \in DOMAIN docs |-> IF e = d
                      THEN [docs[e] EXCEPT !.pages = scan.page] ELSE docs[e]]
    BY <1>2, <1>7 DEF ScanText, PagesSoFar
  <2>2. scan'.pc = "waiting" /\ scan'.doc = d /\ scan'.page = scan.page /\ Scanned' = {d}
    BY <1>2, <1>3, <2>1 DEF Scanned
  <2>3. /\ DOMAIN docs' = DOMAIN docs
        /\ docs'[d].kind = "scan" /\ docs'[d].pages = scan.page
        /\ \A e \in DOMAIN docs : e # d => docs'[e] = docs[e]
    BY <1>3, <2>1 DEF FileInv, Typed, DocSet
  <2>4. \A e \in DOMAIN docs : e # d => Shown(e)' = Shown(e)
    BY <2>3, SameShown
  <2>5. ScanFits'
    BY <1>1, <1>3, <2>2, <2>3 DEF ScanFits
  <2>6. CallsFit'
    BY <1>5, <2>2, <2>3, <2>4
  <2>7. NoStrays'
    BY <1>1, <1>3, <2>1, <2>2, <2>3 DEF FileInv, NoStrays
  <2>8. AllThere'
    BY <1>1, <1>3, <2>1, <2>2, <2>3, <2>4 DEF FileInv, AllThere
  <2> QED BY <2>5, <2>6, <2>7, <2>8
<1>8. CASE ScanNext
  <2>1. /\ scan.pc = "waiting" /\ UNCHANGED <<docs, files>>
        /\ scan' = [scan EXCEPT !.pc = "image", !.page = @ + 1]
    BY <1>8 DEF ScanNext
  <2>2. scan'.pc = "image" /\ scan'.doc = d /\ scan'.page = scan.page + 1 /\ Scanned' = {d}
    BY <1>2, <1>3, <2>1 DEF Scanned
  <2>3. \A e : Shown(e)' = Shown(e)
    BY <2>1 DEF Shown
  <2>4. ScanFits'
    BY <1>1, <1>3, <2>1, <2>2 DEF ScanFits
  <2>5. CallsFit'
    BY <1>5, <2>1, <2>2, <2>3
  <2>6. NoStrays'
    BY <1>1, <1>3, <2>1, <2>2 DEF FileInv, NoStrays
  <2>7. AllThere'
    <3>1. \A n \in 1..(scan.page + 1) : n \in 1..scan.page \/ n = scan.page + 1
      BY <1>3
    <3> QED BY <1>1, <1>3, <2>1, <2>2, <2>3, <3>1 DEF FileInv, AllThere
  <2> QED BY <2>4, <2>5, <2>6, <2>7
<1>9. CASE ScanEnd
  <2>1. /\ scan.pc = "waiting" /\ UNCHANGED <<docs, files>> /\ scan'.pc = "none"
        /\ Scanned' = {}
    BY <1>9 DEF ScanEnd, Scanned
  <2>2. \A e : Shown(e)' = Shown(e)
    BY <2>1 DEF Shown
  <2>3. ScanFits'
    BY <2>1 DEF ScanFits
  <2>4. CallsFit'
    BY <1>5, <2>1, <2>2
  <2>5. NoStrays'
    BY <1>1, <1>3, <2>1 DEF FileInv, NoStrays
  <2>6. AllThere'
    <3>1. Shown(d) = {Image(d, n) : n \in 1..scan.page}
      BY <1>3, <2>1 DEF Shown
    <3> QED BY <1>1, <1>3, <2>1, <2>2, <3>1 DEF FileInv, AllThere
  <2> QED BY <2>3, <2>4, <2>5, <2>6
<1> QED BY <1>6, <1>7, <1>8, <1>9

\* What a death leaves half done belongs to documents it marks.
LEMMA DeathFits ==
  ASSUME FileInv, DaemonDies \/ WorkerDies
  PROVE  ScanFits' /\ CallsFit' /\ NoStrays' /\ AllThere'
<1>1. UNCHANGED <<docs, files>> /\ \A e : Shown(e)' = Shown(e)
  BY DEF DaemonDies, WorkerDies, Shown
<1>2. CASE DaemonDies
  <2>1. /\ todo' = << >> /\ scan' = scan /\ interrupted \subseteq interrupted'
        /\ \A i \in 1..Len(todo) : Touches(todo[i]) \subseteq interrupted'
    BY <1>2 DEF DaemonDies, FileInv, Typed
  <2>2. \A c \in Left : c.doc \in interrupted'
    BY <2>1 DEF Left, Touches
  <2>3. /\ Left' = {} /\ Deleting' = {} /\ ToUnlink' = {} /\ ToCopy' = {}
        /\ UNCHANGED Scanned
    BY <2>1 DEF Left, Deleting, ToUnlink, ToCopy, Scanned
  <2>4. Deleting \subseteq interrupted'
    BY <2>2 DEF Deleting
  <2>5. ScanFits'
    BY <1>1, <2>1, <2>3 DEF FileInv, ScanFits
  <2>6. CallsFit'
    BY <2>1, <2>3 DEF CallsFit
  <2>7. NoStrays'
    BY <1>1, <2>1, <2>3 DEF FileInv, NoStrays
  <2>8. AllThere'
    <3>1. \A d \in DOMAIN docs \ interrupted' : \A f \in Shown(d) : f \notin ToCopy
      <4> SUFFICES ASSUME NEW d \in DOMAIN docs \ interrupted', NEW f \in Shown(d),
                          f \in ToCopy
                   PROVE  FALSE
        OBVIOUS
      <4>1. PICK c \in Left : c.op = "fcopy" /\ c.arg = f
        BY DEF ToCopy
      <4>2. c.arg \in Shown(c.doc)
        BY <4>1 DEF FileInv, CallsFit
      <4>3. d = c.doc
        BY <4>1, <4>2, FileNames
      <4> QED BY <2>2, <4>3
    <3> QED BY <1>1, <2>1, <2>3, <2>4, <3>1 DEF FileInv, AllThere
  <2> QED BY <2>5, <2>6, <2>7, <2>8
<1>3. CASE WorkerDies
  <2>1. /\ todo' = todo /\ scan'.pc = "none" /\ scan.pc # "none"
        /\ interrupted' = interrupted \cup {scan.doc}
    BY <1>3 DEF WorkerDies
  <2>2. /\ Scanned' = {} /\ Scanned = {scan.doc}
        /\ UNCHANGED <<Left, Deleting, ToUnlink, ToCopy>>
    BY <2>1 DEF Scanned, Left, Deleting, ToUnlink, ToCopy
  <2>3. ScanFits'
    BY <2>1, <2>2 DEF ScanFits
  <2>4. CallsFit'
    BY <1>1, <2>1, <2>2 DEF FileInv, CallsFit
  <2>5. NoStrays'
    BY <1>1, <2>1, <2>2 DEF FileInv, NoStrays
  <2>6. AllThere'
    BY <1>1, <2>1, <2>2 DEF FileInv, AllThere
  <2> QED BY <2>3, <2>4, <2>5, <2>6
<1> QED BY <1>2, <1>3

LEMMA InitFits == Init => FileInv
<1> SUFFICES ASSUME Init PROVE FileInv
  OBVIOUS
<1>1. Idle /\ docs = << >> /\ files = {} /\ scan.pc = "none" /\ todo = << >>
  BY DEF Init, Idle
<1>2. ScanFits
  BY <1>1 DEF ScanFits, Scanned
<1>3. CallsFit
  BY <1>1, IdleLists DEF CallsFit
<1>4. NoStrays
  BY <1>1 DEF NoStrays
<1>5. AllThere
  <2>1. DOMAIN docs = {}
    BY <1>1
  <2> QED BY <2>1 DEF AllThere
<1> QED BY <1>2, <1>3, <1>4, <1>5, InitTyped DEF FileInv

LEMMA FileInvStep ==
  ASSUME CarefulClient PROVE FileInv /\ [Next]_vars => FileInv'
<1> SUFFICES ASSUME FileInv, [Next]_vars
             PROVE  ScanFits' /\ CallsFit' /\ NoStrays' /\ AllThere'
  BY StepTyped DEF FileInv
<1>1. CASE Request
  BY <1>1, RequestFits
<1>2. CASE MakeCall
  BY <1>2, CallFits
<1>3. CASE Scan
  BY <1>3, InsertFits, ScanStepFits DEF Scan
<1>4. CASE DaemonDies \/ WorkerDies
  BY <1>4, DeathFits
<1>5. CASE UNCHANGED vars
  <2>1. UNCHANGED <<docs, files, todo, scan, interrupted>> /\ SamePages
    BY <1>5 DEF vars, SamePages
  <2>2. UNCHANGED <<Left, Deleting, ToUnlink, ToCopy, Scanned>>
    BY <2>1 DEF Left, Deleting, ToUnlink, ToCopy, Scanned
  <2>3. \A d : Shown(d)' = Shown(d)
    BY <2>1 DEF Shown
  <2>4. CallsFit'
    BY <2>1, <2>2, <2>3 DEF FileInv, CallsFit
  <2> QED BY <2>1, <2>2, <2>4, QuietStep
<1> QED BY <1>1, <1>2, <1>3, <1>4, <1>5 DEF Next

\* ImagesHaveDocument, for any number of documents and pages: when nobody
\* deletes the document that is being scanned, a deletion removes every image,
\* and an id that is given again brings none with it.
THEOREM NoImageIsLeft ==
  ASSUME CarefulClient PROVE Spec => []ImagesHaveDocument
<1>1. FileInv => ImagesHaveDocument
  BY DEF FileInv, NoStrays, ImagesHaveDocument
<1> QED BY <1>1, InitFits, FileInvStep, PTL DEF Spec

\* PagesArePresent, for any number of documents and pages: a document no
\* request or scan is at work on, and no death left half done, has the file of
\* every page its row says it has.
THEOREM PagesCanBeShown ==
  ASSUME CarefulClient PROVE Spec => []PagesArePresent
<1>1. FileInv => PagesArePresent
  <2> SUFFICES ASSUME FileInv, NEW d \in DOMAIN docs, Idle, scan.doc # d,
                      d \notin interrupted
               PROVE  IF docs[d].kind = "pdf"
                      THEN {Datafile(d), Thumb(d)} \subseteq files
                      ELSE \A n \in 1..docs[d].pages : Image(d, n) \in files
    BY DEF PagesArePresent
  <2>1. d \notin Scanned /\ Deleting = {} /\ ToCopy = {}
    BY IdleLists DEF Scanned
  <2>2. Shown(d) \subseteq files
    BY <2>1 DEF FileInv, AllThere
  <2> QED BY <2>2 DEF Shown
<1> QED BY <1>1, InitFits, FileInvStep, PTL DEF Spec

------------------------------------------------------------------------------
(* The types with their bounds                                             *)

RowOf(i) == <<todo[i].doc, todo[i].arg>>

\* There is room for the rows that are still to be added.
RoomInv ==
  /\ tagRows \in [DocId \X Tag -> 0..MostRows]
  /\ links \in [DocId \X DocId -> 0..MostRows]
  /\ \A i \in 1..Len(todo) : At(i, "addTagToDoc") => tagRows[RowOf(i)] < MostRows
  /\ \A i \in 1..Len(todo) : At(i, "addDocToDoc") =>
       i <= 2 /\ links[RowOf(i)] < MostRows
  /\ At(1, "addDocToDoc") /\ At(2, "addDocToDoc") /\ RowOf(1) = RowOf(2) =>
       links[RowOf(1)] + 1 < MostRows

FileTyped ==
  /\ files \subseteq File
  /\ interrupted \subseteq DocId
  /\ scan \in [pc : {"none", "image", "text", "waiting"}, doc : 0..MaxDoc,
               page : 0..MaxPages]
  /\ scan.pc # "none" => scan.doc \in DocId

BoundInv == TagInv /\ RoomInv /\ FileTyped

LEMMA MostRowsBounds == MostRows \in 1..MaxRepeat /\ MostRows \in Nat
BY DEF MostRows, MaxRepeat

\* A table of which rows were only taken away has no more than before.
FewerRows(new, old, R) == \A r \in R : new[r] = old[r] \/ new[r] = 0

\* A request that starts finds room for what it adds.
LEMMA RequestHasRoom ==
  ASSUME BoundInv, Request PROVE RoomInv'
<1>1. UNCHANGED <<tagRows, links>>
  BY DEF Request, UploadFile, DoDelete, SetTitle, AddTag, RemoveTag, AddDoc, RemoveDoc
<1>2. ASSUME \A i \in 1..Len(todo') : todo'[i].op \notin Adding PROVE RoomInv'
  <2>1. \A i : ~At(i, "addTagToDoc")' /\ ~At(i, "addDocToDoc")'
    BY <1>2 DEF At, Adding
  <2> QED BY <1>1, <2>1 DEF BoundInv, RoomInv
<1>3. ASSUME NEW kind \in {"jpg", "pdf"}, UploadFile(kind) PROVE RoomInv'
  <2>1. \A i \in 1..Len(todo') : todo'[i].op = "fcopy"
    BY <1>3 DEF UploadFile, Call
  <2> QED BY <1>2, <2>1 DEF Adding
<1>4. ASSUME NEW d \in DocId, DoDelete(d) PROVE RoomInv'
  <2>1. PICK k \in Nat : Deletion(todo', d, k)
    BY <1>4, DeleteCalls DEF BoundInv, TagInv
  <2>2. \A i \in 1..Len(todo') : todo'[i].op \notin Adding
    BY <2>1 DEF Deletion, Adding
  <2> QED BY <1>2, <2>2
<1>5. ASSUME NEW d \in DocId, SetTitle(d) PROVE RoomInv'
  <2>1. todo' = << >>
    BY <1>5 DEF SetTitle, Idle
  <2> QED BY <1>2, <2>1
<1>6. ASSUME NEW d \in DocId, NEW t \in Tag, AddTag(d, t) PROVE RoomInv'
  <2>1. PICK c, a : c = Call("getTagId", d, t) /\ a = Call("addTagToDoc", d, t)
    OBVIOUS
  <2>2. todo' = <<c, a>> /\ tagRows[<<d, t>>] < MostRows
    BY <1>6, <2>1 DEF AddTag
  <2>3. c.op = "getTagId" /\ a.op = "addTagToDoc" /\ a.doc = d /\ a.arg = t
    BY <2>1 DEF Call
  <2>4. \A i \in 1..Len(todo') : At(i, "addTagToDoc")' => RowOf(i)' = <<d, t>>
    BY <2>2, <2>3 DEF At, RowOf
  <2>5. \A i : ~At(i, "addDocToDoc")'
    BY <2>2, <2>3 DEF At
  <2> QED BY <1>1, <2>2, <2>4, <2>5 DEF BoundInv, RoomInv
<1>7. ASSUME NEW d \in DocId, NEW t \in Tag, RemoveTag(d, t) PROVE RoomInv'
  <2>1. \A i \in 1..Len(todo') : todo'[i].op \notin Adding
    BY <1>7 DEF RemoveTag, Call, Adding
  <2> QED BY <1>2, <2>1
<1>8. ASSUME NEW d \in DocId, NEW e \in DocId, AddDoc(d, e) PROVE RoomInv'
  <2>1. PICK c, b : c = Call("addDocToDoc", d, e) /\ b = Call("addDocToDoc", e, d)
    OBVIOUS
  <2>2. /\ todo' = <<c, b>>
        /\ \A r \in {<<d, e>>, <<e, d>>} :
             links[r] + (IF d = e THEN 2 ELSE 1) <= MostRows
    BY <1>8, <2>1 DEF AddDoc
  <2>3. /\ c.op = "addDocToDoc" /\ c.doc = d /\ c.arg = e
        /\ b.op = "addDocToDoc" /\ b.doc = e /\ b.arg = d
    BY <2>1 DEF Call
  <2>4. \A r \in {<<d, e>>, <<e, d>>} :
          /\ links[r] \in Nat /\ links[r] < MostRows
          /\ d = e => links[r] + 1 < MostRows
    <3>1. \A r \in {<<d, e>>, <<e, d>>} : links[r] \in Nat
      BY DEF BoundInv, TagInv, Typed
    <3> QED BY <2>2, <3>1, MostRowsBounds
  <2>5. /\ Len(todo') = 2 /\ RowOf(1)' = <<d, e>> /\ RowOf(2)' = <<e, d>>
        /\ \A i \in 1..2 : i = 1 \/ i = 2
    BY <2>2, <2>3 DEF RowOf
  <2>6. \A i : ~At(i, "addTagToDoc")'
    BY <2>2, <2>3 DEF At
  <2>7. \A i \in 1..Len(todo') : i <= 2 /\ links[RowOf(i)'] < MostRows
    BY <2>4, <2>5
  <2>8. RowOf(1)' = RowOf(2)' => links[RowOf(1)'] + 1 < MostRows
    BY <2>4, <2>5
  <2> QED BY <1>1, <2>6, <2>7, <2>8 DEF BoundInv, RoomInv
<1>9. ASSUME NEW d \in DocId, NEW e \in DocId, RemoveDoc(d, e) PROVE RoomInv'
  <2>1. \A i \in 1..Len(todo') : todo'[i].op \notin Adding
    BY <1>9 DEF RemoveDoc, UnlinkDocs, Call, Adding
  <2> QED BY <1>2, <2>1
<1> QED BY <1>3, <1>4, <1>5, <1>6, <1>7, <1>8, <1>9 DEF Request

LEMMA RowsOfCalls ==
  ASSUME Typed, NEW i \in 1..Len(todo)
  PROVE  /\ todo[i].op \in TagCalls => RowOf(i) \in DocId \X Tag
         /\ todo[i].op \in DocCalls => RowOf(i) \in DocId \X DocId
<1>1. todo[i] \in CallSet
  BY DEF Typed
<1> QED BY <1>1, CallFields DEF RowOf

\* What a call does to doc_tags: one row more, or rows taken away.
LEMMA CallTagRows ==
  ASSUME Typed, MakeCall
  PROVE  \/ At(1, "addTagToDoc") /\ tagRows' = [tagRows EXCEPT ![RowOf(1)] = @ + 1]
         \/ FewerRows(tagRows', tagRows, DocId \X Tag)
            /\ tagRows' \in [DocId \X Tag -> Nat]
<1>1. tagRows \in [DocId \X Tag -> Nat] /\ tagRows' \in [DocId \X Tag -> Nat]
  BY StepTyped DEF Typed, Next
<1>2. CASE AddTagToDoc
  <2>1. At(1, "addTagToDoc") /\ The = todo[1]
    BY <1>2, MakeCallOnce DEF AddTagToDoc, At
  <2> QED BY <1>2, <2>1 DEF AddTagToDoc, RowOf
<1>3. CASE RemoveTagFromDoc
  <2> DEFINE r == <<The.doc, The.arg>>
  <2>1. tagRows' = [tagRows EXCEPT ![r] = 0]
    BY <1>3 DEF RemoveTagFromDoc
  <2> HIDE DEF r
  <2> QED BY <1>1, <2>1 DEF FewerRows
<1>4. CASE RemoveDocTags
  BY <1>1, <1>4 DEF RemoveDocTags, FewerRows
<1>5. ASSUME UNCHANGED tagRows PROVE FewerRows(tagRows', tagRows, DocId \X Tag)
  BY <1>5 DEF FewerRows
<1>6. CASE Fcopy \/ Unlink \/ GetTagId \/ DeleteUnusedTag
  BY <1>1, <1>5, <1>6 DEF Fcopy, Unlink, rows, GetTagId, DeleteUnusedTag
<1>7. CASE AddDocToDoc \/ RemoveDocFromDoc \/ RemoveLinks \/ DropDoc
  BY <1>1, <1>5, <1>7 DEF AddDocToDoc, RemoveDocFromDoc, RemoveLinks, DropDoc
<1> QED BY <1>2, <1>3, <1>4, <1>6, <1>7 DEF MakeCall

\* The same of doc_links.
LEMMA CallLinkRows ==
  ASSUME Typed, MakeCall
  PROVE  \/ At(1, "addDocToDoc") /\ links' = [links EXCEPT ![RowOf(1)] = @ + 1]
         \/ FewerRows(links', links, DocId \X DocId)
            /\ links' \in [DocId \X DocId -> Nat]
<1>1. links \in [DocId \X DocId -> Nat] /\ links' \in [DocId \X DocId -> Nat]
  BY StepTyped DEF Typed, Next
<1>2. links' = LinksAfter(todo[1]) /\ 1 \in 1..Len(todo)
  BY CallLinks, MakeCallOnce
<1>3. PICK c : c = todo[1]
  OBVIOUS
<1>4. CASE c.op = "addDocToDoc"
  BY <1>2, <1>3, <1>4 DEF LinksAfter, At, RowOf
<1>5. CASE c.op = "removeDocFromDoc"
  <2> DEFINE r == <<c.doc, c.arg>>
  <2>1. links' = [links EXCEPT ![r] = 0]
    BY <1>2, <1>3, <1>5 DEF LinksAfter
  <2> HIDE DEF r
  <2> QED BY <1>1, <2>1 DEF FewerRows
<1>6. CASE c.op = "removeLinksOf"
  <2>1. links' = [r \in DocId \X DocId |-> IF r[1] = c.doc THEN 0 ELSE links[r]]
    BY <1>2, <1>3, <1>6 DEF LinksAfter
  <2> QED BY <1>1, <2>1 DEF FewerRows
<1>7. CASE c.op = "removeLinksTo"
  <2>1. links' = [r \in DocId \X DocId |-> IF r[2] = c.doc THEN 0 ELSE links[r]]
    BY <1>2, <1>3, <1>7 DEF LinksAfter
  <2> QED BY <1>1, <2>1 DEF FewerRows
<1>8. CASE c.op \notin {"addDocToDoc", "removeDocFromDoc", "removeLinksOf", "removeLinksTo"}
  <2>1. links' = links
    BY <1>2, <1>3, <1>8 DEF LinksAfter
  <2> QED BY <1>1, <2>1 DEF FewerRows
<1> QED BY <1>4, <1>5, <1>6, <1>7, <1>8

\* A table gets a row only where there is room.
LEMMA OneRowMore ==
  ASSUME NEW R, NEW old \in [R -> 0..MostRows], NEW p \in R, NEW new,
         new = [old EXCEPT ![p] = @ + 1], old[p] < MostRows
  PROVE  new \in [R -> 0..MostRows] /\ \A r \in R : r # p => new[r] = old[r]
<1>1. old[p] + 1 \in 0..MostRows
  BY MostRowsBounds
<1> QED BY <1>1

LEMMA RowsTakenAway ==
  ASSUME NEW R, NEW old \in [R -> 0..MostRows], NEW new \in [R -> Nat],
         FewerRows(new, old, R)
  PROVE  /\ new \in [R -> 0..MostRows]
         /\ \A r \in R : old[r] < MostRows => new[r] < MostRows
<1>1. \A r \in R : new[r] \in 0..MostRows
  BY MostRowsBounds DEF FewerRows
<1>2. \A r \in R : old[r] < MostRows => new[r] < MostRows
  BY MostRowsBounds DEF FewerRows
<1>3. new = [r \in R |-> new[r]]
  OBVIOUS
<1> QED BY <1>1, <1>2, <1>3

LEMMA CallKeepsRoom ==
  ASSUME BoundInv, MakeCall PROVE RoomInv'
<1> USE DEF BoundInv, TagInv
<1>1. /\ Len(todo) \in Nat /\ Len(todo) > 0
      /\ Len(todo') = Len(todo) - 1
      /\ \A i \in 1..Len(todo') : todo'[i] = todo[i + 1]
  BY CallLinks, MakeCallOnce
<1>2. ASSUME NEW i \in 1..Len(todo')
      PROVE  i + 1 \in 1..Len(todo) /\ RowOf(i)' = RowOf(i + 1) /\ todo'[i] = todo[i + 1]
  BY <1>1 DEF RowOf
<1>3. tagRows' \in [DocId \X Tag -> 0..MostRows]
      /\ \A i \in 1..Len(todo') : At(i, "addTagToDoc")' => tagRows'[RowOf(i)'] < MostRows
  <2>1. CASE At(1, "addTagToDoc") /\ tagRows' = [tagRows EXCEPT ![RowOf(1)] = @ + 1]
    <3>1. \A i \in 1..Len(todo') : ~At(i, "addTagToDoc")'
      BY <1>2, <2>1 DEF TagIsLookedUp, At
    <3>2. RowOf(1) \in DocId \X Tag /\ tagRows[RowOf(1)] < MostRows
      BY <2>1, RowsOfCalls DEF RoomInv, At, TagCalls
    <3>3. tagRows' \in [DocId \X Tag -> 0..MostRows]
      <4>1. tagRows \in [DocId \X Tag -> 0..MostRows]
        BY DEF RoomInv
      <4>2. PICK p : p = RowOf(1)
        OBVIOUS
      <4>3. p \in DocId \X Tag /\ tagRows[p] < MostRows
            /\ tagRows' = [tagRows EXCEPT ![p] = @ + 1]
        BY <2>1, <3>2, <4>2
      <4> QED BY <4>1, <4>3, OneRowMore
    <3> QED BY <3>1, <3>3
  <2>2. CASE FewerRows(tagRows', tagRows, DocId \X Tag)
             /\ tagRows' \in [DocId \X Tag -> Nat]
    <3>1. tagRows \in [DocId \X Tag -> 0..MostRows]
      BY DEF RoomInv
    <3>2. /\ tagRows' \in [DocId \X Tag -> 0..MostRows]
          /\ \A r \in DocId \X Tag : tagRows[r] < MostRows => tagRows'[r] < MostRows
      BY <2>2, <3>1, RowsTakenAway
    <3>3. ASSUME NEW i \in 1..Len(todo'), At(i, "addTagToDoc")'
          PROVE  tagRows'[RowOf(i)'] < MostRows
      <4>1. At(i + 1, "addTagToDoc") /\ i + 1 \in 1..Len(todo)
        BY <1>2, <3>3 DEF At
      <4>2. RowOf(i + 1) \in DocId \X Tag /\ tagRows[RowOf(i + 1)] < MostRows
        BY <4>1, RowsOfCalls DEF RoomInv, At, TagCalls
      <4> QED BY <1>2, <3>2, <4>2
    <3> QED BY <3>2, <3>3
  <2> QED BY <2>1, <2>2, CallTagRows
<1>4. ~At(2, "addDocToDoc")'
  <2>1. ASSUME At(2, "addDocToDoc")' PROVE FALSE
    <3>1. At(3, "addDocToDoc") /\ 3 \in 1..Len(todo)
      BY <1>1, <1>2, <2>1 DEF At
    <3> QED BY <3>1 DEF RoomInv
  <2> QED BY <2>1
<1>5. ASSUME NEW i \in 1..Len(todo'), At(i, "addDocToDoc")'
      PROVE  i = 1 /\ At(2, "addDocToDoc") /\ RowOf(1)' = RowOf(2)
  <2>1. At(i + 1, "addDocToDoc") /\ i + 1 \in 1..Len(todo)
    BY <1>2, <1>5 DEF At
  <2>2. i + 1 <= 2
    BY <2>1 DEF RoomInv
  <2>3. i = 1
    BY <1>1, <2>2
  <2> QED BY <1>2, <2>1, <2>3
<1>6. links' \in [DocId \X DocId -> 0..MostRows]
      /\ (At(2, "addDocToDoc") => links'[RowOf(2)] < MostRows)
  <2>0. links \in [DocId \X DocId -> 0..MostRows]
    BY DEF RoomInv
  <2>3. At(2, "addDocToDoc") =>
          RowOf(2) \in DocId \X DocId /\ links[RowOf(2)] < MostRows
    BY RowsOfCalls DEF RoomInv, At, DocCalls
  <2>1. CASE At(1, "addDocToDoc") /\ links' = [links EXCEPT ![RowOf(1)] = @ + 1]
    <3>1. RowOf(1) \in DocId \X DocId /\ links[RowOf(1)] < MostRows
      BY <2>1, RowsOfCalls DEF RoomInv, At, DocCalls
    <3>2. PICK p, q : p = RowOf(1) /\ q = RowOf(2)
      OBVIOUS
    <3>3. p \in DocId \X DocId /\ links[p] < MostRows
          /\ links' = [links EXCEPT ![p] = @ + 1]
      BY <2>1, <3>1, <3>2
    <3>4. /\ links' \in [DocId \X DocId -> 0..MostRows]
          /\ \A r \in DocId \X DocId : r # p => links'[r] = links[r]
      BY <2>0, <3>3, OneRowMore
    <3>5. CASE p = q
      <4>1. links'[p] = links[p] + 1
        BY <2>0, <3>3
      <4>2. At(2, "addDocToDoc") => links[p] + 1 < MostRows
        BY <2>1, <3>2, <3>5 DEF RoomInv
      <4> QED BY <3>2, <3>4, <3>5, <4>1, <4>2
    <3>6. CASE p # q
      BY <2>3, <3>2, <3>4, <3>6
    <3> QED BY <3>5, <3>6
  <2>2. CASE FewerRows(links', links, DocId \X DocId)
             /\ links' \in [DocId \X DocId -> Nat]
    <3>1. /\ links' \in [DocId \X DocId -> 0..MostRows]
          /\ \A r \in DocId \X DocId : links[r] < MostRows => links'[r] < MostRows
      BY <2>0, <2>2, RowsTakenAway
    <3> QED BY <2>3, <3>1
  <2> QED BY <2>1, <2>2, CallLinkRows
<1>7. \A i \in 1..Len(todo') : At(i, "addDocToDoc")' =>
        i <= 2 /\ links'[RowOf(i)'] < MostRows
  BY <1>5, <1>6
<1> QED BY <1>3, <1>4, <1>6, <1>7 DEF RoomInv

LEMMA FileTypedStep ==
  ASSUME Typed, FileTyped, [Next]_vars PROVE FileTyped'
<1> USE DEF FileTyped
<1>1. ASSUME UNCHANGED <<files, scan, interrupted>> PROVE FileTyped'
  BY <1>1
<1>2. CASE Request
  BY <1>1, <1>2 DEF Request, UploadFile, DoDelete, SetTitle, AddTag, RemoveTag,
    AddDoc, RemoveDoc
<1>3. ASSUME UNCHANGED <<scan, interrupted>>, files' \subseteq files PROVE FileTyped'
  BY <1>3
<1>4. CASE Fcopy
  <2>1. The \in CallSet /\ The.op = "fcopy"
    BY <1>4, MakeCallOnce DEF Fcopy
  <2>2. The.arg \in File
    BY <2>1 DEF CallSet, TagCalls, DocCalls, FileCalls
  <2>3. files' \subseteq File /\ UNCHANGED <<scan, interrupted>>
    BY <1>4, <2>2 DEF Fcopy, Make
  <2> QED BY <2>3
<1>5. CASE Unlink \/ GetTagId \/ AddTagToDoc \/ RemoveTagFromDoc \/ DeleteUnusedTag
  BY <1>3, <1>5 DEF Unlink, GetTagId, AddTagToDoc, RemoveTagFromDoc, DeleteUnusedTag, Make
<1>6. CASE AddDocToDoc \/ RemoveDocFromDoc \/ RemoveDocTags \/ RemoveLinks \/ DropDoc
  BY <1>3, <1>6 DEF AddDocToDoc, RemoveDocFromDoc, RemoveDocTags, RemoveLinks, DropDoc, Make
<1>7. ASSUME NEW n \in 1..MaxPages, ScanInsert(n) PROVE FileTyped'
  <2>1. PICK d : d = NextDocId
    OBVIOUS
  <2>2. /\ d \in DocId /\ scan' = [pc |-> "image", doc |-> d, page |-> 1]
        /\ UNCHANGED <<files, interrupted>>
    BY <1>7, <2>1 DEF ScanInsert
  <2>3. d \in 0..MaxDoc /\ 1 \in 0..MaxPages
    BY <2>2, DocStoreAssumption DEF DocId
  <2> QED BY <2>2, <2>3
<1>8. CASE ScanImage
  <2>1. scan.doc \in DocId /\ scan.page \in 1..MaxPages
    BY <1>8 DEF ScanImage, Typed
  <2>2. Image(scan.doc, scan.page) \in File
    BY <2>1 DEF File
  <2> QED BY <1>8, <2>1, <2>2 DEF ScanImage
<1>9. CASE ScanText
  BY <1>9 DEF ScanText
<1>10. CASE ScanNext
  <2>1. scan.page + 1 \in 0..MaxPages
    BY <1>10, DocStoreAssumption DEF ScanNext, Typed
  <2> QED BY <1>10, <2>1 DEF ScanNext
<1>11. CASE ScanEnd \/ WorkerDies
  <2>1. scan' = [pc |-> "none", doc |-> 0, page |-> 0] /\ UNCHANGED files
    BY <1>11 DEF ScanEnd, WorkerDies
  <2>2. interrupted' \subseteq DocId
    BY <1>11 DEF ScanEnd, WorkerDies
  <2>3. 0 \in 0..MaxDoc /\ 0 \in 0..MaxPages
    BY DocStoreAssumption
  <2> QED BY <2>1, <2>2, <2>3
<1>12. CASE DaemonDies
  <2>1. ASSUME NEW i \in DOMAIN todo PROVE Touches(todo[i]) \subseteq DocId
    <3>1. todo[i] \in CallSet
      BY <2>1 DEF Typed
    <3>2. PICK c \in CallSet : c = todo[i]
      BY <3>1
    <3>3. Touches(c) \subseteq DocId
      BY CallFields DEF Touches, DocCalls
    <3> QED BY <3>2, <3>3
  <2> QED BY <1>12, <2>1 DEF DaemonDies
<1>13. CASE UNCHANGED vars
  BY <1>1, <1>13 DEF vars
<1> QED BY <1>2, <1>4, <1>5, <1>6, <1>7, <1>8, <1>9, <1>10, <1>11, <1>12, <1>13
        DEF Next, MakeCall, Scan

LEMMA BoundInvStep == BoundInv /\ [Next]_vars => BoundInv'
<1> SUFFICES ASSUME BoundInv, [Next]_vars PROVE RoomInv'
  BY TagInvStep, FileTypedStep DEF BoundInv, TagInv
<1>1. ASSUME UNCHANGED <<tagRows, links, todo>> PROVE RoomInv'
  BY <1>1 DEF BoundInv, RoomInv, RowOf, At
<1>2. CASE Request
  BY <1>2, RequestHasRoom
<1>3. CASE MakeCall
  BY <1>3, CallKeepsRoom
<1>4. CASE Scan \/ WorkerDies \/ UNCHANGED vars
  <2>1. UNCHANGED <<tagRows, links, todo>>
    BY <1>4 DEF Scan, ScanInsert, ScanImage, ScanText, ScanNext, ScanEnd, WorkerDies, vars
  <2> QED BY <1>1, <2>1
<1>5. CASE DaemonDies
  <2>1. UNCHANGED <<tagRows, links>> /\ Len(todo') = 0
    BY <1>5 DEF DaemonDies
  <2>2. \A i : ~At(i, "addTagToDoc")' /\ ~At(i, "addDocToDoc")'
    BY <2>1 DEF At
  <2> QED BY <2>1, <2>2 DEF BoundInv, RoomInv
<1> QED BY <1>2, <1>3, <1>4, <1>5 DEF Next

LEMMA InitBound == Init => BoundInv
<1> SUFFICES ASSUME Init PROVE BoundInv
  OBVIOUS
<1>1. TagInv
  BY InitTyped DEF Init, TagInv, TagIsLookedUp, TagRowsHaveTag
<1>2. 0 \in 0..MostRows /\ 0 \in 0..MaxDoc /\ 0 \in 0..MaxPages
  BY MostRowsBounds, DocStoreAssumption
<1>3. Len(todo) = 0
  BY DEF Init
<1>4. tagRows \in [DocId \X Tag -> 0..MostRows]
  BY <1>2 DEF Init
<1>5. links \in [DocId \X DocId -> 0..MostRows]
  BY <1>2 DEF Init
<1>6. RoomInv
  <2>1. \A i : ~At(i, "addTagToDoc") /\ ~At(i, "addDocToDoc")
    BY <1>3 DEF At
  <2> QED BY <1>4, <1>5, <2>1 DEF RoomInv
<1>7. FileTyped
  BY <1>2 DEF Init, FileTyped
<1> QED BY <1>1, <1>6, <1>7 DEF BoundInv

LEMMA BoundHolds == Spec => []BoundInv
BY InitBound, BoundInvStep, PTL DEF Spec

\* DocTypeOK, for any number of documents, pages and tags and clients of any
\* kind: ids, tags, file names and page numbers stay in their ranges, and no
\* row is there more often than it was asked for.
THEOREM DocTypeCorrect == Spec => []DocTypeOK
<1>1. BoundInv => DocTypeOK
  <2> SUFFICES ASSUME BoundInv PROVE DocTypeOK
    OBVIOUS
  <2>1. 0..MostRows \subseteq 0..MaxRepeat
    BY MostRowsBounds DEF MaxRepeat
  <2>2. /\ tagRows \in [DocId \X Tag -> 0..MaxRepeat]
        /\ links \in [DocId \X DocId -> 0..MaxRepeat]
    BY <2>1 DEF BoundInv, RoomInv
  <2>3. /\ DOMAIN docs \subseteq DocId /\ tags \subseteq Tag
        /\ \A d \in DOMAIN docs :
             docs[d] \in [kind : {"jpg", "pdf", "scan"}, pages : 1..MaxPages,
                          titled : BOOLEAN]
    BY DEF BoundInv, TagInv, Typed, DocSet
  <2> QED BY <2>2, <2>3 DEF DocTypeOK, BoundInv, FileTyped
<1> QED BY <1>1, BoundHolds, PTL

------------------------------------------------------------------------------
(* Searches by tags                                                        *)

\* The tags of S a document has rows for.
RowsIn(d, S) == {t \in S : tagRows[<<d, t>>] = 1}

ZeroOrOne(d, S) == \A t \in S : tagRows[<<d, t>>] \in {0, 1}

\* What FoldSet computes step by step, for every part of S.
Counting(f, d, S) ==
  f = [s \in SUBSET S |->
         IF s = {} THEN 0
         ELSE f[s \ {CHOOSE t \in s : TRUE}] + tagRows[<<d, CHOOSE t \in s : TRUE>>]]

LEMMA RowsInLess ==
  ASSUME NEW d, NEW S, IsFiniteSet(S), NEW t \in S, tagRows[<<d, t>>] \in {0, 1}
  PROVE  /\ Cardinality(RowsIn(d, S)) \in Nat
         /\ Cardinality(RowsIn(d, S)) =
              Cardinality(RowsIn(d, S \ {t})) + tagRows[<<d, t>>]
<1>1. IsFiniteSet(RowsIn(d, S)) /\ Cardinality(RowsIn(d, S)) \in Nat
  <2>1. RowsIn(d, S) \in SUBSET S
    BY DEF RowsIn
  <2> QED BY <2>1, FS_Subset, FS_CardinalityType
<1>2. RowsIn(d, S \ {t}) = RowsIn(d, S) \ {t}
  BY DEF RowsIn
<1>3. t \in RowsIn(d, S) <=> tagRows[<<d, t>>] = 1
  BY DEF RowsIn
<1>4. Cardinality(RowsIn(d, S) \ {t}) =
        IF t \in RowsIn(d, S) THEN Cardinality(RowsIn(d, S)) - 1
        ELSE Cardinality(RowsIn(d, S))
  BY <1>1, FS_RemoveElement
<1>5. CASE tagRows[<<d, t>>] = 1
  <2>1. Cardinality(RowsIn(d, S \ {t})) = Cardinality(RowsIn(d, S)) - 1
    BY <1>2, <1>3, <1>4, <1>5
  <2> QED BY <1>1, <1>5, <2>1
<1>6. CASE tagRows[<<d, t>>] = 0
  <2>1. Cardinality(RowsIn(d, S \ {t})) = Cardinality(RowsIn(d, S))
    BY <1>2, <1>3, <1>4, <1>6
  <2> QED BY <1>1, <1>6, <2>1
<1> QED BY <1>5, <1>6

LEMMA CountingCounts ==
  ASSUME NEW d, NEW S, IsFiniteSet(S), ZeroOrOne(d, S), NEW f, Counting(f, d, S)
  PROVE  \A s \in SUBSET S : f[s] = Cardinality(RowsIn(d, s))
<1> DEFINE Wrong == {s \in SUBSET S : f[s] # Cardinality(RowsIn(d, s))}
           Sizes == {Cardinality(s) : s \in Wrong}
<1> SUFFICES ASSUME Wrong # {} PROVE FALSE
  OBVIOUS
<1>1. \A s \in SUBSET S : IsFiniteSet(s) /\ Cardinality(s) \in Nat
  BY FS_Subset, FS_CardinalityType
<1>2. PICK n \in Sizes : \A m \in Sizes : n <= m
  <2>1. Sizes \in SUBSET Nat /\ Sizes # {}
    BY <1>1
  <2> QED BY <2>1, NatLeast
<1>3. PICK s \in Wrong : n = Cardinality(s)
  BY <1>2
<1>4. CASE s = {}
  <2>1. f[s] = 0
    BY <1>4 DEF Counting
  <2>2. RowsIn(d, s) = {}
    BY <1>4 DEF RowsIn
  <2> QED BY <1>3, <2>1, <2>2, FS_EmptySet
<1>5. CASE s # {}
  <2>1. PICK t : t = (CHOOSE u \in s : TRUE)
    OBVIOUS
  <2>2. t \in s /\ t \in S /\ tagRows[<<d, t>>] \in {0, 1}
    BY <1>3, <1>5, <2>1 DEF ZeroOrOne
  <2>3. f[s] = f[s \ {t}] + tagRows[<<d, t>>]
    BY <1>3, <1>5, <2>1 DEF Counting
  <2>4. s \ {t} \in SUBSET S /\ IsFiniteSet(s) /\ Cardinality(s \ {t}) = Cardinality(s) - 1
        /\ Cardinality(s) \in Nat
    BY <1>1, <1>3, <2>2, FS_RemoveElement
  <2>5. f[s \ {t}] = Cardinality(RowsIn(d, s \ {t}))
    <3>1. ASSUME s \ {t} \in Wrong PROVE FALSE
      <4>1. Cardinality(s \ {t}) \in Sizes
        BY <3>1
      <4>2. n <= Cardinality(s \ {t})
        BY <1>2, <4>1
      <4>3. n = Cardinality(s) /\ Cardinality(s) \in Nat
        BY <1>3, <2>4
      <4> QED BY <2>4, <4>2, <4>3
    <3> QED BY <2>4, <3>1
  <2>6. Cardinality(RowsIn(d, s)) =
          Cardinality(RowsIn(d, s \ {t})) + tagRows[<<d, t>>]
    BY <2>2, <2>4, RowsInLess
  <2> QED BY <1>3, <2>3, <2>5, <2>6
<1> QED BY <1>4, <1>5

LEMMA FoldCounts ==
  ASSUME NEW d, NEW S, IsFiniteSet(S), ZeroOrOne(d, S)
  PROVE  RowCount(d, S) = Cardinality(RowsIn(d, S))
<1> DEFINE card == [s \in SUBSET S |-> Cardinality(RowsIn(d, s))]
<1>1. Counting(card, d, S)
  <2>1. ASSUME NEW s \in SUBSET S, s # {}
        PROVE  card[s] = card[s \ {CHOOSE t \in s : TRUE}]
                           + tagRows[<<d, CHOOSE t \in s : TRUE>>]
    <3>1. PICK t : t = (CHOOSE u \in s : TRUE)
      OBVIOUS
    <3>2. t \in s /\ t \in S /\ tagRows[<<d, t>>] \in {0, 1} /\ IsFiniteSet(s)
          /\ s \ {t} \in SUBSET S
      BY <2>1, <3>1, FS_Subset DEF ZeroOrOne
    <3>3. Cardinality(RowsIn(d, s)) =
            Cardinality(RowsIn(d, s \ {t})) + tagRows[<<d, t>>]
      BY <3>2, RowsInLess
    <3> QED BY <3>1, <3>2, <3>3
  <2>2. card[{}] = 0
    <3>1. RowsIn(d, {}) = {}
      BY DEF RowsIn
    <3> QED BY <3>1, FS_EmptySet
  <2>3. card = [s \in SUBSET S |->
         IF s = {} THEN 0
         ELSE card[s \ {CHOOSE t \in s : TRUE}] + tagRows[<<d, CHOOSE t \in s : TRUE>>]]
    <3> DEFINE rhs(s) == IF s = {} THEN 0
         ELSE card[s \ {CHOOSE t \in s : TRUE}] + tagRows[<<d, CHOOSE t \in s : TRUE>>]
    <3>1. \A s \in SUBSET S : card[s] = rhs(s)
      BY <2>1, <2>2
    <3>2. card = [s \in SUBSET S |-> card[s]]
      OBVIOUS
    <3> HIDE DEF card
    <3> QED BY <3>1, <3>2
  <2> QED BY <2>3 DEF Counting
<1> DEFINE iter == CHOOSE f : Counting(f, d, S)
<1>2. Counting(iter, d, S)
  BY <1>1
<1>3. RowCount(d, S) = iter[S]
  BY DEF RowCount, FoldSet, MapThenFoldSet, Counting
<1> HIDE DEF iter, card
<1>4. PICK f : f = iter
  OBVIOUS
<1>5. Counting(f, d, S)
  BY <1>2, <1>4
<1>6. \A s \in SUBSET S : f[s] = Cardinality(RowsIn(d, s))
  BY <1>5, CountingCounts
<1> QED BY <1>3, <1>4, <1>6

\* The query of DocFilter by tags alone.
LEMMA TagQuery ==
  ASSUME NEW S, S # {}
  PROVE  DocFilter(FALSE, S) =
           {d \in DOMAIN docs : /\ RowCount(d, S \cap tags) > 0
                                /\ RowCount(d, S \cap tags) = Cardinality(S)}
<1>1. PICK n : n = Cardinality(S)
  OBVIOUS
<1>2. (<< >> \o <<[type |-> "int", value |-> n]>>)[1] = [type |-> "int", value |-> n]
  OBVIOUS
<1>3. \A m : RightRows(m, [type |-> "int", value |-> n]) <=> m = n
  BY DEF RightRows
<1> QED BY <1>1, <1>2, <1>3 DEF DocFilter

\* A search by tags, for any number of documents and any finite number of tags:
\* with a client that never adds a tag to a document that has it, counting the
\* rows a document has for the tags looked for is the same as comparing sets.
LEMMA TagSearchExact ==
  ASSUME CarefulClient, IsFiniteSet(Tag), BoundInv, NEW S \in (SUBSET Tag) \ {{}}
  PROVE  DocFilter(FALSE, S) = {d \in DOMAIN docs : S \subseteq TagsOf(d)}
<1>1. /\ IsFiniteSet(S) /\ IsFiniteSet(S \cap tags)
      /\ Cardinality(S) \in Nat /\ Cardinality(S) # 0
  <2>1. S \in SUBSET Tag /\ S \cap tags \in SUBSET Tag
    OBVIOUS
  <2>2. S # {}
    OBVIOUS
  <2>3. IsFiniteSet(S) /\ IsFiniteSet(S \cap tags)
    BY <2>1, FS_Subset
  <2> QED BY <2>2, <2>3, FS_CardinalityType, FS_EmptySet
<1>2. ASSUME NEW d \in DOMAIN docs
      PROVE  RowCount(d, S \cap tags) > 0 /\ RowCount(d, S \cap tags) = Cardinality(S)
               <=> S \subseteq TagsOf(d)
  <2>1. d \in DocId /\ \A t \in Tag : tagRows[<<d, t>>] \in {0, 1}
    <3>1. MostRows = 1 /\ tagRows \in [DocId \X Tag -> 0..MostRows]
      BY DEF MostRows, BoundInv, RoomInv
    <3>2. d \in DocId
      BY DEF BoundInv, TagInv, Typed
    <3> QED BY <3>1, <3>2
  <2>2. PICK In : In = RowsIn(d, S \cap tags)
    OBVIOUS
  <2>3. RowCount(d, S \cap tags) = Cardinality(In)
    <3>1. ZeroOrOne(d, S \cap tags)
      BY <2>1 DEF ZeroOrOne
    <3> QED BY <1>1, <2>2, <3>1, FoldCounts
  <2>4. In = S \cap TagsOf(d) /\ In \in SUBSET S
    BY <2>1, <2>2 DEF RowsIn, TagsOf
  <2>5. Cardinality(S) = Cardinality(In) => S = In
    BY <1>1, <2>4, FS_Subset
  <2>6. S \subseteq TagsOf(d) <=> S = In
    BY <2>4
  <2>7. Cardinality(In) > 0 /\ Cardinality(In) = Cardinality(S) <=> S = In
    BY <1>1, <2>5
  <2> QED BY <2>3, <2>6, <2>7
<1>3. DocFilter(FALSE, S) =
        {d \in DOMAIN docs : /\ RowCount(d, S \cap tags) > 0
                             /\ RowCount(d, S \cap tags) = Cardinality(S)}
  BY TagQuery
<1> QED BY <1>2, <1>3

\* With tags to look for, the text is in the place of their number.
LEMMA TextAndTags ==
  ASSUME NEW S, S # {} PROVE DocFilter(TRUE, S) = {}
<1>1. PICK n : n = Cardinality(S)
  OBVIOUS
<1>2. PICK like : like = [type |-> "text", value |-> 0]
  OBVIOUS
<1>3. (<<like, like>> \o <<[type |-> "int", value |-> n]>>)[1] = like
  OBVIOUS
<1>4. \A m : ~RightRows(m, like)
  <2>1. like.type = "text" /\ \A m : [type |-> "int", value |-> m].type = "int"
    BY <1>2
  <2>2. "text" # "int"
    OBVIOUS
  <2> QED BY <2>1, <2>2 DEF RightRows
<1> QED BY <1>1, <1>2, <1>3, <1>4 DEF DocFilter

\* SearchFinds, for any number of documents and any finite number of tags.
THEOREM SearchesFind ==
  ASSUME CarefulClient, IsFiniteSet(Tag) PROVE Spec => []SearchFinds
<1>1. BoundInv => SearchFinds
  BY TagSearchExact, TextAndTags DEF SearchFinds
<1> QED BY <1>1, BoundHolds, PTL

------------------------------------------------------------------------------
(* What readers see                                                        *)

\* Calls that delete a document, and all that readers would notice.
RemoveOps == {"removeDocTags", "removeLinksOf", "removeLinksTo", "removeDoc"}
ViewOps == RemoveOps \cup {"addTagToDoc", "removeTagFromDoc",
                         "addDocToDoc", "removeDocFromDoc"}

\* The calls left that readers would notice are for one thing: the removal of
\* a document, one of its tags, or one of its links.
Quiet == \A c \in Left : c.op \notin ViewOps

Removing(d) ==
  /\ d \in DOMAIN docs
  /\ d \in DocsOf("removeDoc")
  /\ \A c \in Left : c.op \in ViewOps => c.op \in RemoveOps /\ c.doc = d

Tagging(op, d, t) ==
  /\ d \in DOMAIN docs
  /\ \A c \in Left : c.op \in ViewOps => c.op = op /\ c.doc = d /\ c.arg = t

Linking(op, d, e) ==
  /\ {d, e} \subseteq DOMAIN docs
  /\ \A c \in Left : c.op \in ViewOps =>
       c.op = op /\ <<c.doc, c.arg>> \in {<<d, e>>, <<e, d>>}

OneThing ==
  \/ Quiet
  \/ \E d \in DocId : Removing(d)
  \/ \E d \in DocId, t \in Tag, op \in {"addTagToDoc", "removeTagFromDoc"} :
       Tagging(op, d, t)
  \/ \E d, e \in DocId, op \in {"addDocToDoc", "removeDocFromDoc"} :
       Linking(op, d, e)

LEMMA DeletingDocs == Deleting = DocsOf("removeDoc")
BY DEF Deleting, DocsOf

\* A call that is made is not left; the others are as before.
LEMMA MadeCall ==
  ASSUME Typed, NEW op, Make(op)
  PROVE  /\ \A o : o # op => DocsOf(o)' = DocsOf(o) /\ RowsOf(o)' = RowsOf(o)
         /\ DocsOf(op) = DocsOf(op)' \cup {The.doc}
         /\ RowsOf(op) = RowsOf(op)' \cup {<<The.doc, The.arg>>}
<1>1. PICK c : c = The
  OBVIOUS
<1>2. /\ c \in Left /\ c.op = op
      /\ Left = Left' \cup {c}
  BY <1>1, MakeLeft
<1>3. \A o : o # op => DocsOf(o)' = DocsOf(o) /\ RowsOf(o)' = RowsOf(o)
  BY <1>2 DEF DocsOf, RowsOf
<1>4. /\ DocsOf(op) = DocsOf(op)' \cup {c.doc}
      /\ RowsOf(op) = RowsOf(op)' \cup {<<c.doc, c.arg>>}
  BY <1>2 DEF DocsOf, RowsOf
<1> QED BY <1>1, <1>3, <1>4

\* An operation that is not left is about nothing.
LEMMA NoCalls ==
  ASSUME NEW op, \A c \in Left : c.op # op
  PROVE  DocsOf(op) = {} /\ RowsOf(op) = {}
BY DEF DocsOf, RowsOf

LEMMA IdleThing == ASSUME Idle PROVE OneThing
BY IdleLists DEF OneThing, Quiet

\* A request is about one thing.
LEMMA RequestThing ==
  ASSUME FileInv, CarefulClient, Request PROVE OneThing'
<1>1. CASE \E kind \in {"jpg", "pdf"} : UploadFile(kind)
  <2>1. \A i \in 1..Len(todo') : todo'[i].op = "fcopy"
    BY <1>1 DEF UploadFile, Call
  <2> QED BY <2>1 DEF OneThing, Quiet, Left, ViewOps, RemoveOps
<1>2. ASSUME NEW d \in DocId, DoDelete(d) PROVE OneThing'
  <2>1. PICK k \in Nat : Deletion(todo', d, k) /\ d \in DOMAIN docs
    BY <1>2, DeleteCalls DEF FileInv
  <2>2. \A i \in 1..Len(todo') :
          todo'[i].doc = d /\ (todo'[i].op \in ViewOps => todo'[i].op \in RemoveOps)
    BY <2>1 DEF Deletion, ViewOps, RemoveOps
  <2>3. todo'[k + 4] \in Left' /\ todo'[k + 4].op = "removeDoc" /\ todo'[k + 4].doc = d
    BY <2>1 DEF Deletion, Left
  <2>4. docs' = docs
    BY <1>2 DEF DoDelete
  <2>5. \A c \in Left' : c.doc = d /\ (c.op \in ViewOps => c.op \in RemoveOps)
    BY <2>2 DEF Left
  <2>6. d \in DocsOf("removeDoc")'
    BY <2>3 DEF DocsOf
  <2> QED BY <2>1, <2>4, <2>5, <2>6 DEF OneThing, Removing
<1>3. CASE \E d \in DocId : SetTitle(d)
  <2>1. Idle'
    BY <1>3 DEF SetTitle, Idle
  <2>2. Left' = {}
    BY <2>1 DEF Idle, Left
  <2> QED BY <2>2 DEF OneThing, Quiet
<1>4. ASSUME NEW d \in DocId, NEW t \in Tag, AddTag(d, t) PROVE OneThing'
  <2>1. todo' = <<Call("getTagId", d, t), Call("addTagToDoc", d, t)>>
        /\ docs' = docs /\ d \in DOMAIN docs
    BY <1>4 DEF AddTag, Offered
  <2>2. Left' = {Call("getTagId", d, t), Call("addTagToDoc", d, t)}
    BY <2>1 DEF Left
  <2>3. Tagging("addTagToDoc", d, t)'
    BY <2>1, <2>2 DEF Tagging, Call, ViewOps, RemoveOps
  <2> QED BY <2>3 DEF OneThing
<1>5. ASSUME NEW d \in DocId, NEW t \in Tag, RemoveTag(d, t) PROVE OneThing'
  <2>1. todo' = <<Call("getTagId", d, t), Call("removeTagFromDoc", d, t),
                  Call("deleteUnusedTag", d, t)>>
        /\ docs' = docs /\ d \in DOMAIN docs
    BY <1>5 DEF RemoveTag, Offered
  <2>2. \A c \in Left' : \/ c = Call("getTagId", d, t)
                         \/ c = Call("removeTagFromDoc", d, t)
                         \/ c = Call("deleteUnusedTag", d, t)
    BY <2>1 DEF Left
  <2>3. Tagging("removeTagFromDoc", d, t)'
    BY <2>1, <2>2 DEF Tagging, Call, ViewOps, RemoveOps
  <2> QED BY <2>3 DEF OneThing
<1>6. ASSUME NEW d \in DocId, NEW e \in DocId, AddDoc(d, e) PROVE OneThing'
  <2>1. todo' = <<Call("addDocToDoc", d, e), Call("addDocToDoc", e, d)>>
        /\ docs' = docs /\ {d, e} \subseteq DOMAIN docs
    BY <1>6 DEF AddDoc, Offered
  <2>2. \A c \in Left' : c = Call("addDocToDoc", d, e) \/ c = Call("addDocToDoc", e, d)
    BY <2>1 DEF Left
  <2>3. Linking("addDocToDoc", d, e)'
    BY <2>1, <2>2 DEF Linking, Call
  <2> QED BY <2>3 DEF OneThing
<1>7. ASSUME NEW d \in DocId, NEW e \in DocId, RemoveDoc(d, e) PROVE OneThing'
  <2>1. todo' = <<Call("removeDocFromDoc", d, e), Call("removeDocFromDoc", e, d)>>
        /\ docs' = docs /\ {d, e} \subseteq DOMAIN docs
    BY <1>7 DEF RemoveDoc, Offered, UnlinkDocs
  <2>2. \A c \in Left' :
          c = Call("removeDocFromDoc", d, e) \/ c = Call("removeDocFromDoc", e, d)
    BY <2>1 DEF Left
  <2>3. Linking("removeDocFromDoc", d, e)'
    BY <2>1, <2>2 DEF Linking, Call
  <2> QED BY <2>3 DEF OneThing
<1> QED BY <1>1, <1>2, <1>3, <1>4, <1>5, <1>6, <1>7 DEF Request

LEMMA SameThing ==
  ASSUME OneThing, Left' = Left, DOMAIN docs \subseteq DOMAIN docs'
  PROVE  OneThing'
<1>1. DocsOf("removeDoc")' = DocsOf("removeDoc")
  BY DEF DocsOf
<1>2. CASE Quiet
  BY <1>2 DEF OneThing, Quiet
<1>3. CASE \E d \in DocId : Removing(d)
  BY <1>1, <1>3 DEF OneThing, Removing
<1>4. CASE \E d \in DocId, t \in Tag, op \in {"addTagToDoc", "removeTagFromDoc"} :
             Tagging(op, d, t)
  BY <1>4 DEF OneThing, Tagging
<1>5. CASE \E d, e \in DocId, op \in {"addDocToDoc", "removeDocFromDoc"} :
             Linking(op, d, e)
  BY <1>5 DEF OneThing, Linking
<1> QED BY <1>2, <1>3, <1>4, <1>5 DEF OneThing

\* The calls of a request are about what it is about, until none is left.
LEMMA CallThing ==
  ASSUME FileInv, OneThing, MakeCall PROVE OneThing'
<1>1. CASE DropDoc
  <2>1. Left' = {}
    BY <1>1, RowIsLast DEF DropDoc
  <2> QED BY <2>1 DEF OneThing, Quiet
<1>2. CASE ~DropDoc
  <2>1. PICK op : Make(op) /\ op # "removeDoc" /\ docs' = docs
    BY <1>2 DEF MakeCall, Fcopy, Unlink, GetTagId, AddTagToDoc, RemoveTagFromDoc,
      DeleteUnusedTag, AddDocToDoc, RemoveDocFromDoc, RemoveDocTags, RemoveLinks, rows
  <2>2. Left' \subseteq Left /\ DocsOf("removeDoc")' = DocsOf("removeDoc")
    BY <2>1, MakeLeft, MadeCall DEF FileInv
  <2>3. CASE Quiet
    BY <2>2, <2>3 DEF OneThing, Quiet
  <2>4. CASE \E d \in DocId : Removing(d)
    BY <2>1, <2>2, <2>4 DEF OneThing, Removing
  <2>5. CASE \E d \in DocId, t \in Tag, o \in {"addTagToDoc", "removeTagFromDoc"} :
               Tagging(o, d, t)
    BY <2>1, <2>2, <2>5 DEF OneThing, Tagging
  <2>6. CASE \E d, e \in DocId, o \in {"addDocToDoc", "removeDocFromDoc"} :
               Linking(o, d, e)
    BY <2>1, <2>2, <2>6 DEF OneThing, Linking
  <2> QED BY <2>3, <2>4, <2>5, <2>6 DEF OneThing
<1> QED BY <1>1, <1>2

LEMMA OneThingStep ==
  ASSUME CarefulClient PROVE FileInv /\ OneThing /\ [Next]_vars => OneThing'
<1> SUFFICES ASSUME FileInv, OneThing, [Next]_vars PROVE OneThing'
  OBVIOUS
<1>1. CASE Request
  BY <1>1, RequestThing
<1>2. CASE MakeCall
  BY <1>2, CallThing
<1>3. CASE Scan
  <2>1. Left' = Left
    BY <1>3 DEF Scan, ScanInsert, ScanImage, ScanText, ScanNext, ScanEnd, Left
  <2>2. DOMAIN docs \subseteq DOMAIN docs'
    BY <1>3 DEF Scan, ScanInsert, InsertDoc, ScanImage, ScanText, ScanNext, ScanEnd
  <2> QED BY <2>1, <2>2, SameThing
<1>4. CASE DaemonDies
  <2>1. Left' = {}
    BY <1>4 DEF DaemonDies, Left
  <2> QED BY <2>1 DEF OneThing, Quiet
<1>5. CASE WorkerDies \/ UNCHANGED vars
  <2>1. Left' = Left /\ docs' = docs
    BY <1>5 DEF WorkerDies, vars, Left
  <2> QED BY <2>1, SameThing
<1> QED BY <1>1, <1>2, <1>3, <1>4, <1>5 DEF Next

\* The rows that are there: what is seen of them when no call is left.
TagsNow  == {r \in DocId \X Tag : tagRows[r] > 0}
LinksNow == {r \in DocId \X DocId : links[r] > 0}

LEMMA NothingLeft ==
  ASSUME \A c \in Left : c.op \notin ViewOps
  PROVE  DocsAfter = DOMAIN docs /\ TaggedAfter = TagsNow /\ LinkedAfter = LinksNow
<1>1. \A op \in ViewOps : DocsOf(op) = {} /\ RowsOf(op) = {}
  BY NoCalls
<1> QED BY <1>1 DEF DocsAfter, TaggedAfter, LinkedAfter, TagsNow, LinksNow, ViewOps,
        RemoveOps

\* A call of a request is not seen: what it does is what the readers expected.
LEMMA CallIsStutter ==
  ASSUME FileInv, OneThing, MakeCall
  PROVE  /\ DocsAfter' = DocsAfter
         /\ TaggedAfter' = TaggedAfter /\ LinkedAfter' = LinkedAfter
<1>0. Typed
  BY DEF FileInv
<1> USE DEF DocsAfter, TaggedAfter, LinkedAfter
<1>1. CASE Fcopy \/ Unlink \/ GetTagId \/ DeleteUnusedTag
  <2>1. PICK op \in {"fcopy", "unlink", "getTagId", "deleteUnusedTag"} : Make(op)
    BY <1>1 DEF Fcopy, Unlink, GetTagId, DeleteUnusedTag
  <2>2. \A o \in ViewOps : DocsOf(o)' = DocsOf(o) /\ RowsOf(o)' = RowsOf(o)
    BY <1>0, <2>1, MadeCall DEF ViewOps, RemoveOps
  <2>3. UNCHANGED <<docs, tagRows, links>>
    BY <1>1 DEF Fcopy, Unlink, GetTagId, DeleteUnusedTag, rows
  <2> QED BY <2>2, <2>3 DEF ViewOps, RemoveOps
<1>2. CASE AddTagToDoc
  <2>1. Make("addTagToDoc") /\ UNCHANGED <<docs, links>>
        /\ tagRows' = [tagRows EXCEPT ![<<The.doc, The.arg>>] = @ + 1]
    BY <1>2 DEF AddTagToDoc
  <2>2. PICK r : r = <<The.doc, The.arg>>
    OBVIOUS
  <2>3. r \in DocId \X Tag /\ The \in Left /\ The.op = "addTagToDoc"
    BY <1>0, <2>1, <2>2, MakeLeft, CallFields DEF TagCalls
  <2>4. \A x \in DocId \X Tag : tagRows'[x] > 0 <=> x = r \/ tagRows[x] > 0
    BY <1>0, <2>1, <2>2, <2>3 DEF Typed
  <2>5. \A c \in Left : c.op \notin {"removeDocTags", "removeTagFromDoc"}
    BY <2>3 DEF OneThing, Quiet, Removing, Tagging, Linking, ViewOps, RemoveOps
  <2>6. DocsOf("removeDocTags") = {} /\ RowsOf("removeTagFromDoc") = {}
    BY <2>5, NoCalls
  <2>7. /\ \A o : o # "addTagToDoc" => DocsOf(o)' = DocsOf(o) /\ RowsOf(o)' = RowsOf(o)
        /\ RowsOf("addTagToDoc") = RowsOf("addTagToDoc")' \cup {r}
    BY <1>0, <2>1, <2>2, MadeCall
  <2>8. TaggedAfter' = TaggedAfter
    BY <2>3, <2>4, <2>6, <2>7
  <2> QED BY <2>1, <2>7, <2>8
<1>3. CASE RemoveTagFromDoc
  <2>1. Make("removeTagFromDoc") /\ UNCHANGED <<docs, links>>
        /\ tagRows' = [tagRows EXCEPT ![<<The.doc, The.arg>>] = 0]
    BY <1>3 DEF RemoveTagFromDoc
  <2>2. PICK r : r = <<The.doc, The.arg>>
    OBVIOUS
  <2>3. \A x \in DocId \X Tag : tagRows'[x] > 0 <=> x # r /\ tagRows[x] > 0
    BY <1>0, <2>1, <2>2 DEF Typed
  <2>4. /\ \A o : o # "removeTagFromDoc" =>
              DocsOf(o)' = DocsOf(o) /\ RowsOf(o)' = RowsOf(o)
        /\ RowsOf("removeTagFromDoc") = RowsOf("removeTagFromDoc")' \cup {r}
    BY <1>0, <2>1, <2>2, MadeCall
  <2>5. TaggedAfter' = TaggedAfter
    BY <2>3, <2>4
  <2> QED BY <2>1, <2>4, <2>5
<1>4. CASE AddDocToDoc
  <2>1. Make("addDocToDoc") /\ UNCHANGED <<docs, tagRows>>
        /\ links' = [links EXCEPT ![<<The.doc, The.arg>>] = @ + 1]
    BY <1>4 DEF AddDocToDoc
  <2>2. PICK r : r = <<The.doc, The.arg>>
    OBVIOUS
  <2>3. r \in DocId \X DocId /\ The \in Left /\ The.op = "addDocToDoc"
    BY <1>0, <2>1, <2>2, MakeLeft, CallFields DEF DocCalls
  <2>4. \A x \in DocId \X DocId : links'[x] > 0 <=> x = r \/ links[x] > 0
    BY <1>0, <2>1, <2>2, <2>3 DEF Typed
  <2>5. \A c \in Left :
          c.op \notin {"removeLinksOf", "removeLinksTo", "removeDocFromDoc"}
    BY <2>3 DEF OneThing, Quiet, Removing, Tagging, Linking, ViewOps, RemoveOps
  <2>6. DocsOf("removeLinksOf") = {} /\ DocsOf("removeLinksTo") = {}
        /\ RowsOf("removeDocFromDoc") = {}
    BY <2>5, NoCalls
  <2>7. /\ \A o : o # "addDocToDoc" => DocsOf(o)' = DocsOf(o) /\ RowsOf(o)' = RowsOf(o)
        /\ RowsOf("addDocToDoc") = RowsOf("addDocToDoc")' \cup {r}
    BY <1>0, <2>1, <2>2, MadeCall
  <2>8. LinkedAfter' = LinkedAfter
    BY <2>3, <2>4, <2>6, <2>7
  <2> QED BY <2>1, <2>7, <2>8
<1>5. CASE RemoveDocFromDoc
  <2>1. Make("removeDocFromDoc") /\ UNCHANGED <<docs, tagRows>>
        /\ links' = [links EXCEPT ![<<The.doc, The.arg>>] = 0]
    BY <1>5 DEF RemoveDocFromDoc
  <2>2. PICK r : r = <<The.doc, The.arg>>
    OBVIOUS
  <2>3. \A x \in DocId \X DocId : links'[x] > 0 <=> x # r /\ links[x] > 0
    BY <1>0, <2>1, <2>2 DEF Typed
  <2>4. /\ \A o : o # "removeDocFromDoc" =>
              DocsOf(o)' = DocsOf(o) /\ RowsOf(o)' = RowsOf(o)
        /\ RowsOf("removeDocFromDoc") = RowsOf("removeDocFromDoc")' \cup {r}
    BY <1>0, <2>1, <2>2, MadeCall
  <2>5. LinkedAfter' = LinkedAfter
    BY <2>3, <2>4
  <2> QED BY <2>1, <2>4, <2>5
<1>6. CASE RemoveDocTags
  <2>1. PICK d : d = The.doc
    OBVIOUS
  <2>2. /\ Make("removeDocTags") /\ UNCHANGED <<docs, links>>
        /\ tagRows' = [r \in DocId \X Tag |-> IF r[1] = d THEN 0 ELSE tagRows[r]]
    BY <1>6, <2>1 DEF RemoveDocTags
  <2>3. \A x \in DocId \X Tag : tagRows'[x] > 0 <=> x[1] # d /\ tagRows[x] > 0
    BY <2>2
  <2>4. /\ \A o : o # "removeDocTags" =>
              DocsOf(o)' = DocsOf(o) /\ RowsOf(o)' = RowsOf(o)
        /\ DocsOf("removeDocTags") = DocsOf("removeDocTags")' \cup {d}
    BY <1>0, <2>1, <2>2, MadeCall
  <2>5. TaggedAfter' = TaggedAfter
    BY <2>3, <2>4
  <2> QED BY <2>2, <2>4, <2>5
<1>7. CASE RemoveLinks
  <2>1. PICK d : d = The.doc
    OBVIOUS
  <2>2. UNCHANGED <<docs, tagRows>>
    BY <1>7 DEF RemoveLinks
  <2>3. CASE /\ Make("removeLinksOf")
             /\ links' = [r \in DocId \X DocId |-> IF r[1] = d THEN 0 ELSE links[r]]
    <3>1. \A x \in DocId \X DocId : links'[x] > 0 <=> x[1] # d /\ links[x] > 0
      BY <2>3
    <3>2. /\ \A o : o # "removeLinksOf" =>
                DocsOf(o)' = DocsOf(o) /\ RowsOf(o)' = RowsOf(o)
          /\ DocsOf("removeLinksOf") = DocsOf("removeLinksOf")' \cup {d}
      BY <1>0, <2>1, <2>3, MadeCall
    <3>3. LinkedAfter' = LinkedAfter
      BY <3>1, <3>2
    <3> QED BY <2>2, <3>2, <3>3
  <2>4. CASE /\ Make("removeLinksTo")
             /\ links' = [r \in DocId \X DocId |-> IF r[2] = d THEN 0 ELSE links[r]]
    <3>1. \A x \in DocId \X DocId : links'[x] > 0 <=> x[2] # d /\ links[x] > 0
      BY <2>4
    <3>2. /\ \A o : o # "removeLinksTo" =>
                DocsOf(o)' = DocsOf(o) /\ RowsOf(o)' = RowsOf(o)
          /\ DocsOf("removeLinksTo") = DocsOf("removeLinksTo")' \cup {d}
      BY <1>0, <2>1, <2>4, MadeCall
    <3>3. LinkedAfter' = LinkedAfter
      BY <3>1, <3>2
    <3> QED BY <2>2, <3>2, <3>3
  <2> QED BY <1>7, <2>1, <2>3, <2>4 DEF RemoveLinks
<1>8. CASE DropDoc
  <2>1. PICK d : d = The.doc
    OBVIOUS
  <2>2. /\ Make("removeDoc") /\ UNCHANGED <<tagRows, links>>
        /\ docs' = [e \in DOMAIN docs \ {d} |-> docs[e]]
    BY <1>8, <2>1 DEF DropDoc
  <2>3. /\ \A o : o # "removeDoc" =>
              DocsOf(o)' = DocsOf(o) /\ RowsOf(o)' = RowsOf(o)
        /\ DocsOf("removeDoc") = DocsOf("removeDoc")' \cup {d}
    BY <1>0, <2>1, <2>2, MadeCall
  <2>4. DOMAIN docs' = DOMAIN docs \ {d}
    BY <2>2
  <2>5. DocsAfter' = DocsAfter
    BY <2>3, <2>4
  <2> QED BY <2>2, <2>3, <2>5
<1> QED BY <1>1, <1>2, <1>3, <1>4, <1>5, <1>6, <1>7, <1>8 DEF MakeCall

LEMMA CallsRow ==
  \A op, d, x : /\ Call(op, d, x).op = op
                /\ <<Call(op, d, x).doc, Call(op, d, x).arg>> = <<d, x>>
BY DEF Call

\* A request is seen at once.
LEMMA RequestIsSeen ==
  ASSUME CarefulClient, FileInv, Request
  PROVE  View!ViewNext \/ UNCHANGED <<DocsAfter, TaggedAfter, LinkedAfter>>
<1>0. Idle /\ Typed
  BY DEF FileInv, Request, UploadFile, DoDelete, SetTitle, AddTag, RemoveTag, AddDoc,
    RemoveDoc
<1>10. DocsAfter = DOMAIN docs /\ TaggedAfter = TagsNow /\ LinkedAfter = LinksNow
  BY <1>0, IdleLists, NothingLeft
<1>1. ASSUME NEW kind \in {"jpg", "pdf"}, UploadFile(kind) PROVE View!ViewNext
  <2>1. PICK n : n = NextDocId
    OBVIOUS
  <2>2. n \in DocId /\ n \notin DOMAIN docs /\ DOMAIN docs' = DOMAIN docs \cup {n}
    BY <1>0, <1>1, <2>1, InsertFresh DEF UploadFile
  <2>3. \A i \in 1..Len(todo') : todo'[i].op = "fcopy"
    BY <1>1 DEF UploadFile, Call
  <2>4. \A c \in Left' : c.op = "fcopy"
    BY <2>3 DEF Left
  <2>5. \A op \in ViewOps : DocsOf(op)' = {} /\ RowsOf(op)' = {}
    BY <2>4 DEF DocsOf, RowsOf, ViewOps, RemoveOps
  <2>6. UNCHANGED <<tagRows, links>>
    BY <1>1 DEF UploadFile
  <2>7. DocsAfter' = DocsAfter \cup {n} /\ TaggedAfter' = TaggedAfter
        /\ LinkedAfter' = LinkedAfter
    BY <1>10, <2>2, <2>5, <2>6
    DEF DocsAfter, TaggedAfter, LinkedAfter, TagsNow, LinksNow, ViewOps, RemoveOps
  <2>8. View!Add(n)
    BY <1>10, <2>2, <2>7 DEF View!Add
  <2> QED BY <2>2, <2>8 DEF View!ViewNext
<1>2. ASSUME NEW d \in DocId, DoDelete(d) PROVE View!ViewNext
  <2>1. PICK k \in Nat : Deletion(todo', d, k) /\ d \in DOMAIN docs
    BY <1>0, <1>2, DeleteCalls
  <2>2. UNCHANGED <<docs, tagRows, links>>
    BY <1>2 DEF DoDelete
  <2>3. \A i \in 1..Len(todo') :
          todo'[i].doc = d /\ todo'[i].op \in RemoveOps \cup {"unlink"}
    BY <2>1 DEF Deletion, RemoveOps
  <2>4. \A c \in Left' : c.doc = d /\ c.op \in RemoveOps \cup {"unlink"}
    BY <2>3 DEF Left
  <2>5. /\ todo'[k + 1] \in Left' /\ todo'[k + 2] \in Left'
        /\ todo'[k + 3] \in Left' /\ todo'[k + 4] \in Left'
    BY <2>1 DEF Deletion, Left
  <2>6. \A op \in RemoveOps : \E c \in Left' : c.op = op /\ c.doc = d
    BY <2>1, <2>5 DEF Deletion, RemoveOps
  <2>7. \A op \in RemoveOps : DocsOf(op)' = {d}
    BY <2>4, <2>6 DEF DocsOf
  <2>8. \A op \in ViewOps \ RemoveOps : RowsOf(op)' = {}
    BY <2>4 DEF RowsOf, ViewOps, RemoveOps
  <2>9. /\ DocsAfter' = DOMAIN docs \ {d}
        /\ TaggedAfter' = {r \in TagsNow : r[1] # d}
        /\ LinkedAfter' = {r \in LinksNow : r[1] # d /\ r[2] # d}
    BY <2>2, <2>7, <2>8
    DEF DocsAfter, TaggedAfter, LinkedAfter, TagsNow, LinksNow, ViewOps, RemoveOps
  <2>10. View!Remove(d)
    BY <1>10, <2>1, <2>9 DEF View!Remove, View!TagsWithout, View!LinksWithout
  <2> QED BY <2>10 DEF View!ViewNext
<1>3. ASSUME NEW d \in DocId, SetTitle(d)
      PROVE  UNCHANGED <<DocsAfter, TaggedAfter, LinkedAfter>>
  <2>1. UNCHANGED <<todo, tagRows, links>> /\ DOMAIN docs' = DOMAIN docs
    BY <1>3 DEF SetTitle
  <2> QED BY <2>1 DEF DocsAfter, TaggedAfter, LinkedAfter, DocsOf, RowsOf, Left
<1>4. ASSUME NEW d \in DocId, NEW t \in Tag, AddTag(d, t)
      PROVE  View!ViewNext
  <2>1. /\ todo' = <<Call("getTagId", d, t), Call("addTagToDoc", d, t)>>
        /\ UNCHANGED <<docs, tagRows, links>> /\ d \in DOMAIN docs
    BY <1>4 DEF AddTag, Offered
  <2>2. Left' = {Call("getTagId", d, t), Call("addTagToDoc", d, t)}
    BY <2>1 DEF Left
  <2>3. RowsOf("addTagToDoc")' = {<<d, t>>}
    BY <2>2, CallsRow DEF RowsOf
  <2>4. \A op \in ViewOps : op # "addTagToDoc" => DocsOf(op)' = {} /\ RowsOf(op)' = {}
    BY <2>2 DEF DocsOf, RowsOf, Call, ViewOps, RemoveOps
  <2>5. DocsAfter' = DOMAIN docs /\ TaggedAfter' = TagsNow \cup {<<d, t>>}
        /\ LinkedAfter' = LinksNow
    BY <2>1, <2>3, <2>4
    DEF DocsAfter, TaggedAfter, LinkedAfter, TagsNow, LinksNow, ViewOps, RemoveOps
  <2>6. View!AddTag(d, t)
    BY <1>10, <2>1, <2>5 DEF View!AddTag
  <2> QED BY <2>6 DEF View!ViewNext
<1>5. ASSUME NEW d \in DocId, NEW t \in Tag, RemoveTag(d, t)
      PROVE  View!ViewNext
  <2>1. /\ todo' = <<Call("getTagId", d, t), Call("removeTagFromDoc", d, t),
                      Call("deleteUnusedTag", d, t)>>
        /\ UNCHANGED <<docs, tagRows, links>> /\ d \in DOMAIN docs
    BY <1>5 DEF RemoveTag, Offered
  <2>2. todo'[2] \in Left' /\ todo'[2] = Call("removeTagFromDoc", d, t)
    BY <2>1 DEF Left
  <2>3. \A c \in Left' : \/ c = Call("getTagId", d, t)
                         \/ c = Call("removeTagFromDoc", d, t)
                         \/ c = Call("deleteUnusedTag", d, t)
    BY <2>1 DEF Left
  <2>4. RowsOf("removeTagFromDoc")' = {<<d, t>>}
    BY <2>2, <2>3 DEF RowsOf, Call
  <2>5. \A op \in ViewOps : op # "removeTagFromDoc" =>
          DocsOf(op)' = {} /\ RowsOf(op)' = {}
    BY <2>3 DEF DocsOf, RowsOf, Call, ViewOps, RemoveOps
  <2>6. DocsAfter' = DOMAIN docs /\ TaggedAfter' = TagsNow \ {<<d, t>>}
        /\ LinkedAfter' = LinksNow
    BY <2>1, <2>4, <2>5
    DEF DocsAfter, TaggedAfter, LinkedAfter, TagsNow, LinksNow, ViewOps, RemoveOps
  <2>7. View!RemoveTag(d, t)
    BY <1>10, <2>1, <2>6 DEF View!RemoveTag
  <2> QED BY <2>7 DEF View!ViewNext
<1>6. ASSUME NEW d \in DocId, NEW e \in DocId, AddDoc(d, e)
      PROVE  View!ViewNext
  <2>1. /\ todo' = <<Call("addDocToDoc", d, e), Call("addDocToDoc", e, d)>>
        /\ UNCHANGED <<docs, tagRows, links>> /\ {d, e} \subseteq DOMAIN docs
    BY <1>6 DEF AddDoc, Offered
  <2>2. Left' = {Call("addDocToDoc", d, e), Call("addDocToDoc", e, d)}
    BY <2>1 DEF Left
  <2>3. RowsOf("addDocToDoc")' = {<<d, e>>, <<e, d>>}
    BY <2>2, CallsRow DEF RowsOf
  <2>4. \A op \in ViewOps : op # "addDocToDoc" => DocsOf(op)' = {} /\ RowsOf(op)' = {}
    BY <2>2 DEF DocsOf, RowsOf, Call, ViewOps, RemoveOps
  <2>5. DocsAfter' = DOMAIN docs /\ TaggedAfter' = TagsNow
        /\ LinkedAfter' = LinksNow \cup {<<d, e>>, <<e, d>>}
    BY <2>1, <2>3, <2>4
    DEF DocsAfter, TaggedAfter, LinkedAfter, TagsNow, LinksNow, ViewOps, RemoveOps
  <2>6. View!AddLink(d, e)
    BY <1>10, <2>1, <2>5 DEF View!AddLink, View!BothWays
  <2> QED BY <2>6 DEF View!ViewNext
<1>7. ASSUME NEW d \in DocId, NEW e \in DocId, RemoveDoc(d, e)
      PROVE  View!ViewNext
  <2>1. /\ todo' = <<Call("removeDocFromDoc", d, e), Call("removeDocFromDoc", e, d)>>
        /\ UNCHANGED <<docs, tagRows, links>> /\ {d, e} \subseteq DOMAIN docs
    BY <1>7 DEF RemoveDoc, Offered, UnlinkDocs
  <2>2. Left' = {Call("removeDocFromDoc", d, e), Call("removeDocFromDoc", e, d)}
    BY <2>1 DEF Left
  <2>3. RowsOf("removeDocFromDoc")' = {<<d, e>>, <<e, d>>}
    BY <2>2, CallsRow DEF RowsOf
  <2>4. \A op \in ViewOps : op # "removeDocFromDoc" =>
          DocsOf(op)' = {} /\ RowsOf(op)' = {}
    BY <2>2 DEF DocsOf, RowsOf, Call, ViewOps, RemoveOps
  <2>5. DocsAfter' = DOMAIN docs /\ TaggedAfter' = TagsNow
        /\ LinkedAfter' = LinksNow \ {<<d, e>>, <<e, d>>}
    BY <2>1, <2>3, <2>4
    DEF DocsAfter, TaggedAfter, LinkedAfter, TagsNow, LinksNow, ViewOps, RemoveOps
  <2>6. View!RemoveLink(d, e)
    BY <1>10, <2>1, <2>5 DEF View!RemoveLink, View!BothWays
  <2> QED BY <2>6 DEF View!ViewNext
<1> QED BY <1>1, <1>2, <1>3, <1>4, <1>5, <1>6, <1>7 DEF Request

\* A scan adds a document at once, while the calls of a request are made, and
\* is not seen after that.
LEMMA ScanIsSeen ==
  ASSUME FileInv, Scan
  PROVE  View!ViewNext \/ UNCHANGED <<DocsAfter, TaggedAfter, LinkedAfter>>
<1>0. UNCHANGED <<todo, tagRows, links>>
  BY DEF Scan, ScanInsert, ScanImage, ScanText, ScanNext, ScanEnd
<1>1. \A op : DocsOf(op)' = DocsOf(op) /\ RowsOf(op)' = RowsOf(op)
  BY <1>0 DEF DocsOf, RowsOf, Left
<1>2. TaggedAfter' = TaggedAfter /\ LinkedAfter' = LinkedAfter
  BY <1>0, <1>1 DEF TaggedAfter, LinkedAfter
<1>3. ASSUME NEW pages \in 1..MaxPages, ScanInsert(pages) PROVE View!ViewNext
  <2>1. PICK n : n = NextDocId
    OBVIOUS
  <2>2. n \in DocId /\ n \notin DOMAIN docs /\ DOMAIN docs' = DOMAIN docs \cup {n}
    BY <1>3, <2>1, InsertFresh DEF ScanInsert, FileInv
  <2>3. DocsOf("removeDoc") \subseteq DOMAIN docs
    BY DeletingDocs DEF FileInv, CallsFit
  <2>4. DocsAfter' = DocsAfter \cup {n}
    BY <1>1, <2>2, <2>3 DEF DocsAfter
  <2>5. View!Add(n)
    BY <1>2, <2>2, <2>4 DEF View!Add, DocsAfter
  <2> QED BY <2>2, <2>5 DEF View!ViewNext
<1>4. CASE ScanImage \/ ScanText \/ ScanNext \/ ScanEnd
  <2>1. DOMAIN docs' = DOMAIN docs
    BY <1>4 DEF ScanImage, ScanText, ScanNext, ScanEnd
  <2> QED BY <1>1, <1>2, <2>1 DEF DocsAfter
<1> QED BY <1>3, <1>4 DEF Scan

\* A death in the middle of a request is seen as what was done of it.
LEMMA DeathIsSeen ==
  ASSUME FileInv, BlankInv, OneThing, DaemonDies
  PROVE  View!ViewNext \/ UNCHANGED <<DocsAfter, TaggedAfter, LinkedAfter>>
<1>1. UNCHANGED <<docs, tagRows, links>> /\ Left' = {}
  BY DEF DaemonDies, Left
<1>2. \A op : DocsOf(op)' = {} /\ RowsOf(op)' = {}
  BY <1>1 DEF DocsOf, RowsOf
<1>3. /\ DocsAfter' = DOMAIN docs
      /\ TaggedAfter' = TagsNow /\ LinkedAfter' = LinksNow
  BY <1>1, <1>2 DEF DocsAfter, TaggedAfter, LinkedAfter, TagsNow, LinksNow
<1>4. CASE Quiet
  BY <1>3, <1>4, NothingLeft DEF Quiet
<1>5. ASSUME NEW d \in DocId, Removing(d) PROVE View!ViewNext
  <2>1. /\ d \in DOMAIN docs /\ d \in DocsOf("removeDoc")
        /\ \A c \in Left : c.op \in ViewOps => c.op \in RemoveOps /\ c.doc = d
    BY <1>5 DEF Removing
  <2>2. \A op \in RemoveOps : DocsOf(op) \subseteq {d}
    BY <2>1 DEF DocsOf, ViewOps
  <2>3. \A op \in ViewOps \ RemoveOps : RowsOf(op) = {}
    BY <2>1 DEF RowsOf
  <2>4. PICK i \in 1..Len(todo) : At(i, "removeDoc") /\ todo[i].doc = d
    BY <2>1 DEF DocsOf, Left, At
  <2>5. /\ d \in Untagged \cup ToCome(i, "removeDocTags")
        /\ d \in Unlinking \cup ToCome(i, "removeLinksOf")
        /\ d \in Unlinked \cup ToCome(i, "removeLinksTo")
    BY <2>4 DEF BlankInv, RowGoesLast
  <2>6. \A op : ToCome(i, op) \subseteq DocsOf(op)
    <3> SUFFICES ASSUME NEW op, NEW e \in ToCome(i, op) PROVE e \in DocsOf(op)
      OBVIOUS
    <3>1. PICK j \in 1..(i - 1) : At(j, op) /\ todo[j].doc = e
      BY DEF ToCome
    <3>2. todo[j] \in Left /\ todo[j].op = op
      BY <3>1 DEF At, Left
    <3> QED BY <3>1, <3>2 DEF DocsOf
  <2>7. /\ \A r \in TagsNow : r[1] = d => d \in DocsOf("removeDocTags")
        /\ \A r \in LinksNow : r[1] = d => d \in DocsOf("removeLinksOf")
        /\ \A r \in LinksNow : r[2] = d => d \in DocsOf("removeLinksTo")
    BY <2>5, <2>6 DEF TagsNow, LinksNow, Untagged, Unlinking, Unlinked
  <2>8. DocsAfter = DOMAIN docs \ {d}
    BY <2>1, <2>2 DEF DocsAfter, RemoveOps
  <2>9. TaggedAfter = {r \in TagsNow : r[1] # d}
    BY <2>2, <2>3, <2>7 DEF TaggedAfter, TagsNow, RemoveOps, ViewOps
  <2>10. LinkedAfter = {r \in LinksNow : r[1] # d /\ r[2] # d}
    BY <2>2, <2>3, <2>7 DEF LinkedAfter, LinksNow, RemoveOps, ViewOps
  <2>11. TagsNow \subseteq (DOMAIN docs) \X Tag
    <3> SUFFICES ASSUME NEW r \in TagsNow PROVE r \in (DOMAIN docs) \X Tag
      OBVIOUS
    <3>1. PICK e \in DocId, t \in Tag : r = <<e, t>>
      BY DEF TagsNow
    <3>2. tagRows[<<e, t>>] > 0
      BY <3>1 DEF TagsNow
    <3>3. e \notin Untagged
      BY <3>2 DEF Untagged
    <3> QED BY <3>1, <3>3 DEF BlankInv, UnusedIsBlank
  <2>12. LinksNow \subseteq (DOMAIN docs) \X (DOMAIN docs)
    <3> SUFFICES ASSUME NEW r \in LinksNow PROVE r \in (DOMAIN docs) \X (DOMAIN docs)
      OBVIOUS
    <3>1. PICK e \in DocId, f \in DocId : r = <<e, f>>
      BY DEF LinksNow
    <3>2. links[<<e, f>>] > 0
      BY <3>1 DEF LinksNow
    <3>3. e \notin Unlinking /\ f \notin Unlinked
      BY <3>2 DEF Unlinking, Unlinked
    <3> QED BY <3>1, <3>3 DEF BlankInv, UnusedIsBlank
  <2>13. d \in DocId \ DocsAfter /\ DocsAfter' = DocsAfter \cup {d}
    BY <1>3, <2>1, <2>8
  <2>14. /\ TaggedAfter' \subseteq DocsAfter' \X Tag
         /\ LinkedAfter' \subseteq DocsAfter' \X DocsAfter'
    BY <1>3, <2>11, <2>12
  <2>15. /\ {r \in TaggedAfter' : r[1] # d} = TaggedAfter
         /\ {r \in LinkedAfter' : r[1] # d /\ r[2] # d} = LinkedAfter
    BY <1>3, <2>9, <2>10, Zenon
  <2>16. View!HalfRemoved(d)
    BY <2>13, <2>14, <2>15 DEF View!HalfRemoved, View!TagsWithout, View!LinksWithout
  <2> QED BY <2>16 DEF View!ViewNext
<1>6. ASSUME NEW d \in DocId, NEW t \in Tag,
             NEW op \in {"addTagToDoc", "removeTagFromDoc"}, Tagging(op, d, t)
      PROVE  View!ViewNext
  <2>1. /\ d \in DOMAIN docs
        /\ \A c \in Left : c.op \in ViewOps => c.op = op /\ c.doc = d /\ c.arg = t
    BY <1>6 DEF Tagging
  <2>2. \A o \in ViewOps : o # op => DocsOf(o) = {} /\ RowsOf(o) = {}
    BY <2>1 DEF DocsOf, RowsOf
  <2>3. RowsOf(op) \subseteq {<<d, t>>}
    BY <2>1 DEF RowsOf, ViewOps
  <2>4. DocsAfter = DOMAIN docs /\ LinkedAfter = LinksNow
    BY <2>2 DEF DocsAfter, LinkedAfter, LinksNow, ViewOps, RemoveOps
  <2>5. TaggedAfter \cup {<<d, t>>} = TagsNow \cup {<<d, t>>}
    BY <2>2, <2>3 DEF TaggedAfter, TagsNow, ViewOps, RemoveOps
  <2>6. CASE <<d, t>> \in TagsNow
    <3>1. View!AddTag(d, t)
      BY <1>3, <2>1, <2>4, <2>5, <2>6 DEF View!AddTag
    <3> QED BY <3>1 DEF View!ViewNext
  <2>7. CASE <<d, t>> \notin TagsNow
    <3>1. View!RemoveTag(d, t)
      BY <1>3, <2>1, <2>4, <2>5, <2>7 DEF View!RemoveTag
    <3> QED BY <3>1 DEF View!ViewNext
  <2> QED BY <2>6, <2>7
<1>7. ASSUME NEW d \in DocId, NEW e \in DocId,
             NEW op \in {"addDocToDoc", "removeDocFromDoc"}, Linking(op, d, e)
      PROVE  View!ViewNext
  <2> DEFINE Both == {<<d, e>>, <<e, d>>}
  <2>1. /\ {d, e} \subseteq DOMAIN docs
        /\ \A c \in Left : c.op \in ViewOps => c.op = op /\ <<c.doc, c.arg>> \in Both
    BY <1>7 DEF Linking
  <2>2. \A o \in ViewOps : o # op => DocsOf(o) = {} /\ RowsOf(o) = {}
    BY <2>1 DEF DocsOf, RowsOf
  <2>3. RowsOf(op) \subseteq Both
    BY <2>1 DEF RowsOf, ViewOps
  <2> HIDE DEF Both
  <2>4. DocsAfter = DOMAIN docs /\ TaggedAfter = TagsNow
    BY <2>2 DEF DocsAfter, TaggedAfter, TagsNow, ViewOps, RemoveOps
  <2>5. LinkedAfter \ Both = LinksNow \ Both
    BY <2>2, <2>3 DEF LinkedAfter, LinksNow, ViewOps, RemoveOps
  <2>6. Both = {<<d, e>>, <<e, d>>} /\ Both = View!BothWays(d, e)
    BY DEF Both, View!BothWays
  <2>7. CASE Both \subseteq LinksNow
    <3>1. View!AddLink(d, e)
      BY <1>3, <2>1, <2>4, <2>5, <2>6, <2>7 DEF View!AddLink
    <3> QED BY <3>1 DEF View!ViewNext
  <2>8. CASE Both \cap LinksNow = {}
    <3>1. View!RemoveLink(d, e)
      BY <1>3, <2>1, <2>4, <2>5, <2>6, <2>8 DEF View!RemoveLink
    <3> QED BY <3>1 DEF View!ViewNext
  <2>9. ASSUME NEW p \in Both, LinksNow \cap Both = {p} PROVE View!ViewNext
    <3>1. LinksNow = (LinkedAfter \ Both) \cup {p}
      BY <2>5, <2>9
    <3>2. View!HalfLinked(d, e)
      BY <1>3, <2>1, <2>4, <2>6, <3>1 DEF View!HalfLinked
    <3> QED BY <3>2 DEF View!ViewNext
  <2> QED BY <2>6, <2>7, <2>8, <2>9
<1> QED BY <1>4, <1>5, <1>6, <1>7 DEF OneThing

\* What the refinement needs.
ViewInv == FileInv /\ BlankInv /\ OneThing

LEMMA StepIsSeen ==
  ASSUME CarefulClient
  PROVE  ViewInv /\ [Next]_vars =>
           [View!ViewNext]_<<DocsAfter, TaggedAfter, LinkedAfter>>
<1> SUFFICES ASSUME ViewInv, [Next]_vars
             PROVE  View!ViewNext \/ UNCHANGED <<DocsAfter, TaggedAfter, LinkedAfter>>
  OBVIOUS
<1>0. FileInv /\ BlankInv /\ OneThing
  BY DEF ViewInv
<1>1. CASE Request
  BY <1>0, <1>1, RequestIsSeen
<1>2. CASE MakeCall
  BY <1>0, <1>2, CallIsStutter
<1>3. CASE Scan
  BY <1>0, <1>3, ScanIsSeen
<1>4. CASE DaemonDies
  BY <1>0, <1>4, DeathIsSeen
<1>5. CASE WorkerDies \/ UNCHANGED vars
  <2>1. UNCHANGED <<docs, tagRows, links, todo>>
    BY <1>5 DEF WorkerDies, vars
  <2> QED BY <2>1 DEF DocsAfter, TaggedAfter, LinkedAfter, DocsOf, RowsOf, Left
<1> QED BY <1>1, <1>2, <1>3, <1>4, <1>5 DEF Next

LEMMA InitIsSeen == Init => ViewInv /\ View!ViewInit
<1> SUFFICES ASSUME Init PROVE ViewInv /\ View!ViewInit
  OBVIOUS
<1>1. Idle
  BY DEF Init, Idle
<1>2. FileInv /\ OneThing
  BY <1>1, InitFits, IdleThing
<1>3. BlankInv
  BY InitTyped DEF Init, BlankInv, RowGoesLast, AddsToDocs, UnusedIsBlank, At,
    Untagged, Unlinking, Unlinked
<1>4. DocsAfter = DOMAIN docs /\ TaggedAfter = TagsNow /\ LinkedAfter = LinksNow
  BY <1>1, IdleLists, NothingLeft
<1>5. DOMAIN docs = {} /\ TagsNow = {} /\ LinksNow = {}
  BY DEF Init, TagsNow, LinksNow
<1> QED BY <1>2, <1>3, <1>4, <1>5 DEF ViewInv, View!ViewInit

LEMMA ViewInvStep ==
  ASSUME CarefulClient PROVE ViewInv /\ [Next]_vars => ViewInv'
BY FileInvStep, BlankInvStep, OneThingStep DEF ViewInv

\* ImplementsDocView, for any number of documents, pages and tags: whatever
\* calls a request is made of, a scan does between them and a death leaves
\* undone, the readers see the steps of DocView.tla.
THEOREM StoreIsViewed ==
  ASSUME CarefulClient PROVE Spec => ImplementsDocView
BY InitIsSeen, ViewInvStep, StepIsSeen, PTL
   DEF Spec, ImplementsDocView, View!ViewSpec, View!viewVars

\* Only documents that are there have tags and links, in DocView.tla.
LEMMA ViewKeepsTidy ==
  View!NothingLoose /\ [View!ViewNext]_View!viewVars => View!NothingLoose'
<1> SUFFICES ASSUME View!NothingLoose, [View!ViewNext]_View!viewVars
             PROVE  View!NothingLoose'
  OBVIOUS
<1> USE DEF View!NothingLoose
<1>1. ASSUME NEW d \in DocId, View!Add(d) \/ View!Remove(d) \/ View!HalfRemoved(d)
      PROVE  View!NothingLoose'
  <2>1. CASE View!Add(d)
    BY <2>1 DEF View!Add
  <2>2. CASE View!Remove(d)
    BY <2>2 DEF View!Remove, View!TagsWithout, View!LinksWithout
  <2>3. CASE View!HalfRemoved(d)
    BY <2>3 DEF View!HalfRemoved
  <2> QED BY <1>1, <2>1, <2>2, <2>3
<1>2. ASSUME NEW d \in DocId, NEW t \in Tag, View!AddTag(d, t) \/ View!RemoveTag(d, t)
      PROVE  View!NothingLoose'
  BY <1>2 DEF View!AddTag, View!RemoveTag
<1>3. ASSUME NEW d \in DocId, NEW e \in DocId,
             View!AddLink(d, e) \/ View!RemoveLink(d, e) \/ View!HalfLinked(d, e)
      PROVE  View!NothingLoose'
  BY <1>3 DEF View!AddLink, View!RemoveLink, View!HalfLinked, View!BothWays
<1>4. CASE UNCHANGED View!viewVars
  BY <1>4 DEF View!viewVars
<1> QED BY <1>1, <1>2, <1>3, <1>4 DEF View!ViewNext

\* NothingLoose of DocView.tla, of the tables: once the calls in progress are
\* made, or the daemon is dead, every row of doc_tags and of doc_links is about
\* documents that exist, those of an interrupted deletion included.
THEOREM NoLooseRows ==
  ASSUME CarefulClient PROVE Spec => []View!NothingLoose
<1>1. View!ViewInit => View!NothingLoose
  BY DEF View!ViewInit, View!NothingLoose
<1>2. ImplementsDocView => []View!NothingLoose
  BY <1>1, ViewKeepsTidy, PTL DEF ImplementsDocView, View!ViewSpec
<1> QED BY <1>2, StoreIsViewed, PTL
==============================================================================
