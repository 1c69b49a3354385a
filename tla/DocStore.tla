------------------------------ MODULE DocStore ------------------------------
(***************************************************************************)
(* The document store: the tables docs, tags, doc_tags and doc_links, the  *)
(* directory scans/, the requests that change them (doc_editor.c,          *)
(* import_doc.c, dbaccess.c), the searches that read them (pageRender.c)   *)
(* and a scan that writes its pages at the same time (scan.c).             *)
(*                                                                         *)
(* One thread serves all requests, so a request never overlaps another;    *)
(* but it is many statements and files, the worker of a scan runs between  *)
(* them, and the daemon may die between any two.  todo holds the calls the *)
(* current request has yet to make.  A tag id stands for its name: an id   *)
(* is used again only after deleteTag, and TagRowsHaveTag says that no row *)
(* then refers to it.  Out of the model: dates, OCR text, phash and the    *)
(* other columns no property speaks of.                                    *)
(***************************************************************************)
EXTENDS Integers, Sequences, FiniteSets, FiniteSetsExt

CONSTANTS
  MaxDoc,         \* bound: document ids are 1..MaxDoc
  MaxPages,       \* pages of a scan
  Tag,            \* tag names
  Preset,         \* tags the database is created with
  CarefulClient,  \* TRUE: requests come from the pages of src/webcontent
  Retitled,       \* bound: documents whose title is set
  Pdfs,           \* bound: ids under which a PDF or ODF is uploaded
  DaemonMayDie,   \* the daemon may be killed at any point ...
  WorkerMayDie    \* ... and the worker of a scan

ASSUME DocStoreAssumption ==
  /\ MaxDoc \in Nat \ {0}
  /\ MaxPages \in Nat \ {0}
  /\ Preset \subseteq Tag
  /\ Retitled \cup Pdfs \subseteq 1..MaxDoc
  /\ {CarefulClient, DaemonMayDie, WorkerMayDie} \subseteq BOOLEAN

DocId == 1..MaxDoc
MaxRepeat == 2   \* bound: equal rows of doc_tags and of doc_links

\* How many equal rows there may be: the web pages add no row a second time.
MostRows == IF CarefulClient THEN 1 ELSE MaxRepeat

VARIABLES
  docs,        \* table docs: what is stored under each id in use
  tags,        \* table tags
  tagRows,     \* table doc_tags: number of rows <<document, tag>>
  links,       \* table doc_links: number of rows <<document, document>>
  files,       \* the directory scans/
  todo,        \* the calls the current request has yet to make
  scan,        \* the scan in progress: where it is, its document and page
  interrupted  \* history: documents a death left half way through a change

rows == <<docs, tags, tagRows, links>>
vars == <<docs, tags, tagRows, links, files, todo, scan, interrupted>>

Image(d, n) == <<d, "image", n>>    \* <docid>_<n>.jpg
Datafile(d) == <<d, "file", 0>>     \* <docid>.pdf, <docid>.odt
Thumb(d)    == <<d, "thumb", 0>>    \* <docid>_thumb.jpg, <docid>_thumb.png

Init ==
  /\ docs = << >>
  /\ tags = Preset
  /\ tagRows = [r \in DocId \X Tag |-> 0]
  /\ links = [r \in DocId \X DocId |-> 0]
  /\ files = {}
  /\ todo = << >>
  /\ scan = [pc |-> "none", doc |-> 0, page |-> 0]
  /\ interrupted = {}

\* docid is an INTEGER PRIMARY KEY: one more than the largest in use, so the
\* id of the newest document is given again once that document is deleted.
NextDocId == 1 + Max({0} \cup DOMAIN docs)

\* addNewDoc
InsertDoc(kind, pages) ==
  docs' = [d \in DOMAIN docs \cup {NextDocId} |->
             IF d = NextDocId
             THEN [kind |-> kind, pages |-> pages, titled |-> FALSE]
             ELSE docs[d]]

------------------------------------------------------------------------------
(* Requests: each is answered when all its calls have been made            *)

Call(op, d, x) == [op |-> op, doc |-> d, arg |-> x]

Idle == todo = << >>

\* The pages of the web client offer documents they were just given.
Offered(d) == CarefulClient => d \in DOMAIN docs

\* uploadfile: the row, then the data file and the thumbnail under its id.  A
\* JPG is stored as page one and has no thumbnail; "pdf" stands for ODF too.
UploadFile(kind) ==
  /\ Idle
  /\ NextDocId \in DocId
  /\ kind = "pdf" => NextDocId \in Pdfs
  /\ InsertDoc(kind, 1)
  /\ todo' = IF kind = "jpg"
             THEN <<Call("fcopy", NextDocId, Image(NextDocId, 1))>>
             ELSE <<Call("fcopy", NextDocId, Datafile(NextDocId)),
                    Call("fcopy", NextDocId, Thumb(NextDocId))>>
  /\ UNCHANGED <<tags, tagRows, links, files, scan, interrupted>>

\* Mutant: the last page is forgotten.
UnlinkAllButLast(d) ==
  [i \in 1..(docs[d].pages - 1) |-> Call("unlink", d, Image(d, i))]

\* The images of a document, as many as its row says.
UnlinkPages(d) ==
  [i \in 1..docs[d].pages |-> Call("unlink", d, Image(d, i))]

\* Mutant: the row goes first.
RemoveRowFirst(d) ==
  <<Call("removeDoc", d, d), Call("removeDocTags", d, d),
    Call("removeLinksOf", d, d), Call("removeLinksTo", d, d)>>

\* The rows of a document, its own at the end.
RemoveRows(d) ==
  <<Call("removeDocTags", d, d), Call("removeLinksOf", d, d),
    Call("removeLinksTo", d, d), Call("removeDoc", d, d)>>

\* doDelete; a document that does not exist is answered with an error.
DoDelete(d) ==
  /\ Idle
  /\ d \in DOMAIN docs
  /\ CarefulClient /\ scan.pc # "none" => scan.doc # d
  /\ todo' = UnlinkPages(d) \o RemoveRows(d)
  /\ UNCHANGED <<docs, tags, tagRows, links, files, scan, interrupted>>

\* updateTagLinkage, addTag: the tag input of the web page skips a tag that
\* is there already, the daemon does not.
AddTag(d, t) ==
  /\ Idle
  /\ Offered(d)
  /\ tagRows[<<d, t>>] < MostRows
  /\ todo' = <<Call("getTagId", d, t), Call("addTagToDoc", d, t)>>
  /\ UNCHANGED <<docs, tags, tagRows, links, files, scan, interrupted>>

\* updateTagLinkage, removeTag
RemoveTag(d, t) ==
  /\ Idle
  /\ Offered(d)
  /\ todo' = <<Call("getTagId", d, t), Call("removeTagFromDoc", d, t),
               Call("deleteUnusedTag", d, t)>>
  /\ UNCHANGED <<docs, tags, tagRows, links, files, scan, interrupted>>

\* updateTagLinkage, addDoc: the web page links documents titleAutoComplete
\* offers, which are others and not linked yet.
AddDoc(d, e) ==
  /\ Idle
  /\ Offered(d) /\ Offered(e)
  /\ CarefulClient => d # e
  /\ \A r \in {<<d, e>>, <<e, d>>} :
       links[r] + (IF d = e THEN 2 ELSE 1) <= MostRows
  /\ todo' = <<Call("addDocToDoc", d, e), Call("addDocToDoc", e, d)>>
  /\ UNCHANGED <<docs, tags, tagRows, links, files, scan, interrupted>>

\* Mutant: only the document's own side is removed.
UnlinkOneSide(d, e) == <<Call("removeDocFromDoc", d, e)>>

\* Both rows of a link.
UnlinkDocs(d, e) ==
  <<Call("removeDocFromDoc", d, e), Call("removeDocFromDoc", e, d)>>

\* updateTagLinkage, removeDoc
RemoveDoc(d, e) ==
  /\ Idle
  /\ Offered(d) /\ Offered(e)
  /\ todo' = UnlinkDocs(d, e)
  /\ UNCHANGED <<docs, tags, tagRows, links, files, scan, interrupted>>

\* updateDocDetails, title: one UPDATE, which finds the row or does nothing.
SetTitle(d) ==
  /\ Idle
  /\ Offered(d)
  /\ d \in Retitled
  /\ docs' = [e \in DOMAIN docs |->
                IF e = d THEN [docs[e] EXCEPT !.titled = TRUE] ELSE docs[e]]
  /\ UNCHANGED <<tags, tagRows, links, files, todo, scan, interrupted>>

------------------------------------------------------------------------------
(* The calls of a request                                                  *)

\* The next call of the request is op, and is made.
Make(op) ==
  /\ ~Idle
  /\ Head(todo).op = op
  /\ todo' = Tail(todo)
  /\ UNCHANGED <<scan, interrupted>>

The == Head(todo)

Fcopy ==
  /\ Make("fcopy")
  /\ files' = files \cup {The.arg}
  /\ UNCHANGED rows

Unlink ==
  /\ Make("unlink")
  /\ files' = files \ {The.arg}
  /\ UNCHANGED rows

\* A tag nobody has used yet is added.
GetTagId ==
  /\ Make("getTagId")
  /\ tags' = tags \cup {The.arg}
  /\ UNCHANGED <<docs, tagRows, links, files>>

AddTagToDoc ==
  /\ Make("addTagToDoc")
  /\ tagRows' = [tagRows EXCEPT ![<<The.doc, The.arg>>] = @ + 1]
  /\ UNCHANGED <<docs, tags, links, files>>

RemoveTagFromDoc ==
  /\ Make("removeTagFromDoc")
  /\ tagRows' = [tagRows EXCEPT ![<<The.doc, The.arg>>] = 0]
  /\ UNCHANGED <<docs, tags, links, files>>

\* Mutant: the tag is taken as unused when the document has lost it.
UnusedHere(t) == tagRows[<<The.doc, t>>] = 0

\* countDocsWithTag
Unused(t) == \A d \in DocId : tagRows[<<d, t>>] = 0

DeleteUnusedTag ==
  /\ Make("deleteUnusedTag")
  /\ tags' = IF Unused(The.arg) THEN tags \ {The.arg} ELSE tags
  /\ UNCHANGED <<docs, tagRows, links, files>>

AddDocToDoc ==
  /\ Make("addDocToDoc")
  /\ links' = [links EXCEPT ![<<The.doc, The.arg>>] = @ + 1]
  /\ UNCHANGED <<docs, tags, tagRows, files>>

RemoveDocFromDoc ==
  /\ Make("removeDocFromDoc")
  /\ links' = [links EXCEPT ![<<The.doc, The.arg>>] = 0]
  /\ UNCHANGED <<docs, tags, tagRows, files>>

RemoveDocTags ==
  /\ Make("removeDocTags")
  /\ tagRows' = [r \in DocId \X Tag |->
                   IF r[1] = The.doc THEN 0 ELSE tagRows[r]]
  /\ UNCHANGED <<docs, tags, links, files>>

\* removeDocLinks is two statements, one for each column.
RemoveLinks ==
  /\ \/ /\ Make("removeLinksOf")
        /\ links' = [r \in DocId \X DocId |->
                       IF r[1] = The.doc THEN 0 ELSE links[r]]
     \/ /\ Make("removeLinksTo")
        /\ links' = [r \in DocId \X DocId |->
                       IF r[2] = The.doc THEN 0 ELSE links[r]]
  /\ UNCHANGED <<docs, tags, tagRows, files>>

DropDoc ==
  /\ Make("removeDoc")
  /\ docs' = [d \in DOMAIN docs \ {The.doc} |-> docs[d]]
  /\ UNCHANGED <<tags, tagRows, links, files>>

------------------------------------------------------------------------------
(* A scan, as far as it touches the store                                  *)

\* The worker of the first page inserts the row, with the pages requested.
ScanInsert(n) ==
  /\ scan.pc = "none"
  /\ NextDocId \in DocId
  /\ InsertDoc("scan", n)
  /\ scan' = [pc |-> "image", doc |-> NextDocId, page |-> 1]
  /\ UNCHANGED <<tags, tagRows, links, files, todo, interrupted>>

ScanImage ==
  /\ scan.pc = "image"
  /\ files' = files \cup {Image(scan.doc, scan.page)}
  /\ scan' = [scan EXCEPT !.pc = "text"]
  /\ UNCHANGED <<docs, tags, tagRows, links, todo, interrupted>>

\* Mutant: the number of pages is left as requested.
PagesAsRequested(d) == docs[d].pages

\* The page that was just saved.
PagesSoFar(d) == scan.page

\* ocrImage, updateNewScannedPage: the row has the pages saved so far - if it
\* is still there, or another document has got its id.
ScanText ==
  /\ scan.pc = "text"
  /\ docs' = [d \in DOMAIN docs |->
                IF d = scan.doc THEN [docs[d] EXCEPT !.pages = PagesSoFar(d)]
                ELSE docs[d]]
  /\ scan' = [scan EXCEPT !.pc = "waiting"]
  /\ UNCHANGED <<tags, tagRows, links, files, todo, interrupted>>

\* The worker of the next page ...
ScanNext ==
  /\ scan.pc = "waiting"
  /\ scan.page < MaxPages
  /\ scan' = [scan EXCEPT !.pc = "image", !.page = @ + 1]
  /\ UNCHANGED <<docs, tags, tagRows, links, files, todo, interrupted>>

\* ... or the scan is finished, or given up between two pages.
ScanEnd ==
  /\ scan.pc = "waiting"
  /\ scan' = [pc |-> "none", doc |-> 0, page |-> 0]
  /\ UNCHANGED <<docs, tags, tagRows, links, files, todo, interrupted>>

------------------------------------------------------------------------------
(* Deaths                                                                  *)

Touches(c) ==
  {c.doc} \cup (IF c.op \in {"addDocToDoc", "removeDocFromDoc"} THEN {c.arg} ELSE {})

\* The daemon is killed with calls to make, and started again.
DaemonDies ==
  /\ DaemonMayDie
  /\ interrupted = {}   \* bound: one death
  /\ ~Idle
  /\ todo' = << >>
  /\ interrupted' = interrupted \cup UNION {Touches(todo[i]) : i \in DOMAIN todo}
  /\ UNCHANGED <<docs, tags, tagRows, links, files, scan>>

\* The worker crashes half way through a page.
WorkerDies ==
  /\ WorkerMayDie
  /\ interrupted = {}   \* bound: one death
  /\ scan.pc \in {"image", "text"}
  /\ scan' = [pc |-> "none", doc |-> 0, page |-> 0]
  /\ interrupted' = interrupted \cup {scan.doc}
  /\ UNCHANGED <<docs, tags, tagRows, links, files, todo>>

Request ==
  \/ \E kind \in {"jpg", "pdf"} : UploadFile(kind)
  \/ \E d \in DocId : DoDelete(d) \/ SetTitle(d)
  \/ \E d \in DocId, t \in Tag : AddTag(d, t) \/ RemoveTag(d, t)
  \/ \E d, e \in DocId : AddDoc(d, e) \/ RemoveDoc(d, e)

MakeCall ==
  \/ Fcopy \/ Unlink
  \/ GetTagId \/ AddTagToDoc \/ RemoveTagFromDoc \/ DeleteUnusedTag
  \/ AddDocToDoc \/ RemoveDocFromDoc
  \/ RemoveDocTags \/ RemoveLinks \/ DropDoc

Scan ==
  \/ \E n \in 1..MaxPages : ScanInsert(n)
  \/ ScanImage \/ ScanText \/ ScanNext \/ ScanEnd

Next == Request \/ MakeCall \/ Scan \/ DaemonDies \/ WorkerDies

Spec == Init /\ [][Next]_vars

------------------------------------------------------------------------------
(* Searches                                                                *)

\* getDocDetail: tags of the document, and the documents it is linked to.
TagsOf(d)  == {t \in tags : tagRows[<<d, t>>] > 0}
LinksOf(d) == {e \in DOMAIN docs : links[<<d, e>>] > 0}

\* titleAutoComplete: documents with a title that are not the one asked for
\* and have no row in which they link to it.
TitlesFor(d) ==
  {e \in DOMAIN docs : docs[e].titled /\ e # d /\ links[<<e, d>>] = 0}

\* Mutant: the tags found are not counted.
EnoughRows(n, bound) == n > 0

\* HAVING c = ?
RightRows(n, bound) == bound = [type |-> "int", value |-> n]

\* COUNT(*): the rows of doc_tags a document has for tags of S.
RowCount(d, S) == FoldSet(LAMBDA t, n : n + tagRows[<<d, t>>], 0, S)

\* docFilter with a text to look for, or not, and a set of tags: the values
\* are bound in the order in which the criteria are looked at, the
\* placeholders stand in the order of the statement: the tag count, which is
\* part of a JOIN, before the text, which is part of the WHERE.
DocFilter(text, S) ==
  LET like   == [type |-> "text", value |-> 0]
      bound  == (IF text THEN <<like, like>> ELSE << >>)
                  \o (IF S = {} THEN << >>
                      ELSE <<[type |-> "int", value |-> Cardinality(S)]>>)
      first  == IF S = {} THEN 1 ELSE 2   \* placeholder of title LIKE ?
      count(d) == RowCount(d, S \cap tags)
  IN  {d \in DOMAIN docs :
         /\ text => docs[d].titled /\ bound[first] = like
         /\ S # {} => count(d) > 0 /\ RightRows(count(d), bound[1])}

------------------------------------------------------------------------------
(* Properties                                                              *)

File == {Image(d, n) : d \in DocId, n \in 1..MaxPages}
          \cup {Datafile(d) : d \in DocId} \cup {Thumb(d) : d \in DocId}

DocTypeOK ==
  /\ DOMAIN docs \subseteq DocId
  /\ \A d \in DOMAIN docs :
       docs[d] \in [kind : {"jpg", "pdf", "scan"}, pages : 1..MaxPages,
                    titled : BOOLEAN]
  /\ tags \subseteq Tag
  /\ tagRows \in [DocId \X Tag -> 0..MaxRepeat]
  /\ links \in [DocId \X DocId -> 0..MaxRepeat]
  /\ files \subseteq File
  /\ scan \in [pc : {"none", "image", "text", "waiting"}, doc : 0..MaxDoc,
               page : 0..MaxPages]
  /\ interrupted \subseteq DocId

\* Every row of doc_tags refers to a tag that exists: deleteTag runs only when
\* no document has the tag, whatever requests and deletions were cut short.
TagRowsHaveTag ==
  \A d \in DocId, t \in Tag : tagRows[<<d, t>>] > 0 => t \in tags

\* A link has both its rows or none, between two requests: only a request or
\* a deletion that was cut short leaves one side of a link.
LinksBothWays ==
  Idle => \A d, e \in DocId :
    links[<<d, e>>] # links[<<e, d>>] => d \in interrupted \/ e \in interrupted

\* A document starts with no tag and no link, although it may get the id of
\* one that was deleted, and although that deletion may have been cut short
\* and repeated: the row goes last.
NewDocIsBlank ==
  [][\A d \in DOMAIN docs' \ DOMAIN docs :
       /\ \A t \in Tag : tagRows[<<d, t>>] = 0
       /\ \A e \in DocId : links[<<d, e>>] = 0 /\ links[<<e, d>>] = 0]_vars

\* No image of a page outlives its document, when nobody deletes a document
\* that is being scanned and nothing died half way.
ImagesHaveDocument ==
  \A d \in DocId, n \in 1..MaxPages :
    Image(d, n) \in files => d \in DOMAIN docs \/ d \in interrupted

\* Every page a document is said to have can be shown, once no request or scan
\* is at work on it and none was cut short.
PagesArePresent ==
  \A d \in DOMAIN docs :
    Idle /\ scan.doc # d /\ d \notin interrupted =>
      IF docs[d].kind = "pdf" THEN {Datafile(d), Thumb(d)} \subseteq files
      ELSE \A n \in 1..docs[d].pages : Image(d, n) \in files

\* What a search finds.  By tags: the documents that have all of them, since
\* counting rows of doc_tags is the same as comparing sets as long as no
\* document has a tag twice.  By tags and a text, against API:278 ("documents
\* that fit a specific set of criteria"): nothing, since the text is bound where
\* the count of tags should be.
SearchFinds ==
  \A S \in (SUBSET Tag) \ {{}} :
    /\ DocFilter(FALSE, S) = {d \in DOMAIN docs : S \subseteq TagsOf(d)}
    /\ DocFilter(TRUE, S) = {}

\* Of the documents with a title, other than itself, a document is offered
\* exactly those it is not linked to: the list of links reads one side of each
\* link and the suggestions read the other.
OffersUnlinked ==
  Idle => \A d \in DOMAIN docs \ interrupted :
    TitlesFor(d) \ interrupted =
      {e \in DOMAIN docs \ (interrupted \cup {d}) : docs[e].titled} \ LinksOf(d)

------------------------------------------------------------------------------
(* What its readers see                                                    *)

\* The calls to come, and the documents and the rows those named op are about.
Left       == {todo[i] : i \in 1..Len(todo)}
DocsOf(op) == {c.doc : c \in {k \in Left : k.op = op}}
RowsOf(op) == {<<c.doc, c.arg>> : c \in {k \in Left : k.op = op}}

\* The tables as they will be when the calls have been made.
DocsAfter == DOMAIN docs \ DocsOf("removeDoc")

TaggedAfter ==
  ({r \in DocId \X Tag : tagRows[r] > 0 /\ r[1] \notin DocsOf("removeDocTags")}
     \ RowsOf("removeTagFromDoc")) \cup RowsOf("addTagToDoc")

LinkedAfter ==
  ({r \in DocId \X DocId : /\ links[r] > 0
                           /\ r[1] \notin DocsOf("removeLinksOf")
                           /\ r[2] \notin DocsOf("removeLinksTo")}
     \ RowsOf("removeDocFromDoc")) \cup RowsOf("addDocToDoc")

View == INSTANCE DocView WITH
  documents <- DocsAfter, tagged <- TaggedAfter, linked <- LinkedAfter

\* Requests change documents, tags and links as those of DocView.tla do, each
\* at once, although they are many statements, a scan inserts documents between
\* them and ids are used again; a death in the middle of one leaves nothing in
\* doubt but what that one was about.
ImplementsDocView == View!ViewSpec
==============================================================================
