------------------------------- MODULE DocView -------------------------------
(***************************************************************************)
(* The document store as its readers see it, without tables, calls and     *)
(* files: a set of documents, the tags they have and a symmetric relation  *)
(* of links.  A request changes it at once or, when the daemon dies in the *)
(* middle of it, in part; then nothing but what it was about is in doubt.  *)
(* DocStore.tla implements this.                                           *)
(***************************************************************************)
EXTENDS Integers

CONSTANTS DocId, Tag

VARIABLES
  documents,  \* the ids of the documents
  tagged,     \* pairs of a document and a tag it has
  linked      \* pairs of documents, each way

viewVars == <<documents, tagged, linked>>

ViewInit ==
  /\ documents = {}
  /\ tagged = {}
  /\ linked = {}

\* A new document has no tags and no links, although its id may be an old one.
Add(d) ==
  /\ d \in DocId \ documents
  /\ documents' = documents \cup {d}
  /\ UNCHANGED <<tagged, linked>>

\* The tags and the links of documents other than d.
TagsWithout(d)  == {r \in tagged : r[1] # d}
LinksWithout(d) == {r \in linked : r[1] # d /\ r[2] # d}

\* Its tags and links, both ways, go with a document.
Remove(d) ==
  /\ d \in documents
  /\ documents' = documents \ {d}
  /\ tagged' = TagsWithout(d)
  /\ linked' = LinksWithout(d)

AddTag(d, t) ==
  /\ d \in documents
  /\ tagged' = tagged \cup {<<d, t>>}
  /\ UNCHANGED <<documents, linked>>

RemoveTag(d, t) ==
  /\ d \in documents
  /\ tagged' = tagged \ {<<d, t>>}
  /\ UNCHANGED <<documents, linked>>

BothWays(d, e) == {<<d, e>>, <<e, d>>}

AddLink(d, e) ==
  /\ {d, e} \subseteq documents
  /\ linked' = linked \cup BothWays(d, e)
  /\ UNCHANGED <<documents, tagged>>

RemoveLink(d, e) ==
  /\ {d, e} \subseteq documents
  /\ linked' = linked \ BothWays(d, e)
  /\ UNCHANGED <<documents, tagged>>

\* A removal that was cut short: the document is still there, with some of its
\* tags and links; all others are as they were.
HalfRemoved(d) ==
  /\ d \in DocId \ documents
  /\ documents' = documents \cup {d}
  /\ tagged' \subseteq documents' \X Tag /\ TagsWithout(d)' = tagged
  /\ linked' \subseteq documents' \X documents' /\ LinksWithout(d)' = linked

\* A link that was added, or removed, in one way only.  (One that was cut short
\* before its first row, or a tag, is like the opposite request.)
HalfLinked(d, e) ==
  /\ {d, e} \subseteq documents
  /\ linked' \in {(linked \ BothWays(d, e)) \cup {p} : p \in BothWays(d, e)}
  /\ UNCHANGED <<documents, tagged>>

ViewNext ==
  \/ \E d \in DocId : Add(d) \/ Remove(d) \/ HalfRemoved(d)
  \/ \E d \in DocId, t \in Tag : AddTag(d, t) \/ RemoveTag(d, t)
  \/ \E d, e \in DocId : AddLink(d, e) \/ RemoveLink(d, e) \/ HalfLinked(d, e)

ViewSpec == ViewInit /\ [][ViewNext]_viewVars

------------------------------------------------------------------------------
(* Properties                                                              *)

\* Only documents that are there have tags and links, whatever was cut short.
NothingLoose ==
  /\ documents \subseteq DocId
  /\ tagged \subseteq documents \X Tag
  /\ linked \subseteq documents \X documents
==============================================================================
