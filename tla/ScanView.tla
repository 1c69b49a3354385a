------------------------------- MODULE ScanView -------------------------------
(***************************************************************************)
(* What a client may rely on of a scan, without threads, workers, the      *)
(* dispatcher or the tables: it asks for a number of pages; pages are      *)
(* saved one at a time, in order, while an answer is being waited for; the *)
(* answers are true of what is saved.  ScanJob.tla implements this.        *)
(***************************************************************************)
EXTENDS Integers, Sequences

CONSTANTS Job, MaxPages

VARIABLES
  asked,   \* pages asked for, 0 before
  saved,   \* the pages that are in the document of the scan
  answer   \* what the client is told, "none" before it asks

viewVars == <<asked, saved, answer>>

Answer == {"none", "working", "next", "finished", "failed"}

ViewInit ==
  /\ asked = [j \in Job |-> 0]
  /\ saved = [j \in Job |-> <<>>]
  /\ answer = [j \in Job |-> "none"]

Tell(j, a) == answer' = [answer EXCEPT ![j] = a] /\ UNCHANGED <<asked, saved>>

Ask(j, n) ==
  /\ answer[j] = "none"
  /\ asked' = [asked EXCEPT ![j] = n]
  /\ answer' = [answer EXCEPT ![j] = "working"]
  /\ UNCHANGED saved

\* The next page is saved.
SavePage(j) ==
  /\ answer[j] = "working"
  /\ Len(saved[j]) < asked[j]
  /\ saved' = [saved EXCEPT ![j] = Append(@, Len(@) + 1)]
  /\ UNCHANGED <<asked, answer>>

\* There is a page more than the last time, and it was the last one, or not.
TellNext(j) ==
  /\ answer[j] = "working"
  /\ Len(saved[j]) \in 1 .. asked[j] - 1
  /\ Tell(j, "next")

TellFinished(j) ==
  /\ answer[j] = "working"
  /\ Len(saved[j]) = asked[j]
  /\ Tell(j, "finished")

\* The scan fails, or is turned away, perhaps when the next page is asked for.
TellFailed(j) == answer[j] \in {"working", "next"} /\ Tell(j, "failed")

\* The next page is asked for.  The answer to that may be overwritten by the
\* request itself, when it is slower than the scan.
Wait(j) == answer[j] \in {"next", "finished", "failed"} /\ Tell(j, "working")

ViewNext ==
  \E j \in Job :
    \/ \E n \in 1 .. MaxPages[j] : Ask(j, n)
    \/ SavePage(j) \/ TellNext(j) \/ TellFinished(j) \/ TellFailed(j) \/ Wait(j)

ViewSpec == ViewInit /\ [][ViewNext]_viewVars
==============================================================================
