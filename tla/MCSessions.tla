----------------------------- MODULE MCSessions -----------------------------
(* Instances of Sessions for TLC.                                           *)
EXTENDS Sessions, TLC

CONSTANTS c1, c2, s1, s2, ann

TwoConns == {c1, c2}
OneConn  == {c1}
TwoSids  == {s1, s2}
Users    == {Admin, ann}

Symmetry == Permutations(TwoConns) \cup Permutations(TwoSids)
==============================================================================
