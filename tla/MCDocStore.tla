----------------------------- MODULE MCDocStore -----------------------------
(* Instances of DocStore for TLC: two document ids, one or two tags.        *)
EXTENDS DocStore, TLC

CONSTANTS a, b

TwoTags == {a, b}
Symmetry == Permutations(TwoTags)
==============================================================================
