------------------------------ MODULE MCScanJob ------------------------------
(* Instances of ScanJob for TLC: the web thread, one or two scanning        *)
(* threads at a time, one or two scans of one to three pages.               *)
EXTENDS ScanJob, TLC

CONSTANTS web, s1, s2, j1, j2

OneScanner  == {web, s1}
TwoScanners == {web, s1, s2}

OneJob  == {j1}
TwoJobs == {j1, j2}

TwoPages    == [j \in Job |-> 2]
ThreeAndOne == [j \in Job |-> IF j = j1 THEN 3 ELSE 1]

Symmetry == Permutations({s1, s2})
==============================================================================
