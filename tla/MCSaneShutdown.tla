--------------------------- MODULE MCSaneShutdown ----------------------------
(* Instances of SaneShutdown for TLC: the web thread, one or two scans.     *)
EXTENDS SaneShutdown

CONSTANTS web, s1, s2

OneScan  == {web, s1}
TwoScans == {web, s1, s2}
==============================================================================
