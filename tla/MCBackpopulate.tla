---- MODULE MCBackpopulate ----
EXTENDS Backpopulate
\* The tables and columns the scripts of src/sql need: which earlier ones made them.
SqlNeeds ==
  [k \in 1 .. 7 |-> CASE k = 1 -> {}
                      [] k \in {2, 3} -> {1}
                      [] k \in {4, 5, 6} -> {1, 3}
                      [] k = 7 -> {1, 3, 4}]
\* Everything is installed, or the fourth script is missing.
SomeInstallations == {1 .. 7, 1 .. 7 \ {4}}
\* No database, or one that lacks the last script: only the first meets the gap.
SomeVersions == [s \in SomeInstallations |-> IF s = 1 .. 7 THEN {0, 6} ELSE {0}]
\* The daemon is started again once.
SomeStarts == [p \in Program |-> IF p = "daemon" THEN 2 ELSE 1]
\* A database of this release whose phashes are wanted.
ThisVersion == [s \in {1 .. 7} |-> {7}]
Complete == {1 .. 7}
====
