---------------------------- MODULE MCOverlapScan ----------------------------
(* Small instances of OverlapScan.  One session and one oid more than there  *)
(* are places that can hold one, so that a fresh one always exists.          *)
EXTENDS OverlapScan, TLC

CONSTANTS w1, w2

Pair == {w1, w2}
FewSessions == 1..3
FewOids == 1..6
Alike == Permutations(Pair)
First == {1}
Second == {2}
==============================================================================
