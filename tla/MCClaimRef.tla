----------------------------- MODULE MCClaimRef -----------------------------
(***************************************************************************)
(* Small instances of ClaimRef.  One oid per place that can hold one, and  *)
(* one more, so that a fresh commit always exists.                         *)
(***************************************************************************)
EXTENDS ClaimRef

CONSTANTS w1, w2

Pair == {w1, w2}
JustW1 == {w1}
Commits == 1..8
==============================================================================
