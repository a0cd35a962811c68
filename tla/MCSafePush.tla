------------------------------ MODULE MCSafePush -----------------------------
(* Small instances of SafePush. *)
EXTENDS SafePush

ThreeCommits == 1..3
==============================================================================
