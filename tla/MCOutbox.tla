------------------------------ MODULE MCOutbox -------------------------------
(* Small instances of Outbox.  Target 7 is one pull request; 0 is a target   *)
(* that cannot be told.                                                      *)
EXTENDS Outbox

Four == 1..4

\* Publications about one pull request.
OnePr == <<"comment", "opaque", "close", "resolve">>
Same == <<7, 7, 7, 7>>

\* A mutation nothing can be told of, a comment behind it on its pull request, an
\* edit of a shared comment elsewhere, and a fork.
Mixed == <<"opaque", "comment", "edit", "fork">>
MixedTargets == <<7, 7, 0, 0>>
==============================================================================
