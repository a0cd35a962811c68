---- MODULE MCQuota ----
(* Two workers of one account. *)
EXTENDS Quota
====
