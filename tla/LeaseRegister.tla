---------------------------- MODULE LeaseRegister ----------------------------
(***************************************************************************)
(* What every lease of the worker fleet promises: a register that holds at *)
(* most one owner and the time left of its lease.  A live lease changes    *)
(* hands only through its owner's own release.  claim.sh (module ClaimRef) *)
(* and overlap_state.Lease (module OverlapScan) both implement it.         *)
(***************************************************************************)
EXTENDS Naturals

CONSTANTS Workers,   \* the identities a lease can carry
          NoWorker,  \* the owner of a ref that does not exist
          TTL        \* the longest lease, in ticks

VARIABLES owner,  \* who the lease names
          left    \* ticks until it expires

vars == <<owner, left>>

Init ==
    /\ owner = NoWorker
    /\ left = 0

\* A free, expired or own lease is (re)written by w.  The time left may be
\* short: the expiry is computed before the write lands.
Grant(w) ==
    /\ \/ owner \in {w, NoWorker}
       \/ left = 0
    /\ owner' = w
    /\ left' \in 0..TTL

\* The owner gives its lease back, or anyone sweeps an expired one.
Free(w) ==
    /\ owner # NoWorker
    /\ owner = w \/ left = 0
    /\ owner' = NoWorker
    /\ left' = 0

Tick ==
    /\ left' = IF left > 0 THEN left - 1 ELSE 0
    /\ UNCHANGED owner

Next ==
    \/ \E w \in Workers : Grant(w) \/ Free(w)
    \/ Tick

Spec == Init /\ [][Next]_vars
==============================================================================
