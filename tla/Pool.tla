-------------------------------- MODULE Pool --------------------------------
(***************************************************************************)
(* The pool of prepared Mathlib builds that the workers of a host share    *)
(* (tauceti_worker/shared_mathlib.py, with the snapshot of a stopped       *)
(* checkout in verification_jobs.py).  One snapshot is extracted per       *)
(* dependency set, published read-only and mounted as the lower layer of   *)
(* each checkout's build directory; a collector removes snapshots nobody   *)
(* leases.  Everything is held together by advisory file locks: a reader's *)
(* shared lease, the publisher's exclusive one, a second lock that lets    *)
(* one publisher in, and the order in which they are taken.                *)
(*                                                                         *)
(* The module follows one dependency set.  An flock is converted by        *)
(* dropping it and taking it anew, as flock(2) allows.                     *)
(***************************************************************************)
EXTENDS Naturals, FiniteSets

CONSTANTS Users,        \* workers, each with a checkout of its own
          MaxStrikes,    \* bound: killed rounds and power failures
          MaxRounds     \* bound: rounds a worker starts

Nil == "nil"

PoolAssumption == Nil \notin Users /\ MaxStrikes \in Nat /\ MaxRounds \in Nat

VARIABLES entry,      \* the snapshot: absent, whole, unsynced, torn or damaged
          leased,     \* who holds the shared lease
          exclusive,  \* who holds the lease exclusively
          publisher,  \* who holds the publisher lock
          at,         \* where each round is in view(): its step
          want,       \* the policy each round read: off, auto or required
          seat,       \* the checkouts: [upper, marker, backup, made]
          staged,     \* the stage of each publisher: none, filled, durable
          litter,     \* what dead publishers and deletions left behind
          strays,     \* agents that outlive their killed round
          stopped,    \* safety-stop.json is there
          tampered,   \* a published snapshot was modified behind its back
          rounds,     \* rounds each worker has started
          upset       \* how often the fault model struck

poolvars == <<entry, leased, exclusive, publisher, at, want, seat, staged,
              litter, strays, stopped, tampered, rounds, upset>>

Places == {"idle", "lease", "queue", "recheck", "upgrade", "publish", "stage",
           "relock", "detach", "unmark", "move", "mark", "probe", "shared",
           "undo", "bare", "reading"}

PoolTypeOK ==
  /\ entry \in {"absent", "whole", "unsynced", "torn", "damaged"}
  /\ leased \subseteq Users
  /\ exclusive \in Users \cup {Nil, "gc"}
  /\ publisher \in Users \cup {Nil}
  /\ at \in [Users -> Places]
  /\ want \in [Users -> {"off", "auto", "required"}]
  /\ seat \in [Users -> [upper: {"full", "empty", "delta"}, marker: BOOLEAN,
                         backup: {"none", "full", "empty"}, made: BOOLEAN]]
  /\ staged \in [Users -> {"none", "filled", "durable"}]
  /\ litter \subseteq {"stage", "trash"}
  /\ strays \subseteq Users
  /\ stopped \in BOOLEAN /\ tampered \in BOOLEAN
  /\ rounds \in [Users -> 0..MaxRounds]
  /\ upset \in 0..MaxStrikes
  /\ exclusive # Nil => leased = {}

PoolInit ==
  /\ entry \in {"absent", "whole"}
  /\ leased = {} /\ exclusive = Nil /\ publisher = Nil
  /\ at = [u \in Users |-> "idle"]
  /\ want = [u \in Users |-> "auto"]
  /\ seat = [u \in Users |-> [upper |-> "full", marker |-> FALSE,
                              backup |-> "none", made |-> FALSE]]
  /\ staged = [u \in Users |-> "none"]
  /\ litter = {} /\ strays = {}
  /\ stopped = FALSE /\ tampered = FALSE
  /\ rounds = [u \in Users |-> 0]
  /\ upset = 0

-----------------------------------------------------------------------------
\* Locks.

At(u, step) == at[u] = step
Go(u, step) == at' = [at EXCEPT ![u] = step]

MayShare == exclusive = Nil

MayExclude == exclusive = Nil /\ leased = {}

\* What ready_entry accepts: on disk or not, the files are as published.
Intact == entry \in {"whole", "unsynced"}

Share(u) == MayShare /\ leased' = leased \cup {u}
Release(u) == leased' = leased \ {u}

-----------------------------------------------------------------------------
\* The start of a round's preparation.

\* selection(): the policy is read once; a safety stop turns it off, and a
\* round that requires sharing fails instead.
Enter(u, mode) ==
  /\ At(u, "idle") /\ u \notin strays /\ rounds[u] < MaxRounds
  /\ ~(stopped /\ mode = "required")
  /\ want' = [want EXCEPT ![u] = IF stopped THEN "off" ELSE mode]
  /\ rounds' = [rounds EXCEPT ![u] = @ + 1]
  /\ Go(u, IF want'[u] = "off" THEN "detach" ELSE "lease")
  /\ seat' = [seat EXCEPT ![u].made = FALSE]
  /\ UNCHANGED <<entry, leased, exclusive, publisher, staged, litter, strays,
                 stopped, tampered, upset>>

\* An integrity failure stops sharing for the fleet; whatever failed, the
\* preparation is undone.
Distrust(u) == stopped' = TRUE /\ Go(u, "undo")

\* The first user leases what is there, or drops the lease and queues.
FirstLook(u) ==
  /\ At(u, "lease") /\ MayShare
  /\ CASE Intact           -> Share(u) /\ Go(u, "detach") /\ UNCHANGED stopped
       [] entry = "absent" -> Go(u, "queue") /\ UNCHANGED <<leased, stopped>>
       [] OTHER            -> Share(u) /\ Distrust(u)
  /\ UNCHANGED <<entry, exclusive, publisher, want, seat, staged, litter, strays,
                 tampered, rounds, upset>>

OnlyPublisher(u) == publisher = Nil

TakePublisher(u) ==
  /\ At(u, "queue") /\ OnlyPublisher(u)
  /\ publisher' = u
  /\ Go(u, "recheck")
  /\ UNCHANGED <<entry, leased, exclusive, want, seat, staged, litter, strays,
                 stopped, tampered, rounds, upset>>

\* The winner looks again, under the lease.
LookAgain(u) ==
  /\ At(u, "recheck") /\ MayShare
  /\ CASE Intact           -> /\ Share(u) /\ Go(u, "detach")
                              /\ publisher' = Nil /\ UNCHANGED stopped
       [] entry = "absent" -> /\ Go(u, "upgrade")
                              /\ UNCHANGED <<leased, publisher, stopped>>
       [] OTHER            -> /\ Share(u) /\ Distrust(u) /\ publisher' = Nil
  /\ UNCHANGED <<entry, exclusive, want, seat, staged, litter, strays, tampered,
                 rounds, upset>>

Upgrade(u) ==
  /\ At(u, "upgrade") /\ MayExclude
  /\ exclusive' = u
  /\ Go(u, "publish")
  /\ UNCHANGED <<entry, leased, publisher, want, seat, staged, litter, strays,
                 stopped, tampered, rounds, upset>>

-----------------------------------------------------------------------------
\* publish(), under the exclusive lease.

\* The third look; what deletions left is cleared, and a stage is filled from
\* a fresh clone and a download, which may fail.
Extract(u) ==
  /\ At(u, "publish")
  /\ CASE Intact -> /\ Go(u, "relock") /\ exclusive' = Nil
                    /\ UNCHANGED <<publisher, staged, litter, stopped>>
       [] entry = "absent" ->
                    /\ litter' = litter \ {"trash"}
                    /\ staged' = [staged EXCEPT ![u] = "filled"]
                    /\ Go(u, "stage") /\ UNCHANGED <<exclusive, publisher, stopped>>
       [] OTHER  -> /\ Distrust(u) /\ publisher' = Nil
                    /\ UNCHANGED <<exclusive, staged, litter>>
  /\ UNCHANGED <<entry, leased, want, seat, strays, tampered, rounds,
                 upset>>

\* durable_tree and the ready marker.
Settle(u) ==
  /\ At(u, "stage") /\ staged[u] = "filled"
  /\ staged' = [staged EXCEPT ![u] = "durable"]
  /\ UNCHANGED <<entry, leased, exclusive, publisher, at, want, seat, litter, strays,
                 stopped, tampered, rounds, upset>>

\* Mutant: what was extracted is published before it is synced.
AsExtracted(u) == staged[u] # "none"

Verified(u) == staged[u] = "durable"

\* The stage becomes the snapshot in one rename; the exclusive lease is dropped
\* for a shared one.
Publish(u) ==
  /\ At(u, "stage") /\ Verified(u)
  /\ entry' = IF staged[u] = "durable" THEN "whole" ELSE "unsynced"
  /\ staged' = [staged EXCEPT ![u] = "none"]
  /\ exclusive' = Nil
  /\ Go(u, "relock")
  /\ UNCHANGED <<leased, publisher, want, seat, litter, strays, stopped, tampered,
                 rounds, upset>>

Relock(u) ==
  /\ At(u, "relock") /\ Share(u)
  /\ publisher' = Nil
  /\ Go(u, "detach")
  /\ UNCHANGED <<entry, exclusive, want, seat, staged, litter, strays, stopped,
                 tampered, rounds, upset>>

\* A wait for a lock times out, the download fails, the workspace changed
\* meanwhile, the disk is full or no namespace can be made: Unavailable.  The
\* locks of the with-blocks it leaves are released, the stage is removed.
GiveUp(u) ==
  /\ want[u] # "off"
  /\ at[u] \in {"lease", "queue", "recheck", "upgrade", "publish", "stage",
                "relock", "detach", "unmark", "move", "mark", "probe"}
  /\ publisher' = IF publisher = u THEN Nil ELSE publisher
  /\ staged' = [staged EXCEPT ![u] = "none"]
  /\ Go(u, "undo")
  /\ UNCHANGED <<entry, leased, exclusive, want, seat, litter, strays, stopped,
                 tampered, rounds, upset>>

-----------------------------------------------------------------------------
\* The checkout's build directory, step by step as it is changed on disk.

\* detach_upper: a delta left by an earlier shared round, with its whiteouts,
\* is set aside before its marker is removed.
Detach(u) ==
  /\ At(u, "detach")
  /\ seat' = IF seat[u].marker THEN [seat EXCEPT ![u].upper = "empty"] ELSE seat
  /\ Go(u, "unmark")
  /\ UNCHANGED <<entry, leased, exclusive, publisher, want, staged, litter,
                 strays, stopped, tampered, rounds, upset>>

\* Where a round goes once the checkout holds no delta.
AfterDetach(u) == IF want[u] = "off" THEN "bare" ELSE "move"

Unmark(u) ==
  /\ At(u, "unmark")
  /\ seat' = [seat EXCEPT ![u].marker = FALSE]
  /\ Go(u, AfterDetach(u))
  /\ UNCHANGED <<entry, leased, exclusive, publisher, want, staged, litter,
                 strays, stopped, tampered, rounds, upset>>

\* The private build is moved aside, over the backup of an earlier round.
MoveAside(u) ==
  /\ At(u, "move")
  /\ seat' = [seat EXCEPT ![u].backup = seat[u].upper, ![u].upper = "empty",
                          ![u].made = TRUE]
  /\ Go(u, "mark")
  /\ UNCHANGED <<entry, leased, exclusive, publisher, want, staged, litter,
                 strays, stopped, tampered, rounds, upset>>

Marked(u) == seat' = [seat EXCEPT ![u].marker = TRUE]

Mark(u) ==
  /\ At(u, "mark")
  /\ Marked(u)
  /\ Go(u, "probe")
  /\ UNCHANGED <<entry, leased, exclusive, publisher, want, staged, litter,
                 strays, stopped, tampered, rounds, upset>>

\* The overlay is mounted once to see that the verified lower shows through.
Probe(u) ==
  /\ At(u, "probe")
  /\ \/ /\ entry # "absent" /\ Go(u, "shared")
        /\ seat' = [seat EXCEPT ![u].upper = "delta"]
        /\ UNCHANGED stopped
     \/ entry = "absent" /\ Go(u, "undo") /\ UNCHANGED <<seat, stopped>>
     \/ entry \in {"damaged", "torn"} /\ Distrust(u) /\ UNCHANGED seat
  /\ UNCHANGED <<entry, leased, exclusive, publisher, want, staged, litter,
                 strays, tampered, rounds, upset>>

\* A failed preparation puts the private build back, or detaches; then the
\* lease goes, and the round runs private or, where sharing is required, not.
Undo(u) ==
  LET s == seat[u] IN
  /\ At(u, "undo")
  /\ seat' = [seat EXCEPT ![u] =
       IF s.made /\ s.backup # "none"
       THEN [s EXCEPT !.upper = s.backup, !.backup = "none", !.marker = FALSE]
       ELSE [s EXCEPT !.upper = IF s.marker THEN "empty" ELSE @,
                      !.marker = FALSE]]
  /\ Release(u)
  /\ exclusive' = IF exclusive = u THEN Nil ELSE exclusive
  /\ Go(u, IF want[u] = "required" THEN "idle" ELSE "bare")
  /\ UNCHANGED <<entry, publisher, want, staged, litter, strays, stopped,
                 tampered, rounds, upset>>

\* A private round warms its own build, completely or not at all.
PrivateEnds(u) ==
  /\ At(u, "bare")
  /\ \E warm \in {"full", seat[u].upper} : seat' = [seat EXCEPT ![u].upper = warm]
  /\ Go(u, "idle")
  /\ UNCHANGED <<entry, leased, exclusive, publisher, want, staged, litter,
                 strays, stopped, tampered, rounds, upset>>

\* The agent has exited; the backup is dropped if it exited normally.
SharedEnds(u) ==
  /\ At(u, "shared")
  /\ \E backup \in {"none", seat[u].backup} :
       seat' = [seat EXCEPT ![u].backup = backup]
  /\ Release(u)
  /\ Go(u, "idle")
  /\ UNCHANGED <<entry, exclusive, publisher, want, staged, litter, strays,
                 stopped, tampered, rounds, upset>>

\* The checkout of a stopped round is copied through the overlay, under the
\* same lease; without its lower it is detached and warmed afresh.
Preserve(u) ==
  /\ At(u, "idle") /\ u \notin strays /\ seat[u].marker /\ Share(u)
  /\ Go(u, IF entry = "absent" THEN "undo" ELSE "reading")
  /\ want' = [want EXCEPT ![u] = "auto"]
  /\ seat' = [seat EXCEPT ![u].made = FALSE]
  /\ UNCHANGED <<entry, exclusive, publisher, staged, litter, strays, stopped,
                 tampered, rounds, upset>>

PreserveEnds(u) ==
  /\ At(u, "reading")
  /\ Release(u) /\ Go(u, "idle")
  /\ UNCHANGED <<entry, exclusive, publisher, want, seat, staged, litter, strays,
                 stopped, tampered, rounds, upset>>

-----------------------------------------------------------------------------
\* The collector: retention's sweep, when the snapshot is old or the disk full.

MayCollect == MayExclude

\* The snapshot is hidden by one rename, then deleted.
Collect ==
  /\ entry # "absent" /\ MayCollect
  /\ entry' = "absent"
  /\ litter' = litter \cup {"trash"}
  /\ UNCHANGED <<leased, exclusive, publisher, at, want, seat, staged, strays,
                 stopped, tampered, rounds, upset>>

\* Trash at once; the stage of a dead publisher when nobody holds its key.
Sweep ==
  /\ litter # {}
  /\ litter' = IF MayExclude THEN {} ELSE litter \ {"trash"}
  /\ litter' # litter
  /\ UNCHANGED <<entry, leased, exclusive, publisher, at, want, seat, staged,
                 strays, stopped, tampered, rounds, upset>>

-----------------------------------------------------------------------------
\* The fault model.

Died(u) == /\ publisher' = IF publisher = u THEN Nil ELSE publisher
           /\ exclusive' = IF exclusive = u THEN Nil ELSE exclusive
           /\ staged' = [staged EXCEPT ![u] = "none"]
           /\ litter' = IF staged[u] = "none" THEN litter
                        ELSE litter \cup {"stage"}

\* The lease's descriptor is inherited by the agent and its guardian.
LosesLease(u) == at[u] \notin {"shared", "reading"}

\* The round is killed.  The kernel drops its locks, but for the lease that a
\* running agent still holds.
Kill(u) ==
  /\ ~At(u, "idle") /\ upset < MaxStrikes
  /\ upset' = upset + 1
  /\ Died(u)
  /\ strays' = IF at[u] \in {"shared", "reading"} THEN strays \cup {u} ELSE strays
  /\ leased' = IF LosesLease(u) THEN leased \ {u} ELSE leased
  /\ Go(u, "idle")
  /\ UNCHANGED <<entry, want, seat, stopped, tampered, rounds>>

StrayExits(u) ==
  /\ u \in strays
  /\ strays' = strays \ {u}
  /\ Release(u)
  /\ UNCHANGED <<entry, exclusive, publisher, at, want, seat, staged, litter,
                 stopped, tampered, rounds, upset>>

\* The host loses power: what was not synced may be lost.
PowerFails ==
  /\ upset < MaxStrikes
  /\ upset' = upset + 1
  /\ leased' = {} /\ exclusive' = Nil /\ publisher' = Nil /\ strays' = {}
  /\ at' = [u \in Users |-> "idle"]
  /\ staged' = [u \in Users |-> "none"]
  /\ litter' = IF \A u \in Users : staged[u] = "none" THEN litter
               ELSE litter \cup {"stage"}
  /\ entry' = IF entry = "unsynced" THEN "torn" ELSE entry
  /\ UNCHANGED <<want, seat, stopped, tampered, rounds>>

\* Someone with the owner's rights modifies a published file.
Tamper ==
  /\ entry = "whole" /\ ~tampered
  /\ entry' = "damaged" /\ tampered' = TRUE
  /\ UNCHANGED <<leased, exclusive, publisher, at, want, seat, staged, litter,
                 strays, stopped, rounds, upset>>

-----------------------------------------------------------------------------
Prepare(u) == \/ FirstLook(u) \/ TakePublisher(u) \/ LookAgain(u) \/ Upgrade(u)
              \/ Extract(u) \/ Settle(u) \/ Publish(u) \/ Relock(u) \/ GiveUp(u)
              \/ Detach(u) \/ Unmark(u) \/ MoveAside(u) \/ Mark(u) \/ Probe(u)
              \/ Undo(u)

PoolNext ==
  \/ \E u \in Users :
       \/ \E mode \in {"off", "auto", "required"} : Enter(u, mode)
       \/ Prepare(u)
       \/ PrivateEnds(u) \/ SharedEnds(u) \/ Preserve(u) \/ PreserveEnds(u)
       \/ Kill(u) \/ StrayExits(u)
  \/ Collect \/ Sweep
  \/ PowerFails \/ Tamper

PoolSpec == PoolInit /\ [][PoolNext]_poolvars

-----------------------------------------------------------------------------
Reads(u) == at[u] \in {"shared", "reading"} \/ u \in strays

\* The lower layer under a running agent is never taken away or replaced: not
\* by a collector, not while a lease is being converted, and not when the
\* round that took the lease is killed (shared_mathlib.py:810, 554-604).
LowerStays ==
  (\E u \in Users : Reads(u) /\ Reads(u)')
     => entry' # "absent" /\ (Intact' => Intact)

\* Sharing is stopped for the fleet only if a published snapshot was really
\* modified: no interleaving of publishers, readers, collectors, kills and
\* power failures looks like damage (shared_mathlib.py:487-507, 918-921).
NoFalseAlarm == stopped => tampered

\* A sparse overlay delta, with its whiteouts, is never built on as if it were
\* a complete private build, wherever the round before it was killed
\* (shared_mathlib.py:415-426).
DeltaNeverBare == \A u \in Users : At(u, "bare") => seat[u].upper # "delta"

\* Nobody who waits to publish has to wait for a paid round: while a user
\* upgrades its lease, no agent holds one (shared_mathlib.py:856-858).
UpgradeUnobstructed ==
  \A u \in Users : At(u, "upgrade") =>
                     \A v \in Users : ~Reads(v)

SharingSafe == PoolTypeOK /\ NoFalseAlarm /\ DeltaNeverBare /\ UpgradeUnobstructed
=============================================================================
