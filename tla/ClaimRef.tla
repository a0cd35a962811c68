------------------------------- MODULE ClaimRef ------------------------------
(***************************************************************************)
(* Cooperative claims on one branch: scripts/claim.sh, the round that      *)
(* takes the claim (round.Claims) and the heartbeat child that renews it.  *)
(*                                                                         *)
(* The claim is a git ref on the claim repository.  A claim.sh command is  *)
(* two steps, because other processes run between them: it reads the ref   *)
(* and the lease commit it names, then pushes with --force-with-lease.     *)
(* Lease commits are content addressed, so an oid is drawn fresh for every *)
(* push.  Time is the number of ticks left: an expiry is never compared    *)
(* across hosts whose clocks differ.                                       *)
(***************************************************************************)
EXTENDS Naturals, FiniteSets

CONSTANTS Workers,     \* worker ids (TAUCETI_WORKER_ID)
          NoWorker,    \* owner of an absent ref
          Oids,        \* commit ids, recycled once nothing refers to them
          NoOid,       \* the empty string claim.sh holds for "no such ref"
          TTL,         \* CLAIM_TTL, in ticks
          MaxOrphans,  \* bound: claim.sh children outliving their heartbeat
          MayCrash,    \* the workers whose round may be killed outright
          ListFaults,  \* may ls-remote fail?
          FetchFaults, \* may the fetch of a lease commit fail?
          PushFaults   \* may a push fail, or its answer be lost?

ASSUME ClaimAssumption ==
    /\ NoWorker \notin Workers
    /\ NoOid \notin Oids
    /\ Oids \subseteq Nat
    /\ TTL \in Nat \ {0}
    /\ MaxOrphans \in Nat
    /\ MayCrash \subseteq Workers
    /\ ListFaults \in BOOLEAN
    /\ FetchFaults \in BOOLEAN
    /\ PushFaults \in BOOLEAN

VARIABLES
    ref,      \* the claim ref: oid, and the owner and ticks left of its lease
    round,    \* what the round of each worker is doing
    held,     \* Claims.held: the round believes it has the claim
    lost,     \* Claims.lost: the event that cancels the agent
    beat,     \* the heartbeat child of each worker
    granted,  \* ticks left of the last lease write the worker saw accepted
    mainCmd,  \* the claim.sh command in flight in the round: oid it read,
    beatCmd,  \*   ticks left of the lease it will write; same for heartbeat
    orphans,  \* claim.sh commands whose python parent is gone
    sweep     \* the oid `claim.sh gc` is about to delete

vars == <<ref, round, held, lost, beat, granted, mainCmd, beatCmd, orphans, sweep>>

Absent == [oid |-> NoOid, owner |-> NoWorker, left |-> 0]
NoCmd == [oid |-> NoOid, left |-> 0]
Lease(o, w, t) == [oid |-> o, owner |-> w, left |-> t]
Less(t) == IF t > 0 THEN t - 1 ELSE 0

Refs == [oid : Oids \cup {NoOid}, owner : Workers \cup {NoWorker}, left : 0..TTL]
Cmds == [oid : Oids \cup {NoOid}, left : 0..TTL]
RoundStates == {"idle", "acquiring", "working", "cleanup", "releasing", "dead"}
BeatStates == {"off", "waiting", "renewing", "lost"}

Orphans == [worker : Workers, verb : {"write", "delete"},
            oid : Oids \cup {NoOid}, left : 0..TTL]

VarTypes ==
    /\ ref \in Refs
    /\ round \in [Workers -> RoundStates]
    /\ held \in [Workers -> BOOLEAN]
    /\ lost \in [Workers -> BOOLEAN]
    /\ beat \in [Workers -> BeatStates]
    /\ granted \in [Workers -> 0..TTL]
    /\ mainCmd \in [Workers -> Cmds]
    /\ beatCmd \in [Workers -> Cmds]
    /\ orphans \subseteq Orphans
    /\ sweep \in Oids \cup {NoOid}
    /\ ref.oid = NoOid \/ ref.owner = NoWorker => ref = Absent

Phases ==
    \A w \in Workers :
        /\ held[w] => round[w] \in {"working", "cleanup", "releasing"}
        /\ beat[w] # "off" => round[w] = "working" /\ held[w]
        /\ round[w] \notin {"acquiring", "releasing"} => mainCmd[w] = NoCmd
        /\ beat[w] # "renewing" => beatCmd[w] = NoCmd

\* The type of every variable, and which of them go with which phase of the
\* round: no heartbeat outside the work it protects, no claim without a round,
\* no command in flight that nobody waits for.  (round.Claims)
TypeOK == VarTypes /\ Phases

Init ==
    /\ ref = Absent
    /\ round = [w \in Workers |-> "idle"]
    /\ held = [w \in Workers |-> FALSE]
    /\ lost = [w \in Workers |-> FALSE]
    /\ beat = [w \in Workers |-> "off"]
    /\ granted = [w \in Workers |-> 0]
    /\ mainCmd = [w \in Workers |-> NoCmd]
    /\ beatCmd = [w \in Workers |-> NoCmd]
    /\ orphans = {}
    /\ sweep = NoOid

------------------------------------------------------------------------------
(* claim.sh *)

InUse == {ref.oid, sweep} \cup {mainCmd[w].oid : w \in Workers}
         \cup {beatCmd[w].oid : w \in Workers} \cup {c.oid : c \in orphans}

\* build_oid: a commit nobody has seen.  The least free one, so that equal
\* states stay equal.
FreshOids == {o \in Oids \ InUse : \A p \in Oids \ InUse : o <= p}

\* remote_oid and lease_json, as worker w sees them: the oid, and what is
\* known of the lease.  A failed ls-remote reads as "no ref".  A failed fetch
\* leaves the lease unreadable, except for one's own: its commit was built in
\* the local object store.
Views(w) ==
    LET seen == IF ref.oid = NoOid THEN "absent"
                ELSE IF ref.owner = w THEN "mine"
                ELSE IF ref.left > 0 THEN "live" ELSE "expired"
        good == [oid |-> ref.oid, lease |-> seen]
        unlisted == [oid |-> NoOid, lease |-> "absent"]
        unreadable == [oid |-> ref.oid, lease |-> "unreadable"]
    IN  {good} \cup (IF ListFaults THEN {unlisted} ELSE {})
               \cup (IF FetchFaults /\ seen \in {"live", "expired"}
                     THEN {unreadable} ELSE {})

\* Mutants of the guards below: acquire forgets the expiry test, acquire takes
\* over nothing, gc forgets the expiry test.
MayAcquireAnything(view) == TRUE
MayAcquireFreeOnly(view) == view.lease \in {"absent", "mine"}
MaySweepAnything == ref.oid # NoOid

\* cmd_acquire goes on to the push unless the lease it read is another's and
\* live.  An unreadable lease has no numeric expiry: it counts as expired.
MayAcquire(view) == view.lease # "live"

\* cmd_renew goes on to the push only for its own lease, expired or not.
MayRenew(view) == view.lease = "mine"

\* cmd_gc deletes only what it read as expired, whoever owned it.
MaySweep == ref.oid # NoOid /\ ref.left = 0

\* push_cas of a new lease for w: the ref must still be the oid that was read.
CasOk(expected) == ref.oid = expected
Written(w, cmd) == \E o \in FreshOids : ref' = Lease(o, w, cmd.left)

------------------------------------------------------------------------------
(* The round: Claims.begin_branch_work, the branch work, the cleanups *)

AcquireRead(w) ==
    /\ round[w] = "idle"
    /\ \E view \in Views(w) :
         /\ MayAcquire(view)
         /\ mainCmd' = [mainCmd EXCEPT ![w] = [oid |-> view.oid, left |-> TTL]]
    /\ round' = [round EXCEPT ![w] = "acquiring"]
    /\ UNCHANGED <<ref, held, lost, beat, granted, beatCmd, orphans, sweep>>

\* rc 0: the claim is held, a heartbeat starts, with a fresh lost event.
AcquireWon(w) ==
    /\ round[w] = "acquiring"
    /\ CasOk(mainCmd[w].oid)
    /\ Written(w, mainCmd[w])
    /\ round' = [round EXCEPT ![w] = "working"]
    /\ held' = [held EXCEPT ![w] = TRUE]
    /\ lost' = [lost EXCEPT ![w] = FALSE]
    /\ beat' = [beat EXCEPT ![w] = "waiting"]
    /\ granted' = [granted EXCEPT ![w] = mainCmd[w].left]
    /\ mainCmd' = [mainCmd EXCEPT ![w] = NoCmd]
    /\ UNCHANGED <<beatCmd, orphans, sweep>>

\* rc 1: another push came first; the caller skips this PR.
AcquireStale(w) ==
    /\ round[w] = "acquiring"
    /\ ~CasOk(mainCmd[w].oid)
    /\ round' = [round EXCEPT ![w] = "idle"]
    /\ mainCmd' = [mainCmd EXCEPT ![w] = NoCmd]
    /\ UNCHANGED <<ref, held, lost, beat, granted, beatCmd, orphans, sweep>>

\* rc 2: "proceeding unclaimed", whether or not the push took effect.
AcquireError(w) ==
    /\ PushFaults
    /\ round[w] = "acquiring"
    /\ \/ UNCHANGED ref
       \/ CasOk(mainCmd[w].oid) /\ Written(w, mainCmd[w])
    /\ round' = [round EXCEPT ![w] = "working"]
    /\ mainCmd' = [mainCmd EXCEPT ![w] = NoCmd]
    /\ UNCHANGED <<held, lost, beat, granted, beatCmd, orphans, sweep>>

\* The claim.sh command of w that its death or its cleanup leaves behind.
InFlight(w) ==
    IF beat[w] = "renewing"
    THEN {[worker |-> w, verb |-> "write", oid |-> beatCmd[w].oid, left |-> beatCmd[w].left]}
    ELSE IF round[w] = "acquiring"
    THEN {[worker |-> w, verb |-> "write", oid |-> mainCmd[w].oid, left |-> mainCmd[w].left]}
    ELSE IF round[w] = "releasing"
    THEN {[worker |-> w, verb |-> "delete", oid |-> mainCmd[w].oid, left |-> mainCmd[w].left]}
    ELSE {}

\* Mutant: the cleanup forgets the heartbeat.
BeatStays(w) == UNCHANGED <<beat, beatCmd, orphans>>

\* The python heartbeat goes (terminate, or EOF on its pipe); the claim.sh
\* that it or the round was waiting for may outlive it.
BeatGone(w) ==
    /\ beat' = [beat EXCEPT ![w] = "off"]
    /\ beatCmd' = [beatCmd EXCEPT ![w] = NoCmd]
    /\ \/ UNCHANGED orphans
       \/ /\ Cardinality(orphans) < MaxOrphans
          /\ orphans' = orphans \cup InFlight(w)

\* The agent finished, was cancelled by `lost` or by the round deadline; the
\* cleanups run last in, first out: the heartbeat stops before the release.
FinishWork(w) ==
    /\ round[w] = "working"
    /\ round' = [round EXCEPT ![w] = IF held[w] THEN "cleanup" ELSE "idle"]
    /\ lost' = [lost EXCEPT ![w] = FALSE]
    /\ granted' = [granted EXCEPT ![w] = 0]
    /\ BeatGone(w)
    /\ UNCHANGED <<ref, held, mainCmd, sweep>>

\* cmd_release leaves a lease that is not its own, and gives up quietly when
\* it cannot read the ref.
ReleaseRead(w) ==
    /\ round[w] = "cleanup"
    /\ \E view \in Views(w) :
         IF MayRenew(view)
         THEN /\ round' = [round EXCEPT ![w] = "releasing"]
              /\ mainCmd' = [mainCmd EXCEPT ![w] = [oid |-> view.oid, left |-> 0]]
              /\ UNCHANGED held
         ELSE /\ round' = [round EXCEPT ![w] = "idle"]
              /\ held' = [held EXCEPT ![w] = FALSE]
              /\ UNCHANGED mainCmd
    /\ UNCHANGED <<ref, lost, beat, granted, beatCmd, orphans, sweep>>

\* push_delete ignores the outcome of the push.
ReleasePush(w) ==
    /\ round[w] = "releasing"
    /\ \/ CasOk(mainCmd[w].oid) /\ ref' = Absent
       \/ (PushFaults \/ ~CasOk(mainCmd[w].oid)) /\ UNCHANGED ref
    /\ round' = [round EXCEPT ![w] = "idle"]
    /\ held' = [held EXCEPT ![w] = FALSE]
    /\ mainCmd' = [mainCmd EXCEPT ![w] = NoCmd]
    /\ UNCHANGED <<lost, beat, granted, beatCmd, orphans, sweep>>

\* SIGKILL of the round: no cleanup runs; the heartbeat reads EOF and leaves.
Crash(w) ==
    /\ w \in MayCrash
    /\ round[w] \notin {"idle", "dead"}
    /\ round' = [round EXCEPT ![w] = "dead"]
    /\ held' = [held EXCEPT ![w] = FALSE]
    /\ lost' = [lost EXCEPT ![w] = FALSE]
    /\ granted' = [granted EXCEPT ![w] = 0]
    /\ mainCmd' = [mainCmd EXCEPT ![w] = NoCmd]
    /\ BeatGone(w)
    /\ UNCHANGED <<ref, sweep>>

\* The next round of the same worker id: the round lock died with its holder.
Restart(w) ==
    /\ round[w] = "dead"
    /\ round' = [round EXCEPT ![w] = "idle"]
    /\ UNCHANGED <<ref, held, lost, beat, granted, mainCmd, beatCmd, orphans, sweep>>

------------------------------------------------------------------------------
(* The heartbeat: round.cmd_heartbeat and the thread that watches it *)

\* Mutant: a renewal that fails is tried again for ever.
Retried == "waiting"
\* Any answer of claim.sh but 0, an unclear one included, ends the heartbeat.
NotRenewed == "lost"

BeatRead(w) ==
    /\ beat[w] = "waiting"
    /\ \E view \in Views(w) :
         IF MayRenew(view)
         THEN /\ beat' = [beat EXCEPT ![w] = "renewing"]
              /\ beatCmd' = [beatCmd EXCEPT ![w] = [oid |-> view.oid, left |-> TTL]]
         ELSE /\ beat' = [beat EXCEPT ![w] = NotRenewed]
              /\ UNCHANGED beatCmd
    /\ UNCHANGED <<ref, round, held, lost, granted, mainCmd, orphans, sweep>>

BeatWon(w) ==
    /\ beat[w] = "renewing"
    /\ CasOk(beatCmd[w].oid)
    /\ Written(w, beatCmd[w])
    /\ beat' = [beat EXCEPT ![w] = "waiting"]
    /\ granted' = [granted EXCEPT ![w] = beatCmd[w].left]
    /\ beatCmd' = [beatCmd EXCEPT ![w] = NoCmd]
    /\ UNCHANGED <<round, held, lost, mainCmd, orphans, sweep>>

\* The push was not accepted, or its answer was lost.
BeatFailed(w) ==
    /\ beat[w] = "renewing"
    /\ \/ (PushFaults \/ ~CasOk(beatCmd[w].oid)) /\ UNCHANGED ref
       \/ PushFaults /\ CasOk(beatCmd[w].oid) /\ Written(w, beatCmd[w])
    /\ beat' = [beat EXCEPT ![w] = NotRenewed]
    /\ beatCmd' = [beatCmd EXCEPT ![w] = NoCmd]
    /\ UNCHANGED <<round, held, lost, granted, mainCmd, orphans, sweep>>

\* The watcher thread sees HEARTBEAT_LOST and sets the cancellation event.
WatchLost(w) ==
    /\ beat[w] = "lost"
    /\ ~lost[w]
    /\ lost' = [lost EXCEPT ![w] = TRUE]
    /\ UNCHANGED <<ref, round, held, beat, granted, mainCmd, beatCmd, orphans, sweep>>

\* A command that outlived its parent: pushed or not, nobody is told.
OrphanPush(c) ==
    /\ c \in orphans
    /\ \/ CasOk(c.oid) /\ c.verb = "write" /\ Written(c.worker, c)
       \/ CasOk(c.oid) /\ c.verb = "delete" /\ ref' = Absent
       \/ (PushFaults \/ ~CasOk(c.oid)) /\ UNCHANGED ref
    /\ orphans' = orphans \ {c}
    /\ UNCHANGED <<round, held, lost, beat, granted, mainCmd, beatCmd, sweep>>

------------------------------------------------------------------------------
(* claim.sh gc, and time *)

GcRead ==
    /\ sweep = NoOid
    /\ MaySweep
    /\ sweep' = ref.oid
    /\ UNCHANGED <<ref, round, held, lost, beat, granted, mainCmd, beatCmd, orphans>>

GcPush ==
    /\ sweep # NoOid
    /\ \/ CasOk(sweep) /\ ref' = Absent
       \/ (PushFaults \/ ~CasOk(sweep)) /\ UNCHANGED ref
    /\ sweep' = NoOid
    /\ UNCHANGED <<round, held, lost, beat, granted, mainCmd, beatCmd, orphans>>

Tick ==
    /\ ref' = [ref EXCEPT !.left = Less(@)]
    /\ granted' = [w \in Workers |-> Less(granted[w])]
    /\ mainCmd' = [w \in Workers |-> [mainCmd[w] EXCEPT !.left = Less(@)]]
    /\ beatCmd' = [w \in Workers |-> [beatCmd[w] EXCEPT !.left = Less(@)]]
    /\ orphans' = {[c EXCEPT !.left = Less(@)] : c \in orphans}
    /\ UNCHANGED <<round, held, lost, beat, sweep>>

ClaimStep(w) ==
    \/ AcquireRead(w) \/ AcquireWon(w) \/ AcquireStale(w) \/ AcquireError(w)
    \/ ReleaseRead(w) \/ ReleasePush(w)

BeatStep(w) == BeatRead(w) \/ BeatWon(w) \/ BeatFailed(w) \/ WatchLost(w)

Next ==
    \/ \E w \in Workers : ClaimStep(w) \/ FinishWork(w) \/ BeatStep(w)
                           \/ Crash(w) \/ Restart(w)
    \/ \E c \in orphans : OrphanPush(c)
    \/ GcRead
    \/ GcPush
    \/ Tick

Spec == Init /\ [][Next]_vars

\* The loop starts rounds again and again and claim.sh commands end; the
\* heartbeat's select times out; `lost` cancels the agent; time passes.  An
\* agent that is not cancelled may work for as long as it likes, nothing makes
\* a killed worker come back, nobody has to run gc.
FairSpec ==
    /\ Spec
    /\ \A w \in Workers :
         /\ WF_vars(ClaimStep(w))
         /\ WF_vars(BeatStep(w))
         /\ WF_vars(lost[w] /\ FinishWork(w))
    /\ WF_vars(Tick)

------------------------------------------------------------------------------
(* Properties *)

\* While a round holds the claim and the last lease write it saw accepted has
\* not run out, the ref still carries its lease: no other command of any
\* worker, heartbeat, orphan or sweep replaced or deleted it, and so no two
\* rounds hold the claim at once.  (claim.sh cmd_acquire, cmd_gc, push_cas)
LeaseExclusive ==
    \A w \in Workers :
        held[w] /\ granted[w] > 0 => ref.owner = w /\ ref.left >= granted[w]

\* A command of w that pushes against oid may take the ref: should the ref still
\* be at oid, its lease is w's own, or has run out.
MayTake(w, oid) == ref.oid = oid => ref.owner = w \/ ref.left = 0

\* Whatever is in flight may push: no read-then-push command can take a live
\* lease of another however long it was delayed, and nothing left over from an
\* earlier round of w still matches a lease that w's present round was granted.
\* (claim.sh push_cas)
CommandsSound ==
    /\ \A w \in Workers : MayTake(w, mainCmd[w].oid) /\ MayTake(w, beatCmd[w].oid)
    /\ \A c \in orphans : /\ MayTake(c.worker, c.oid)
                          /\ ref.oid = c.oid => granted[c.worker] = 0
    /\ sweep # NoOid /\ ref.oid = sweep => ref.left = 0

\* The ref behaves as one lease register: whatever the interleaving of reads
\* and pushes, a live lease changes hands only by its owner's own release.
Register == INSTANCE LeaseRegister WITH owner <- ref.owner, left <- ref.left
RefinesRegister == Register!Spec

\* claim.sh: "acquire ... 1 held by another": a live lease of one worker is
\* never replaced by a lease of another.
HeldByAnotherRefused ==
    [][ref.left > 0 /\ ref'.owner \in Workers => ref'.owner = ref.owner]_ref

\* A round whose claim was taken over or swept does not go on working without
\* it: the heartbeat finds out, the watcher sets `lost`, the agent is cancelled.
\* (A renewal left over from an earlier round may bring the claim back first.)
TakeoverNoticed ==
    \A w \in Workers :
        (round[w] = "working" /\ held[w] /\ ref.owner # w)
            ~> (round[w] # "working" \/ ref.owner = w)

\* "A claim can expire so a dead holder never blocks anyone": a worker that
\* keeps trying gets the claim of a killed one, unless that one comes back.
DeadHolderNeverBlocks ==
    \A w \in MayCrash, v \in Workers \ MayCrash :
        (round[w] = "dead" /\ ref.owner = w) ~> (held[v] \/ round[w] # "dead")
==============================================================================
