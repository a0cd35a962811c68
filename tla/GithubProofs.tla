---------------------------- MODULE GithubProofs -----------------------------
(***************************************************************************)
(* The theorems about what a worker writes to GitHub: the ref of a claim,  *)
(* for any number of workers, commits and ticks, and the publications of   *)
(* the outbox, for any number of them, of targets, workers and faults.     *)
(***************************************************************************)
EXTENDS ClaimRef, Outbox, WellFoundedInduction, TLAPS

\* The commit of a push is one that nothing refers to.  (claim.sh build_oid)
LEMMA FreshIsUnused ==
    ASSUME NEW o \in FreshOids
    PROVE  /\ o \in Oids
           /\ o # ref.oid /\ o # sweep
           /\ \A w \in Workers : o # mainCmd[w].oid /\ o # beatCmd[w].oid
           /\ \A c \in orphans : o # c.oid
  BY DEF FreshOids, InUse

\* Every view of the ref names its oid, or none.  (claim.sh remote_oid)
LEMMA ViewType ==
    ASSUME TypeOK, NEW w \in Workers, NEW view \in Views(w)
    PROVE  view.oid \in {ref.oid, NoOid}
  BY DEF Views

\* A command left behind has the type of an orphan.  (round.Claims)
LEMMA InFlightType ==
    ASSUME TypeOK, NEW w \in Workers
    PROVE  InFlight(w) \subseteq Orphans
  BY DEF TypeOK, VarTypes, Phases, InFlight, Orphans, Cmds

------------------------------------------------------------------------------
(* Type correctness *)

LEMMA TypeInit == Init => TypeOK
  BY ClaimAssumption DEF Init, TypeOK, VarTypes, Phases, Refs, Cmds, RoundStates, BeatStates, Absent, NoCmd

\* No step of a round or of its death leaves the types.
LEMMA TypeRound ==
    ASSUME TypeOK, NEW w \in Workers,
           ClaimStep(w) \/ FinishWork(w) \/ Crash(w) \/ Restart(w)
    PROVE  TypeOK'
  <1> USE ClaimAssumption DEF TypeOK, VarTypes, Phases, Refs, Cmds, RoundStates, BeatStates, NoCmd
  <1>1. CASE AcquireRead(w)
    BY <1>1, ViewType DEF AcquireRead
  <1>2. CASE AcquireWon(w)
    BY <1>2, FreshIsUnused DEF AcquireWon, Written, Lease, Absent
  <1>3. CASE AcquireStale(w)
    BY <1>3 DEF AcquireStale
  <1>4. CASE AcquireError(w)
    BY <1>4, FreshIsUnused DEF AcquireError, Written, Lease, Absent
  <1>5. CASE FinishWork(w)
    BY <1>5, InFlightType DEF FinishWork, BeatGone
  <1>6. CASE ReleaseRead(w)
    <2>1. PICK view \in Views(w) :
            IF MayRenew(view)
            THEN /\ round' = [round EXCEPT ![w] = "releasing"]
                 /\ mainCmd' = [mainCmd EXCEPT ![w] = [oid |-> view.oid, left |-> 0]]
                 /\ UNCHANGED held
            ELSE /\ round' = [round EXCEPT ![w] = "idle"]
                 /\ held' = [held EXCEPT ![w] = FALSE]
                 /\ UNCHANGED mainCmd
      BY <1>6 DEF ReleaseRead
    <2>2. CASE MayRenew(view)
      <3>1. [oid |-> view.oid, left |-> 0] \in Cmds
        BY ViewType
      <3>2. mainCmd' \in [Workers -> Cmds]
        <4> HIDE DEF Cmds
        <4> QED
          BY <2>1, <2>2, <3>1
      <3>4. VarTypes'
        BY <1>6, <2>1, <2>2, <3>2, SMTT(60) DEF ReleaseRead
      <3>3. Phases'
        BY <1>6, <2>1, <2>2 DEF ReleaseRead
      <3> QED
        BY <3>3, <3>4
    <2>3. CASE ~MayRenew(view)
      <3>1. VarTypes'
        BY ZenonT(60), <1>6, <2>1, <2>3 DEF ReleaseRead
      <3>2. Phases'
        BY <1>6, <2>1, <2>3 DEF ReleaseRead
      <3> QED
        BY <3>1, <3>2
    <2> QED
      BY <2>2, <2>3
  <1>7. CASE ReleasePush(w)
    BY <1>7 DEF ReleasePush, Absent
  <1>8. CASE Crash(w)
    BY <1>8, InFlightType DEF Crash, BeatGone
  <1>9. CASE Restart(w)
    BY <1>9 DEF Restart
  <1> QED
    BY <1>1, <1>2, <1>3, <1>4, <1>5, <1>6, <1>7, <1>8, <1>9 DEF ClaimStep

\* Nor does a step of the heartbeat, of gc, of a leftover command, or of time.
LEMMA TypeRest ==
    ASSUME TypeOK,
           \/ \E w \in Workers : BeatStep(w)
           \/ \E c \in orphans : OrphanPush(c)
           \/ GcRead \/ GcPush \/ Tick
    PROVE  TypeOK'
  <1> USE ClaimAssumption DEF TypeOK, VarTypes, Phases, Refs, Cmds, RoundStates, BeatStates, NoCmd
  <1>1. ASSUME NEW w \in Workers, BeatRead(w)
        PROVE  TypeOK'
    <2>1. PICK view \in Views(w) :
            IF MayRenew(view)
            THEN /\ beat' = [beat EXCEPT ![w] = "renewing"]
                 /\ beatCmd' = [beatCmd EXCEPT ![w] = [oid |-> view.oid, left |-> TTL]]
            ELSE /\ beat' = [beat EXCEPT ![w] = "lost"]
                 /\ UNCHANGED beatCmd
      BY <1>1 DEF BeatRead, NotRenewed
    <2>2. CASE MayRenew(view)
      <3>1. [oid |-> view.oid, left |-> TTL] \in Cmds
        BY ViewType
      <3>2. beatCmd' \in [Workers -> Cmds]
        <4> HIDE DEF Cmds
        <4> QED
          BY <2>1, <2>2, <3>1
      <3>4. VarTypes'
        BY <1>1, <2>1, <2>2, <3>2, SMTT(60) DEF BeatRead, NotRenewed
      <3>3. Phases'
        BY <1>1, <2>1, <2>2 DEF BeatRead, NotRenewed
      <3> QED
        BY <3>3, <3>4
    <2>3. CASE ~MayRenew(view)
      BY <1>1, <2>1, <2>3 DEF BeatRead, NotRenewed
    <2> QED
      BY <2>2, <2>3
  <1>2. ASSUME NEW w \in Workers, BeatWon(w)
        PROVE  TypeOK'
    BY <1>2, FreshIsUnused DEF BeatWon, Written, Lease, Absent
  <1>3. ASSUME NEW w \in Workers, BeatFailed(w)
        PROVE  TypeOK'
    BY <1>3, FreshIsUnused DEF BeatFailed, NotRenewed, Written, Lease, Absent
  <1>4. ASSUME NEW w \in Workers, WatchLost(w)
        PROVE  TypeOK'
    BY <1>4 DEF WatchLost
  <1>5. ASSUME NEW c \in orphans, OrphanPush(c)
        PROVE  TypeOK'
    BY <1>5, FreshIsUnused DEF OrphanPush, Written, Lease, Absent, Orphans
  <1>6. CASE GcRead
    BY <1>6 DEF GcRead
  <1>7. CASE GcPush
    BY <1>7 DEF GcPush, Absent
  <1>8. CASE Tick
    <2>1. \A t \in 0..TTL : Less(t) \in 0..TTL
      BY DEF Less
    <2>2. Less(0) = 0
      BY DEF Less
    <2>3. ref' \in Refs
      BY <1>8, <2>1 DEF Tick
    <2>4. (ref.oid = NoOid \/ ref.owner = NoWorker => ref = Absent)'
      BY <1>8, <2>2 DEF Tick, Absent
    <2>5. granted' \in [Workers -> 0..TTL]
      BY <1>8, <2>1 DEF Tick
    <2>6. \A c \in Cmds : [c EXCEPT !.left = Less(@)] \in Cmds
      BY <2>1
    <2>7. mainCmd' \in [Workers -> Cmds] /\ beatCmd' \in [Workers -> Cmds]
      <3> HIDE DEF Cmds
      <3> QED
        BY <1>8, <2>6 DEF Tick
    <2>8. \A c \in Orphans : [c EXCEPT !.left = Less(@)] \in Orphans
      BY <2>1 DEF Orphans
    <2>9. orphans' \subseteq Orphans
      BY <1>8, <2>8 DEF Tick
    <2>10. VarTypes'
      BY <1>8, <2>3, <2>4, <2>5, <2>7, <2>9 DEF Tick
    <2>11. Phases'
      BY <1>8, <2>2 DEF Tick
    <2> QED
      BY <2>10, <2>11
  <1> QED
    BY <1>1, <1>2, <1>3, <1>4, <1>5, <1>6, <1>7, <1>8 DEF BeatStep

LEMMA TypeStep == TypeOK /\ [Next]_vars => TypeOK'
  <1>1. TypeOK /\ UNCHANGED vars => TypeOK'
    BY DEF TypeOK, VarTypes, Phases, vars
  <1> QED
    BY <1>1, TypeRound, TypeRest DEF Next

\* Every reachable state has the types, and no heartbeat, claim or command
\* outlives the phase of the round that it belongs to.  (round.Claims)
THEOREM TypeCorrect == Spec => []TypeOK
  BY TypeInit, TypeStep, PTL DEF Spec

------------------------------------------------------------------------------
(* The lease, when every lease that exists can be read (FetchFaults = FALSE).  *)
(* LeaseExclusive alone is not inductive: it rests on what each command still  *)
(* in flight knows of the commit it read (CommandsSound).                      *)

\* Only a round that works under its claim relies on a lease, and its heartbeat
\* never writes one that is shorter than the one it replaces.  (cmd_heartbeat)
GrantsSound ==
    \A w \in Workers :
        /\ granted[w] > 0 => round[w] = "working" /\ held[w]
        /\ beat[w] = "renewing" => beatCmd[w].left >= granted[w]

LeaseInv == TypeOK /\ LeaseExclusive /\ CommandsSound /\ GrantsSound

LEMMA LeaseInit == Init => LeaseInv
  BY TypeInit DEF Init, LeaseInv, LeaseExclusive, CommandsSound, MayTake, GrantsSound, NoCmd, Absent

\* What acquire, renew and release know when they decide to push.
LEMMA ViewSound ==
    ASSUME FetchFaults = FALSE, TypeOK, NEW w \in Workers, NEW view \in Views(w),
           MayAcquire(view) \/ MayRenew(view)
    PROVE  MayTake(w, view.oid)
  BY DEF Views, MayAcquire, MayRenew, MayTake, TypeOK, VarTypes, Refs, Absent

\* A command left behind still knows what it knew.
LEMMA InFlightSound ==
    ASSUME CommandsSound, NEW w \in Workers, NEW c \in InFlight(w)
    PROVE  c.worker = w /\ MayTake(w, c.oid)
  BY DEF CommandsSound, InFlight

\* A delete that may go through finds no round that relies on a lease.
\* (claim.sh cmd_release, cmd_gc)
LEMMA DeleteHurtsNobody ==
    ASSUME TypeOK, LeaseExclusive, GrantsSound, NEW w \in Workers,
           granted[w] = 0, ref.owner = w \/ ref.left = 0
    PROVE  \A v \in Workers : granted[v] = 0
  BY ClaimAssumption DEF TypeOK, VarTypes, LeaseExclusive, GrantsSound, Refs

LEMMA LeaseRound ==
    ASSUME FetchFaults = FALSE, LeaseInv, TypeOK', NEW w \in Workers,
           ClaimStep(w) \/ FinishWork(w) \/ BeatStep(w) \/ Crash(w) \/ Restart(w)
    PROVE  LeaseInv'
  <1> USE ClaimAssumption DEF LeaseInv, TypeOK, VarTypes, Phases
  <1>1. CASE AcquireRead(w)
    <2>1. LeaseExclusive'
      BY <1>1, ViewSound DEF AcquireRead, LeaseExclusive, CommandsSound, MayTake, GrantsSound, Refs, Cmds
    <2>2. CommandsSound'
      <3>1. PICK view \in Views(w) :
              /\ MayAcquire(view)
              /\ mainCmd' = [mainCmd EXCEPT ![w] = [oid |-> view.oid, left |-> TTL]]
        BY <1>1 DEF AcquireRead
      <3>2. MayTake(w, view.oid)
        BY <3>1, ViewSound
      <3> QED
        BY <1>1, <3>1, <3>2 DEF AcquireRead, CommandsSound, MayTake, Cmds
    <2>3. GrantsSound'
      BY <1>1, ViewSound DEF AcquireRead, CommandsSound, MayTake, GrantsSound, Refs, Cmds
    <2> QED
      BY <2>1, <2>2, <2>3
  <1>2. CASE AcquireWon(w)
    <2>1. LeaseExclusive'
      BY <1>2, FreshIsUnused DEF AcquireWon, Written, Lease, CasOk, NoCmd, LeaseExclusive, CommandsSound, MayTake, GrantsSound, Refs, Cmds
    <2>2. CommandsSound'
      BY <1>2, FreshIsUnused DEF AcquireWon, Written, Lease, CasOk, NoCmd, CommandsSound, MayTake, GrantsSound, Refs, Cmds
    <2>3. GrantsSound'
      BY <1>2, FreshIsUnused DEF AcquireWon, Written, Lease, CasOk, NoCmd, CommandsSound, MayTake, GrantsSound, Refs, Cmds
    <2> QED
      BY <2>1, <2>2, <2>3
  <1>3. CASE AcquireStale(w)
    <2>1. LeaseExclusive'
      BY <1>3 DEF AcquireStale, NoCmd, LeaseExclusive, CommandsSound, MayTake, GrantsSound, Refs, Cmds
    <2>2. CommandsSound'
      BY <1>3 DEF AcquireStale, NoCmd, CommandsSound, MayTake, GrantsSound, Refs, Cmds
    <2>3. GrantsSound'
      BY <1>3 DEF AcquireStale, NoCmd, CommandsSound, MayTake, GrantsSound, Refs, Cmds
    <2> QED
      BY <2>1, <2>2, <2>3
  <1>4. CASE AcquireError(w)
    <2>1. LeaseExclusive'
      BY <1>4, FreshIsUnused DEF AcquireError, Written, Lease, CasOk, NoCmd, LeaseExclusive, CommandsSound, MayTake, GrantsSound, Refs, Cmds
    <2>2. CommandsSound'
      BY <1>4, FreshIsUnused DEF AcquireError, Written, Lease, CasOk, NoCmd, CommandsSound, MayTake, GrantsSound, Refs, Cmds
    <2>3. GrantsSound'
      BY <1>4, FreshIsUnused DEF AcquireError, Written, Lease, CasOk, NoCmd, CommandsSound, MayTake, GrantsSound, Refs, Cmds
    <2> QED
      BY <2>1, <2>2, <2>3
  <1>5. CASE FinishWork(w)
    <2>1. LeaseExclusive'
      BY <1>5 DEF FinishWork, BeatGone, InFlight, NoCmd, Orphans, LeaseExclusive, CommandsSound, MayTake, GrantsSound, Refs, Cmds
    <2>2. CommandsSound'
      BY <1>5, InFlightSound DEF FinishWork, BeatGone, NoCmd, CommandsSound, MayTake
    <2>3. GrantsSound'
      BY <1>5 DEF FinishWork, BeatGone, InFlight, NoCmd, Orphans, CommandsSound, MayTake, GrantsSound, Refs, Cmds
    <2> QED
      BY <2>1, <2>2, <2>3
  <1>6. CASE ReleaseRead(w)
    <2>1. LeaseExclusive'
      BY <1>6, ViewSound DEF ReleaseRead, LeaseExclusive, CommandsSound, MayTake, GrantsSound, Refs, Cmds
    <2>2. CommandsSound'
      <3>1. CASE UNCHANGED mainCmd
        BY <1>6, <3>1 DEF ReleaseRead, CommandsSound, MayTake
      <3>2. CASE ~UNCHANGED mainCmd
        <4>1. PICK view \in Views(w) :
                /\ MayRenew(view)
                /\ mainCmd' = [mainCmd EXCEPT ![w] = [oid |-> view.oid, left |-> 0]]
          BY <1>6, <3>2 DEF ReleaseRead
        <4>2. MayTake(w, view.oid)
          BY <4>1, ViewSound
        <4> QED
          BY <1>6, <4>1, <4>2 DEF ReleaseRead, CommandsSound, MayTake, Cmds
      <3> QED
        BY <3>1, <3>2
    <2>3. GrantsSound'
      BY <1>6, ViewSound DEF ReleaseRead, CommandsSound, MayTake, GrantsSound, Refs, Cmds
    <2> QED
      BY <2>1, <2>2, <2>3
  <1>7. CASE ReleasePush(w)
    <2>1. LeaseExclusive'
      BY <1>7 DEF ReleasePush, CasOk, Absent, NoCmd, LeaseExclusive, CommandsSound, MayTake, GrantsSound, Refs, Cmds
    <2>2. CommandsSound'
      <3>1. CASE UNCHANGED ref
        BY <1>7, <3>1 DEF ReleasePush, NoCmd, CommandsSound, MayTake
      <3>2. CASE CasOk(mainCmd[w].oid) /\ ref' = Absent
        <4>1. \A v \in Workers : granted[v] = 0
          BY <1>7, <3>2, DeleteHurtsNobody DEF ReleasePush, CasOk, CommandsSound, MayTake, GrantsSound
        <4> QED
          BY <1>7, <3>2, <4>1 DEF ReleasePush, Absent, CommandsSound, MayTake, Orphans
      <3> QED
        BY <1>7, <3>1, <3>2 DEF ReleasePush
    <2>3. GrantsSound'
      BY <1>7 DEF ReleasePush, CasOk, Absent, NoCmd, CommandsSound, MayTake, GrantsSound, Refs, Cmds
    <2> QED
      BY <2>1, <2>2, <2>3
  <1>8. CASE Crash(w)
    <2>1. LeaseExclusive'
      BY <1>8 DEF Crash, BeatGone, InFlight, NoCmd, Orphans, LeaseExclusive, CommandsSound, MayTake, GrantsSound, Refs, Cmds
    <2>2. CommandsSound'
      BY <1>8, InFlightSound DEF Crash, BeatGone, NoCmd, CommandsSound, MayTake
    <2>3. GrantsSound'
      BY <1>8 DEF Crash, BeatGone, InFlight, NoCmd, Orphans, CommandsSound, MayTake, GrantsSound, Refs, Cmds
    <2> QED
      BY <2>1, <2>2, <2>3
  <1>9. CASE Restart(w)
    <2>1. LeaseExclusive'
      BY <1>9 DEF Restart, NoCmd, LeaseExclusive, CommandsSound, MayTake, GrantsSound, Refs, Cmds
    <2>2. CommandsSound'
      BY <1>9 DEF Restart, NoCmd, CommandsSound, MayTake, GrantsSound, Refs, Cmds
    <2>3. GrantsSound'
      BY <1>9 DEF Restart, NoCmd, CommandsSound, MayTake, GrantsSound, Refs, Cmds
    <2> QED
      BY <2>1, <2>2, <2>3
  <1>10. CASE BeatRead(w)
    <2>1. LeaseExclusive'
      BY <1>10, ViewSound DEF BeatRead, NotRenewed, LeaseExclusive, CommandsSound, MayTake, GrantsSound, Refs, Cmds
    <2>2. CommandsSound' /\ GrantsSound'
      <3>1. CASE UNCHANGED beatCmd
        BY <1>10, <3>1 DEF BeatRead, NotRenewed, CommandsSound, MayTake, GrantsSound
      <3>2. CASE ~UNCHANGED beatCmd
        <4>1. PICK view \in Views(w) :
                /\ MayRenew(view)
                /\ beatCmd' = [beatCmd EXCEPT ![w] = [oid |-> view.oid, left |-> TTL]]
          BY <1>10, <3>2 DEF BeatRead, NotRenewed
        <4>2. MayTake(w, view.oid)
          BY <4>1, ViewSound
        <4>3. CommandsSound'
          BY <1>10, <4>1, <4>2 DEF BeatRead, NotRenewed, CommandsSound, MayTake, Cmds
        <4>4. GrantsSound'
          BY <1>10, <4>1 DEF BeatRead, NotRenewed, GrantsSound, Cmds
        <4> QED
          BY <4>3, <4>4
      <3> QED
        BY <3>1, <3>2
    <2>3. GrantsSound'
      BY <2>2
    <2> QED
      BY <2>1, <2>2, <2>3
  <1>11. CASE BeatWon(w)
    <2>1. LeaseExclusive'
      BY <1>11, FreshIsUnused DEF BeatWon, Written, Lease, CasOk, NoCmd, LeaseExclusive, CommandsSound, MayTake, GrantsSound, Refs, Cmds
    <2>2. CommandsSound'
      BY <1>11, FreshIsUnused DEF BeatWon, Written, Lease, CasOk, NoCmd, CommandsSound, MayTake, GrantsSound, Refs, Cmds
    <2>3. GrantsSound'
      BY <1>11, FreshIsUnused DEF BeatWon, Written, Lease, CasOk, NoCmd, CommandsSound, MayTake, GrantsSound, Refs, Cmds
    <2> QED
      BY <2>1, <2>2, <2>3
  <1>12. CASE BeatFailed(w)
    <2>1. LeaseExclusive'
      BY <1>12, FreshIsUnused DEF BeatFailed, NotRenewed, Written, Lease, CasOk, NoCmd, LeaseExclusive, CommandsSound, MayTake, GrantsSound, Refs, Cmds
    <2>2. CommandsSound'
      BY SMTT(30), <1>12, FreshIsUnused DEF BeatFailed, NotRenewed, Written, Lease, CasOk, NoCmd, CommandsSound, MayTake, GrantsSound, Refs, Cmds
    <2>3. GrantsSound'
      BY <1>12, FreshIsUnused DEF BeatFailed, NotRenewed, Written, Lease, CasOk, NoCmd, CommandsSound, MayTake, GrantsSound, Refs, Cmds
    <2> QED
      BY <2>1, <2>2, <2>3
  <1>13. CASE WatchLost(w)
    <2>1. LeaseExclusive'
      BY <1>13 DEF WatchLost, NoCmd, LeaseExclusive, CommandsSound, MayTake, GrantsSound, Refs, Cmds
    <2>2. CommandsSound'
      BY <1>13 DEF WatchLost, NoCmd, CommandsSound, MayTake, GrantsSound, Refs, Cmds
    <2>3. GrantsSound'
      BY <1>13 DEF WatchLost, NoCmd, CommandsSound, MayTake, GrantsSound, Refs, Cmds
    <2> QED
      BY <2>1, <2>2, <2>3
  <1> QED
    BY <1>1, <1>2, <1>3, <1>4, <1>5, <1>6, <1>7, <1>8, <1>9, <1>10, <1>11, <1>12, <1>13 DEF ClaimStep, BeatStep

LEMMA LeaseOrphan ==
    ASSUME LeaseInv, TypeOK', NEW c \in orphans, OrphanPush(c)
    PROVE  LeaseInv'
  <1> USE ClaimAssumption DEF LeaseInv, TypeOK, VarTypes, Orphans
  <1>1. CASE CasOk(c.oid) /\ c.verb = "write" /\ Written(c.worker, c)
    <2>1. LeaseExclusive'
      BY <1>1 DEF OrphanPush, LeaseExclusive, CommandsSound, MayTake, GrantsSound,
                  Written, Lease, CasOk, Refs
    <2>2. CommandsSound'
      BY <1>1, FreshIsUnused DEF OrphanPush, CommandsSound, MayTake, Written, Lease
    <2>3. GrantsSound'
      BY DEF OrphanPush, GrantsSound
    <2> QED
      BY <2>1, <2>2, <2>3
  <1>2. CASE CasOk(c.oid) /\ ref' = Absent
    <2>1. \A v \in Workers : granted[v] = 0
      BY <1>2, DeleteHurtsNobody DEF CasOk, CommandsSound, MayTake
    <2> QED
      BY <1>2, <2>1 DEF OrphanPush, LeaseExclusive, CommandsSound, MayTake, GrantsSound, Absent
  <1>3. CASE UNCHANGED ref
    BY <1>3 DEF OrphanPush, LeaseExclusive, CommandsSound, MayTake, GrantsSound
  <1> QED
    BY <1>1, <1>2, <1>3 DEF OrphanPush

LEMMA LeaseGc ==
    ASSUME LeaseInv, TypeOK', GcRead \/ GcPush
    PROVE  LeaseInv'
  <1> USE ClaimAssumption DEF LeaseInv, TypeOK, VarTypes, Orphans
  <1>1. CASE GcRead
    BY <1>1 DEF GcRead, MaySweep, LeaseExclusive, CommandsSound, MayTake, GrantsSound
  <1>2. CASE GcPush /\ UNCHANGED ref
    BY <1>2 DEF GcPush, LeaseExclusive, CommandsSound, MayTake, GrantsSound
  <1>3. CASE GcPush /\ CasOk(sweep) /\ ref' = Absent
    <2>1. \A v \in Workers : granted[v] = 0
      BY <1>3 DEF GcPush, CasOk, CommandsSound, LeaseExclusive, GrantsSound, Refs
    <2> QED
      BY <1>3, <2>1 DEF GcPush, LeaseExclusive, CommandsSound, MayTake, GrantsSound, Absent
  <1> QED
    BY <1>1, <1>2, <1>3 DEF GcPush

LEMMA LeaseTick ==
    ASSUME LeaseInv, TypeOK', Tick
    PROVE  LeaseInv'
  <1> USE ClaimAssumption DEF LeaseInv, TypeOK, VarTypes, Orphans
  <1>1. /\ \A t \in 0..TTL : Less(t) \in 0..TTL /\ Less(t) <= t
        /\ \A t, u \in 0..TTL : t <= u => Less(t) <= Less(u)
        /\ Less(0) = 0
    BY DEF Less
  <1>2. ref'.oid = ref.oid /\ ref'.owner = ref.owner /\ ref'.left = Less(ref.left)
    BY DEF Tick, Refs
  <1>3. \A w \in Workers : /\ mainCmd'[w].oid = mainCmd[w].oid
                          /\ beatCmd'[w].oid = beatCmd[w].oid
                          /\ beatCmd'[w].left = Less(beatCmd[w].left)
                          /\ granted'[w] = Less(granted[w])
    BY DEF Tick, Cmds
  <1>4. ASSUME NEW c \in orphans'
        PROVE  \E d \in orphans : c.oid = d.oid /\ c.worker = d.worker
    <2>1. PICK d \in orphans : c = [d EXCEPT !.left = Less(d.left)]
      BY DEF Tick
    <2>2. d \in Orphans
      OBVIOUS
    <2> QED
      BY <2>1, <2>2
  <1>5. ref.left \in 0..TTL /\ \A w \in Workers : granted[w] \in 0..TTL
    BY DEF Refs
  <1>6. LeaseExclusive'
    BY <1>1, <1>2, <1>3, <1>5 DEF Tick, LeaseExclusive
  <1>7. CommandsSound'
    <2>2. \A w \in Workers : MayTake(w, mainCmd[w].oid)' /\ MayTake(w, beatCmd[w].oid)'
      BY <1>1, <1>2, <1>3 DEF CommandsSound, MayTake
    <2>3. ASSUME NEW c \in orphans'
          PROVE  /\ (ref.oid = c.oid => ref.owner = c.worker \/ ref.left = 0)'
                 /\ (ref.oid = c.oid => granted[c.worker] = 0)'
      <3>1. PICK d \in orphans : c.oid = d.oid /\ c.worker = d.worker
        BY <1>4
      <3> QED
        BY <1>1, <1>2, <1>3, <3>1 DEF CommandsSound, MayTake
    <2>4. (sweep # NoOid /\ ref.oid = sweep => ref.left = 0)'
      BY <1>1, <1>2 DEF Tick, CommandsSound
    <2> QED
      BY <2>2, <2>3, <2>4 DEF CommandsSound, MayTake
  <1>8. GrantsSound'
    BY SMTT(30), <1>1, <1>3, <1>5 DEF Tick, GrantsSound, Cmds
  <1> QED
    BY <1>6, <1>7, <1>8

LEMMA LeaseStep == FetchFaults = FALSE /\ LeaseInv /\ [Next]_vars => LeaseInv'
  <1> SUFFICES ASSUME FetchFaults = FALSE, LeaseInv, [Next]_vars
               PROVE  LeaseInv'
    OBVIOUS
  <1>1. TypeOK'
    BY TypeStep DEF LeaseInv
  <1>2. CASE UNCHANGED vars
    BY <1>1, <1>2 DEF vars, LeaseInv, LeaseExclusive, CommandsSound, MayTake, GrantsSound
  <1>3. CASE Next
    BY <1>1, <1>3, LeaseRound, LeaseOrphan, LeaseGc, LeaseTick DEF Next
  <1> QED
    BY <1>2, <1>3

\* While every lease can be fetched, a round that holds the claim has the ref for
\* as long as the last accepted lease write lasts.  (claim.sh cmd_acquire, push_cas)
THEOREM LeaseSafe == FetchFaults = FALSE => (Spec => []LeaseExclusive)
  <1> SUFFICES ASSUME FetchFaults = FALSE
               PROVE  Spec => []LeaseExclusive
    OBVIOUS
  <1>1. LeaseInv /\ [Next]_vars => LeaseInv'
    BY LeaseStep
  <1>2. LeaseInv => LeaseExclusive
    BY DEF LeaseInv
  <1> QED
    BY LeaseInit, <1>1, <1>2, PTL DEF Spec

\* While every lease can be fetched, no command in flight, left over or delayed
\* can take a lease that is somebody else's and still live.  (claim.sh push_cas)
THEOREM InFlightSafe == FetchFaults = FALSE => (Spec => []CommandsSound)
  <1> SUFFICES ASSUME FetchFaults = FALSE
               PROVE  Spec => []CommandsSound
    OBVIOUS
  <1>1. LeaseInv /\ [Next]_vars => LeaseInv'
    BY LeaseStep
  <1>2. LeaseInv => CommandsSound
    BY DEF LeaseInv
  <1> QED
    BY LeaseInit, <1>1, <1>2, PTL DEF Spec

------------------------------------------------------------------------------
(* The ref implements the lease register *)

LEMMA RegisterInit == Init => Register!Init
  BY DEF Init, Absent, Register!Init

\* A push that may take the ref is a grant of the register.
LEMMA WriteIsGrant ==
    ASSUME TypeOK, NEW w \in Workers, NEW cmd, cmd.left \in 0..TTL,
           MayTake(w, cmd.oid), CasOk(cmd.oid), Written(w, cmd)
    PROVE  Register!Grant(w)
  BY DEF MayTake, CasOk, Written, Lease, Register!Grant

\* A delete that may take the ref frees the register, or finds it free.
LEMMA DeleteIsFree ==
    ASSUME TypeOK, NEW w \in Workers, MayTake(w, ref.oid), ref' = Absent
    PROVE  Register!Free(w) \/ UNCHANGED Register!vars
  BY DEF MayTake, TypeOK, VarTypes, Refs, Absent, Register!Free, Register!vars

LEMMA RegisterStep ==
    FetchFaults = FALSE /\ LeaseInv /\ [Next]_vars => [Register!Next]_(Register!vars)
  <1> SUFFICES ASSUME FetchFaults = FALSE, LeaseInv, [Next]_vars
               PROVE  Register!Next \/ UNCHANGED Register!vars
    BY DEF Register!vars
  <1> USE DEF LeaseInv
  <1>1. CASE UNCHANGED ref
    BY <1>1 DEF Register!vars
  <1>2. CASE Tick
    BY <1>2 DEF Tick, Less, Register!Next, Register!Tick, TypeOK, VarTypes, Refs
  <1>3. CASE GcPush /\ ref' = Absent /\ CasOk(sweep)
    <2>1. ref.owner = NoWorker \/ (ref.owner \in Workers /\ ref.left = 0)
      BY <1>3 DEF GcPush, CasOk, CommandsSound, TypeOK, VarTypes, Refs
    <2>2. CASE ref.owner = NoWorker
      BY <1>3, <2>2 DEF TypeOK, VarTypes, Register!vars
    <2>3. CASE ref.owner \in Workers /\ ref.left = 0
      BY <1>3, <2>3, DeleteIsFree DEF MayTake, Register!Next
    <2> QED
      BY <2>1, <2>2, <2>3
  <1>4. ASSUME NEW c \in orphans, OrphanPush(c), ref' # ref
        PROVE  Register!Next \/ UNCHANGED Register!vars
    <2>1. c.worker \in Workers /\ c.left \in 0..TTL /\ MayTake(c.worker, c.oid) /\ CasOk(c.oid)
      BY <1>4 DEF OrphanPush, CommandsSound, TypeOK, VarTypes, Orphans
    <2>2. CASE Written(c.worker, c)
      BY <2>1, <2>2, WriteIsGrant DEF Register!Next
    <2>3. CASE ref' = Absent
      BY <2>1, <2>3, DeleteIsFree DEF CasOk, Register!Next
    <2> QED
      BY <1>4, <2>2, <2>3 DEF OrphanPush
  <1>5. ASSUME NEW w \in Workers, ref' # ref,
               AcquireWon(w) \/ AcquireError(w) \/ BeatWon(w) \/ BeatFailed(w)
        PROVE  Register!Next
    <2>1. \/ CasOk(mainCmd[w].oid) /\ Written(w, mainCmd[w])
          \/ CasOk(beatCmd[w].oid) /\ Written(w, beatCmd[w])
      BY <1>5 DEF AcquireWon, AcquireError, BeatWon, BeatFailed, NotRenewed
    <2>2. /\ mainCmd[w].left \in 0..TTL /\ MayTake(w, mainCmd[w].oid)
          /\ beatCmd[w].left \in 0..TTL /\ MayTake(w, beatCmd[w].oid)
      BY DEF CommandsSound, TypeOK, VarTypes, Cmds
    <2>3. Register!Grant(w)
      BY <2>1, <2>2, WriteIsGrant
    <2> QED
      BY <2>3 DEF Register!Next
  <1>6. ASSUME NEW w \in Workers, ref' # ref, ReleasePush(w)
        PROVE  Register!Next \/ UNCHANGED Register!vars
    BY <1>6, DeleteIsFree DEF ReleasePush, CasOk, CommandsSound, Register!Next
  <1> QED
    BY <1>1, <1>2, <1>3, <1>4, <1>5, <1>6
       DEF Next, ClaimStep, BeatStep, AcquireRead, AcquireStale, ReleaseRead, FinishWork,
           Crash, Restart, BeatRead, WatchLost, GcRead, GcPush, vars

\* While every lease can be fetched, the claim ref is a lease register: no live
\* lease changes hands but by its owner's own release.  (claim.sh)
THEOREM RegisterRefined == FetchFaults = FALSE => (Spec => RefinesRegister)
  <1> SUFFICES ASSUME FetchFaults = FALSE
               PROVE  Spec => Register!Spec
    BY DEF RefinesRegister
  <1>1. LeaseInv /\ [Next]_vars => LeaseInv'
    BY LeaseStep
  <1>2. LeaseInv /\ [Next]_vars => [Register!Next]_(Register!vars)
    BY RegisterStep
  <1> QED
    BY LeaseInit, RegisterInit, <1>1, <1>2, PTL DEF Spec, Register!Spec

------------------------------------------------------------------------------
(* The pass goes on with the oldest intent.  (github_outbox.drain)            *)

LEMMA OldestIsThere ==
    ASSUME NEW todo \in SUBSET Intents, todo # {}
    PROVE  LET i == CHOOSE i \in todo : \A j \in todo : i <= j
           IN  i \in todo /\ \A j \in todo : i <= j
  <1>1. todo \subseteq Nat
    BY OutboxAssumption
  <1>2. PICK f \in todo : \A g \in todo : ~(<<g, f>> \in OpToRel(<, Nat))
    BY <1>1, WFMin, NatLessThanWellFounded, Zenon
  <1>3. ASSUME NEW g \in todo
        PROVE  f <= g
    <2>1. f \in Nat /\ g \in Nat
      BY <1>1
    <2>2. ~(g < f)
      BY <1>2, <2>1 DEF OpToRel
    <2> QED
      BY <2>1, <2>2
  <1> QED
    BY <1>3

LEMMA GoOnDrain ==
    ASSUME NEW todo \in SUBSET Mine, NEW blocked \in SUBSET {Target[i] : i \in Intents},
           NEW raised \in SUBSET Mine, drain' = GoOn(todo, blocked, raised)
    PROVE  /\ drain' \in Drains /\ drain'.step \in {"off", "look"}
           /\ drain'.step = "off" => todo = {} /\ drain' = NoDrain
           /\ drain'.step = "look" => /\ drain'.todo = todo /\ drain'.blocked = blocked /\ drain'.raised = raised
                                      /\ drain'.at \in todo /\ \A j \in todo : drain'.at <= j
  <1>1. CASE todo = {}
    BY <1>1 DEF GoOn, NoDrain, Drains
  <1>2. CASE todo # {}
    <2> DEFINE first == CHOOSE i \in todo : \A j \in todo : i <= j
    <2>1. first \in todo /\ \A j \in todo : first <= j
      BY <1>2, OldestIsThere, OutboxAssumption
    <2>2. drain' = [step |-> "look", at |-> first, todo |-> todo, blocked |-> blocked, raised |-> raised, moved |-> FALSE]
      BY <1>2 DEF GoOn
    <2> HIDE DEF first
    <2> QED
      BY <1>2, <2>1, <2>2, OutboxAssumption DEF Drains
  <1> QED
    BY <1>1, <1>2

------------------------------------------------------------------------------
(* The actions in groups: who makes a publication, GitHub and time, the pass,  *)
(* the operator.                                                               *)

CallerActs(i) ==
    Prepare(i) \/ Repeat(i) \/ Refuse(i) \/ Blocked(i) \/ Send(i) \/ Answered(i) \/ AnswerLost(i) \/ CallerDies(i)
GithubActs(i) == Serve(i) \/ Arrives(i)
OperatorActs(i) == Abandon(i) \/ ForceRetry(i)
WorldActs == PullRequestMoves \/ Later
PassMoves == DrainStart \/ Skip \/ DrainDies

LEMMA NextInGroups ==
    ASSUME [OutboxNext]_outboxvars
    PROVE  \/ \E i \in Intents : CallerActs(i) \/ GithubActs(i) \/ OperatorActs(i) \/ DrainStep(i)
           \/ WorldActs \/ PassMoves \/ UNCHANGED outboxvars
  BY DEF OutboxNext, CallerStep, CallerActs, GithubActs, OperatorActs, WorldActs, PassMoves

------------------------------------------------------------------------------
(* What ends an attempt.  (github_outbox._finish_locked)                       *)

LEMMA ClassifiedAs ==
    ASSUME NEW i \in Intents, NEW reply
    PROVE  /\ Classified(i, reply) \in {"published", "failed", "rejected", "ambiguous"}
           /\ Classified(i, reply) = "published" => reply = "ok"
           /\ Classified(i, reply) = "rejected" <=> reply \in {"rejected", "blocked"}
           /\ Uncertain(reply) = "rejected" <=> reply \in {"rejected", "blocked"}
  BY DEF Classified, Uncertain

LEMMA Finished ==
    ASSUME IntentTypes, NEW i \in Intents, NEW reply, Finish(i, reply)
    PROVE  /\ IntentTypes'
           /\ status' = [status EXCEPT ![i] = Classified(i, reply)]
           /\ \A j \in Intents : j # i => fork'[j] = fork[j]
           /\ fork'[i].retries = IF reply \in {"rejected", "blocked"} THEN 0 ELSE fork[i].retries
  <1> DEFINE n == IF Uncertain(reply) = "rejected" THEN 0 ELSE fork[i].retries
             f == [fork[i] EXCEPT !.fresh = TRUE, !.retries = n]
  <1>1. fork[i] \in Forks /\ n \in 0..1
    BY DEF IntentTypes, Forks
  <1> HIDE DEF n
  <1>2. f \in Forks /\ f.retries = n
    BY <1>1 DEF Forks
  <1>3. fork' = [fork EXCEPT ![i] = f]
    BY DEF Finish, n
  <1> HIDE DEF f
  <1>4. fork' \in [Intents -> Forks] /\ fork'[i] = f /\ \A j \in Intents : j # i => fork'[j] = fork[j]
    BY <1>2, <1>3 DEF IntentTypes
  <1>5. status' = [status EXCEPT ![i] = Classified(i, reply)] /\ status' \in [Intents -> Statuses]
    BY ClassifiedAs DEF Finish, IntentTypes, Statuses
  <1>6. wait' \in [Intents -> BOOLEAN]
    <2>1. \E b \in BOOLEAN : wait' = [wait EXCEPT ![i] = b]
      BY DEF Finish, IntentTypes
    <2> QED
      BY <2>1 DEF IntentTypes
  <1> QED
    BY <1>2, <1>4, <1>5, <1>6, ClassifiedAs DEF IntentTypes, n

------------------------------------------------------------------------------
(* Type correctness.  A refused replay is not counted, so a request of the     *)
(* pass that is pending must have been.                                        *)

Counted == \A i \in Intents : Resending(i) /\ answer[i] = "pending" => history.replays[i] > 0

Typed == OutboxTypeOK /\ Counted

LEMMA TypedInit == OutboxInit => Typed
  <1> SUFFICES ASSUME OutboxInit
               PROVE  Typed
    OBVIOUS
  <1>1. IntentTypes /\ GithubTypes
    BY DEF OutboxInit, IntentTypes, GithubTypes, Statuses, Forks
  <1>2. drain \in Drains /\ history \in [late : SUBSET Intents, forced : SUBSET Intents, replays : [Intents -> Nat]]
    BY DEF OutboxInit, NoDrain, Drains
  <1>3. Types
    BY <1>1, <1>2, OutboxAssumption DEF OutboxInit, Types
  <1> QED
    BY <1>3 DEF OutboxInit, Typed, OutboxTypeOK, Counted, Waiting, Resending, NoDrain

\* The age of an intent and an absence are noted; its retries stay.
LEMMA ForkNoted ==
    ASSUME fork \in [Intents -> Forks], NEW i \in Intents,
           fork' = [fork EXCEPT ![i].fresh = TRUE] \/ fork' = [fork EXCEPT ![i].absent = "recent"]
    PROVE  fork' \in [Intents -> Forks] /\ \A j \in Intents : fork'[j].retries = fork[j].retries
  <1> DEFINE a == [fork[i] EXCEPT !.fresh = TRUE]
             b == [fork[i] EXCEPT !.absent = "recent"]
  <1>1. a \in Forks /\ a.retries = fork[i].retries
    BY DEF Forks
  <1>2. b \in Forks /\ b.retries = fork[i].retries
    BY DEF Forks
  <1>3. fork' = [fork EXCEPT ![i] = a] \/ fork' = [fork EXCEPT ![i] = b]
    OBVIOUS
  <1> HIDE DEF a, b
  <1> QED
    BY <1>1, <1>2, <1>3

\* A fork's only replay is spent before its request.
LEMMA ForkSpent ==
    ASSUME fork \in [Intents -> Forks], NEW i \in Intents, fork' = Spends(i)
    PROVE  /\ fork' \in [Intents -> Forks]
           /\ \A j \in Intents : fork'[j].retries = IF j = i /\ Kind[i] = "fork" THEN 1 ELSE fork[j].retries
  <1> DEFINE b == [fork[i] EXCEPT !.retries = 1]
  <1>1. b \in Forks /\ b.retries = 1
    BY DEF Forks
  <1>2. fork' = IF Kind[i] = "fork" THEN [fork EXCEPT ![i] = b] ELSE fork
    BY DEF Spends
  <1> HIDE DEF b
  <1> QED
    BY <1>1, <1>2

\* Time passes by a fork.
LEMMA ForkAges ==
    ASSUME fork \in [Intents -> Forks], Later
    PROVE  fork' \in [Intents -> Forks] /\ \A j \in Intents : fork'[j].retries = fork[j].retries
  <1> DEFINE a(i) == IF fork[i].absent = "recent" THEN "old" ELSE fork[i].absent
             f(i) == [fork[i] EXCEPT !.fresh = FALSE, !.absent = a(i)]
  <1>1. \A i \in Intents : a(i) \in {"no", "recent", "old"}
    BY DEF Forks
  <1>2. \A i \in Intents : f(i) \in Forks /\ f(i).retries = fork[i].retries
    <2> HIDE DEF a
    <2> QED
      BY <1>1 DEF Forks
  <1>3. fork' = [i \in Intents |-> f(i)] \/ fork' = fork
    BY DEF Later
  <1> HIDE DEF f
  <1> QED
    BY <1>2, <1>3

\* The types, of the variables that each group writes.
LEMMA TypesCaller ==
    ASSUME Types, NEW i \in Intents, CallerActs(i)
    PROVE  Types'
  <1> USE DEF Types
  <1>1. IntentTypes'
    <2>1. CASE Prepare(i)
      <3>1. status' \in [Intents -> Statuses] /\ UNCHANGED wait
        BY <2>1 DEF Prepare, IntentTypes, Statuses
      <3>2. fork' \in [Intents -> Forks]
        BY <2>1, ForkNoted DEF Prepare, IntentTypes
      <3> QED
        BY <3>1, <3>2 DEF IntentTypes
    <2>2. CASE Send(i)
      <3>1. status' \in [Intents -> Statuses] /\ UNCHANGED wait
        BY <2>2 DEF Send, IntentTypes, Statuses
      <3>2. fork' \in [Intents -> Forks]
        BY <2>2, ForkNoted DEF Send, IntentTypes
      <3> QED
        BY <3>1, <3>2 DEF IntentTypes
    <2>3. CASE Blocked(i) \/ Answered(i) \/ AnswerLost(i)
      BY <2>3, Finished DEF Blocked, Answered, AnswerLost
    <2>4. CASE Repeat(i) \/ Refuse(i) \/ CallerDies(i)
      BY <2>4 DEF Repeat, Refuse, CallerDies, IntentTypes
    <2> QED
      BY <2>1, <2>2, <2>3, <2>4 DEF CallerActs
  <1>2. GithubTypes'
    BY DEF CallerActs, Prepare, Repeat, Refuse, Blocked, Send, Answered, AnswerLost, CallerDies, Request, GivesUp,
           Leaves, github, GithubTypes
  <1>3. caller' \in [Intents -> {"none", "ready", "waiting"}]
    BY DEF CallerActs, Prepare, Repeat, Refuse, Blocked, Send, Answered, AnswerLost, CallerDies, Moves
  <1>4. faults' \in 0..MaxFaults /\ UNCHANGED <<drain, history>>
    BY OutboxAssumption DEF CallerActs, Prepare, Repeat, Refuse, Blocked, Send, Answered, AnswerLost, CallerDies,
           GivesUp, Fault
  <1> QED
    BY <1>1, <1>2, <1>3, <1>4

LEMMA TypesGithub ==
    ASSUME Types, NEW i \in Intents, Resending(i) /\ answer[i] = "pending" => history.replays[i] > 0, GithubActs(i)
    PROVE  Types'
  <1> USE DEF Types
  <1>1. IntentTypes' /\ UNCHANGED <<caller, drain>>
    BY DEF GithubActs, Serve, Arrives, IntentTypes
  <1>2. GithubTypes'
    <2> USE DEF GithubActs, Serve, Arrives, Applies, GithubTypes
    <2>1. answer' \in [Intents -> {"none", "pending", "lost", "ok", "rejected", "denied", "partial"}]
      OBVIOUS
    <2>2. wire' \in [Intents -> Nat]
      OBVIOUS
    <2>3. applied' \in [Intents -> Nat]
      OBVIOUS
    <2>4. body' \in Intents \cup {0}
      OBVIOUS
    <2>5. pr' \in [closed : BOOLEAN, moved : BOOLEAN]
      OBVIOUS
    <2> QED
      BY <2>1, <2>2, <2>3, <2>4, <2>5
  <1>3. faults' \in 0..MaxFaults
    BY OutboxAssumption DEF GithubActs, Serve, Arrives, Fault
  <1>4. history' \in [late : SUBSET Intents, forced : SUBSET Intents, replays : [Intents -> Nat]]
    BY DEF GithubActs, Serve, Arrives
  <1> QED
    BY <1>1, <1>2, <1>3, <1>4

LEMMA TypesOperator ==
    ASSUME Types, NEW i \in Intents, OperatorActs(i)
    PROVE  Types'
  <1> USE DEF Types
  <1>1. IntentTypes'
    BY DEF OperatorActs, Abandon, ForceRetry, IntentTypes, Statuses
  <1>2. GithubTypes' /\ UNCHANGED <<caller, drain>>
    BY DEF OperatorActs, Abandon, ForceRetry, github, GithubTypes
  <1>3. faults' \in 0..MaxFaults
    BY OutboxAssumption DEF OperatorActs, Abandon, ForceRetry, Fault
  <1>4. history' \in [late : SUBSET Intents, forced : SUBSET Intents, replays : [Intents -> Nat]]
    BY DEF OperatorActs, Abandon, ForceRetry
  <1> QED
    BY <1>1, <1>2, <1>3, <1>4

LEMMA TypesWorld ==
    ASSUME Types, WorldActs \/ UNCHANGED outboxvars
    PROVE  Types'
  <1> USE DEF Types
  <1>1. IntentTypes'
    <2>1. wait' \in [Intents -> BOOLEAN] /\ UNCHANGED status
      BY DEF WorldActs, PullRequestMoves, Later, outboxvars, IntentTypes
    <2>2. fork' \in [Intents -> Forks]
      BY ForkAges DEF WorldActs, PullRequestMoves, outboxvars, IntentTypes
    <2> QED
      BY <2>1, <2>2 DEF IntentTypes
  <1>2. GithubTypes'
    BY DEF WorldActs, PullRequestMoves, Later, outboxvars, github, GithubTypes
  <1>3. UNCHANGED <<caller, drain, faults, history>>
    BY DEF WorldActs, PullRequestMoves, Later, outboxvars
  <1> QED
    BY <1>1, <1>2, <1>3

\* The pass goes on, and holds back the later publications to a target or not.
LEMMA PassGoesOn ==
    ASSUME Types, drain.at \in Mine, Continue \/ ContinueBehind \/ drain' = GoOn(Rest, drain.blocked, drain.raised \cup {drain.at})
    PROVE  drain' \in Drains
  <1>1. Rest \in SUBSET Mine /\ drain.blocked \in SUBSET {Target[i] : i \in Intents} /\ drain.raised \in SUBSET Mine
    BY DEF Rest, Types, Drains
  <1>2. drain.blocked \cup {Target[drain.at]} \in SUBSET {Target[i] : i \in Intents}
    BY <1>1, OutboxAssumption
  <1>3. drain.raised \cup {drain.at} \in SUBSET Mine
    BY <1>1
  <1>4. ASSUME NEW blocked \in SUBSET {Target[i] : i \in Intents}, NEW raised \in SUBSET Mine,
               drain' = GoOn(Rest, blocked, raised)
        PROVE  drain' \in Drains
    BY <1>1, <1>4, GoOnDrain, Zenon
  <1> QED
    BY <1>1, <1>2, <1>3, <1>4 DEF Continue, ContinueBehind

LEMMA TypesPass ==
    ASSUME Types, drain.step # "off" => drain.at \in drain.todo, PassMoves
    PROVE  Types'
  <1> USE DEF Types
  <1>1. IntentTypes' /\ UNCHANGED <<caller, history>>
    BY DEF PassMoves, DrainStart, Skip, DrainDies, At, IntentTypes
  <1>2. GithubTypes'
    BY OutboxAssumption DEF PassMoves, DrainStart, Skip, DrainDies, At, Leaves, github, GithubTypes, Drains
  <1>3. drain' \in Drains
    <2>1. CASE DrainStart
      <3>1. drain' = GoOn({i \in Mine : Retained(i)}, {}, {})
        BY <2>1 DEF DrainStart
      <3>2. /\ {i \in Mine : Retained(i)} \in SUBSET Mine
            /\ {} \in SUBSET {Target[i] : i \in Intents} /\ {} \in SUBSET Mine
        OBVIOUS
      <3> QED
        BY <3>1, <3>2, GoOnDrain, Zenon
    <2>2. CASE Skip
      <3>1. drain.at \in Mine
        BY <2>2 DEF Skip, At, Drains
      <3> QED
        BY <2>2, <3>1, PassGoesOn DEF Skip
    <2>3. CASE DrainDies
      BY <2>3 DEF DrainDies, NoDrain, Drains
    <2> QED
      BY <2>1, <2>2, <2>3 DEF PassMoves
  <1>4. faults' \in 0..MaxFaults
    BY OutboxAssumption DEF PassMoves, DrainStart, Skip, DrainDies, Fault
  <1> QED
    BY <1>1, <1>2, <1>3, <1>4

LEMMA TypesDrain ==
    ASSUME Types, NEW i \in Intents, drain.step # "off" => drain.at \in drain.todo, DrainStep(i)
    PROVE  Types'
  <1> USE DEF Types
  <1>0. i = drain.at /\ i \in Mine /\ UNCHANGED caller
    BY DEF DrainStep, Settle, Keep, Allow, Resend, ResendRaises, ResendAnswered, ResendLost, ResendFinished, Looks,
           At, Drains
  <1>1. IntentTypes'
    <2>1. CASE Settle(i) \/ Allow(i)
      BY <2>1 DEF Settle, Allow, IntentTypes, Statuses
    <2>2. CASE Keep(i)
      <3>1. UNCHANGED status /\ wait' \in [Intents -> BOOLEAN]
        BY <2>2 DEF Keep, IntentTypes
      <3>2. fork' \in [Intents -> Forks]
        BY <2>2, ForkNoted DEF Keep, IntentTypes
      <3> QED
        BY <3>1, <3>2 DEF IntentTypes
    <2>3. CASE Resend(i) \/ ResendRaises(i)
      BY <2>3, ForkSpent DEF Resend, ResendRaises, IntentTypes, Statuses
    <2>4. CASE ResendAnswered(i) \/ ResendLost(i)
      BY <2>4, Finished DEF ResendAnswered, ResendLost, ResendFinished
    <2> QED
      BY <2>1, <2>2, <2>3, <2>4 DEF DrainStep
  <1>2. GithubTypes'
    BY DEF DrainStep, Settle, Keep, Allow, Resend, ResendRaises, ResendAnswered, ResendLost, ResendFinished, Looks,
           At, Request, GivesUp, Leaves, GithubTypes
  <1>3. drain' \in Drains
    <2>1. CASE Allow(i) \/ Resend(i)
      BY ZenonT(60), <2>1 DEF Allow, Resend, GithubTypes, Drains
    <2>2. CASE ~Allow(i) /\ ~Resend(i)
      <3>1. Continue \/ ContinueBehind \/ drain' = GoOn(Rest, drain.blocked, drain.raised \cup {drain.at})
        BY <1>0, <2>2 DEF DrainStep, Settle, Keep, ResendRaises, ResendAnswered, ResendLost, ResendFinished, Continue
      <3> QED
        BY <1>0, <3>1, PassGoesOn
    <2> QED
      BY <2>1, <2>2
  <1>4. faults' \in 0..MaxFaults
    BY OutboxAssumption DEF DrainStep, Settle, Keep, Allow, Resend, ResendRaises, ResendAnswered, ResendLost, GivesUp, Fault
  <1>5. history' \in [late : SUBSET Intents, forced : SUBSET Intents, replays : [Intents -> Nat]]
    BY DEF DrainStep, Settle, Keep, Allow, Resend, ResendRaises, ResendAnswered, ResendLost, ResendFinished
  <1> QED
    BY <1>0, <1>1, <1>2, <1>3, <1>4, <1>5

\* Where the pass is after a step of its own.
LEMMA PassAt ==
    ASSUME OutboxTypeOK, NEW i \in Intents, DrainStep(i)
    PROVE  /\ i = drain.at /\ i \in drain.todo /\ i \in Mine /\ UNCHANGED caller
           /\ \/ drain.step = "look" /\ Allow(i) /\ drain' = [drain EXCEPT !.step = "send", !.moved = pr.moved]
              \/ drain.step = "send" /\ Resend(i) /\ drain' = [drain EXCEPT !.step = "answer"]
              \/ /\ ~Allow(i) /\ ~Resend(i)
                 /\ Continue \/ ContinueBehind \/ drain' = GoOn(Rest, drain.blocked, drain.raised \cup {i})
                 /\ drain' \in Drains /\ drain'.step \in {"off", "look"}
                 /\ drain'.step = "look" => drain'.at \in drain'.todo
  <1>1. i = drain.at /\ UNCHANGED caller /\ drain.step # "off"
    BY DEF DrainStep, Settle, Keep, Allow, Resend, ResendRaises, ResendAnswered, ResendLost, ResendFinished, Looks, At
  <1>2. i \in drain.todo /\ i \in Mine
    BY <1>1 DEF OutboxTypeOK, Types, Drains
  <1>3. CASE ~Allow(i) /\ ~Resend(i)
    <2>1. Continue \/ ContinueBehind \/ drain' = GoOn(Rest, drain.blocked, drain.raised \cup {i})
      BY <1>3 DEF DrainStep, Settle, Keep, ResendRaises, ResendAnswered, ResendLost, ResendFinished, Continue
    <2>2. /\ Rest \in SUBSET Mine /\ drain.blocked \in SUBSET {Target[j] : j \in Intents}
          /\ drain.raised \in SUBSET Mine /\ drain.raised \cup {i} \in SUBSET Mine
          /\ drain.blocked \cup {Target[drain.at]} \in SUBSET {Target[j] : j \in Intents}
      BY <1>1, <1>2, OutboxAssumption DEF Rest, OutboxTypeOK, Types, Drains
    <2>3. ASSUME NEW blocked \in SUBSET {Target[j] : j \in Intents}, NEW raised \in SUBSET Mine,
                 drain' = GoOn(Rest, blocked, raised)
          PROVE  /\ drain' \in Drains /\ drain'.step \in {"off", "look"}
                 /\ drain'.step = "look" => drain'.at \in drain'.todo
      BY <2>2, <2>3, GoOnDrain, Zenon
    <2>4. /\ drain' \in Drains /\ drain'.step \in {"off", "look"}
          /\ drain'.step = "look" => drain'.at \in drain'.todo
      BY <2>1, <2>2, <2>3 DEF Continue, ContinueBehind
    <2> QED
      BY <1>1, <1>2, <1>3, <2>1, <2>4
  <1>4. CASE Allow(i) \/ Resend(i)
    BY <1>1, <1>2, <1>4 DEF Allow, Resend, Looks, At
  <1> QED
    BY <1>3, <1>4

\* Who is doing what, as OutboxTypeOK has it.
Roles ==
    /\ \A i \in Intents :
        /\ Waiting(i) => status[i] = "sending"
        /\ answer[i] # "none" <=> Waiting(i)
        /\ caller[i] # "none" /\ i \in Mine => drain.step = "off"
        /\ Kind[i] # "fork" => fork[i].retries = 0
    /\ drain.step # "off" => drain.at \in drain.todo

LEMMA RolesCaller ==
    ASSUME Typed, NEW i \in Intents, CallerActs(i)
    PROVE  Roles' /\ Counted'
  <1> USE DEF Typed, OutboxTypeOK, Types
  <1>0. UNCHANGED <<drain, history>> /\ \A j \in Intents : Resending(j)' = Resending(j)
    BY DEF CallerActs, Prepare, Repeat, Refuse, Blocked, Send, Answered, AnswerLost, CallerDies, Resending
  <1>1. /\ \A j \in Intents : j # i => answer'[j] = answer[j] /\ caller'[j] = caller[j]
        /\ \A j \in Intents : j # i /\ status[j] = "sending" => status'[j] = "sending"
    <2>1. \A j \in Intents : j # i => answer'[j] = answer[j] /\ caller'[j] = caller[j]
      BY DEF CallerActs, Prepare, Repeat, Refuse, Blocked, Send, Answered, AnswerLost, CallerDies, Moves, Request,
             GivesUp, Leaves, github, GithubTypes
    <2>2. \A j \in Intents : j # i /\ status[j] = "sending" => status'[j] = "sending"
      BY DEF CallerActs, Prepare, Repeat, Refuse, Blocked, Send, Answered, AnswerLost, CallerDies, Finish, MaySend,
             IntentTypes
    <2> QED
      BY <2>1, <2>2
  <1>2. caller[i] # "none" => ~Resending(i)
    BY DEF Resending, Drains
  <1>3. /\ Waiting(i)' => status'[i] = "sending"
        /\ answer'[i] # "none" <=> Waiting(i)'
        /\ answer'[i] = "pending" /\ Resending(i) => answer[i] = "pending"
    <2> USE DEF Waiting
    <2>1. CASE Prepare(i) \/ Repeat(i) \/ Refuse(i) \/ Blocked(i)
      BY <1>0, <1>2, <2>1 DEF Prepare, Repeat, Refuse, Blocked, Moves, github, Finish, MaySend, Retained, IntentTypes
    <2>2. CASE Send(i)
      BY <1>0, <1>2, <2>2 DEF Send, Moves, Request, GithubTypes, IntentTypes
    <2>3. CASE Answered(i) \/ AnswerLost(i)
      BY <1>0, <1>2, <2>3 DEF Answered, AnswerLost, Moves, GivesUp, Leaves, GithubTypes
    <2>4. CASE CallerDies(i)
      BY <1>0, <1>2, <2>4 DEF CallerDies, Leaves, GithubTypes
    <2> QED
      BY <2>1, <2>2, <2>3, <2>4 DEF CallerActs
  <1>4. caller'[i] # "none" /\ i \in Mine => drain.step = "off"
    BY DEF CallerActs, Prepare, Repeat, Refuse, Blocked, Send, Answered, AnswerLost, CallerDies, Moves, CallerFree
  <1>5. \A j \in Intents : Kind[j] # "fork" => fork'[j].retries = 0
    <2>1. CASE Prepare(i) \/ Send(i)
      BY <2>1, ForkNoted DEF Prepare, Send, IntentTypes
    <2>2. CASE Blocked(i) \/ Answered(i) \/ AnswerLost(i)
      BY <2>2, Finished DEF Blocked, Answered, AnswerLost
    <2>3. CASE Repeat(i) \/ Refuse(i) \/ CallerDies(i)
      BY <2>3 DEF Repeat, Refuse, CallerDies
    <2> QED
      BY <2>1, <2>2, <2>3 DEF CallerActs
  <1> QED
    BY <1>0, <1>1, <1>3, <1>4, <1>5 DEF Roles, Counted, Waiting

LEMMA RolesGithub ==
    ASSUME Typed, (\E i \in Intents : GithubActs(i) \/ OperatorActs(i)) \/ WorldActs \/ UNCHANGED outboxvars
    PROVE  Roles' /\ Counted'
  <1> USE DEF Typed, OutboxTypeOK, Types
  <1>0. /\ UNCHANGED <<drain, caller>>
        /\ \A j \in Intents : Resending(j)' = Resending(j) /\ Waiting(j)' = Waiting(j)
    BY DEF GithubActs, Serve, Arrives, OperatorActs, Abandon, ForceRetry, WorldActs, PullRequestMoves, Later, outboxvars,
           Resending, Waiting
  <1>1. \A j \in Intents : Waiting(j) => status'[j] = "sending"
    <2>1. ASSUME NEW i \in Intents, OperatorActs(i)
          PROVE  \A j \in Intents : Waiting(j) => status'[j] = status[j]
      BY <2>1 DEF OperatorActs, Abandon, ForceRetry, Resending, Waiting, Locked, IntentTypes
    <2>2. UNCHANGED status \/ \E i \in Intents : OperatorActs(i)
      BY DEF GithubActs, Serve, Arrives, WorldActs, PullRequestMoves, Later, outboxvars
    <2> QED
      BY <2>1, <2>2
  <1>2. \A j \in Intents : /\ answer'[j] # "none" <=> answer[j] # "none"
                           /\ answer'[j] = "pending" => answer[j] = "pending"
    BY ZenonT(60) DEF GithubActs, Serve, Arrives, OperatorActs, Abandon, ForceRetry, WorldActs, PullRequestMoves, Later, outboxvars,
           github, GithubTypes
  <1>3. \A j \in Intents : answer'[j] = "pending" => history'.replays[j] = history.replays[j]
    <2>1. ASSUME NEW i \in Intents, Serve(i)
          PROVE  /\ answer'[i] # "pending"
                 /\ \A j \in Intents : j # i => history'.replays[j] = history.replays[j]
      BY <2>1 DEF Serve, GithubTypes
    <2>2. history'.replays = history.replays \/ \E i \in Intents : Serve(i)
      BY DEF GithubActs, Arrives, OperatorActs, Abandon, ForceRetry, WorldActs, PullRequestMoves, Later, outboxvars
    <2> QED
      BY <2>1, <2>2
  <1>4. \A j \in Intents : fork'[j].retries = fork[j].retries
    BY ForkAges DEF GithubActs, Serve, Arrives, OperatorActs, Abandon, ForceRetry, WorldActs, PullRequestMoves, outboxvars,
           IntentTypes
  <1> QED
    BY <1>0, <1>1, <1>2, <1>3, <1>4 DEF Roles, Counted

LEMMA RolesPass ==
    ASSUME Typed, PassMoves
    PROVE  Roles' /\ Counted'
  <1> USE DEF Typed, OutboxTypeOK, Types
  <1>1. drain'.step \in {"off", "look"} /\ (drain'.step = "look" => drain'.at \in drain'.todo)
    <2>1. ASSUME NEW todo \in SUBSET Mine, NEW blocked \in SUBSET {Target[i] : i \in Intents},
                 drain' = GoOn(todo, blocked, drain.raised) \/ drain' = GoOn(todo, blocked, {})
          PROVE  drain'.step \in {"off", "look"} /\ (drain'.step = "look" => drain'.at \in drain'.todo)
      <3>1. drain.raised \in SUBSET Mine /\ {} \in SUBSET Mine
        BY DEF Drains
      <3>2. drain'.step = "look" => drain'.todo = todo /\ drain'.at \in todo
        BY <2>1, <3>1, GoOnDrain
      <3> QED
        BY <2>1, <3>1, <3>2, GoOnDrain
    <2>2. CASE DrainStart
      BY <2>1, <2>2 DEF DrainStart
    <2>3. CASE Skip
      <3>1. drain.at \in Intents /\ Rest \in SUBSET Mine /\ drain.blocked \in SUBSET {Target[i] : i \in Intents}
        BY <2>3, OutboxAssumption DEF Skip, At, Rest, Drains
      <3>2. drain.blocked \cup {Target[drain.at]} \in SUBSET {Target[i] : i \in Intents}
        BY <3>1
      <3> QED
        BY <2>1, <2>3, <3>1, <3>2 DEF Skip, Continue, ContinueBehind
    <2>4. CASE DrainDies
      BY <2>4 DEF DrainDies, NoDrain
    <2> QED
      BY <2>2, <2>3, <2>4 DEF PassMoves
  <1>2. UNCHANGED <<status, fork, caller, history>> /\ (drain'.step = "off" \/ DrainStart \/ drain.step # "off")
    BY DEF PassMoves, DrainStart, Skip, DrainDies, At
  <1>3. \A j \in Intents : answer'[j] # "none" <=> caller[j] = "waiting"
    <2>1. CASE DrainStart \/ Skip
      BY <2>1 DEF DrainStart, Skip, At, github, Waiting, Resending
    <2>2. CASE DrainDies
      <3>1. CASE drain.step = "answer"
        BY <2>2, <3>1, OutboxAssumption DEF DrainDies, Leaves, Waiting, Resending, GithubTypes, Drains
      <3>2. CASE drain.step # "answer"
        BY <2>2, <3>2 DEF DrainDies, Waiting, Resending
      <3> QED
        BY <3>1, <3>2
    <2> QED
      BY <2>1, <2>2 DEF PassMoves
  <1>4. \A j \in Intents : caller[j] # "none" /\ j \in Mine => drain'.step = "off"
    BY <1>1, <1>2, OutboxAssumption DEF DrainStart, PassMoves, Skip, At, DrainDies, NoDrain
  <1> QED
    BY <1>1, <1>2, <1>3, <1>4 DEF Roles, Counted, Waiting, Resending

LEMMA RolesDrain ==
    ASSUME Typed, NEW i \in Intents, DrainStep(i)
    PROVE  Roles' /\ Counted'
  <1> USE DEF Typed, OutboxTypeOK, Types
  <1>0. /\ i = drain.at /\ i \in drain.todo /\ i \in Mine /\ caller[i] = "none" /\ UNCHANGED caller
        /\ drain.step # "off"
    BY PassAt DEF DrainStep, Settle, Keep, Allow, Resend, ResendRaises, ResendAnswered, ResendLost, ResendFinished,
       Looks, At
  <1>1. \A j \in Intents : j # i => answer'[j] = answer[j] /\ status'[j] = status[j]
    BY <1>0 DEF DrainStep, Settle, Keep, Allow, Resend, ResendRaises, ResendAnswered, ResendLost, ResendFinished,
       Finish, Request, GivesUp, Leaves, GithubTypes, IntentTypes
  <1>2. \A j \in Intents : Kind[j] # "fork" => fork'[j].retries = 0
    <2>1. CASE Settle(i) \/ Allow(i)
      BY <2>1 DEF Settle, Allow
    <2>2. CASE Keep(i)
      BY <2>2, ForkNoted DEF Keep, IntentTypes
    <2>3. CASE Resend(i) \/ ResendRaises(i)
      BY <2>3, ForkSpent DEF Resend, ResendRaises, IntentTypes
    <2>4. CASE ResendAnswered(i) \/ ResendLost(i)
      BY <2>4, Finished DEF ResendAnswered, ResendLost, ResendFinished
    <2> QED
      BY <2>1, <2>2, <2>3, <2>4 DEF DrainStep
  <1>3. \A j \in Intents : caller[j] # "none" /\ j \in Mine => drain'.step = "off"
    BY <1>0
  <1>4. CASE Allow(i)
    <2>1. drain' = [drain EXCEPT !.step = "send", !.moved = pr.moved] /\ UNCHANGED answer /\ UNCHANGED status
      BY <1>4 DEF Allow
    <2>2. drain.step = "look" /\ drain'.step = "send" /\ drain'.at = drain.at /\ drain'.todo = drain.todo
      BY <1>4, <2>1 DEF Allow, Looks, At, Drains
    <2> QED
      BY <1>0, <1>2, <1>3, <2>1, <2>2 DEF Roles, Counted, Waiting, Resending
  <1>5. CASE Resend(i)
    <2>1. drain.step = "send" /\ drain'.step = "answer" /\ drain'.at = drain.at /\ drain'.todo = drain.todo
      BY <1>5 DEF Resend, At, Drains
    <2>2. status'[i] = "sending" /\ answer'[i] = "pending" /\ history'.replays[i] > 0
      BY <1>5 DEF Resend, Request, IntentTypes, GithubTypes
    <2> QED
      BY <1>0, <1>1, <1>2, <1>3, <2>1, <2>2 DEF Roles, Counted, Waiting, Resending
  <1>6. CASE ~Allow(i) /\ ~Resend(i)
    <2>1. drain'.step \in {"off", "look"} /\ (drain'.step = "look" => drain'.at \in drain'.todo)
      BY <1>6, PassAt
    <2>2. answer'[i] = "none"
      BY <1>0, <1>6 DEF DrainStep, Settle, Keep, ResendRaises, ResendAnswered, ResendLost, ResendFinished, Looks, At,
         GivesUp, Leaves, GithubTypes, Waiting, Resending
    <2> QED
      BY <1>0, <1>1, <1>2, <1>3, <2>1, <2>2 DEF Roles, Counted, Waiting, Resending
  <1> QED
    BY <1>4, <1>5, <1>6

LEMMA TypedStep == Typed /\ [OutboxNext]_outboxvars => Typed'
  <1> SUFFICES ASSUME Typed, [OutboxNext]_outboxvars
               PROVE  Typed'
    OBVIOUS
  <1>1. Types'
    BY NextInGroups, TypesCaller, TypesGithub, TypesOperator, TypesWorld, TypesPass, TypesDrain
       DEF Typed, OutboxTypeOK, Counted
  <1>2. Roles' /\ Counted'
    BY NextInGroups, RolesCaller, RolesGithub, RolesPass, RolesDrain
  <1> QED
    BY <1>1, <1>2 DEF Typed, OutboxTypeOK, Roles

\* Who sends holds an intent marked as sending, a pass waits only on an intent of
\* its own, and no caller of its worker runs beside it.  (github_outbox.sending,
\* drain)
THEOREM OutboxTypes == OutboxSpec => []OutboxTypeOK
  <1>1. Typed => OutboxTypeOK
    BY DEF Typed
  <1> QED
    BY <1>1, TypedInit, TypedStep, PTL DEF OutboxSpec

------------------------------------------------------------------------------
(* What a step does to a publication that it is not about.                     *)

Sends(i) == drain.step = "send" /\ drain.at = i

LEMMA OthersAlone ==
    ASSUME Typed, NEW i \in Intents, NEW j \in Intents, j # i,
           CallerActs(i) \/ GithubActs(i) \/ OperatorActs(i) \/ DrainStep(i)
    PROVE  /\ applied'[j] = applied[j] /\ wire'[j] = wire[j] /\ answer'[j] = answer[j] /\ caller'[j] = caller[j]
           /\ status'[j] = status[j] \/ (status'[j] = "superseded" /\ Kind[j] = "edit")
           /\ fork'[j].retries = fork[j].retries /\ history'.replays[j] = history.replays[j]
           /\ j \in history'.late <=> j \in history.late
           /\ j \in history'.forced <=> j \in history.forced
           /\ Sends(j)' => Sends(j)
           /\ Resending(j)' => Resending(j)
  <1> USE DEF Typed, OutboxTypeOK, Types
  <1>1. CASE CallerActs(i)
    <2>1. UNCHANGED <<drain, history, applied>>
      BY <1>1 DEF CallerActs, Prepare, Repeat, Refuse, Blocked, Send, Answered, AnswerLost, CallerDies, github
    <2>2. wire'[j] = wire[j] /\ answer'[j] = answer[j] /\ caller'[j] = caller[j]
      BY <1>1 DEF CallerActs, Prepare, Repeat, Refuse, Blocked, Send, Answered, AnswerLost, CallerDies, Moves, Request,
             GivesUp, Leaves, github, GithubTypes
    <2>3. status'[j] = status[j] \/ (status'[j] = "superseded" /\ Kind[j] = "edit")
      BY <1>1 DEF CallerActs, Prepare, Repeat, Refuse, Blocked, Send, Answered, AnswerLost, CallerDies, Finish,
             IntentTypes
    <2>4. fork'[j].retries = fork[j].retries
      BY <1>1, ForkNoted, Finished DEF CallerActs, Prepare, Repeat, Refuse, Blocked, Send, Answered, AnswerLost,
             CallerDies, IntentTypes
    <2> QED
      BY <2>1, <2>2, <2>3, <2>4 DEF Sends, Resending
  <1>2. CASE GithubActs(i)
    BY <1>2 DEF GithubActs, Serve, Arrives, Applies, GithubTypes, Sends, Resending
  <1>3. CASE OperatorActs(i)
    BY <1>3 DEF OperatorActs, Abandon, ForceRetry, github, IntentTypes, Sends, Resending
  <1>4. CASE DrainStep(i)
    <2>1. i = drain.at /\ UNCHANGED caller /\ ~(Sends(j)') /\ ~(Resending(j)')
      <3>1. i = drain.at /\ UNCHANGED caller /\ (drain'.step \in {"off", "look"} \/ drain'.at = drain.at)
        BY <1>4, PassAt DEF Drains
      <3> QED
        BY <3>1 DEF Sends, Resending
    <2>2. UNCHANGED applied /\ wire'[j] = wire[j] /\ answer'[j] = answer[j] /\ status'[j] = status[j]
      BY <1>4 DEF DrainStep, Settle, Keep, Allow, Resend, ResendRaises, ResendAnswered, ResendLost, ResendFinished,
         Looks, At, Finish, Request, GivesUp, Leaves, GithubTypes, IntentTypes
    <2>3. fork'[j].retries = fork[j].retries
      BY <1>4, ForkNoted, ForkSpent, Finished DEF DrainStep, Settle, Keep, Allow, Resend, ResendRaises, ResendAnswered,
         ResendLost, ResendFinished, IntentTypes
    <2>4. /\ history'.replays[j] = history.replays[j]
          /\ j \in history'.late <=> j \in history.late
          /\ j \in history'.forced <=> j \in history.forced
      BY <1>4 DEF DrainStep, Settle, Keep, Allow, Resend, ResendRaises, ResendAnswered, ResendLost, ResendFinished
    <2> QED
      BY <2>1, <2>2, <2>3, <2>4
  <1> QED
    BY <1>1, <1>2, <1>3, <1>4

\* Time, the pull request and the pass as a whole leave every publication as it is,
\* except that a request whose pass is killed may still be on its way.
LEMMA PassingBy ==
    ASSUME Typed, NEW j \in Intents, WorldActs \/ PassMoves \/ UNCHANGED outboxvars
    PROVE  /\ UNCHANGED <<status, applied, caller, history>>
           /\ fork'[j].retries = fork[j].retries
           /\ \/ wire'[j] = wire[j] /\ answer'[j] = answer[j]
              \/ /\ Resending(j) /\ DrainDies /\ answer'[j] = "none"
                 /\ wire'[j] = IF answer[j] = "pending" THEN wire[j] + 1 ELSE wire[j]
           /\ Sends(j)' => Sends(j)
           /\ Resending(j)' => Resending(j)
  <1> USE DEF Typed, OutboxTypeOK, Types
  <1>1. UNCHANGED <<status, applied, caller, history>>
    BY DEF WorldActs, PullRequestMoves, Later, PassMoves, DrainStart, Skip, DrainDies, At, outboxvars, github
  <1>2. fork'[j].retries = fork[j].retries
    BY ForkAges DEF WorldActs, PullRequestMoves, PassMoves, DrainStart, Skip, DrainDies, outboxvars, IntentTypes
  <1>3. CASE PassMoves
    <2>1. drain'.step \in {"off", "look"}
      <3>1. DrainStart \/ Skip => drain'.step \in {"off", "look"}
        BY DEF DrainStart, Skip, Continue, ContinueBehind, GoOn, NoDrain
      <3> QED
        BY <1>3, <3>1 DEF PassMoves, DrainDies, NoDrain
    <2>2. \/ wire'[j] = wire[j] /\ answer'[j] = answer[j]
          \/ /\ Resending(j) /\ DrainDies /\ answer'[j] = "none"
             /\ wire'[j] = IF answer[j] = "pending" THEN wire[j] + 1 ELSE wire[j]
      BY <1>3 DEF PassMoves, DrainStart, Skip, DrainDies, At, Leaves, github, GithubTypes, Resending
    <2> QED
      BY <1>1, <1>2, <2>1, <2>2 DEF Sends, Resending
  <1>4. CASE WorldActs \/ UNCHANGED outboxvars
    BY <1>1, <1>2, <1>4 DEF WorldActs, PullRequestMoves, Later, outboxvars, github, Sends, Resending
  <1> QED
    BY <1>3, <1>4

------------------------------------------------------------------------------
(* Nothing paid for is dropped: who hears of a success finds the effect.       *)

AnsweredIsApplied == \A i \in Intents : answer[i] = "ok" => applied[i] > 0

\* What took effect is not taken back, and a pull request stays closed.
LEMMA EffectsStay ==
    ASSUME Typed, [OutboxNext]_outboxvars, NEW j \in Intents
    PROVE  (applied[j] > 0 => applied'[j] > 0) /\ (pr.closed => pr'.closed)
  <1> USE DEF Typed, OutboxTypeOK, Types
  <1>1. UNCHANGED applied \/ \E i \in Intents : GithubActs(i)
    BY NextInGroups DEF CallerActs, Prepare, Repeat, Refuse, Blocked, Send, Answered, AnswerLost, CallerDies,
       OperatorActs, Abandon, ForceRetry, DrainStep, Settle, Keep, Allow, Resend, ResendRaises, ResendAnswered,
       ResendLost, ResendFinished, Looks, At, WorldActs, PullRequestMoves, Later, PassMoves, DrainStart, Skip,
       DrainDies, outboxvars, github
  <1>2. ASSUME NEW i \in Intents, GithubActs(i)
        PROVE  applied[j] > 0 => applied'[j] > 0
    BY <1>2 DEF GithubActs, Serve, Arrives, Applies, GithubTypes
  <1>3. UNCHANGED pr \/ PullRequestMoves \/ \E i \in Intents : GithubActs(i)
    BY NextInGroups DEF CallerActs, Prepare, Repeat, Refuse, Blocked, Send, Answered, AnswerLost, CallerDies,
       OperatorActs, Abandon, ForceRetry, DrainStep, Settle, Keep, Allow, Resend, ResendRaises, ResendAnswered,
       ResendLost, ResendFinished, Looks, At, WorldActs, Later, PassMoves, DrainStart, Skip, DrainDies, outboxvars
  <1>4. ASSUME NEW i \in Intents, GithubActs(i) \/ PullRequestMoves
        PROVE  pr.closed => pr'.closed
    BY <1>4 DEF GithubActs, Serve, Arrives, Applies, PullRequestMoves, GithubTypes
  <1> QED
    BY <1>1, <1>2, <1>3, <1>4

LEMMA PublishedInit == OutboxInit => PublishedIsApplied /\ AnsweredIsApplied
  BY DEF OutboxInit, PublishedIsApplied, AnsweredIsApplied

LEMMA PublishedStep ==
    ASSUME Typed, PublishedIsApplied, AnsweredIsApplied, [OutboxNext]_outboxvars
    PROVE  PublishedIsApplied' /\ AnsweredIsApplied'
  <1> USE DEF Typed, OutboxTypeOK, Types
  <1>1. SUFFICES ASSUME NEW j \in Intents
                 PROVE  /\ status'[j] = "published" =>
                             \/ status[j] = "published" \/ answer[j] = "ok"
                             \/ applied[j] > 0 \/ (Kind[j] = "close" /\ pr.closed)
                        /\ answer'[j] = "ok" => answer[j] = "ok" \/ applied'[j] > 0
    BY EffectsStay DEF PublishedIsApplied, AnsweredIsApplied
  <1>2. CASE WorldActs \/ PassMoves \/ UNCHANGED outboxvars
    BY <1>2, PassingBy
  <1>3. ASSUME NEW i \in Intents, i # j, CallerActs(i) \/ GithubActs(i) \/ OperatorActs(i) \/ DrainStep(i)
        PROVE  /\ status'[j] = "published" => status[j] = "published"
               /\ answer'[j] = "ok" => answer[j] = "ok"
    BY <1>3, OthersAlone
  <1>4. CASE CallerActs(j)
    <2>1. status'[j] = "published" => status[j] = "published" \/ answer[j] = "ok"
      BY <1>4, ClassifiedAs DEF CallerActs, Prepare, Repeat, Refuse, Blocked, Send, Answered, AnswerLost, CallerDies,
         Finish, IntentTypes
    <2>2. answer'[j] = "ok" => answer[j] = "ok"
      BY <1>4 DEF CallerActs, Prepare, Repeat, Refuse, Blocked, Send, Answered, AnswerLost, CallerDies, Request,
         GivesUp, Leaves, github, GithubTypes
    <2> QED
      BY <2>1, <2>2
  <1>5. CASE GithubActs(j)
    BY <1>5 DEF GithubActs, Serve, Arrives, Applies, GithubTypes
  <1>6. CASE OperatorActs(j)
    BY <1>6 DEF OperatorActs, Abandon, ForceRetry, github, IntentTypes
  <1>7. CASE DrainStep(j)
    <2>1. answer'[j] = "ok" => answer[j] = "ok"
      BY <1>7 DEF DrainStep, Settle, Keep, Allow, Resend, ResendRaises, ResendAnswered, ResendLost, ResendFinished,
         Request, GivesUp, Leaves, GithubTypes
    <2>2. CASE Settle(j)
      BY <2>1, <2>2 DEF Settle, Seen, IntentTypes
    <2>3. CASE ResendAnswered(j) \/ ResendLost(j)
      BY <2>1, <2>3, ClassifiedAs DEF ResendAnswered, ResendLost, ResendFinished, Finish, IntentTypes
    <2>4. CASE Keep(j) \/ Allow(j) \/ Resend(j) \/ ResendRaises(j)
      BY <2>1, <2>4 DEF Keep, Allow, Resend, ResendRaises, IntentTypes
    <2> QED
      BY <1>7, <2>2, <2>3, <2>4 DEF DrainStep
  <1> QED
    BY <1>2, <1>3, <1>4, <1>5, <1>6, <1>7, NextInGroups

\* An intent is settled as published only when its effect is on GitHub, however
\* often it was lost, refused or sent again.  (github_outbox._finish_locked,
\* reconcile, drain)
THEOREM PublishedApplied == OutboxSpec => []PublishedIsApplied
  BY TypedInit, TypedStep, PublishedInit, PublishedStep, PTL DEF OutboxSpec

------------------------------------------------------------------------------
(* Nothing is done twice.  A publication has had one effect, or one request    *)
(* that may still have it; while it may be sent it has had neither.            *)

Single(i) == Kind[i] = "opaque" \/ (Kind[i] = "comment" /\ i \notin history.late)
Pending(i) == IF answer[i] = "pending" THEN 1 ELSE 0
Unsent(i) == status[i] \in {"new", "prepared", "rejected"} \/ Sends(i) \/ answer[i] = "rejected"
OnceAt(i) ==
    i \notin history.forced /\ Single(i) =>
        /\ applied[i] + wire[i] + Pending(i) <= 1
        /\ Unsent(i) => applied[i] = 0 /\ wire[i] = 0

LEMMA OnceInit == OutboxInit => \A i \in Intents : OnceAt(i)
  BY DEF OutboxInit, OnceAt, Pending, Unsent

\* A publication that is asked about is nobody else's to send.
LEMMA NobodyWaits ==
    ASSUME Typed, NEW i \in Intents
    PROVE  /\ drain.step # "off" /\ drain.at = i => i \in Mine /\ caller[i] = "none"
           /\ drain.step \in {"look", "send"} /\ drain.at = i => answer[i] = "none"
           /\ caller[i] # "none" => ~Sends(i) /\ ~Resending(i)
           /\ caller[i] = "ready" => answer[i] = "none"
           /\ applied[i] \in Nat /\ wire[i] \in Nat
  BY DEF Typed, OutboxTypeOK, Types, Drains, GithubTypes, Waiting, Resending, Sends

LEMMA OnceCaller ==
    ASSUME Typed, NEW i \in Intents, OnceAt(i), CallerActs(i)
    PROVE  OnceAt(i)'
  <1> USE DEF OnceAt, Single, Pending, Unsent
  <1>1. UNCHANGED <<drain, history, applied>> /\ Sends(i)' = Sends(i)
    BY DEF CallerActs, Prepare, Repeat, Refuse, Blocked, Send, Answered, AnswerLost, CallerDies, github, Sends
  <1>2. CASE Prepare(i) \/ Repeat(i) \/ Refuse(i) \/ Blocked(i)
    BY <1>1, <1>2 DEF Prepare, Repeat, Refuse, Blocked, MaySend, Finish, github
  <1>3. CASE Send(i)
    <2>1. status'[i] = "sending" /\ answer'[i] = "pending" /\ UNCHANGED wire /\ ~Sends(i) /\ MaySend(i)
      BY <1>3, NobodyWaits DEF Send, Moves, Request, Typed, OutboxTypeOK, Types, IntentTypes, GithubTypes
    <2> QED
      BY <1>1, <2>1, NobodyWaits DEF MaySend
  <1>4. CASE Answered(i)
    <2>1. /\ status'[i] = Classified(i, answer[i]) /\ answer'[i] = "none" /\ UNCHANGED wire /\ ~Sends(i)
          /\ answer[i] \in {"ok", "rejected", "denied", "partial"}
      BY <1>4, NobodyWaits DEF Answered, Received, Moves, Finish, Typed, OutboxTypeOK, Types, IntentTypes, GithubTypes
    <2> QED
      BY <1>1, <2>1, NobodyWaits, ClassifiedAs
  <1>5. CASE AnswerLost(i) \/ CallerDies(i)
    <2>1. /\ answer'[i] = "none" /\ wire'[i] = IF answer[i] = "pending" THEN wire[i] + 1 ELSE wire[i]
          /\ ~Sends(i)
      BY <1>5, NobodyWaits DEF AnswerLost, CallerDies, Moves, GivesUp, Leaves, Typed, OutboxTypeOK, Types, GithubTypes
    <2>2. status'[i] \in {"new", "prepared", "rejected"} => status'[i] = status[i] /\ answer[i] = "none"
      <3>1. CASE AnswerLost(i)
        <4>1. status'[i] = Classified(i, "none")
          BY <3>1 DEF AnswerLost, Finish, Typed, OutboxTypeOK, Types, IntentTypes
        <4> QED
          BY <4>1, ClassifiedAs DEF Classified
      <3>2. CASE CallerDies(i)
        BY <3>2 DEF CallerDies, Typed, OutboxTypeOK
      <3> QED
        BY <1>5, <3>1, <3>2
    <2> QED
      BY <1>1, <2>1, <2>2, NobodyWaits
  <1> QED
    BY <1>2, <1>3, <1>4, <1>5 DEF CallerActs

LEMMA OnceGithub ==
    ASSUME Typed, NEW i \in Intents, OnceAt(i), GithubActs(i)
    PROVE  OnceAt(i)'
  <1> USE DEF OnceAt, Single, Pending, Unsent
  <1>0. history'.late = history.late /\ history'.forced = history.forced
    <2>1. \/ UNCHANGED history
          \/ history' = [history EXCEPT !.replays = [history.replays EXCEPT ![i] = history.replays[i] - 1]]
      BY DEF GithubActs, Serve, Arrives
    <2>2. history \in [late : SUBSET Intents, forced : SUBSET Intents, replays : [Intents -> Nat]]
      BY DEF Typed, OutboxTypeOK, Types
    <2> QED
      BY <2>1, <2>2
  <1>1. /\ UNCHANGED <<status, drain>> /\ Sends(i)' = Sends(i)
        /\ history'.late = history.late /\ history'.forced = history.forced
    BY <1>0 DEF GithubActs, Serve, Arrives, Sends
  <1>2. CASE Serve(i)
    <2>1. status[i] = "sending" /\ ~Sends(i) /\ answer[i] = "pending" /\ UNCHANGED wire
      BY <1>2, NobodyWaits DEF Serve, Sends, Typed, OutboxTypeOK
    <2>2. \/ applied'[i] = applied[i] + 1 /\ answer'[i] = "ok"
          \/ Kind[i] = "close"
          \/ applied'[i] = applied[i] /\ answer'[i] \in {"rejected", "denied", "lost"}
      BY <1>2 DEF Serve, Applies, Typed, OutboxTypeOK, Types, GithubTypes
    <2> QED
      BY <1>1, <2>1, <2>2, NobodyWaits
  <1>3. CASE Arrives(i)
    <2>1. /\ wire[i] > 0 /\ wire'[i] = wire[i] - 1 /\ UNCHANGED answer
          /\ applied'[i] \in {applied[i], applied[i] + 1}
      BY <1>3 DEF Arrives, Applies, Typed, OutboxTypeOK, Types, GithubTypes
    <2> QED
      BY <1>1, <2>1, NobodyWaits
  <1> QED
    BY <1>2, <1>3 DEF GithubActs

LEMMA OnceOperator ==
    ASSUME Typed, NEW i \in Intents, OnceAt(i), OperatorActs(i)
    PROVE  OnceAt(i)'
  <1>1. CASE Abandon(i)
    BY <1>1 DEF Abandon, github, OnceAt, Single, Pending, Unsent, Sends, Typed, OutboxTypeOK, Types, IntentTypes
  <1>2. CASE ForceRetry(i)
    BY <1>2 DEF ForceRetry, OnceAt, Typed, OutboxTypeOK, Types
  <1> QED
    BY <1>1, <1>2 DEF OperatorActs

LEMMA OnceDrain ==
    ASSUME Typed, NEW i \in Intents, OnceAt(i), DrainStep(i)
    PROVE  OnceAt(i)'
  <1> USE DEF OnceAt, Single, Pending, Unsent
  <1>1. UNCHANGED applied /\ (Sends(i)' => Allow(i)) /\ drain.at = i
    <2>1. drain.at = i /\ (drain'.step = "send" => Allow(i))
      BY PassAt DEF Typed, OutboxTypeOK, Types, Drains
    <2> QED
      BY <2>1 DEF DrainStep, Settle, Keep, Allow, Resend, ResendRaises, ResendAnswered, ResendLost, ResendFinished,
         Looks, At, Sends
  <1>2. /\ history'.forced = history.forced
        /\ i \notin history'.late => i \notin history.late
    BY DEF DrainStep, Settle, Keep, Allow, Resend, ResendRaises, ResendAnswered, ResendLost, ResendFinished, Typed,
       OutboxTypeOK, Types
  <1>3. CASE Settle(i) \/ Keep(i) \/ ResendRaises(i)
    <2>1. UNCHANGED <<wire, answer>> /\ (status'[i] \in {"new", "prepared", "rejected"} => status'[i] = status[i])
      BY <1>3 DEF Settle, Keep, ResendRaises, Typed, OutboxTypeOK, Types, IntentTypes
    <2>2. ~(Sends(i)')
      BY <1>3 DEF Settle, Keep, ResendRaises, Continue, ContinueBehind, GoOn, NoDrain, Sends
    <2> QED
      BY <1>1, <1>2, <2>1, <2>2
  <1>4. CASE Allow(i)
    <2>1. UNCHANGED <<status, wire, answer>> /\ answer[i] = "none" /\ (i \in history'.late \/ ~(wire[i] > 0))
      BY <1>4, NobodyWaits DEF Allow, Looks, At, Typed, OutboxTypeOK, Types
    <2>2. Kind[i] = "opaque" => Unsent(i)
      BY <1>4 DEF Allow, Reconciled, Seen, MaySend
    <2>3. Kind[i] = "comment" => Unsent(i) \/ ~(applied[i] > 0)
      BY <1>4 DEF Allow, Reconciled, Seen, MaySend
    <2> QED
      BY <1>1, <1>2, <2>1, <2>2, <2>3, NobodyWaits
  <1>5. CASE Resend(i)
    <2>1. Sends(i) /\ status'[i] = "sending" /\ answer'[i] = "pending" /\ UNCHANGED wire /\ ~Allow(i)
      BY <1>5 DEF Resend, At, Sends, Request, Allow, Looks, Typed, OutboxTypeOK, Types, IntentTypes, GithubTypes
    <2> QED
      BY <1>1, <1>2, <2>1, NobodyWaits
  <1>6. CASE ResendAnswered(i)
    <2>1. /\ status'[i] = Classified(i, answer[i]) /\ answer'[i] = "none" /\ UNCHANGED wire /\ ~Allow(i)
          /\ answer[i] \in {"ok", "rejected", "denied", "partial"}
      BY <1>6 DEF ResendAnswered, ResendFinished, Received, At, Allow, Looks, Finish, Typed, OutboxTypeOK, Types,
         IntentTypes, GithubTypes
    <2> QED
      BY <1>1, <1>2, <2>1, NobodyWaits, ClassifiedAs
  <1>7. CASE ResendLost(i)
    <2>1. /\ answer'[i] = "none" /\ wire'[i] = IF answer[i] = "pending" THEN wire[i] + 1 ELSE wire[i]
          /\ status'[i] = Classified(i, "none") /\ ~Allow(i)
      BY <1>7 DEF ResendLost, ResendFinished, GivesUp, Leaves, At, Allow, Looks, Finish, Typed, OutboxTypeOK, Types,
         IntentTypes, GithubTypes
    <2>2. status'[i] \notin {"new", "prepared", "rejected"}
      BY <2>1, ClassifiedAs DEF Classified
    <2> QED
      BY <1>1, <1>2, <2>1, <2>2, NobodyWaits
  <1> QED
    BY <1>3, <1>4, <1>5, <1>6, <1>7 DEF DrainStep

LEMMA OnceStep ==
    ASSUME Typed, \A i \in Intents : OnceAt(i), [OutboxNext]_outboxvars
    PROVE  \A i \in Intents : OnceAt(i)'
  <1>1. SUFFICES ASSUME NEW j \in Intents
                 PROVE  OnceAt(j)'
    OBVIOUS
  <1>2. ASSUME NEW i \in Intents, i # j, CallerActs(i) \/ GithubActs(i) \/ OperatorActs(i) \/ DrainStep(i)
        PROVE  OnceAt(j)'
    BY <1>2, OthersAlone DEF OnceAt, Single, Pending, Unsent
  <1>3. CASE WorldActs \/ PassMoves \/ UNCHANGED outboxvars
    <2>1. wire'[j] + Pending(j)' = wire[j] + Pending(j) /\ (answer'[j] = "rejected" => answer[j] = "rejected")
      BY <1>3, PassingBy, NobodyWaits DEF Pending
    <2>2. wire'[j] \in Nat /\ (wire[j] = 0 /\ answer[j] # "pending" => wire'[j] = 0)
      BY <1>3, PassingBy, NobodyWaits
    <2>3. Unsent(j)' => Unsent(j) /\ answer[j] # "pending"
      BY <1>3, <2>1, PassingBy, NobodyWaits DEF Unsent, Typed, OutboxTypeOK, Sends
    <2>4. applied'[j] = applied[j] /\ UNCHANGED history
      BY <1>3, PassingBy
    <2> QED
      BY <2>1, <2>2, <2>3, <2>4, NobodyWaits DEF OnceAt, Single, Pending
  <1> QED
    BY <1>2, <1>3, NextInGroups, OnceCaller, OnceGithub, OnceOperator, OnceDrain

\* A publication that creates something takes effect once, across kills, lost
\* answers, repeated commands and drains: except a comment whose request was still
\* on its way when GitHub was asked about it, and what an operator forced.
\* (github_outbox.may_send, reconcile, drain)
THEOREM AppliedAtMostOnce == OutboxSpec => []AppliedOnce
  <1> DEFINE Inv == \A i \in Intents : OnceAt(i)
  <1>1. Typed /\ Inv => AppliedOnce
    BY NobodyWaits DEF OnceAt, Single, Pending, AppliedOnce
  <1>2. Typed /\ Inv /\ [OutboxNext]_outboxvars => Inv'
    BY OnceStep
  <1>3. OutboxInit => Inv
    BY OnceInit
  <1> HIDE DEF Inv
  <1> QED
    BY <1>1, <1>2, <1>3, TypedInit, TypedStep, PTL DEF OutboxSpec

------------------------------------------------------------------------------
(* Forks.  What is retried is written down before the request, and taken back  *)
(* only when the request was refused.                                          *)

ForkAt(i) ==
    i \notin history.forced /\ Kind[i] = "fork" =>
        /\ history.replays[i] <= fork[i].retries
        /\ status[i] \in {"new", "prepared", "rejected"} \/ Sends(i) => fork[i].retries = 0
        /\ caller[i] = "waiting" => history.replays[i] = 0
        /\ Resending(i) /\ answer[i] = "rejected" => history.replays[i] = 0

LEMMA ForkInit == OutboxInit => \A i \in Intents : ForkAt(i)
  BY DEF OutboxInit, ForkAt, NoDrain, Resending

LEMMA Retries ==
    ASSUME Typed, NEW i \in Intents
    PROVE  fork[i].retries \in 0..1 /\ history.replays[i] \in Nat
  BY DEF Typed, OutboxTypeOK, Types, IntentTypes, Forks

LEMMA ForkCaller ==
    ASSUME Typed, NEW i \in Intents, ForkAt(i), CallerActs(i)
    PROVE  ForkAt(i)'
  <1> USE DEF ForkAt
  <1>0. UNCHANGED <<drain, history>> /\ Sends(i)' = Sends(i) /\ Resending(i)' = Resending(i)
    BY DEF CallerActs, Prepare, Repeat, Refuse, Blocked, Send, Answered, AnswerLost, CallerDies, Sends, Resending
  <1>1. IntentTypes /\ (caller[i] # "none" => ~Sends(i) /\ ~Resending(i))
    BY NobodyWaits DEF Typed, OutboxTypeOK, Types
  <1>2. CASE Prepare(i) \/ Send(i)
    <2>1. fork'[i].retries = fork[i].retries
      BY <1>1, <1>2, ForkNoted DEF Prepare, Send, IntentTypes
    <2>2. /\ status[i] \in {"new", "prepared", "rejected"} /\ status'[i] \in {"prepared", "sending"}
          /\ caller'[i] = "waiting" => Send(i)
          /\ UNCHANGED answer \/ ~Resending(i)
      BY <1>1, <1>2 DEF Prepare, Send, MaySend, Moves, github, Typed, OutboxTypeOK, Types, IntentTypes
    <2> QED
      BY <1>0, <2>1, <2>2, Retries
  <1>3. CASE Repeat(i) \/ Refuse(i) \/ CallerDies(i)
    <2>1. UNCHANGED <<status, fork>> /\ (caller'[i] = "waiting" => caller[i] = "waiting")
          /\ (answer'[i] = "rejected" => answer[i] = "rejected")
      BY <1>3 DEF Repeat, Refuse, CallerDies, Moves, Leaves, github, Typed, OutboxTypeOK, Types, GithubTypes
    <2> QED
      BY <1>0, <2>1
  <1>4. ASSUME NEW reply, Finish(i, reply), caller'[i] = "none",
               caller[i] = "waiting" \/ (caller[i] = "ready" /\ MaySend(i))
        PROVE  ForkAt(i)'
    <2>1. fork'[i].retries = IF reply \in {"rejected", "blocked"} THEN 0 ELSE fork[i].retries
      BY <1>1, <1>4, Finished
    <2>2. status'[i] \in {"new", "prepared", "rejected"} => reply \in {"rejected", "blocked"}
      BY <1>1, <1>4, Finished, ClassifiedAs DEF IntentTypes
    <2>3. ASSUME reply \in {"rejected", "blocked"}, i \notin history.forced, Kind[i] = "fork"
          PROVE  caller[i] = "waiting" \/ (caller[i] = "ready" /\ MaySend(i)) => history.replays[i] = 0
      BY <2>3, Retries DEF MaySend
    <2> QED
      BY <1>0, <1>1, <1>4, <2>1, <2>2, <2>3, Retries
  <1>5. CASE Blocked(i) \/ Answered(i) \/ AnswerLost(i)
    <2>1. /\ caller'[i] = "none" /\ \E reply : Finish(i, reply)
          /\ caller[i] = "waiting" \/ (caller[i] = "ready" /\ MaySend(i))
      BY <1>5 DEF Blocked, Answered, AnswerLost, Moves, Typed, OutboxTypeOK, Types
    <2> QED
      BY <1>4, <2>1
  <1> QED
    BY <1>2, <1>3, <1>5 DEF CallerActs

LEMMA ForkGithub ==
    ASSUME Typed, NEW i \in Intents, ForkAt(i), GithubActs(i) \/ OperatorActs(i)
    PROVE  ForkAt(i)'
  <1> USE DEF ForkAt
  <1>1. UNCHANGED <<fork, caller, drain>> /\ Sends(i)' = Sends(i) /\ Resending(i)' = Resending(i)
    BY DEF GithubActs, Serve, Arrives, OperatorActs, Abandon, ForceRetry, Sends, Resending
  <1>2. CASE Serve(i)
    <2>1. UNCHANGED status /\ answer[i] = "pending"
      BY <1>2 DEF Serve
    <2>2. \/ UNCHANGED history /\ (answer'[i] = "rejected" => ~Resending(i))
          \/ /\ Resending(i)
             /\ history' = [history EXCEPT !.replays = [history.replays EXCEPT ![i] = history.replays[i] - 1]]
      BY <1>2 DEF Serve, Typed, OutboxTypeOK, Types, GithubTypes
    <2>3. CASE UNCHANGED history /\ (answer'[i] = "rejected" => ~Resending(i))
      BY <1>1, <2>1, <2>3
    <2>4. CASE /\ Resending(i)
               /\ history' = [history EXCEPT !.replays = [history.replays EXCEPT ![i] = history.replays[i] - 1]]
      <3>1. history'.forced = history.forced /\ history'.replays[i] = history.replays[i] - 1
        BY <2>4 DEF Typed, OutboxTypeOK, Types
      <3>2. history.replays[i] > 0 /\ caller[i] # "waiting"
        BY <2>1, <2>4, NobodyWaits DEF Typed, Counted
      <3> QED
        BY <1>1, <2>1, <3>1, <3>2, Retries
    <2> QED
      BY <2>2, <2>3, <2>4
  <1>3. CASE Arrives(i)
    BY <1>1, <1>3 DEF Arrives
  <1>4. CASE Abandon(i)
    BY <1>1, <1>4 DEF Abandon, github, Typed, OutboxTypeOK, Types, IntentTypes
  <1>5. CASE ForceRetry(i)
    BY <1>5 DEF ForceRetry, Typed, OutboxTypeOK, Types
  <1> QED
    BY <1>2, <1>3, <1>4, <1>5 DEF GithubActs, OperatorActs

LEMMA ForkDrain ==
    ASSUME Typed, NEW i \in Intents, ForkAt(i), DrainStep(i)
    PROVE  ForkAt(i)'
  <1> USE DEF ForkAt
  <1>0. IntentTypes /\ drain.at = i /\ caller'[i] = "none" /\ i \in Mine
    BY PassAt, NobodyWaits DEF Typed, OutboxTypeOK, Types, DrainStep, Settle, Keep, Allow, Resend, ResendRaises,
       ResendAnswered, ResendLost, ResendFinished, Looks, At
  <1>1. CASE Settle(i) \/ Keep(i)
    <2>1. drain'.step \in {"off", "look"} /\ UNCHANGED history
      BY <1>1 DEF Settle, Keep, Continue, ContinueBehind, GoOn, NoDrain
    <2>2. status'[i] \in {"new", "prepared", "rejected"} => status'[i] = status[i]
      BY <1>0, <1>1 DEF Settle, Keep, IntentTypes
    <2>3. fork'[i].retries = fork[i].retries
      BY <1>0, <1>1, ForkNoted DEF Settle, Keep, IntentTypes
    <2> QED
      BY <1>0, <2>1, <2>2, <2>3 DEF Sends, Resending
  <1>2. CASE Allow(i)
    <2>1. /\ UNCHANGED <<status, fork>> /\ history'.replays = history.replays /\ history'.forced = history.forced
          /\ drain'.step = "send"
      BY <1>2 DEF Allow, Typed, OutboxTypeOK, Types, Drains
    <2>2. Kind[i] = "fork" => fork[i].retries = 0
      BY <1>2, Retries DEF Allow, Reconciled, Seen
    <2> QED
      BY <1>0, <2>1, <2>2 DEF Sends, Resending
  <1>3. CASE Resend(i)
    <2>1. /\ Sends(i) /\ drain'.step = "answer" /\ status'[i] = "sending" /\ answer'[i] = "pending"
          /\ history'.forced = history.forced
      BY <1>3 DEF Resend, At, Sends, Request, Typed, OutboxTypeOK, Types, Drains, IntentTypes, GithubTypes
    <2>2. history' = [history EXCEPT !.replays = [history.replays EXCEPT ![i] = history.replays[i] + 1]]
      BY <1>3 DEF Resend
    <2>3. history'.replays[i] = history.replays[i] + 1
      BY <2>2 DEF Typed, OutboxTypeOK, Types
    <2>4. Kind[i] = "fork" => fork'[i].retries = 1
      BY <1>0, <1>3, ForkSpent DEF Resend, IntentTypes
    <2> QED
      BY <1>0, <2>1, <2>3, <2>4, Retries DEF Sends
  <1>4. CASE ResendRaises(i)
    <2>1. /\ Sends(i) /\ drain'.step \in {"off", "look"} /\ status'[i] = "ambiguous" /\ UNCHANGED history
      BY <1>0, <1>4 DEF ResendRaises, At, Sends, GoOn, NoDrain, IntentTypes
    <2>2. Kind[i] = "fork" => fork'[i].retries = 1
      BY <1>0, <1>4, ForkSpent DEF ResendRaises, IntentTypes
    <2> QED
      BY <1>0, <2>1, <2>2, Retries DEF Sends, Resending
  <1>5. ASSUME NEW reply, ResendFinished(i, reply), reply = "rejected" => Resending(i) /\ answer[i] = "rejected",
               reply # "blocked"
        PROVE  ForkAt(i)'
    <2>1. fork'[i].retries = IF reply = "rejected" THEN 0 ELSE fork[i].retries
      BY <1>0, <1>5, Finished DEF ResendFinished
    <2>2. status'[i] \in {"new", "prepared", "rejected"} => reply = "rejected"
      BY <1>0, <1>5, Finished, ClassifiedAs DEF ResendFinished, IntentTypes
    <2>3. drain'.step \in {"off", "look"} /\ UNCHANGED history
      BY <1>5 DEF ResendFinished, Continue, ContinueBehind, GoOn, NoDrain
    <2> QED
      BY <1>0, <1>5, <2>1, <2>2, <2>3, Retries DEF Sends, Resending
  <1>6. CASE ResendAnswered(i)
    BY <1>5, <1>6 DEF ResendAnswered, Received, ResendFinished, At, Resending
  <1>7. CASE ResendLost(i)
    BY <1>5, <1>7 DEF ResendLost
  <1> QED
    BY <1>1, <1>2, <1>3, <1>4, <1>6, <1>7 DEF DrainStep

LEMMA ForkStep ==
    ASSUME Typed, \A i \in Intents : ForkAt(i), [OutboxNext]_outboxvars
    PROVE  \A i \in Intents : ForkAt(i)'
  <1>1. SUFFICES ASSUME NEW j \in Intents
                 PROVE  ForkAt(j)'
    OBVIOUS
  <1>2. ASSUME NEW i \in Intents, i # j, CallerActs(i) \/ GithubActs(i) \/ OperatorActs(i) \/ DrainStep(i)
        PROVE  ForkAt(j)'
    BY <1>2, OthersAlone DEF ForkAt
  <1>3. CASE WorldActs \/ PassMoves \/ UNCHANGED outboxvars
    BY <1>3, PassingBy DEF ForkAt
  <1> QED
    BY <1>2, <1>3, NextInGroups, ForkCaller, ForkGithub, ForkDrain

\* At most one replay of a fork is not known to be refused, across kills of the
\* pass that makes it.  (github_outbox.reconcile, drain)
THEOREM ForkAtMostOnce == OutboxSpec => []ForkReplayedOnce
  <1> DEFINE Inv == \A i \in Intents : ForkAt(i)
  <1>1. Typed /\ Inv => ForkReplayedOnce
    <2> SUFFICES ASSUME Typed, Inv, NEW i \in Intents \ history.forced, Kind[i] = "fork"
                 PROVE  history.replays[i] <= 1
      BY DEF ForkReplayedOnce
    <2> QED
      BY Retries DEF ForkAt
  <1>2. Typed /\ Inv /\ [OutboxNext]_outboxvars => Inv'
    BY ForkStep
  <1>3. OutboxInit => Inv
    BY ForkInit
  <1> HIDE DEF Inv
  <1> QED
    BY <1>1, <1>2, <1>3, TypedInit, TypedStep, PTL DEF OutboxSpec

------------------------------------------------------------------------------
(* The order of a pass.  What it has behind it and is still there holds back   *)
(* its target.                                                                 *)

Behind(j) == Retained(j) /\ Kind[j] # "resolve" /\ Target[j] # NoTarget /\ j \notin drain.raised

OrderInv ==
    drain.step # "off" =>
        /\ \A j \in drain.todo : drain.at <= j
        /\ \A j \in Mine : Behind(j) => j \in drain.todo \/ Target[j] \in drain.blocked
        /\ drain.step # "look" => Target[drain.at] \notin drain.blocked \ {NoTarget}
        /\ drain.step = "send" => Retained(drain.at)

\* Nothing new is left to a worker while its pass is on.
LEMMA NothingNew ==
    ASSUME Typed, OrderInv, [OutboxNext]_outboxvars, drain.step # "off", NEW j \in Mine, Retained(j)'
    PROVE  Retained(j)
  <1> USE DEF Retained
  <1>0. j \in Intents /\ IntentTypes
    BY OutboxAssumption DEF Typed, OutboxTypeOK, Types
  <1>1. ASSUME NEW i \in Intents, i # j, CallerActs(i) \/ GithubActs(i) \/ OperatorActs(i) \/ DrainStep(i)
        PROVE  Retained(j)
    BY <1>0, <1>1, OthersAlone
  <1>2. CASE CallerActs(j)
    <2>1. UNCHANGED status
      BY <1>2 DEF CallerActs, Prepare, Repeat, Refuse, Blocked, Send, Answered, AnswerLost, CallerDies, Moves, CallerFree
    <2> QED
      BY <2>1
  <1>3. CASE GithubActs(j) \/ OperatorActs(j)
    BY <1>0, <1>3 DEF GithubActs, Serve, Arrives, OperatorActs, Abandon, ForceRetry, IntentTypes
  <1>4. CASE DrainStep(j)
    <2>1. Looks(j) => Retained(j)
      BY DEF Looks
    <2>2. Sends(j) => Retained(j)
      BY DEF OrderInv, Sends
    <2>3. Resending(j) => Retained(j)
      BY <1>0 DEF Typed, OutboxTypeOK, Waiting
    <2> QED
      BY <1>4, <2>1, <2>2, <2>3 DEF DrainStep, Settle, Keep, Allow, Resend, ResendRaises, ResendAnswered, ResendLost,
         ResendFinished, Looks, At, Resending, Sends
  <1>5. CASE WorldActs \/ PassMoves \/ UNCHANGED outboxvars
    BY <1>0, <1>5, PassingBy
  <1> QED
    BY <1>0, <1>1, <1>2, <1>3, <1>4, <1>5, NextInGroups

\* What the pass is about to send is not settled by anybody else: its lock is held.
LEMMA LockHolds ==
    ASSUME Typed, OrderInv, [OutboxNext]_outboxvars, NEW j \in Intents, Sends(j)'
    PROVE  Retained(j)'
  <1> USE DEF Retained
  <1>0. IntentTypes
    BY DEF Typed, OutboxTypeOK, Types
  <1>1. ASSUME Sends(j), UNCHANGED status
        PROVE  Retained(j)'
    BY <1>1 DEF OrderInv, Sends
  <1>2. ASSUME NEW i \in Intents, CallerActs(i)
        PROVE  Retained(j)'
    <2>1. UNCHANGED drain
      BY <1>2 DEF CallerActs, Prepare, Repeat, Refuse, Blocked, Send, Answered, AnswerLost, CallerDies
    <2>2. Sends(j) /\ Retained(j) /\ j \in Mine
      BY <2>1, NobodyWaits DEF Sends, OrderInv
    <2>3. i = j => UNCHANGED status
      BY <1>2, <2>2 DEF CallerActs, Prepare, Repeat, Refuse, Blocked, Send, Answered, AnswerLost, CallerDies, Moves,
         CallerFree, Sends
    <2>4. i # j => status'[j] = status[j]
      BY <1>0, <1>2, <2>2 DEF CallerActs, Prepare, Repeat, Refuse, Blocked, Send, Answered, AnswerLost, CallerDies,
         Finish, Locked, Sends, IntentTypes
    <2> QED
      BY <2>2, <2>3, <2>4
  <1>3. ASSUME NEW i \in Intents, GithubActs(i) \/ OperatorActs(i)
        PROVE  Retained(j)'
    <2>1. Sends(j) /\ Retained(j)
      BY <1>3 DEF GithubActs, Serve, Arrives, OperatorActs, Abandon, ForceRetry, Sends, OrderInv
    <2>2. status'[j] = status[j]
      BY <1>0, <1>3, <2>1 DEF GithubActs, Serve, Arrives, OperatorActs, Abandon, ForceRetry, Locked, Sends, IntentTypes
    <2> QED
      BY <2>1, <2>2
  <1>4. ASSUME NEW i \in Intents, DrainStep(i)
        PROVE  Retained(j)'
    <2>1. drain.at = i /\ (drain'.step = "send" => Allow(i) /\ drain'.at = drain.at)
      BY <1>4, PassAt DEF Typed, OutboxTypeOK, Types, Drains
    <2>2. Allow(i) /\ i = j
      BY <2>1 DEF Sends
    <2> QED
      BY <2>2 DEF Allow, Looks
  <1>5. CASE WorldActs \/ PassMoves \/ UNCHANGED outboxvars
    BY <1>1, <1>5, PassingBy
  <1> QED
    BY <1>2, <1>3, <1>4, <1>5, NextInGroups

\* The pass leaves an intent that is settled, best effort, or that holds back its
\* target.
LEMMA PassedOn ==
    ASSUME Typed, OrderInv, [OutboxNext]_outboxvars, drain.step # "off", NEW i \in Mine, i = drain.at,
           NEW blocked \in SUBSET {Target[k] : k \in Intents}, NEW raised \in SUBSET Mine,
           drain.blocked \subseteq blocked, drain.raised \subseteq raised, drain' = GoOn(Rest, blocked, raised),
           ~(Retained(i)') \/ Kind[i] = "resolve" \/ i \in raised \/ Target[i] \in blocked
    PROVE  OrderInv'
  <1>1. Rest \in SUBSET Mine
    BY DEF Rest, Typed, OutboxTypeOK, Types, Drains
  <1>2. /\ drain'.step \in {"off", "look"}
        /\ drain'.step = "look" => /\ drain'.todo = Rest /\ drain'.blocked = blocked /\ drain'.raised = raised
                                   /\ \A j \in Rest : drain'.at <= j
        /\ drain'.step = "off" => Rest = {}
    BY <1>1, GoOnDrain
  <1>3. ASSUME NEW j \in Mine, drain'.step = "look", Behind(j)'
        PROVE  j \in Rest \/ Target[j] \in blocked
    <2>1. Retained(j)' /\ Kind[j] # "resolve" /\ Target[j] # NoTarget /\ j \notin raised
      BY <1>2, <1>3 DEF Behind
    <2>2. Behind(j)
      BY <2>1, NothingNew DEF Behind
    <2>3. j \in drain.todo \/ Target[j] \in drain.blocked
      BY <2>2 DEF OrderInv
    <2> QED
      BY <2>1, <2>3 DEF Rest
  <1> QED
    BY <1>2, <1>3 DEF OrderInv

LEMMA OrderDrain ==
    ASSUME Typed, OrderInv, [OutboxNext]_outboxvars, NEW i \in Intents, DrainStep(i)
    PROVE  OrderInv'
  <1>0. /\ i = drain.at /\ drain.step # "off"
        /\ drain.blocked \in SUBSET {Target[k] : k \in Intents} /\ drain.raised \in SUBSET Mine /\ i \in Mine
    BY PassAt DEF Typed, OutboxTypeOK, Types, Drains, DrainStep, Settle, Keep, Allow, Resend, ResendRaises, ResendAnswered,
       ResendLost, ResendFinished, Looks, At
  <1>1. drain.blocked \cup {Target[i]} \in SUBSET {Target[j] : j \in Intents} /\ drain.raised \cup {i} \in SUBSET Mine
    BY <1>0
  <1>2. CASE Continue /\ (~(Retained(i)') \/ Kind[i] = "resolve")
    BY <1>0, <1>2, PassedOn DEF Continue
  <1>3. CASE ContinueBehind
    BY <1>0, <1>1, <1>3, PassedOn DEF ContinueBehind
  <1>4. CASE drain' = GoOn(Rest, drain.blocked, drain.raised \cup {i})
    BY <1>0, <1>1, <1>4, PassedOn
  <1>5. CASE Settle(i)
    <2>1. ~(Retained(i)')
      BY <1>5 DEF Settle, Retained, Typed, OutboxTypeOK, Types, IntentTypes
    <2> QED
      BY <1>2, <1>5, <2>1 DEF Settle
  <1>6. CASE Keep(i)
    BY <1>2, <1>3, <1>6 DEF Keep
  <1>7. CASE ResendRaises(i)
    BY <1>4, <1>7 DEF ResendRaises
  <1>8. ASSUME NEW reply, ResendFinished(i, reply)
        PROVE  OrderInv'
    <2>1. status'[i] = Classified(i, reply)
      BY <1>8 DEF ResendFinished, Finish, Typed, OutboxTypeOK, Types, IntentTypes
    <2>2. Classified(i, reply) \notin {"rejected", "ambiguous"} => ~(Retained(i)')
      BY <2>1, ClassifiedAs DEF Retained
    <2> QED
      BY <1>2, <1>3, <1>8, <2>2 DEF ResendFinished
  <1>9. CASE Allow(i) \/ Resend(i)
    <2>1. /\ drain'.step \in {"send", "answer"} /\ drain'.at = drain.at /\ drain'.todo = drain.todo
          /\ drain'.blocked = drain.blocked /\ drain'.raised = drain.raised
      BY ZenonT(60), <1>9 DEF Allow, Resend, Typed, OutboxTypeOK, Types, Drains
    <2>2. Target[i] \notin drain.blocked \ {NoTarget}
      BY <1>0, <1>9 DEF Allow, Resend, Looks, At, OrderInv
    <2>3. \A j \in Mine : Behind(j)' => Behind(j)
      BY <1>0, <2>1, NothingNew DEF Behind
    <2>4. drain'.step = "send" => Retained(drain.at)'
      BY <1>0, <2>1, LockHolds DEF Sends
    <2> QED
      BY <1>0, <2>1, <2>2, <2>3, <2>4 DEF OrderInv
  <1> QED
    BY <1>5, <1>6, <1>7, <1>8, <1>9 DEF DrainStep, ResendAnswered, ResendLost

LEMMA OrderStep ==
    ASSUME Typed, OrderInv, [OutboxNext]_outboxvars
    PROVE  OrderInv'
  <1>1. CASE UNCHANGED drain
    <2>1. CASE drain.step = "off"
      BY <1>1, <2>1 DEF OrderInv
    <2>2. CASE drain.step # "off"
      <3>1. \A j \in Mine : Behind(j)' => Behind(j)
        BY <1>1, <2>2, NothingNew DEF Behind
      <3>2. drain.at \in Intents
        BY <2>2, OutboxAssumption DEF Typed, OutboxTypeOK, Types, Drains
      <3>3. drain'.step = "send" => Retained(drain.at)'
        BY <1>1, <3>2, LockHolds DEF Sends
      <3> QED
        BY <1>1, <2>2, <3>1, <3>3 DEF OrderInv
    <2> QED
      BY <2>1, <2>2
  <1>2. CASE DrainStart
    <2>1. /\ {j \in Mine : Retained(j)} \in SUBSET Mine /\ {} \in SUBSET {Target[j] : j \in Intents} /\ {} \in SUBSET Mine
          /\ drain' = GoOn({j \in Mine : Retained(j)}, {}, {}) /\ UNCHANGED status
      BY <1>2 DEF DrainStart
    <2>2. /\ drain'.step \in {"off", "look"}
          /\ drain'.step = "look" => /\ drain'.todo = {j \in Mine : Retained(j)} /\ drain'.blocked = {}
                                     /\ \A j \in drain'.todo : drain'.at <= j
      BY <2>1, GoOnDrain
    <2> QED
      BY <2>1, <2>2 DEF OrderInv, Behind, Retained
  <1>3. CASE Skip
    <2>0. /\ drain.step # "off" /\ drain.at \in Mine /\ drain.at \in Intents /\ UNCHANGED status
          /\ drain.blocked \in SUBSET {Target[k] : k \in Intents} /\ drain.raised \in SUBSET Mine
      BY <1>3, OutboxAssumption DEF Skip, At, Typed, OutboxTypeOK, Types, Drains
    <2>1. PICK i \in Mine : i = drain.at
      BY <2>0
    <2>2. (Retained(i)') <=> Retained(i)
      BY <2>0 DEF Retained
    <2>3. drain.blocked \cup {Target[drain.at]} \in SUBSET {Target[k] : k \in Intents}
      BY <2>0
    <2>4. CASE Continue /\ (~Retained(drain.at) \/ Target[drain.at] \in drain.blocked)
      BY <2>0, <2>1, <2>2, <2>4, PassedOn DEF Continue
    <2>5. CASE ContinueBehind
      BY <2>0, <2>1, <2>3, <2>5, PassedOn DEF ContinueBehind
    <2> QED
      BY <1>3, <2>4, <2>5 DEF Skip
  <1>4. CASE DrainDies
    BY <1>4 DEF DrainDies, NoDrain, OrderInv
  <1>5. UNCHANGED drain \/ DrainStart \/ Skip \/ DrainDies \/ \E i \in Intents : DrainStep(i)
    BY NextInGroups DEF CallerActs, Prepare, Repeat, Refuse, Blocked, Send, Answered, AnswerLost, CallerDies,
       GithubActs, Serve, Arrives, OperatorActs, Abandon, ForceRetry, WorldActs, PullRequestMoves, Later, PassMoves, outboxvars
  <1> QED
    BY <1>1, <1>2, <1>3, <1>4, <1>5, OrderDrain

\* A pass publishes to a pull request in the order the publications were made: it
\* overtakes only what it let go as best effort, or what the transport raised on.
\* (github_outbox.drain)
THEOREM OrderIsKept == OutboxSpec => DrainKeepsOrder
  <1>1. ASSUME Typed, OrderInv, [OutboxNext]_outboxvars
        PROVE  [\A i, j \in Mine :
                  /\ Replays(i) /\ j < i
                  /\ Target[j] = Target[i] /\ Target[i] # NoTarget
                  => ~Retained(j) \/ Kind[j] = "resolve" \/ j \in drain.raised]_outboxvars
    <2>1. SUFFICES ASSUME NEW i \in Mine, NEW j \in Mine, Replays(i), j < i,
                          Target[j] = Target[i], Target[i] # NoTarget,
                          Retained(j), Kind[j] # "resolve", j \notin drain.raised
                   PROVE  FALSE
      OBVIOUS
    <2>2. drain.step = "send" /\ drain.at = i /\ Behind(j)
      BY <2>1 DEF Replays, Behind
    <2>3. j \in drain.todo
      BY <1>1, <2>1, <2>2 DEF OrderInv
    <2>4. i <= j /\ i \in Nat /\ j \in Nat
      BY <1>1, <2>2, <2>3, OutboxAssumption DEF OrderInv
    <2> QED
      BY <2>1, <2>4
  <1>2. OutboxInit => OrderInv
    BY DEF OutboxInit, NoDrain, OrderInv
  <1>3. Typed /\ OrderInv /\ [OutboxNext]_outboxvars => OrderInv'
    BY OrderStep
  <1> QED
    BY <1>1, <1>2, <1>3, TypedInit, TypedStep, PTL DEF OutboxSpec, DrainKeepsOrder

==============================================================================
