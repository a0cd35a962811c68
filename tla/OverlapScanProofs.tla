-------------------------- MODULE OverlapScanProofs --------------------------
(***************************************************************************)
(* Proofs about OverlapScan, for any scanners, findings, batches, leases   *)
(* and number of faults.                                                   *)
(***************************************************************************)
EXTENDS OverlapScan, FiniteSetTheorems, WellFoundedInduction, TLAPS

------------------------------------------------------------------------------
(* The first finding of a batch, and fresh ids.                               *)

\* A batch with something left to publish has a next finding.  (overlaps.publish)
LEMMA NextIsThere ==
    ASSUME NEW todo \in SUBSET Findings, todo # {}
    PROVE  NextIn(todo) \in todo
  <1>1. todo \subseteq Nat
    BY OverlapAssumption
  <1>2. PICK f \in todo : \A g \in todo : ~(<<g, f>> \in OpToRel(<, Nat))
    BY <1>1, WFMin, NatLessThanWellFounded, Zenon
  <1>3. ASSUME NEW g \in todo
        PROVE  f <= g
    <2>1. f \in Nat /\ g \in Nat
      BY <1>1
    <2>2. ~(g < f)
      BY <1>2, <2>1 DEF OpToRel
    <2> QED
      BY <2>1, <2>2
  <1> QED
    BY <1>3 DEF NextIn

\* A write of the lease carries an id that nobody has read.  (State.cas)
LEMMA FreshIsUnused ==
    ASSUME NEW o \in FreshOids
    PROVE  /\ o \in Oids /\ o # ref.oid
           /\ \A w \in Workers : o # cmd[w].oid /\ o # beatCmd[w].oid
  BY DEF FreshOids, Least

\* A round names itself as nobody else does.  (Lease.__init__)
LEMMA FreshIsOwn ==
    ASSUME NEW s \in FreshSessions
    PROVE  /\ s \in Sessions /\ s # ref.owner /\ s # NoSession
           /\ \A w \in Workers : s # session[w]
  BY OverlapAssumption DEF FreshSessions, Least

------------------------------------------------------------------------------
(* The actions in groups: the lease, a scan by itself, GitHub, the rest.      *)

LeaseStep(w) ==
    \/ AcquireRead(w) \/ AcquireWon(w) \/ AcquireFailed(w)
    \/ BeatRead(w) \/ BeatPush(w) \/ ReleaseRead(w) \/ ReleasePush(w)
LocalStep(w) ==
    \/ ReadCursor(w) \/ Investigated(w) \/ AgentStops(w) \/ Inventory(w)
    \/ Confirm(w) \/ RequireToPost(w) \/ Post(w) \/ RequireToAdvance(w)
RestStep == PinMoves \/ Tick \/ \E w \in Workers : Advance(w)

\* Nothing else happens.
LEMMA NextInGroups ==
    ASSUME TypeOK, [Next]_vars
    PROVE  \/ \E w \in Workers : LeaseStep(w) \/ LocalStep(w) \/ Reply(w) \/ Crash(w)
           \/ \E w \in Workers, f \in Findings : Drain(w, f) \/ Arrives(w, f) \/ Unlabel(w, f)
           \/ RestStep \/ UNCHANGED vars
  BY DEF Next, ScanStep, BeatStep, LeaseStep, LocalStep, RestStep

------------------------------------------------------------------------------
(* What is written to the disk of a scanner, and to GitHub.                   *)

Intents == [Findings -> {"none", "rejected", "ambiguous"}]
Marked(w, f, i) == disk' = [disk EXCEPT ![w].intents[f] = i]
Closed(w, f, i) == disk' = [disk EXCEPT ![w].intents[f] = i, ![w].receipts = @ \cup {f}]

\* The outbox of a scanner changes one intent.  (github_outbox)
LEMMA MarkedDisk ==
    ASSUME disk \in [Workers -> Disks], NEW w \in Workers, NEW f \in Findings,
           NEW i \in {"none", "rejected", "ambiguous"}, Marked(w, f, i)
    PROVE  /\ disk' \in [Workers -> Disks]
           /\ \A v \in Workers :
                /\ disk'[v].thru = disk[v].thru /\ disk'[v].pin = disk[v].pin /\ disk'[v].receipts = disk[v].receipts
                /\ \A g \in Findings : disk'[v].intents[g] = IF v = w /\ g = f THEN i ELSE disk[v].intents[g]
  <1> DEFINE I == [disk[w].intents EXCEPT ![f] = i]
             d == [disk[w] EXCEPT !.intents = I]
  <1>1. disk[w] \in Disks /\ disk[w].intents \in Intents
    BY DEF Disks, Intents
  <1>2. I \in Intents
    BY <1>1 DEF Intents
  <1>3. d \in Disks /\ d.thru = disk[w].thru /\ d.pin = disk[w].pin /\ d.receipts = disk[w].receipts /\ d.intents = I
    BY <1>1, <1>2 DEF Disks, Intents
  <1>4. disk' = [disk EXCEPT ![w] = d]
    BY <1>1 DEF Marked
  <1> HIDE DEF d
  <1> QED
    BY <1>1, <1>3, <1>4 DEF Intents


\* The receipt of an issue settles its intent.  (overlaps.publish)
LEMMA ClosedDisk ==
    ASSUME disk \in [Workers -> Disks], NEW w \in Workers, NEW f \in Findings,
           NEW i \in {"none", "rejected", "ambiguous"}, Closed(w, f, i)
    PROVE  /\ disk' \in [Workers -> Disks]
           /\ \A v \in Workers :
                /\ disk'[v].thru = disk[v].thru /\ disk'[v].pin = disk[v].pin
                /\ disk'[v].receipts = IF v = w THEN disk[v].receipts \cup {f} ELSE disk[v].receipts
                /\ \A g \in Findings : disk'[v].intents[g] = IF v = w /\ g = f THEN i ELSE disk[v].intents[g]
  <1> DEFINE I == [disk[w].intents EXCEPT ![f] = i]
             R == disk[w].receipts \cup {f}
             d == [disk[w] EXCEPT !.intents = I, !.receipts = R]
  <1>1. disk[w] \in Disks /\ disk[w].intents \in Intents /\ R \in SUBSET Findings
    BY DEF Disks, Intents
  <1>2. I \in Intents
    BY <1>1 DEF Intents
  <1>3. d \in Disks /\ d.thru = disk[w].thru /\ d.pin = disk[w].pin /\ d.receipts = R /\ d.intents = I
    BY <1>1, <1>2 DEF Disks, Intents
  <1>4. disk' = [disk EXCEPT ![w] = d]
    BY <1>1 DEF Closed
  <1> HIDE DEF d
  <1> QED
    BY <1>1, <1>3, <1>4 DEF Intents

LEMMA ClosedIntents ==
    ASSUME disk \in [Workers -> Disks], NEW w \in Workers, NEW f \in Findings, Closed(w, f, "none")
    PROVE  \A g \in Findings : disk'[w].intents[g] = IF g = f THEN "none" ELSE disk[w].intents[g]
  <1>1. \A g \in Findings : disk'[w].intents[g] = IF w = w /\ g = f THEN "none" ELSE disk[w].intents[g]
    BY ClosedDisk, Zenon
  <1> QED
    BY <1>1

\* An issue is counted once.  (overlaps.publish)
LEMMA OpensOne ==
    ASSUME GithubTypes, NEW w \in Workers, NEW f \in Findings, Opens(w, f)
    PROVE  /\ issues' \in [Workers -> [Findings -> Nat]]
           /\ \A v \in Workers, g \in Findings :
                issues'[v][g] = IF v = w /\ g = f THEN issues[v][g] + 1 ELSE issues[v][g]
  <1> DEFINE I == [issues[w] EXCEPT ![f] = issues[w][f] + 1]
  <1>1. I \in [Findings -> Nat]
    BY DEF GithubTypes
  <1>2. issues' = [issues EXCEPT ![w] = I]
    BY DEF Opens, GithubTypes
  <1> QED
    BY <1>1, <1>2 DEF GithubTypes

------------------------------------------------------------------------------
(* Type correctness.  A batch stays behind the pin, for its result is          *)
(* retained.                                                                   *)

Behind == \A w \in Workers : scan[w].thru <= scan[w].pin /\ scan[w].pin <= pin

Typed == TypeOK /\ Behind

LEMMA TypedInit == Init => Typed
  <1> SUFFICES ASSUME Init PROVE Typed
    OBVIOUS
  <1> USE OverlapAssumption DEF Init
  <1>1. LeaseTypes
    BY DEF LeaseTypes, Absent, NoCmd, Cmds
  <1>2. GithubTypes
    BY DEF GithubTypes
  <1>3. ScanTypes
    BY DEF ScanTypes, NoScan, Batches, Disks, Steps
  <1>4. Phases /\ Behind
    BY DEF Phases, Behind, NoScan, Busy
  <1> QED
    BY <1>1, <1>2, <1>3, <1>4 DEF Typed, TypeOK

\* A command of a scanner's own process, as it reads the ref and pushes.
\* (overlap_state.Lease)
LEMMA CommandsTyped ==
    ASSUME Typed, NEW w \in Workers, LeaseStep(w)
    PROVE  cmd' \in [Workers -> Cmds]
  <1>0. cmd \in [Workers -> Cmds] /\ cmd[w] \in Cmds /\ ref.oid \in Oids \cup {NoOid}
    BY DEF Typed, TypeOK, LeaseTypes
  <1>1. NoCmd \in Cmds /\ [oid |-> ref.oid, left |-> TTL] \in Cmds /\ [cmd[w] EXCEPT !.oid = ref.oid] \in Cmds
    BY <1>0, OverlapAssumption DEF NoCmd, Cmds
  <1>2. cmd' \in {cmd, [cmd EXCEPT ![w] = NoCmd], [cmd EXCEPT ![w] = [oid |-> ref.oid, left |-> TTL]],
                  [cmd EXCEPT ![w].oid = ref.oid]}
    BY DEF LeaseStep, AcquireRead, AcquireWon, AcquireFailed, BeatRead, BeatPush, ReleaseRead, ReleasePush
  <1> HIDE DEF NoCmd
  <1> QED
    BY <1>0, <1>1, <1>2

\* A request that is overtaken is one for a finding.  (overlaps.publish)
LEMMA OvertakenTyped ==
    ASSUME TypeOK
    PROVE  {Current(w) : w \in {v \in Workers : pc[v] \in {"posting", "sent"}}} \subseteq Findings
  BY NextIsThere DEF Current, TypeOK, Phases, ScanTypes, Batches

\* The commands of the lease keep the types.  (overlap_state.Lease)
LEMMA TypedLease ==
    ASSUME Typed, NEW w \in Workers, LeaseStep(w)
    PROVE  Typed'
  <1> USE OverlapAssumption
      DEF Typed, TypeOK, LeaseTypes, LeaseStep, AcquireRead, AcquireWon, AcquireFailed, BeatRead, BeatPush,
          ReleaseRead, ReleasePush, From, To, NoFault, Fault, NoCmd, github, CasOk, Absent, StopBeat, NoScan
  <1>1. ref' \in [oid : Oids \cup {NoOid}, owner : Sessions \cup {NoSession}, left : 0..TTL]
    <2>1. ASSUME NEW c \in Cmds, Write(w, c)
          PROVE  ref' \in [oid : Oids \cup {NoOid}, owner : Sessions \cup {NoSession}, left : 0..TTL]
      BY <2>1, FreshIsUnused DEF Write, Cmds
    <2> QED
      BY <2>1
  <1>2. session' \in [Workers -> Sessions \cup {NoSession}]
    BY FreshIsOwn
  <1>3. cmd' \in [Workers -> Cmds]
    BY CommandsTyped
  <1>11. beatCmd' \in [Workers -> Cmds]
    BY DEF Cmds
  <1>4. beat' \in [Workers -> {"off", "waiting", "renewing"}]
    OBVIOUS
  <1>5. lost' \in [Workers -> BOOLEAN]
    OBVIOUS
  <1>6. GithubTypes'
    <2>1. UNCHANGED excuse \/ Overtakes
      OBVIOUS
    <2>2. excuse' \subseteq Findings
      BY <2>1, OvertakenTyped DEF GithubTypes, Overtakes
    <2> QED
      BY <2>2 DEF GithubTypes
  <1>7. pc' \in [Workers -> Steps]
    BY DEF ScanTypes, Steps
  <1>12. scan' \in [Workers -> Batches]
    BY DEF ScanTypes, Batches
  <1>8. ScanTypes'
    BY <1>7, <1>12 DEF ScanTypes
  <1>9. Phases'
    BY FreshIsOwn DEF Phases, ScanTypes, Steps, Busy
  <1>10. Behind'
    BY DEF Behind, ScanTypes
  <1> QED
    BY <1>1, <1>2, <1>3, <1>4, <1>5, <1>6, <1>8, <1>9, <1>10, <1>11

\* The result of an investigation is retained as it was found.
\* (overlaps.do_scan)
LEMMA RetainedDisk ==
    ASSUME disk \in [Workers -> Disks], NEW w \in Workers, scan[w] \in Batches, Investigated(w)
    PROVE  disk' \in [Workers -> Disks]
  <1> DEFINE d == [disk[w] EXCEPT !.from = scan[w].from, !.thru = scan[w].thru, !.pin = scan[w].pin]
  <1>1. disk' = [disk EXCEPT ![w] = d]
    BY DEF Investigated
  <1>2. d \in Disks
    BY DEF Disks, Batches
  <1> HIDE DEF d
  <1> QED
    BY <1>1, <1>2

\* So do the steps of a scan that touch neither GitHub nor the cursor.
\* (overlaps.do_scan, publish)
LEMMA TypedLocal ==
    ASSUME Typed, NEW w \in Workers, LocalStep(w)
    PROVE  Typed'
  <1> USE OverlapAssumption
      DEF Typed, TypeOK, LocalStep, ReadCursor, Investigated, AgentStops, Inventory, Confirm, RequireToPost,
          Post, RequireToAdvance, Require, Filed, From, To, NoFault, Fault, github, Local
  <1>0. /\ scan[w] \in Batches /\ disk[w] \in Disks
        /\ disk \in [Workers -> Disks] /\ scan \in [Workers -> Batches]
    BY DEF ScanTypes
  <1>1. Post(w) => /\ Current(w) \in Findings
                   /\ disk' = disk \/ Marked(w, Current(w), "ambiguous")
    BY NextIsThere DEF Current, Phases, ScanTypes, Batches, Marked
  <1>2. lost' \in [Workers -> BOOLEAN]
    BY DEF LeaseTypes
  <1>3. LeaseTypes'
    BY <1>2 DEF LeaseTypes
  <1>4. GithubTypes'
    BY DEF GithubTypes
  <1>5. pc' \in [Workers -> Steps]
    BY DEF ScanTypes, Steps
  <1>6. scan' \in [Workers -> Batches]
    <2>1. CASE ReadCursor(w)
      BY <2>1 DEF ScanTypes, Batches, Disks, Retains, Reach
    <2>2. CASE Inventory(w)
      BY <2>2 DEF ScanTypes, Batches, Within
    <2>3. CASE Confirm(w)
      BY <2>3 DEF ScanTypes, Batches
    <2> QED
      BY <2>1, <2>2, <2>3 DEF ScanTypes
  <1>7. disk' \in [Workers -> Disks]
    <2>1. CASE Post(w)
      BY <1>0, <1>1, <2>1, MarkedDisk
    <2>2. CASE Investigated(w)
      BY <1>0, <2>2, RetainedDisk
    <2> QED
      BY <2>1, <2>2 DEF ScanTypes
  <1>8. ASSUME NEW v \in Workers
        PROVE  disk'[v].thru <= disk'[v].pin /\ disk'[v].pin <= pin'
    <2>1. CASE Post(w)
      BY <1>0, <1>1, <2>1, MarkedDisk DEF Phases
    <2>2. CASE Investigated(w)
      BY <2>2 DEF Phases, ScanTypes, Behind, Disks, Batches
    <2> QED
      BY <2>1, <2>2 DEF Phases
  <1>9. ASSUME NEW v \in Workers
        PROVE  /\ pc'[v] \in Busy /\ beat'[v] = "off" => lost'[v]
               /\ beat'[v] # "off" => pc'[v] \in Busy \cup {"leaving"}
    BY DEF Phases, ScanTypes, LeaseTypes, Steps, Busy
  <1>10. ASSUME NEW v \in Workers
         PROVE  /\ pc'[v] = "idle" <=> session'[v] = NoSession
                /\ pc'[v] \in {"posting", "sent"} => scan'[v].todo # {}
    BY DEF Phases, ScanTypes, LeaseTypes, Steps, Batches
  <1>11. Phases'
    BY <1>8, <1>9, <1>10 DEF Phases
  <1>12. Behind'
    <2>1. CASE ReadCursor(w)
      BY <2>1 DEF ScanTypes, Batches, Disks, Retains, Reach, Behind, Phases
    <2>2. CASE ~ReadCursor(w)
      <3>1. UNCHANGED <<cursor, pin>>
        OBVIOUS
      <3>2. ASSUME NEW v \in Workers
            PROVE  scan'[v].from = scan[v].from /\ scan'[v].thru = scan[v].thru /\ scan'[v].pin = scan[v].pin
        BY <2>2 DEF ScanTypes, Batches
      <3> QED
        BY ONLY <3>1, <3>2, Behind DEF Behind
    <2> QED
      BY <2>1, <2>2
  <1> QED
    BY <1>3, <1>4, <1>5, <1>6, <1>7, <1>11, <1>12 DEF ScanTypes

\* What a request does keeps the types of GitHub.  (github_outbox, overlaps.publish)
LEMMA TypedAsked ==
    ASSUME TypeOK, NEW w \in Workers, NEW f \in Findings, NEW reply, Asked(w, f, reply)
    PROVE  GithubTypes'
  <1> USE DEF Asked, TypeOK
  <1>1. issues' \in [Workers -> [Findings -> Nat]]
    BY OpensOne DEF github, GithubTypes
  <1>2. hidden' \subseteq Workers \X Findings
    BY DEF Opens, github, GithubTypes
  <1>3. late' \subseteq Workers \X Findings
    BY DEF github, GithubTypes
  <1>4. faults' \in 0..MaxFaults
    BY OverlapAssumption DEF GithubTypes, Fault
  <1>5. excuse' \subseteq Findings
    BY DEF GithubTypes
  <1> QED
    BY <1>1, <1>2, <1>3, <1>4, <1>5 DEF GithubTypes

\* What is left on the disk by an answer, by a kill and by the outbox.
LEMMA WrittenByReply ==
    ASSUME NEW w \in Workers, Reply(w)
    PROVE  \E reply \in {"opened", "rejected", "denied", "ambiguous"} :
              /\ Asked(w, Current(w), reply)
              /\ Settles(reply) \in {"none", "rejected", "ambiguous"}
              /\ \/ /\ Confirmed(reply) /\ Filed(w) /\ To(w, "filing")
                    /\ Closed(w, Current(w), Settles(reply))
                 \/ /\ ~Confirmed(reply) /\ UNCHANGED scan /\ To(w, "leaving")
                    /\ Marked(w, Current(w), Settles(reply))
  BY DEF Reply, Settles, Marked, Closed

LEMMA WrittenByCrash ==
    ASSUME NEW w \in Workers, Crash(w)
    PROVE  \/ pc[w] # "sent" /\ UNCHANGED <<github, disk, excuse>> /\ Fault
           \/ /\ scan[w].todo # {} /\ Interrupted(w, Current(w))
              /\ \/ disk' = disk
                 \/ \E i \in {"none", "rejected", "ambiguous"} : Marked(w, Current(w), i)
  BY DEF Crash, Interrupted, Marked

LEMMA WrittenByDrain ==
    ASSUME NEW w \in Workers, NEW f \in Findings, Drain(w, f)
    PROVE  \E i \in {"none", "rejected", "ambiguous"} : Marked(w, f, i)
  BY DEF Drain, Settles, Marked

\* The steps that talk to GitHub, and a kill, keep the types.
LEMMA TypedGithub ==
    ASSUME Typed, NEW w \in Workers,
           \/ Reply(w) \/ Crash(w)
           \/ \E f \in Findings : Drain(w, f) \/ Arrives(w, f) \/ Unlabel(w, f)
    PROVE  Typed'
  <1> USE OverlapAssumption DEF Typed, TypeOK, From, To, NoFault, Fault
  <1>0. /\ disk \in [Workers -> Disks] /\ scan \in [Workers -> Batches]
        /\ scan[w].todo # {} => Current(w) \in Findings
    BY NextIsThere DEF Current, ScanTypes, Batches
  <1>1. CASE Reply(w)
    <2>1. Current(w) \in Findings
      BY <1>0, <1>1 DEF Reply, Phases
    <2>2. GithubTypes'
      BY <1>1, <2>1, TypedAsked DEF Reply
    <2>3. /\ disk' \in [Workers -> Disks]
          /\ \A v \in Workers : disk'[v].thru = disk[v].thru /\ disk'[v].pin = disk[v].pin
      <3>1. PICK i \in {"none", "rejected", "ambiguous"} :
                \/ Closed(w, Current(w), i)
                \/ Marked(w, Current(w), i)
        BY <1>1, WrittenByReply
      <3> QED
        BY <1>0, <2>1, <3>1, MarkedDisk, ClosedDisk
    <2>4. pc' \in [Workers -> Steps]
      BY <1>1 DEF Reply, ScanTypes, Steps
    <2>5. scan' \in [Workers -> Batches]
      BY <1>1 DEF Reply, Filed, ScanTypes, Batches
    <2>6. LeaseTypes' /\ ScanTypes'
      BY <1>1, <2>3, <2>4, <2>5 DEF Reply, leases, LeaseTypes, ScanTypes
    <2>7. Phases'
      BY <1>1, <2>3 DEF Reply, Filed, leases, Phases, ScanTypes, Steps, Busy, Batches
    <2>8. Behind'
      BY <1>1 DEF Reply, Filed, Behind, ScanTypes, Batches
    <2> QED
      BY <2>2, <2>6, <2>7, <2>8
  <1>2. CASE Crash(w)
    <2>1. GithubTypes'
      <3>1. CASE UNCHANGED <<github, excuse>> /\ Fault
        BY <3>1 DEF GithubTypes, github
      <3>2. CASE Current(w) \in Findings /\ Asked(w, Current(w), "ambiguous")
        BY <3>2, TypedAsked
      <3>3. CASE /\ Current(w) \in Findings /\ UNCHANGED github /\ Fault
                 /\ excuse' = excuse \cup {Current(w)}
        <4>1. excuse' \subseteq Findings
          BY <3>3 DEF GithubTypes
        <4>2. faults' \in 0..MaxFaults
          BY <3>3 DEF GithubTypes
        <4> QED
          BY <3>3, <4>1, <4>2 DEF GithubTypes, github
      <3>4. CASE Current(w) \in Findings /\ Opens(w, Current(w)) /\ Fault /\ UNCHANGED <<late, excuse>>
        <4>1. issues' \in [Workers -> [Findings -> Nat]]
          BY <3>4, OpensOne
        <4>2. hidden' \subseteq Workers \X Findings /\ faults' \in 0..MaxFaults
          BY <3>4 DEF GithubTypes, Opens
        <4> QED
          BY <3>4, <4>1, <4>2 DEF GithubTypes
      <3> QED
        BY <1>0, <1>2, <3>1, <3>2, <3>3, <3>4 DEF Crash, Interrupted
    <2>2. /\ disk' \in [Workers -> Disks]
          /\ \A v \in Workers : disk'[v].thru = disk[v].thru /\ disk'[v].pin = disk[v].pin
      <3>1. \/ disk' = disk
            \/ /\ Current(w) \in Findings
               /\ \E i \in {"none", "rejected", "ambiguous"} : Marked(w, Current(w), i)
        BY <1>0, <1>2, WrittenByCrash
      <3>2. CASE disk' = disk
        BY <1>0, <3>2
      <3>3. CASE disk' # disk
        <4>1. PICK i \in {"none", "rejected", "ambiguous"} : Marked(w, Current(w), i)
          BY <3>1, <3>3
        <4>2. Current(w) \in Findings
          BY <3>1, <3>3
        <4> QED
          BY <1>0, <4>1, <4>2, MarkedDisk
      <3> QED
        BY <3>1, <3>2, <3>3
    <2>3. pc' \in [Workers -> Steps]
      BY <1>2 DEF Crash, ScanTypes, Steps
    <2>4. scan' \in [Workers -> Batches]
      BY <1>2 DEF Crash, ScanTypes, Batches, NoScan
    <2>5. lost' \in [Workers -> BOOLEAN]
      BY <1>2 DEF Crash, LeaseTypes
    <2>6. LeaseTypes' /\ ScanTypes'
      BY <1>2, <2>2, <2>3, <2>4, <2>5 DEF Crash, LeaseTypes, ScanTypes, NoCmd, Cmds
    <2>7. Phases'
      BY <1>2, <2>2 DEF Crash, NoScan, Phases, ScanTypes, LeaseTypes, Steps, Busy
    <2>8. Behind'
      BY <1>2 DEF Crash, NoScan, Behind, ScanTypes, Batches
    <2> QED
      BY <2>1, <2>6, <2>7, <2>8
  <1>3. ASSUME NEW f \in Findings, Drain(w, f)
        PROVE  Typed'
    <2>1. GithubTypes'
      BY <1>3, TypedAsked DEF Drain, GithubTypes, github
    <2>2. /\ disk' \in [Workers -> Disks]
          /\ \A v \in Workers : disk'[v].thru = disk[v].thru /\ disk'[v].pin = disk[v].pin
      <3>1. PICK i \in {"none", "rejected", "ambiguous"} : Marked(w, f, i)
        BY <1>3, WrittenByDrain
      <3> QED
        BY <1>0, <3>1, MarkedDisk
    <2>3. UNCHANGED <<leases, cursor, pin, pc, scan>>
      BY <1>3 DEF Drain
    <2> QED
      BY <2>1, <2>2, <2>3 DEF leases, LeaseTypes, ScanTypes, Phases, Behind
  <1>4. ASSUME NEW f \in Findings, Arrives(w, f) \/ Unlabel(w, f)
        PROVE  Typed'
    <2>1. issues' \in [Workers -> [Findings -> Nat]]
      BY <1>4, OpensOne DEF Arrives, Unlabel, GithubTypes
    <2>2. hidden' \subseteq Workers \X Findings
      BY <1>4 DEF Arrives, Unlabel, Opens, GithubTypes
    <2>3. GithubTypes'
      <3>1. late' \subseteq Workers \X Findings /\ excuse' = excuse
        BY <1>4 DEF Arrives, Unlabel, GithubTypes
      <3>2. faults' \in 0..MaxFaults
        BY <1>4 DEF Arrives, Unlabel, GithubTypes
      <3> QED
        BY <2>1, <2>2, <3>1, <3>2 DEF GithubTypes
    <2> QED
      BY <1>4, <2>3 DEF Arrives, Unlabel, leases, LeaseTypes, ScanTypes, Phases, Behind
  <1> QED
    BY <1>1, <1>2, <1>3, <1>4

\* So do the cursor, the pin and the passing of time.
LEMMA TypedRest ==
    ASSUME Typed, RestStep
    PROVE  Typed'
  <1> USE OverlapAssumption DEF Typed, TypeOK, RestStep, PinMoves, Advance, Tick, From, To, NoFault, Fault,
                                leases, github
  <1>1. LeaseTypes'
    <2>1. CASE Tick
      <3>1. \A t \in 0..TTL : Less(t) \in 0..TTL
        BY DEF Less
      <3>2. ref' \in [oid : Oids \cup {NoOid}, owner : Sessions \cup {NoSession}, left : 0..TTL]
        BY <2>1, <3>1 DEF LeaseTypes
      <3>3. \A c \in Cmds : [c EXCEPT !.left = Less(c.left)] \in Cmds
        BY <3>1 DEF Cmds
      <3>4. cmd' \in [Workers -> Cmds] /\ beatCmd' \in [Workers -> Cmds]
        BY <2>1, <3>3 DEF LeaseTypes
      <3> QED
        BY <2>1, <3>2, <3>4 DEF LeaseTypes
    <2> QED
      BY <2>1 DEF LeaseTypes
  <1>2. excuse' \subseteq Findings
    BY DEF GithubTypes
  <1>3. GithubTypes'
    BY <1>2 DEF GithubTypes
  <1>4. ScanTypes'
    BY DEF ScanTypes, Steps, Batches
  <1>5. Phases'
    BY DEF Phases, ScanTypes, Steps, Busy, Disks
  <1>6. Behind'
    BY DEF Behind, ScanTypes, Batches
  <1> QED
    BY <1>1, <1>3, <1>4, <1>5, <1>6

LEMMA TypedStep ==
    ASSUME Typed, [Next]_vars
    PROVE  Typed'
  <1>1. CASE UNCHANGED vars
    BY <1>1 DEF Typed, TypeOK, LeaseTypes, GithubTypes, ScanTypes, Phases, Behind, vars, leases, github
  <1> QED
    BY <1>1, NextInGroups, TypedLease, TypedLocal, TypedGithub, TypedRest DEF Typed

\* Every variable keeps its type, who works under the lease has a heartbeat or has
\* noticed that it is lost, a session lasts from the attempt on the lease to its
\* release, who sends a request has something left to publish, and nothing is
\* retained of a batch ahead of the pin.  (overlaps.do_scan, Lease.acquire, release)
THEOREM TypeCorrect == Spec => []TypeOK
  <1>1. Typed => TypeOK
    BY DEF Typed
  <1> QED
    BY <1>1, TypedInit, TypedStep, PTL DEF Spec

------------------------------------------------------------------------------
(* The lease.  A write in flight that still finds the ref as it was read may  *)
(* take it: an expired lease for an acquisition, its own for a renewal or a   *)
(* release.                                                                   *)

LeaseInv ==
    /\ ref.oid = NoOid <=> ref.owner = NoSession
    /\ ref.oid = NoOid => ref.left = 0
    /\ \A w \in Workers :
        /\ pc[w] = "acquiring" /\ CasOk(cmd[w]) => ref.left = 0
        /\ pc[w] = "releasing" => cmd[w].oid # NoOid /\ (CasOk(cmd[w]) => ref.owner = session[w])
        /\ beat[w] = "renewing" =>
             /\ beatCmd[w].oid # NoOid
             /\ CasOk(beatCmd[w]) => ref.owner = session[w] /\ beatCmd[w].left >= ref.left

LEMMA LeaseInit == Init => LeaseInv
  BY DEF Init, LeaseInv, Absent

\* A write fails every other one in flight, for nobody has read its id.
LEMMA WriteFailsOthers ==
    ASSUME Typed, NEW w \in Workers, session[w] # NoSession, NEW c \in Cmds, Write(w, c)
    PROVE  /\ ref'.oid # NoOid /\ ref'.owner = session[w] /\ session[w] \in Sessions
           /\ ref'.left = c.left /\ ref'.left \in 0..TTL
           /\ \A v \in Workers : ref'.oid # cmd[v].oid /\ ref'.oid # beatCmd[v].oid
  <1>1. PICK o \in FreshOids : ref' = [oid |-> o, owner |-> session[w], left |-> c.left]
    BY DEF Write
  <1>2. o \in Oids /\ o # NoOid /\ \A v \in Workers : o # cmd[v].oid /\ o # beatCmd[v].oid
    BY FreshIsUnused, OverlapAssumption
  <1>3. session[w] \in Sessions
    BY DEF Typed, TypeOK, LeaseTypes
  <1> QED
    BY <1>1, <1>2, <1>3 DEF Cmds

\* What each command of a lease does to the ref.  (overlap_state.Lease, State.cas)
LEMMA RefWritten ==
    ASSUME Typed, LeaseInv, NEW w \in Workers, LeaseStep(w)
    PROVE  \/ UNCHANGED ref
           \/ /\ ref'.oid # NoOid /\ ref'.owner = session[w] /\ session[w] \in Sessions
              /\ ref'.left \in 0..TTL
              /\ \A v \in Workers : ref'.oid # cmd[v].oid /\ ref'.oid # beatCmd[v].oid
              /\ \/ ref.left = 0 /\ pc[w] = "acquiring" /\ UNCHANGED beatCmd
                 \/ /\ ref.owner = session[w] /\ beat[w] = "renewing" /\ ref'.left >= ref.left
                    /\ UNCHANGED <<pc, session, cmd>>
           \/ ref' = Absent /\ ref.owner = session[w] /\ session[w] \in Sessions /\ pc[w] = "releasing"
  <1> USE DEF Typed, TypeOK, LeaseTypes, LeaseInv, From
  <1>1. CASE AcquireWon(w) \/ AcquireFailed(w)
    BY <1>1, WriteFailsOthers DEF AcquireWon, AcquireFailed, Phases
  <1>2. CASE BeatPush(w)
    BY <1>2, WriteFailsOthers DEF BeatPush, Phases, Busy
  <1>3. CASE ReleasePush(w)
    BY <1>3 DEF ReleasePush, Phases
  <1>4. CASE AcquireRead(w) \/ BeatRead(w) \/ ReleaseRead(w)
    BY <1>4 DEF AcquireRead, BeatRead, ReleaseRead
  <1> QED
    BY <1>1, <1>2, <1>3, <1>4 DEF LeaseStep

\* The commands of a scanner leave the others alone.
LEMMA OthersAlone ==
    ASSUME Typed, NEW w \in Workers, NEW v \in Workers, v # w,
           LeaseStep(w) \/ LocalStep(w) \/ Reply(w) \/ Crash(w) \/ \E f \in Findings : Drain(w, f)
    PROVE  /\ pc'[v] = pc[v] /\ session'[v] = session[v] /\ cmd'[v] = cmd[v]
           /\ beat'[v] = beat[v] /\ beatCmd'[v] = beatCmd[v] /\ scan'[v] = scan[v] /\ disk'[v] = disk[v]
  <1> USE DEF Typed, TypeOK, LeaseTypes, ScanTypes, From, To
  <1>1. CASE LeaseStep(w)
    BY <1>1 DEF LeaseStep, AcquireRead, AcquireWon, AcquireFailed, BeatRead, BeatPush, ReleaseRead,
                ReleasePush, StopBeat
  <1>2. CASE LocalStep(w)
    BY <1>2 DEF LocalStep, ReadCursor, Investigated, AgentStops, Inventory, Confirm, RequireToPost, Post,
                RequireToAdvance, Require, Filed, Local
  <1>3. CASE Reply(w)
    BY <1>3 DEF Reply, Filed, leases
  <1>4. CASE Crash(w)
    BY <1>4 DEF Crash, Interrupted
  <1>5. ASSUME NEW f \in Findings, Drain(w, f)
        PROVE  /\ pc'[v] = pc[v] /\ session'[v] = session[v] /\ cmd'[v] = cmd[v]
               /\ beat'[v] = beat[v] /\ beatCmd'[v] = beatCmd[v] /\ scan'[v] = scan[v] /\ disk'[v] = disk[v]
    BY <1>5 DEF Drain, leases
  <1> QED
    BY <1>1, <1>2, <1>3, <1>4, <1>5

\* What its own commands in flight are, after a command of its lease.
LEMMA OwnCommands ==
    ASSUME Typed, LeaseInv, NEW w \in Workers, LeaseStep(w)
    PROVE  /\ pc'[w] = "acquiring" => \/ ref.left = 0 /\ UNCHANGED ref
                                      \/ UNCHANGED <<pc, cmd>>
           /\ pc'[w] = "releasing" => \/ /\ UNCHANGED <<ref, session>> /\ ref.owner = session[w]
                                         /\ cmd'[w].oid = ref.oid /\ ref.oid # NoOid
                                      \/ UNCHANGED <<pc, cmd, session>>
           /\ beat'[w] = "renewing" => \/ /\ UNCHANGED <<ref, session>> /\ ref.owner = session[w]
                                          /\ beatCmd'[w].oid = ref.oid /\ ref.oid # NoOid /\ beatCmd'[w].left >= ref.left
                                       \/ UNCHANGED <<beat, beatCmd>> /\ session'[w] = session[w]
  <1> USE DEF Typed, TypeOK, LeaseTypes, ScanTypes, From, To, LeaseStep, AcquireRead, AcquireWon, AcquireFailed,
              BeatRead, BeatPush, ReleaseRead, ReleasePush, StopBeat
  <1>1. pc'[w] = "acquiring" => \/ ref.left = 0 /\ UNCHANGED ref
                                \/ UNCHANGED <<pc, cmd>>
    BY DEF MayTake
  <1>2. pc'[w] = "releasing" => \/ /\ UNCHANGED <<ref, session>> /\ ref.owner = session[w]
                                   /\ cmd'[w].oid = ref.oid /\ ref.oid # NoOid
                                \/ UNCHANGED <<pc, cmd, session>>
    BY DEF LeaseInv, Phases, Cmds
  <1>3. beat'[w] = "renewing" => \/ /\ UNCHANGED <<ref, session>> /\ ref.owner = session[w]
                                    /\ beatCmd'[w].oid = ref.oid /\ ref.oid # NoOid /\ beatCmd'[w].left >= ref.left
                                 \/ UNCHANGED <<beat, beatCmd>> /\ session'[w] = session[w]
    BY OverlapAssumption DEF LeaseInv, Phases, Busy, Owns
  <1> QED
    BY <1>1, <1>2, <1>3

LEMMA LeaseInvLease ==
    ASSUME Typed, LeaseInv, NEW w \in Workers, LeaseStep(w)
    PROVE  LeaseInv'
  <1>1. /\ ref'.oid = NoOid <=> ref'.owner = NoSession
        /\ ref'.oid = NoOid => ref'.left = 0
    BY RefWritten, OverlapAssumption DEF LeaseInv, Absent
  <1>2. ASSUME NEW v \in Workers
        PROVE  /\ pc'[v] = "acquiring" /\ CasOk(cmd[v])' => ref'.left = 0
               /\ pc'[v] = "releasing" => cmd'[v].oid # NoOid /\ (CasOk(cmd[v])' => ref'.owner = session'[v])
               /\ beat'[v] = "renewing" =>
                    /\ beatCmd'[v].oid # NoOid
                    /\ CasOk(beatCmd[v])' => ref'.owner = session'[v] /\ beatCmd'[v].left >= ref'.left
    <2>1. CASE v = w
      BY <2>1, OwnCommands, RefWritten DEF LeaseInv, CasOk, Absent
    <2>2. CASE v # w
      BY <2>2, OthersAlone, RefWritten DEF LeaseInv, CasOk, Absent
    <2> QED
      BY <2>1, <2>2
  <1> QED
    BY <1>1, <1>2 DEF LeaseInv

\* No other step writes the ref or a command, but a kill drops its own.
LEMMA LeaseInvOther ==
    ASSUME Typed, LeaseInv, NEW w \in Workers,
           \/ LocalStep(w) \/ Reply(w) \/ Crash(w) \/ RestStep \/ UNCHANGED vars
           \/ \E f \in Findings : Drain(w, f) \/ Arrives(w, f) \/ Unlabel(w, f)
    PROVE  LeaseInv'
  <1>0. /\ ref'.oid = ref.oid /\ ref'.owner = ref.owner /\ (ref.left = 0 => ref'.left = 0)
        /\ \A v \in Workers : /\ pc'[v] = pc[v] \/ pc'[v] \notin {"acquiring", "releasing"}
                              /\ beat'[v] = "renewing" => beat[v] = "renewing"
                              /\ \/ /\ cmd'[v].oid = cmd[v].oid /\ beatCmd'[v].oid = beatCmd[v].oid
                                    /\ beatCmd[v].left >= ref.left => beatCmd'[v].left >= ref'.left
                                    /\ session'[v] = session[v]
                                 \/ pc'[v] = "idle" /\ beat'[v] = "off"
    <2> USE DEF Typed, TypeOK, LeaseTypes, ScanTypes, From, To
    <2>1. CASE LocalStep(w)
      BY <2>1 DEF LocalStep, ReadCursor, Investigated, AgentStops, Inventory, Confirm, RequireToPost,
                  Post, RequireToAdvance, Require, Local
    <2>2. CASE Reply(w) \/ \E v \in Workers : Advance(v)
      BY <2>2 DEF Reply, Advance, leases
    <2>3. CASE Crash(w)
      BY <2>3 DEF Crash
    <2>4. CASE Tick
      BY <2>4 DEF Tick, Less, Cmds
    <2>5. CASE \/ \E f \in Findings : Drain(w, f) \/ Arrives(w, f) \/ Unlabel(w, f)
               \/ PinMoves \/ UNCHANGED vars
      BY <2>5 DEF Drain, Arrives, Unlabel, PinMoves, vars, leases
    <2> QED
      BY <2>1, <2>2, <2>3, <2>4, <2>5 DEF RestStep
  <1> QED
    BY <1>0 DEF LeaseInv, CasOk

LEMMA LeaseInvStep ==
    ASSUME Typed, LeaseInv, [Next]_vars
    PROVE  LeaseInv'
  <1>1. CASE \E w \in Workers : TRUE
    BY <1>1, NextInGroups, LeaseInvLease, LeaseInvOther DEF Typed
  <1>2. CASE Workers = {}
    BY <1>2, NextInGroups DEF Typed, LeaseInv, RestStep, PinMoves, Tick, vars, leases, Less, TypeOK, LeaseTypes
  <1> QED
    BY <1>1, <1>2

\* Every step of a scanner is a step of the lease register or leaves it alone: no
\* error, lost answer or lapsed heartbeat takes a live lease from its owner.
\* (overlap_state.Lease, State.cas)
THEOREM RegisterRefined == Spec => RefinesRegister
  <1>1. Init => Register!Init
    BY DEF Init, Absent, Register!Init
  <1>2. ASSUME Typed, LeaseInv, [Next]_vars
        PROVE  [Register!Next]_(Register!vars)
    <2> USE DEF Register!vars, Register!Next
    <2>1. ASSUME NEW w \in Workers, LeaseStep(w)
          PROVE  [Register!Next]_(Register!vars)
      BY <1>2, <2>1, RefWritten DEF Register!Grant, Register!Free, LeaseInv, Absent
    <2>2. CASE Tick
      BY <2>2 DEF Tick, Less, Register!Tick, Typed, TypeOK, LeaseTypes
    <2>3. CASE UNCHANGED ref
      BY <2>3
    <2>4. \/ \E w \in Workers : LeaseStep(w)
          \/ Tick \/ UNCHANGED ref
      BY <1>2, NextInGroups DEF Typed, LocalStep, ReadCursor, Investigated, AgentStops, Inventory, Confirm,
            RequireToPost, Post, RequireToAdvance, Local, Reply, Crash, Drain, Arrives, Unlabel, RestStep,
            PinMoves, Advance, vars, leases
    <2> QED
      BY <2>1, <2>2, <2>3, <2>4
  <1> QED
    BY <1>1, <1>2, TypedInit, TypedStep, LeaseInit, LeaseInvStep, PTL DEF Spec, RefinesRegister, Register!Spec

------------------------------------------------------------------------------
(* The cursor.  What a batch still has to publish, and what has an issue      *)
(* already, is all there is to find in it.                                    *)

Issued(f) == \E w \in Workers : issues[w][f] > 0
Filing == {"filing", "posting", "sent", "advancing"}

BatchCovered ==
    \A w \in Workers :
        /\ pc[w] \in Filing =>
             \A f \in Findings : scan[w].from < f /\ f <= scan[w].thru => f \in scan[w].todo \/ Issued(f)
        /\ pc[w] = "advancing" => scan[w].todo = {}

LEMMA CoveredInit == Init => CursorCovered /\ BatchCovered
  BY OverlapAssumption DEF Init, CursorCovered, BatchCovered, Filing

\* A request opens an issue or changes nothing that is counted.
LEMMA AskedCounts ==
    ASSUME TypeOK, NEW w \in Workers, NEW f \in Findings, NEW reply, Asked(w, f, reply)
    PROVE  \/ UNCHANGED issues
           \/ Opens(w, f)
  BY DEF Asked, github

\* Every change of an issue's count is one issue opened by a request.
LEMMA CountedBy ==
    ASSUME Typed, [Next]_vars
    PROVE  \/ UNCHANGED issues
           \/ \E w \in Workers, f \in Findings :
                /\ Opens(w, f)
                /\ \/ Arrives(w, f)
                   \/ Drain(w, f) /\ ~(disk[w].intents[f] = "ambiguous" /\ issues[w][f] > 0)
                   \/ From(w, "sent") /\ f = Current(w) /\ (Reply(w) \/ Crash(w))
  <1> USE DEF Typed, From
  <1>0. \A w \in Workers : scan[w].todo # {} => Current(w) \in Findings
    BY NextIsThere DEF Current, ScanTypes, Batches, TypeOK
  <1>1. ASSUME NEW w \in Workers, LeaseStep(w) \/ LocalStep(w)
        PROVE  UNCHANGED issues
    BY <1>1 DEF LeaseStep, AcquireRead, AcquireWon, AcquireFailed, BeatRead, BeatPush, ReleaseRead, ReleasePush,
        LocalStep, ReadCursor, Investigated, AgentStops, Inventory, Confirm, RequireToPost, Post,
        RequireToAdvance, Local, github
  <1>2. ASSUME NEW w \in Workers, Reply(w)
        PROVE  UNCHANGED issues \/ (From(w, "sent") /\ Current(w) \in Findings /\ Opens(w, Current(w)))
    <2>1. From(w, "sent") /\ Current(w) \in Findings
      BY <1>0, <1>2 DEF Reply, TypeOK, Phases
    <2> QED
      <3>1. \E reply : Asked(w, Current(w), reply)
        BY <1>2 DEF Reply
      <3> QED
        BY <2>1, <3>1, AskedCounts
  <1>3. ASSUME NEW w \in Workers, Crash(w)
        PROVE  UNCHANGED issues \/ (From(w, "sent") /\ Current(w) \in Findings /\ Opens(w, Current(w)))
    <2>1. \/ UNCHANGED github
          \/ /\ scan[w].todo # {} /\ From(w, "sent")
             /\ Opens(w, Current(w)) \/ Asked(w, Current(w), "ambiguous")
      BY <1>3 DEF Crash, Interrupted
    <2> QED
      BY <1>0, <2>1, AskedCounts DEF github
  <1>4. ASSUME NEW w \in Workers, NEW f \in Findings, Drain(w, f)
        PROVE  UNCHANGED issues \/ (Opens(w, f) /\ ~(disk[w].intents[f] = "ambiguous" /\ issues[w][f] > 0))
    <2>1. \/ disk[w].intents[f] = "ambiguous" /\ issues[w][f] > 0 /\ UNCHANGED github
          \/ /\ ~(disk[w].intents[f] = "ambiguous" /\ issues[w][f] > 0)
             /\ \E reply : Asked(w, f, reply)
      BY <1>4 DEF Drain
    <2> QED
      BY <2>1, AskedCounts DEF github
  <1>5. ASSUME NEW w \in Workers, NEW f \in Findings
        PROVE  /\ Arrives(w, f) => Opens(w, f)
               /\ Unlabel(w, f) => UNCHANGED issues
    BY DEF Arrives, Unlabel
  <1>6. CASE RestStep \/ UNCHANGED vars
    BY <1>6 DEF RestStep, PinMoves, Tick, Advance, github, vars
  <1> QED
    BY <1>1, <1>2, <1>3, <1>4, <1>5, <1>6, NextInGroups

\* An issue is not taken back.
LEMMA IssuesStay ==
    ASSUME Typed, [Next]_vars, NEW f \in Findings, Issued(f)
    PROVE  Issued(f)'
  <1>1. CASE UNCHANGED issues
    BY <1>1 DEF Issued
  <1>2. ASSUME NEW w \in Workers, NEW g \in Findings, Opens(w, g)
        PROVE  Issued(f)'
    <2>1. PICK v \in Workers : issues[v][f] > 0
      BY DEF Issued
    <2>2. issues'[v][f] > 0
      BY <1>2, <2>1, OpensOne DEF Typed, TypeOK, GithubTypes
    <2> QED
      BY <2>2 DEF Issued
  <1> QED
    BY <1>1, <1>2, CountedBy

\* The inventory, the receipts and the answers cover a batch.  (overlaps.publish)
LEMMA BatchCoveredStep ==
    ASSUME Typed, BatchCovered, [Next]_vars
    PROVE  BatchCovered'
  <1>1. SUFFICES ASSUME NEW w \in Workers
                 PROVE  /\ pc'[w] \in Filing => \A f \in Findings :
                             scan'[w].from < f /\ f <= scan'[w].thru => f \in scan'[w].todo \/ Issued(f)'
                        /\ pc'[w] = "advancing" => scan'[w].todo = {}
    BY DEF BatchCovered
  <1> DEFINE Same == /\ pc'[w] \in Filing => pc[w] \in Filing
                     /\ pc'[w] = "advancing" => (pc[w] = "advancing" \/ scan[w].todo = {})
                     /\ scan'[w] = scan[w]
  <1>2. CASE Same
    BY <1>2, IssuesStay DEF BatchCovered
  <1> HIDE DEF Same
  <1>3. ASSUME NEW v \in Workers, v # w,
               LeaseStep(v) \/ LocalStep(v) \/ Reply(v) \/ Crash(v) \/ \E f \in Findings : Drain(v, f)
        PROVE  Same
    BY <1>3, OthersAlone DEF Same
  <1>4. CASE \/ RestStep \/ UNCHANGED vars
             \/ \E v \in Workers, f \in Findings : Drain(v, f) \/ Arrives(v, f) \/ Unlabel(v, f)
    <2>1. (\E v \in Workers : Advance(v)) => Same
      BY DEF Same, Advance, From, To, Filing, Typed, TypeOK, ScanTypes
    <2>2. UNCHANGED <<pc, scan>> => Same
      BY DEF Same
    <2> QED
      BY <1>2, <1>4, <2>1, <2>2 DEF RestStep, PinMoves, Tick, Drain, Arrives, Unlabel, vars
  <1>5. CASE LeaseStep(w) \/ Crash(w)
    <2>1. pc'[w] \notin Filing \/ Same
      BY <1>5 DEF LeaseStep, AcquireRead, AcquireWon, AcquireFailed, BeatRead, BeatPush, ReleaseRead, ReleasePush,
                  Crash, From, To, Filing, Same, Typed, TypeOK, ScanTypes
    <2> QED
      BY <1>2, <2>1 DEF Filing
  <1>6. CASE LocalStep(w) /\ ~Inventory(w) /\ ~Confirm(w)
    <2>1. pc'[w] \notin Filing \/ Same
      BY <1>6 DEF LocalStep, ReadCursor, Investigated, AgentStops, RequireToPost, Post, RequireToAdvance,
                  Require, From, To, Filing, Same, Typed, TypeOK, ScanTypes
    <2> QED
      BY <1>2, <2>1 DEF Filing
  <1>7. CASE Inventory(w)
    <2>1. \A f \in Findings : Listed(f) => Issued(f)
      BY DEF Listed, Shown, Issued
    <2>2. pc'[w] = "leaving" \/ /\ pc'[w] = "filing"
                                /\ scan'[w].from = scan[w].from /\ scan'[w].thru = scan[w].thru
                                /\ scan'[w].todo = {f \in Within(scan[w].from, scan[w].thru) : ~Listed(f)}
      BY <1>7 DEF Inventory, To, Typed, TypeOK, ScanTypes, Batches
    <2> QED
      BY <2>1, <2>2, IssuesStay DEF Within, Filing
  <1>8. CASE Confirm(w)
    <2>1. \/ pc'[w] = "leaving"
          \/ /\ pc[w] = "filing" /\ pc'[w] = "filing" /\ Shown(w, Current(w))
             /\ scan'[w].from = scan[w].from /\ scan'[w].thru = scan[w].thru
             /\ scan'[w].todo = scan[w].todo \ {Current(w)}
      BY <1>8 DEF Confirm, Filed, From, To, Typed, TypeOK, ScanTypes, Batches
    <2>2. Shown(w, Current(w)) => Issued(Current(w))
      BY DEF Shown, Issued
    <2> QED
      BY <2>1, <2>2, IssuesStay DEF BatchCovered, Filing
  <1>9. CASE Reply(w)
    <2>1. Current(w) \in Findings
      BY <1>9, NextIsThere DEF Reply, From, Current, Typed, TypeOK, Phases, ScanTypes, Batches
    <2>2. \/ pc'[w] = "leaving"
          \/ /\ pc[w] = "sent" /\ pc'[w] = "filing" /\ Opens(w, Current(w))
             /\ scan'[w].from = scan[w].from /\ scan'[w].thru = scan[w].thru
             /\ scan'[w].todo = scan[w].todo \ {Current(w)}
      BY <1>9, <2>1, WrittenByReply DEF Reply, Confirmed, Asked, Filed, From, To, Typed, TypeOK, ScanTypes, Batches
    <2>3. Opens(w, Current(w)) => issues'[w][Current(w)] > 0
      BY <2>1, OpensOne DEF Typed, TypeOK, GithubTypes
    <2> QED
      BY <2>2, <2>3, IssuesStay DEF BatchCovered, Filing, Issued
  <1> QED
    BY <1>2, <1>3, <1>4, <1>5, <1>6, <1>7, <1>8, <1>9, NextInGroups DEF Typed

\* Only a scanner whose batch was read from the present cursor writes it.
\* (overlap_state.State.advance)
LEMMA CursorWritten ==
    ASSUME Typed, [Next]_vars
    PROVE  UNCHANGED cursor \/ \E w \in Workers : From(w, "advancing") /\ CursorOk(w) /\ cursor' = scan[w].thru
  BY ZenonT(60), NextInGroups DEF Typed, LeaseStep, AcquireRead, AcquireWon, AcquireFailed, BeatRead, BeatPush, ReleaseRead,
       ReleasePush, LocalStep, ReadCursor, Investigated, AgentStops, Inventory, Confirm, RequireToPost, Post,
       RequireToAdvance, Local, Reply, Crash, Drain, Arrives, Unlabel, RestStep, PinMoves, Tick, Advance, vars

\* Only a scanner at the end of its batch moves the cursor.  (State.advance)
LEMMA CursorCoveredStep ==
    ASSUME Typed, BatchCovered, CursorCovered, [Next]_vars
    PROVE  CursorCovered'
  <1>1. CASE UNCHANGED cursor
    BY <1>1, IssuesStay DEF CursorCovered, Issued
  <1>2. ASSUME NEW w \in Workers, From(w, "advancing"), CursorOk(w), cursor' = scan[w].thru
        PROVE  CursorCovered'
    <2>1. ASSUME NEW f \in Findings, f <= scan[w].thru
          PROVE  Issued(f)
      <3>1. f \in Nat /\ scan[w].from \in Nat /\ scan[w].thru \in Nat
        BY OverlapAssumption DEF Typed, TypeOK, ScanTypes, Batches
      <3>2. CASE f <= scan[w].from
        BY <1>2, <3>2 DEF CursorOk, CursorCovered, Issued
      <3>3. CASE scan[w].from < f
        BY <1>2, <2>1, <3>3 DEF From, BatchCovered, Filing
      <3> QED
        BY <3>1, <3>2, <3>3
    <2> QED
      BY <1>2, <2>1, IssuesStay DEF CursorCovered, Issued
  <1>3. UNCHANGED cursor \/ \E w \in Workers : From(w, "advancing") /\ CursorOk(w) /\ cursor' = scan[w].thru
    BY CursorWritten
  <1> QED
    BY <1>1, <1>2, <1>3

\* The cursor never passes a finding without an issue, whatever was lost, refused,
\* reused or left behind.  (overlaps.publish, do_scan)
THEOREM CursorNeverAhead == Spec => []CursorCovered
  BY TypedInit, TypedStep, CoveredInit, BatchCoveredStep, CursorCoveredStep, PTL DEF Spec

Onward == \A w \in Workers : scan[w].from <= scan[w].thru

LEMMA OnwardInit == Init => Onward
  BY DEF Init, Onward, NoScan

\* A batch never ends before it begins.  (overlaps.select_batch)
LEMMA OnwardStep ==
    ASSUME Typed, Onward, [Next]_vars
    PROVE  Onward'
  <1>0. scan \in [Workers -> Batches] /\ cursor \in Nat /\ pin \in Nat
    BY OverlapAssumption DEF Typed, TypeOK, ScanTypes
  <1>1. CASE UNCHANGED scan
    BY <1>1 DEF Onward
  <1>2. ASSUME NEW w \in Workers, scan' = [scan EXCEPT ![w] = NoScan]
        PROVE  Onward'
    BY <1>0, <1>2 DEF Onward, NoScan
  <1>3. ASSUME NEW w \in Workers, NEW todo, scan' = [scan EXCEPT ![w].todo = todo]
        PROVE  Onward'
    BY <1>0, <1>3 DEF Onward, Batches
  <1>4. ASSUME NEW w \in Workers, NEW thru \in Nat, thru >= cursor,
               scan' = [scan EXCEPT ![w] = [from |-> cursor, thru |-> thru, pin |-> pin, todo |-> {}]]
        PROVE  Onward'
    BY <1>0, <1>4 DEF Onward
  <1>5. ASSUME NEW w \in Workers, ReadCursor(w)
        PROVE  Onward'
    <2>1. disk[w].thru \in Nat
      BY OverlapAssumption DEF Typed, TypeOK, ScanTypes, Disks
    <2>2. CASE UNCHANGED scan
      BY <1>1, <2>2
    <2>3. CASE cursor < pin /\ Retains(w) /\
               scan' = [scan EXCEPT ![w] = [from |-> cursor, thru |-> disk[w].thru, pin |-> pin, todo |-> {}]]
      <3>1. disk[w].thru >= cursor
        BY <1>0, <2>1, <2>3 DEF Retains
      <3> QED
        BY <1>4, <2>1, <2>3, <3>1, Zenon
    <2>4. CASE cursor < pin /\
               scan' = [scan EXCEPT ![w] = [from |-> cursor, thru |-> Reach(cursor), pin |-> pin, todo |-> {}]]
      <3>1. Reach(cursor) \in Nat /\ Reach(cursor) >= cursor
        BY <1>0, <2>4, OverlapAssumption DEF Reach
      <3> QED
        BY <1>4, <2>4, <3>1, Zenon
    <2> QED
      BY <1>5, <2>2, <2>3, <2>4 DEF ReadCursor
  <1>6. \/ UNCHANGED scan
        \/ \E w \in Workers : ReadCursor(w) \/ scan' = [scan EXCEPT ![w] = NoScan]
        \/ \E w \in Workers : \E todo : scan' = [scan EXCEPT ![w].todo = todo]
    <2>1. \A w \in Workers : LeaseStep(w) => UNCHANGED scan \/ scan' = [scan EXCEPT ![w] = NoScan]
      BY DEF LeaseStep, AcquireRead, AcquireWon, AcquireFailed, BeatRead, BeatPush, ReleaseRead, ReleasePush
    <2>2. ASSUME NEW w \in Workers, LocalStep(w) \/ Reply(w)
          PROVE  \/ UNCHANGED scan \/ ReadCursor(w)
                 \/ \E todo : scan' = [scan EXCEPT ![w].todo = todo]
      <3>1. Filed(w) => \E todo : scan' = [scan EXCEPT ![w].todo = todo]
        BY DEF Filed
      <3>2. Inventory(w) => UNCHANGED scan \/ \E todo : scan' = [scan EXCEPT ![w].todo = todo]
        BY DEF Inventory
      <3> QED
        BY <2>2, <3>1, <3>2 DEF LocalStep, Investigated, AgentStops, Confirm, RequireToPost, Post,
           RequireToAdvance, Reply
    <2>3. \A w \in Workers : Crash(w) => scan' = [scan EXCEPT ![w] = NoScan]
      BY DEF Crash
    <2>4. RestStep \/ UNCHANGED vars \/ (\E w \in Workers, f \in Findings : Drain(w, f) \/ Arrives(w, f)
            \/ Unlabel(w, f)) => UNCHANGED scan
      BY DEF RestStep, PinMoves, Tick, Advance, vars, Drain, Arrives, Unlabel
    <2> QED
      BY <2>1, <2>2, <2>3, <2>4, NextInGroups DEF Typed
  <1> QED
    BY <1>1, <1>2, <1>3, <1>5, <1>6

\* The cursor never moves back, whoever lost the lease on the way to it: the push
\* names the commit that the batch was read from.  (overlap_state.State.advance)
THEOREM CursorNeverBack == Spec => CursorForward
  <1>1. ASSUME Typed, Onward, [Next]_vars
        PROVE  [cursor' >= cursor]_vars
    <2>1. cursor \in Nat /\ \A w \in Workers : scan[w].from \in Nat /\ scan[w].thru \in Nat
      BY <1>1, OverlapAssumption DEF Typed, TypeOK, ScanTypes, Batches
    <2>2. UNCHANGED cursor \/ \E w \in Workers : CursorOk(w) /\ cursor' = scan[w].thru
      BY <1>1, CursorWritten
    <2> QED
      BY <1>1, <2>1, <2>2 DEF CursorOk, Onward
  <1> QED
    BY <1>1, TypedInit, TypedStep, OnwardInit, OnwardStep, PTL DEF Spec, CursorForward

------------------------------------------------------------------------------
(* Duplicates.  While nobody takes labels off, an issue is opened by one      *)
(* scanner at a time: what is uncertain is excused, who sends a request owns  *)
(* the lease, and the owner has seen every issue of what it has left to do.   *)

Apart == \A w, v \in Workers : w # v /\ session[w] = session[v] => session[w] = NoSession

Single(f) ==
    /\ \A w \in Workers : issues[w][f] <= 1
    /\ \A w, v \in Workers : issues[w][f] > 0 /\ issues[v][f] > 0 => w = v

Uncertain ==
    \A w \in Workers, f \in Findings :
        /\ <<w, f>> \in late => f \in excuse
        /\ disk[w].intents[f] # "none" => f \in excuse \/ (pc[w] = "sent" /\ f = Current(w))

Sending ==
    \A w \in Workers : pc[w] \in {"posting", "sent"} => ref.owner = session[w] \/ Current(w) \in excuse

Unopened ==
    \A w \in Workers : pc[w] \in {"filing", "posting", "sent"} /\ ref.owner = session[w] =>
        \A f \in scan[w].todo : f \in excuse \/ ~Issued(f)

Once == \A f \in Findings : f \in excuse \/ Single(f)

LEMMA OnceInit == Init => hidden = {} /\ Apart /\ Uncertain /\ Sending /\ Unopened /\ Once
  BY DEF Init, Apart, Uncertain, Sending, Unopened, Once, Single

\* Rounds name themselves apart.  (Lease.__init__)
LEMMA ApartStep ==
    ASSUME Typed, Apart, [Next]_vars
    PROVE  Apart'
  <1>1. \/ UNCHANGED session
        \/ \E w \in Workers : session' = [session EXCEPT ![w] = NoSession]
        \/ \E w \in Workers, s \in FreshSessions : session' = [session EXCEPT ![w] = s]
    BY ZenonT(60), NextInGroups DEF Typed, LeaseStep, AcquireRead, AcquireWon, AcquireFailed, BeatRead, BeatPush, ReleaseRead,
       ReleasePush, LocalStep, ReadCursor, Investigated, AgentStops, Inventory, Confirm, RequireToPost, Post,
       RequireToAdvance, Local, Reply, Crash, Drain, Arrives, Unlabel, RestStep, PinMoves, Tick, Advance, vars,
       leases
  <1>2. session \in [Workers -> Sessions \cup {NoSession}]
    BY DEF Typed, TypeOK, LeaseTypes
  <1> QED
    BY <1>1, <1>2, FreshIsOwn DEF Apart

\* An excuse stands.
LEMMA ExcuseStays ==
    ASSUME Typed, [Next]_vars
    PROVE  excuse \subseteq excuse'
  <1>1. ASSUME NEW w \in Workers, NEW f, NEW reply, Asked(w, f, reply)
        PROVE  excuse \subseteq excuse'
    BY <1>1 DEF Asked
  <1>2. ASSUME NEW w \in Workers, LeaseStep(w) \/ LocalStep(w)
        PROVE  excuse \subseteq excuse'
    BY <1>2 DEF LeaseStep, AcquireRead, AcquireWon, AcquireFailed, BeatRead, BeatPush, ReleaseRead, ReleasePush,
        LocalStep, ReadCursor, Investigated, AgentStops, Inventory, Confirm, RequireToPost, Post,
        RequireToAdvance, Overtakes
  <1>3. ASSUME NEW w \in Workers, Reply(w) \/ Crash(w) \/ \E f \in Findings : Drain(w, f)
        PROVE  excuse \subseteq excuse'
    BY <1>1, <1>3 DEF Reply, Crash, Interrupted, Drain
  <1>4. CASE \/ RestStep \/ UNCHANGED vars
             \/ \E w \in Workers, f \in Findings : Arrives(w, f) \/ Unlabel(w, f)
    BY <1>4 DEF RestStep, PinMoves, Tick, Advance, vars, Arrives, Unlabel
  <1> QED
    BY <1>2, <1>3, <1>4, NextInGroups DEF Typed

\* Only a command of a lease, or time, changes the ref.
LEMMA RefKept ==
    ASSUME Typed, [Next]_vars
    PROVE  Tick \/ UNCHANGED ref \/ \E v \in Workers : LeaseStep(v)
  BY NextInGroups DEF Typed, LocalStep, ReadCursor, Investigated, AgentStops, Inventory, Confirm, RequireToPost,
     Post, RequireToAdvance, Local, Reply, Crash, Drain, Arrives, Unlabel, RestStep, PinMoves, Advance, vars,
     leases

\* The lease passes from a scanner that sends only to one that overtakes it.
\* (overlap_state.Lease)
LEMMA OwnerStays ==
    ASSUME Typed, LeaseInv, Apart, [Next]_vars, NEW w \in Workers, ref.owner = session[w],
           pc[w] \in {"posting", "sent"}
    PROVE  ref'.owner = ref.owner \/ Overtakes
  <1>0. session[w] # NoSession
    BY DEF Typed, TypeOK, LeaseTypes, Phases
  <1>1. ASSUME NEW v \in Workers, LeaseStep(v)
        PROVE  ref'.owner = ref.owner \/ Overtakes
    <2>1. CASE pc[v] = "acquiring"
      BY <1>1, <2>1 DEF LeaseStep, AcquireRead, AcquireWon, AcquireFailed, BeatRead, BeatPush, ReleaseRead,
            ReleasePush, From, Typed, TypeOK, Phases, Busy
    <2>2. CASE pc[v] # "acquiring"
      <3>1. pc[v] = "releasing" => v # w
        OBVIOUS
      <3>2. ref.owner = session[v] => v = w
        BY <1>0 DEF Apart
      <3> QED
        BY <1>0, <1>1, <2>2, <3>1, <3>2, RefWritten
    <2> QED
      BY <2>1, <2>2
  <1>2. CASE Tick
    BY <1>2 DEF Tick, Typed, TypeOK, LeaseTypes
  <1> QED
    BY <1>1, <1>2, RefKept

\* A scanner sends what it required the lease for, and what it has no receipt of.
LEMMA GoesToSend ==
    ASSUME Typed, [Next]_vars, NEW w \in Workers, pc'[w] \in {"posting", "sent"}
    PROVE  /\ scan'[w] = scan[w] /\ session'[w] = session[w]
           /\ \/ pc[w] \in {"posting", "sent"}
              \/ pc[w] = "filing" /\ Owns(w) /\ ~Receipted(w) /\ UNCHANGED <<ref, session, disk, issues>>
  <1>1. ASSUME NEW v \in Workers, v # w,
               LeaseStep(v) \/ LocalStep(v) \/ Reply(v) \/ Crash(v) \/ \E f \in Findings : Drain(v, f)
        PROVE  pc[w] \in {"posting", "sent"} /\ scan'[w] = scan[w] /\ session'[w] = session[w]
    BY <1>1, OthersAlone
  <1>2. CASE LeaseStep(w)
    BY <1>2 DEF LeaseStep, AcquireRead, AcquireWon, AcquireFailed, BeatRead, BeatPush, ReleaseRead,
          ReleasePush, From, To, Typed, TypeOK, ScanTypes
  <1>3. CASE LocalStep(w) /\ ~RequireToPost(w)
    BY <1>3 DEF LocalStep, ReadCursor, Investigated, AgentStops, Inventory, Confirm, Post,
          RequireToAdvance, Require, Local, From, To, Typed, TypeOK, ScanTypes
  <1>4. CASE RequireToPost(w)
    BY <1>4 DEF RequireToPost, Require, Required, Local, github, From, To, Typed, TypeOK, ScanTypes
  <1>5. CASE Reply(w) \/ Crash(w)
    BY <1>5 DEF Reply, Crash, From, To, Typed, TypeOK, ScanTypes
  <1>6. CASE \E v \in Workers : Advance(v)
    BY <1>6 DEF Advance, From, To, leases, Typed, TypeOK, ScanTypes
  <1>7. CASE \/ PinMoves \/ Tick \/ UNCHANGED vars
             \/ \E v \in Workers, f \in Findings : Drain(v, f) \/ Arrives(v, f) \/ Unlabel(v, f)
    BY <1>7 DEF PinMoves, Tick, vars, Drain, Arrives, Unlabel, leases
  <1> QED
    BY <1>1, <1>2, <1>3, <1>4, <1>5, <1>6, <1>7, NextInGroups DEF Typed, RestStep

\* A scanner goes on to a request, or to its answer, as the owner of the lease,
\* or it was overtaken.  (overlap_state.Lease.require)
LEMMA SendingStep ==
    ASSUME Typed, LeaseInv, Apart, Sending, [Next]_vars
    PROVE  Sending'
  <1>1. SUFFICES ASSUME NEW w \in Workers, pc'[w] \in {"posting", "sent"}
                 PROVE  ref'.owner = session'[w] \/ Current(w)' \in excuse'
    BY DEF Sending
  <1>2. \/ /\ pc[w] \in {"posting", "sent"} /\ scan'[w] = scan[w] /\ session'[w] = session[w]
        \/ Owns(w) /\ UNCHANGED <<ref, session>>
    BY <1>1, GoesToSend
  <1>3. CASE Owns(w) /\ UNCHANGED <<ref, session>>
    BY <1>3 DEF Owns
  <1>4. CASE pc[w] \in {"posting", "sent"} /\ scan'[w] = scan[w] /\ session'[w] = session[w]
    <2>1. Current(w)' = Current(w)
      BY <1>4 DEF Current
    <2>2. CASE Current(w) \in excuse
      BY <2>1, <2>2, ExcuseStays
    <2>3. CASE ref.owner = session[w]
      BY <1>4, <2>1, <2>3, OwnerStays DEF Overtakes
    <2> QED
      BY <1>4, <2>2, <2>3 DEF Sending
  <1> QED
    BY <1>2, <1>3, <1>4

\* What a request leaves behind: an excuse, unless it was answered.
LEMMA Answered ==
    ASSUME Typed, NEW w \in Workers, NEW f \in Findings, NEW reply, Asked(w, f, reply)
    PROVE  /\ reply \in {"opened", "rejected", "denied", "ambiguous"}
           /\ Settles(reply) # "none" => f \in excuse'
           /\ late' = late \/ (f \in excuse' /\ late' = late \cup {<<w, f>>})
  BY DEF Asked, Settles, github, Typed, TypeOK, GithubTypes

\* A request that may still arrive is excused.
LEMMA LateExcused ==
    ASSUME Typed, Uncertain, [Next]_vars, NEW w \in Workers, NEW f \in Findings, <<w, f>> \in late'
    PROVE  f \in excuse'
  <1>1. CASE <<w, f>> \in late
    BY <1>1, ExcuseStays DEF Uncertain
  <1>2. CASE <<w, f>> \notin late
    <2>1. ASSUME NEW v \in Workers, NEW g \in Findings, NEW reply, Asked(v, g, reply)
          PROVE  f \in excuse'
      BY <1>2, <2>1, Answered
    <2>2. ASSUME NEW v \in Workers, Reply(v) \/ (Crash(v) /\ late' # late)
          PROVE  f \in excuse'
      <3>1. Current(v) \in Findings
        BY <2>2, NextIsThere DEF Reply, Crash, Interrupted, From, github, Current, Typed, TypeOK, Phases, ScanTypes,
              Batches
      <3>2. \E reply : Asked(v, Current(v), reply)
        BY <2>2 DEF Reply, Crash, Interrupted, github
      <3> QED
        BY <2>1, <3>1, <3>2
    <2>3. ASSUME NEW v \in Workers, NEW g \in Findings, Drain(v, g)
          PROVE  f \in excuse'
      BY <1>2, <2>1, <2>3 DEF Drain, github
    <2>4. ASSUME NEW v \in Workers, LeaseStep(v) \/ LocalStep(v)
          PROVE  late' = late
      BY <2>4 DEF LeaseStep, AcquireRead, AcquireWon, AcquireFailed, BeatRead, BeatPush, ReleaseRead, ReleasePush,
         LocalStep, ReadCursor, Investigated, AgentStops, Inventory, Confirm, RequireToPost, Post,
         RequireToAdvance, Local, github
    <2>5. \/ RestStep \/ UNCHANGED vars
          \/ \E v \in Workers, g \in Findings : Arrives(v, g) \/ Unlabel(v, g)
          => late' \subseteq late
      BY DEF RestStep, PinMoves, Tick, Advance, github, vars, Arrives, Unlabel
    <2> QED
      BY <1>2, <2>2, <2>3, <2>4, <2>5, NextInGroups DEF Typed
  <1> QED
    BY <1>1, <1>2

\* An intent is settled, under way, or excused.  (github_outbox)
LEMMA IntentExcused ==
    ASSUME Typed, Uncertain, [Next]_vars, NEW w \in Workers, NEW f \in Findings, disk'[w].intents[f] # "none"
    PROVE  f \in excuse' \/ (pc'[w] = "sent" /\ f = Current(w)')
  <1> DEFINE Same == /\ disk'[w].intents = disk[w].intents /\ scan'[w] = scan[w]
                     /\ pc[w] = "sent" => pc'[w] = "sent"
             Still == /\ disk'[w].intents = disk[w].intents
                      /\ pc[w] # "sent"
  <1>0. disk \in [Workers -> Disks]
    BY DEF Typed, TypeOK, ScanTypes
  <1>1. CASE Same
    BY <1>1, ExcuseStays DEF Uncertain, Current
  <1>2. CASE Still
    BY <1>2, ExcuseStays DEF Uncertain
  <1> HIDE DEF Same, Still
  <1>3. ASSUME NEW v \in Workers, v # w,
               LeaseStep(v) \/ LocalStep(v) \/ Reply(v) \/ Crash(v) \/ \E g \in Findings : Drain(v, g)
        PROVE  Same
    BY <1>3, OthersAlone DEF Same
  <1>4. CASE LeaseStep(w)
    <2>1. BeatRead(w) \/ BeatPush(w) => Same
      BY DEF BeatRead, BeatPush, Same
    <2>2. ~(BeatRead(w) \/ BeatPush(w)) => Still
      BY <1>4 DEF LeaseStep, AcquireRead, AcquireWon, AcquireFailed, ReleaseRead, ReleasePush, From, Still
    <2> QED
      BY <1>1, <1>2, <2>1, <2>2
  <1>5. CASE \/ RestStep \/ UNCHANGED vars
             \/ \E v \in Workers, g \in Findings : Arrives(v, g) \/ Unlabel(v, g)
    <2>1. (\E v \in Workers : Advance(v)) => Same
      BY DEF Same, Advance, From, To, Typed, TypeOK, ScanTypes
    <2>2. UNCHANGED <<pc, scan, disk>> => Same
      BY DEF Same
    <2> QED
      BY <1>1, <1>5, <2>1, <2>2 DEF RestStep, PinMoves, Tick, Arrives, Unlabel, vars
  <1>6. CASE LocalStep(w) /\ ~Post(w)
    <2>1. disk'[w].intents = disk[w].intents
      BY <1>6 DEF LocalStep, ReadCursor, Investigated, AgentStops, Inventory, Confirm, RequireToPost,
                  RequireToAdvance, Typed, TypeOK, ScanTypes, Disks
    <2>2. pc[w] # "sent"
      BY <1>6 DEF LocalStep, ReadCursor, Investigated, AgentStops, Inventory, Confirm, RequireToPost,
                  RequireToAdvance, From
    <2> QED
      BY <1>2, <2>1, <2>2 DEF Still
  <1>7. CASE Post(w)
    <2>1. Current(w) \in Findings
      BY <1>7, NextIsThere DEF Post, From, Current, Typed, TypeOK, Phases, ScanTypes, Batches
    <2>2. CASE UNCHANGED disk
      BY <1>2, <1>7, <2>2 DEF Still, Post, From
    <2>3. CASE Marked(w, Current(w), "ambiguous") /\ To(w, "sent")
      <3>1. Current(w)' = Current(w) /\ pc'[w] = "sent"
        BY <1>7, <2>3 DEF Post, Current, To, Typed, TypeOK, ScanTypes
      <3>2. f # Current(w) => disk'[w].intents[f] = disk[w].intents[f]
        BY <1>0, <2>1, <2>3, MarkedDisk
      <3> QED
        BY <1>7, <3>1, <3>2, ExcuseStays DEF Uncertain, Post, From
    <2> QED
      BY <1>7, <2>2, <2>3 DEF Post, Marked
  \* A request of its own is answered, or interrupted.
  <1>8. ASSUME NEW g \in Findings, NEW i \in {"none", "rejected", "ambiguous"},
               Marked(w, g, i) \/ Closed(w, g, "none"), i # "none" => g \in excuse',
               pc[w] = "sent" => g = Current(w)
        PROVE  f \in excuse'
    <2>1. f # g => disk'[w].intents[f] = disk[w].intents[f]
      <3>1. CASE Marked(w, g, i)
        BY <1>0, <1>8, <3>1, MarkedDisk
      <3>2. CASE Closed(w, g, "none")
        BY <1>0, <3>2, ClosedIntents
      <3> QED
        BY <1>8, <3>1, <3>2
    <2>2. f = g /\ Marked(w, g, i) => disk'[w].intents[f] = i
      BY <1>0, <1>8, MarkedDisk
    <2>3. f = g /\ Closed(w, g, "none") => disk'[w].intents[f] = "none"
      BY <1>0, ClosedIntents
    <2> QED
      BY <1>8, <2>1, <2>2, <2>3, ExcuseStays DEF Uncertain
  <1>9. CASE Reply(w)
    <2>1. pc[w] = "sent" /\ Current(w) \in Findings
      BY <1>9, NextIsThere DEF Reply, From, Current, Typed, TypeOK, Phases, ScanTypes, Batches
    <2>2. PICK reply : /\ Asked(w, Current(w), reply)
                       /\ Marked(w, Current(w), Settles(reply)) \/ Closed(w, Current(w), "none")
      BY <1>9 DEF Reply, Confirmed, Settles, Closed, Marked
    <2>3. Settles(reply) \in {"none", "rejected", "ambiguous"} /\ (Settles(reply) # "none" => Current(w) \in excuse')
      BY <2>1, <2>2, Answered DEF Settles
    <2> QED
      BY <1>8, <2>1, <2>2, <2>3
  <1>10. CASE Crash(w)
    <2>1. CASE Still
      BY <1>2, <2>1
    <2>2. CASE scan[w].todo # {} /\ Interrupted(w, Current(w))
      <3>1. Current(w) \in Findings
        BY <2>2, NextIsThere DEF Current, Typed, TypeOK, ScanTypes, Batches
      <3>2. CASE From(w, "sent") /\ Asked(w, Current(w), "ambiguous") /\ UNCHANGED disk
        BY <3>1, <3>2, Answered, ExcuseStays DEF Uncertain, Settles
      <3>3. CASE /\ pc[w] = "posting" /\ Marked(w, Current(w), "rejected") /\ Current(w) \in excuse'
        BY <1>8, <3>1, <3>3
      <3>4. CASE /\ pc[w] = "sent" /\ Marked(w, Current(w), "none")
        BY <1>8, <3>1, <3>4
      <3> QED
        BY <2>2, <3>2, <3>3, <3>4 DEF Interrupted, From, Marked
    <2> QED
      BY <1>10, <2>1, <2>2 DEF Crash, Still
  <1>11. ASSUME NEW g \in Findings, Drain(w, g)
         PROVE  f \in excuse'
    <2>1. pc[w] # "sent"
      BY <1>11 DEF Drain, From
    <2>2. \/ Marked(w, g, "none")
          \/ \E reply : Asked(w, g, reply) /\ Marked(w, g, Settles(reply))
      BY <1>11 DEF Drain, Marked
    <2>3. ASSUME NEW reply, Asked(w, g, reply), Marked(w, g, Settles(reply))
          PROVE  f \in excuse'
      <3>1. Settles(reply) \in {"none", "rejected", "ambiguous"} /\ (Settles(reply) # "none" => g \in excuse')
        BY <2>3, Answered DEF Settles
      <3> QED
        BY <1>8, <2>1, <2>3, <3>1
    <2> QED
      BY <1>8, <2>1, <2>2, <2>3
  <1> QED
    BY <1>1, <1>3, <1>4, <1>5, <1>6, <1>7, <1>9, <1>10, <1>11, NextInGroups DEF Typed

LEMMA UncertainStep ==
    ASSUME Typed, Uncertain, [Next]_vars
    PROVE  Uncertain'
  BY LateExcused, IntentExcused DEF Uncertain

\* Only the owner of the lease opens an issue that nothing excuses.
LEMMA OpenedByOwner ==
    ASSUME Typed, Uncertain, Sending, [Next]_vars, NEW f \in Findings, f \notin excuse
    PROVE  \/ \A v \in Workers : issues'[v][f] = issues[v][f]
           \/ \E v \in Workers : /\ pc[v] = "sent" /\ f = Current(v) /\ ref.owner = session[v] /\ Opens(v, f)
                                 /\ Reply(v) \/ Crash(v)
  <1>1. CASE UNCHANGED issues
    BY <1>1
  <1>2. CASE \E v \in Workers, g \in Findings :
                /\ Opens(v, g)
                /\ \/ Arrives(v, g)
                   \/ Drain(v, g) /\ ~(disk[v].intents[g] = "ambiguous" /\ issues[v][g] > 0)
                   \/ From(v, "sent") /\ g = Current(v) /\ (Reply(v) \/ Crash(v))
    <2>1. PICK v \in Workers, g \in Findings :
                /\ Opens(v, g)
                /\ \/ Arrives(v, g)
                   \/ Drain(v, g)
                   \/ From(v, "sent") /\ g = Current(v) /\ (Reply(v) \/ Crash(v))
      BY <1>2
    <2>2. CASE g # f
      BY <2>1, <2>2, OpensOne DEF Typed, TypeOK
    <2>3. CASE g = f
      <3>1. ~Arrives(v, f) /\ ~Drain(v, f)
        BY DEF Arrives, Drain, From, Uncertain
      <3> QED
        BY <2>1, <2>3, <3>1 DEF Sending, From
    <2> QED
      BY <2>2, <2>3
  <1> QED
    BY <1>1, <1>2, CountedBy

\* A scanner files a fresh inventory, or goes on with what it has.
LEMMA FilesOn ==
    ASSUME Typed, [Next]_vars, NEW w \in Workers, pc'[w] \in {"filing", "posting", "sent"}
    PROVE  \/ /\ UNCHANGED issues
              /\ scan'[w].todo = {f \in Within(scan[w].from, scan[w].thru) : ~Listed(f)}
           \/ /\ pc[w] \in {"filing", "posting", "sent"} /\ session'[w] = session[w]
              /\ scan'[w].todo \subseteq scan[w].todo
              /\ (pc[w] = "sent" /\ (Reply(w) \/ Crash(w))) => Current(w) \notin scan'[w].todo
  <1> DEFINE Same == /\ pc[w] \in {"filing", "posting", "sent"} /\ session'[w] = session[w]
                     /\ scan'[w] = scan[w]
  <1>0. CASE Same /\ ~Reply(w) /\ ~Crash(w)
    BY <1>0
  <1>1. (\E v \in Workers : v # w /\
           (LeaseStep(v) \/ LocalStep(v) \/ Reply(v) \/ Crash(v) \/ \E f \in Findings : Drain(v, f))) => Same
    BY OthersAlone
  <1>2. (LeaseStep(w) \/ (\E v \in Workers : Advance(v)) \/ (LocalStep(w) /\ ~Inventory(w) /\ ~Confirm(w))) => Same
    BY DEF LeaseStep, AcquireRead, AcquireWon, AcquireFailed, BeatRead, BeatPush, ReleaseRead, ReleasePush,
       LocalStep, ReadCursor, Investigated, AgentStops, RequireToPost, Post, RequireToAdvance, Require, Local,
       Advance, leases, From, To, Typed, TypeOK, ScanTypes
  <1>3. (\/ PinMoves \/ Tick \/ UNCHANGED vars
         \/ \E v \in Workers, f \in Findings : Drain(v, f) \/ Arrives(v, f) \/ Unlabel(v, f)) => Same
    BY DEF PinMoves, Tick, vars, Drain, Arrives, Unlabel, leases
  <1>4. CASE Inventory(w)
    BY <1>4 DEF Inventory, Local, github, To, Typed, TypeOK, ScanTypes, Batches
  <1>5. Confirm(w) => /\ pc[w] = "filing" /\ session'[w] = session[w]
                      /\ scan'[w].todo = scan[w].todo \ {Current(w)}
    BY DEF Confirm, Filed, Local, From, To, Typed, TypeOK, ScanTypes, Batches
  <1>6. Reply(w) => /\ pc[w] = "sent" /\ session'[w] = session[w]
                    /\ scan'[w].todo = scan[w].todo \ {Current(w)}
    BY DEF Reply, Filed, From, To, leases, Typed, TypeOK, ScanTypes, Batches
  <1>7. ~Crash(w)
    BY DEF Crash, To, Typed, TypeOK, ScanTypes
  <1> HIDE DEF Same
  <1> QED
    BY <1>0, <1>1, <1>2, <1>3, <1>4, <1>5, <1>6, <1>7, NextInGroups DEF Typed, RestStep

\* The owner of the lease has seen every issue of what it has left to publish.
LEMMA UnopenedStep ==
    ASSUME Typed, LeaseInv, hidden = {}, Apart, Uncertain, Sending, Unopened, [Next]_vars
    PROVE  Unopened'
  <1>1. SUFFICES ASSUME NEW w \in Workers, pc'[w] \in {"filing", "posting", "sent"}, ref'.owner = session'[w],
                        NEW f \in scan'[w].todo, f \notin excuse'
                 PROVE  ~Issued(f)'
    BY DEF Unopened
  <1>2. CASE UNCHANGED issues /\ scan'[w].todo = {g \in Within(scan[w].from, scan[w].thru) : ~Listed(g)}
    BY <1>1, <1>2 DEF Listed, Shown, Issued
  <1>3. CASE /\ pc[w] \in {"filing", "posting", "sent"} /\ session'[w] = session[w]
             /\ scan'[w].todo \subseteq scan[w].todo
             /\ (pc[w] = "sent" /\ (Reply(w) \/ Crash(w))) => Current(w) \notin scan'[w].todo
    <2>1. session[w] # NoSession /\ f \in Findings /\ f \notin excuse
      BY <1>1, <1>3, ExcuseStays DEF Typed, TypeOK, Phases, ScanTypes, Batches
    <2>2. ref.owner = session[w]
      <3>1. ASSUME NEW v \in Workers, LeaseStep(v)
            PROVE  ref.owner = session[w]
        BY <1>1, <1>3, <2>1, <3>1, RefWritten DEF Apart, Absent
      <3>2. CASE Tick
        BY <1>1, <1>3, <3>2 DEF Tick, Typed, TypeOK, LeaseTypes
      <3> QED
        BY <1>1, <1>3, <3>1, <3>2, RefKept
    <2>3. ~Issued(f)
      BY <1>3, <2>1, <2>2 DEF Unopened
    <2>4. ASSUME NEW v \in Workers, pc[v] = "sent", f = Current(v), ref.owner = session[v], Reply(v) \/ Crash(v)
          PROVE  FALSE
      BY <1>1, <1>3, <2>1, <2>2, <2>4 DEF Apart
    <2> QED
      BY <2>1, <2>3, <2>4, OpenedByOwner DEF Issued
  <1> QED
    BY <1>1, <1>2, <1>3, FilesOn

\* What is opened without an excuse was not there before.
LEMMA OnceStep ==
    ASSUME Typed, Uncertain, Sending, Unopened, Once, [Next]_vars
    PROVE  Once'
  <1>1. SUFFICES ASSUME NEW f \in Findings, f \notin excuse'
                 PROVE  Single(f)'
    BY DEF Once
  <1>2. f \notin excuse /\ Single(f)
    BY <1>1, ExcuseStays DEF Once
  <1>3. ASSUME NEW v \in Workers, pc[v] = "sent", f = Current(v), ref.owner = session[v], Opens(v, f)
        PROVE  Single(f)'
    <2>1. f \in scan[v].todo
      BY <1>3, NextIsThere DEF Current, Typed, TypeOK, Phases, ScanTypes, Batches
    <2>2. ~Issued(f)
      BY <1>2, <1>3, <2>1 DEF Unopened
    <2>3. \A u \in Workers : issues[u][f] = 0
      BY <2>2 DEF Issued, Typed, TypeOK, GithubTypes
    <2>4. \A u \in Workers : issues'[u][f] = IF u = v THEN 1 ELSE 0
      BY <1>3, <2>3, OpensOne DEF Typed, TypeOK
    <2> QED
      BY <2>4 DEF Single
  <1> QED
    BY <1>2, <1>3, OpenedByOwner DEF Single

\* Nobody takes labels off.
LEMMA LabelsStay ==
    ASSUME Typed, Unlabels = FALSE, hidden = {}, [Next]_vars
    PROVE  hidden' = {}
  <1>1. ASSUME NEW w \in Workers, NEW f, NEW reply, Asked(w, f, reply) \/ Opens(w, f)
        PROVE  hidden' = {}
    BY <1>1 DEF Asked, Opens, github
  <1>2. ASSUME NEW w \in Workers, Reply(w) \/ Crash(w) \/ \E f \in Findings : Drain(w, f) \/ Arrives(w, f)
        PROVE  hidden' = {}
    BY <1>1, <1>2 DEF Reply, Crash, Interrupted, Drain, Arrives, github
  <1>3. ASSUME NEW w \in Workers, LeaseStep(w) \/ LocalStep(w)
        PROVE  UNCHANGED hidden
    BY <1>3 DEF LeaseStep, AcquireRead, AcquireWon, AcquireFailed, BeatRead, BeatPush, ReleaseRead, ReleasePush,
        LocalStep, ReadCursor, Investigated, AgentStops, Inventory, Confirm, RequireToPost, Post,
        RequireToAdvance, Local, github
  <1>4. CASE RestStep \/ UNCHANGED vars
    BY <1>4 DEF RestStep, PinMoves, Tick, Advance, github, vars
  <1>5. \A w \in Workers, f \in Findings : ~Unlabel(w, f)
    BY DEF Unlabel
  <1> QED
    BY <1>2, <1>3, <1>4, <1>5, NextInGroups DEF Typed

LEMMA SingleIsCounted ==
    ASSUME Typed, NEW f \in Findings, Single(f)
    PROVE  ~(Cardinality(Opened(f)) > 1)
  <1>1. issues \in [Workers -> [Findings -> Nat]]
    BY DEF Typed, TypeOK, GithubTypes
  <1>2. CASE \A w \in Workers : issues[w][f] = 0
    <2>1. Opened(f) = {}
      BY <1>1, <1>2 DEF Opened
    <2> QED
      BY <2>1, FS_EmptySet
  <1>3. ASSUME NEW w \in Workers, issues[w][f] # 0
        PROVE  ~(Cardinality(Opened(f)) > 1)
    <2>1. \A v \in Workers : issues[v][f] = IF v = w THEN 1 ELSE 0
      BY <1>1, <1>3 DEF Single
    <2>2. ASSUME NEW e \in Workers \X (1..2)
          PROVE  issues[e[1]][f] >= e[2] <=> e = <<w, 1>>
      <3>1. PICK v \in Workers, i \in 1..2 : e = <<v, i>>
        BY <2>2
      <3>2. issues[v][f] >= i <=> v = w /\ i = 1
        BY <2>1
      <3> QED
        BY <3>1, <3>2
    <2>3. Opened(f) = {<<w, 1>>}
      BY <2>2 DEF Opened
    <2>4. Cardinality({<<w, 1>>}) = 1
      BY FS_Singleton, Zenon
    <2> QED
      BY <2>3, <2>4
  <1> QED
    BY <1>1, <1>2, <1>3

\* While labels stay on, a finding has two issues only if one of its requests was
\* refused for now, interrupted or never answered, or if the lease was taken over
\* between `require` and the answer.  (overlaps.publish, Lease.require)
THEOREM DuplicatesAreExcused == Unlabels = FALSE => (Spec => []DuplicatesExcused)
  <1> DEFINE Inv == hidden = {} /\ Apart /\ Uncertain /\ Sending /\ Unopened /\ Once
  <1>0. SUFFICES ASSUME Unlabels = FALSE
                 PROVE  Spec => []DuplicatesExcused
    OBVIOUS
  <1>1. Typed /\ Once => DuplicatesExcused
    BY SingleIsCounted DEF Once, DuplicatesExcused
  <1>2. Typed /\ LeaseInv /\ Inv /\ [Next]_vars => Inv'
    BY <1>0, LabelsStay, ApartStep, UncertainStep, SendingStep, UnopenedStep, OnceStep
  <1>3. Init => Inv
    BY OnceInit
  <1> QED
    BY <1>1, <1>2, <1>3, TypedInit, TypedStep, LeaseInit, LeaseInvStep, PTL DEF Spec

------------------------------------------------------------------------------
(* Receipts.  The receipt of an issue settles its intent, and a finding with   *)
(* a receipt is not asked for again: it is confirmed.                          *)

ReceiptInv ==
    \A w \in Workers :
        /\ \A f \in disk[w].receipts : disk[w].intents[f] = "none"
        /\ pc[w] \in {"posting", "sent"} => Current(w) \notin disk[w].receipts

\* What each step writes to the outbox and the receipts of a scanner.
LEMMA DiskWritten ==
    ASSUME Typed, [Next]_vars, NEW w \in Workers
    PROVE  \/ disk'[w].receipts = disk[w].receipts /\ disk'[w].intents = disk[w].intents
           \/ /\ pc[w] \in {"posting", "sent"} /\ Current(w) \in Findings
              /\ \E i \in {"none", "rejected", "ambiguous"} : Marked(w, Current(w), i)
           \/ pc[w] = "sent" /\ pc'[w] = "filing" /\ Current(w) \in Findings /\ Closed(w, Current(w), "none")
           \/ \E f \in Findings, i \in {"none", "rejected", "ambiguous"} :
                disk[w].intents[f] # "none" /\ Marked(w, f, i)
  <1>0. pc[w] \in {"posting", "sent"} => Current(w) \in Findings
    BY NextIsThere DEF Current, Typed, TypeOK, Phases, ScanTypes, Batches
  <1>1. CASE UNCHANGED disk
    BY <1>1
  <1>2. ASSUME NEW v \in Workers, v # w,
               LeaseStep(v) \/ LocalStep(v) \/ Reply(v) \/ Crash(v) \/ \E f \in Findings : Drain(v, f)
        PROVE  disk'[w].receipts = disk[w].receipts /\ disk'[w].intents = disk[w].intents
    BY <1>2, OthersAlone
  <1>3. LeaseStep(w) \/ RestStep \/ UNCHANGED vars
          \/ (\E v \in Workers, f \in Findings : Arrives(v, f) \/ Unlabel(v, f)) => UNCHANGED disk
    BY DEF LeaseStep, AcquireRead, AcquireWon, AcquireFailed, BeatRead, BeatPush, ReleaseRead, ReleasePush,
           RestStep, PinMoves, Tick, Advance, vars, Arrives, Unlabel
  <1>4. CASE LocalStep(w) /\ ~Investigated(w)
    BY <1>0, <1>4 DEF LocalStep, ReadCursor, AgentStops, Inventory, Confirm, RequireToPost, Post, RequireToAdvance,
                From, Marked
  <1>5. CASE Investigated(w)
    BY <1>5 DEF Investigated, Typed, TypeOK, ScanTypes, Disks
  <1>6. CASE Reply(w)
    <2>1. pc[w] = "sent" /\ pc' = [pc EXCEPT ![w] = pc'[w]]
      BY <1>6 DEF Reply, From, To, Typed, TypeOK, ScanTypes
    <2>2. \/ pc'[w] = "filing" /\ Closed(w, Current(w), "none")
          \/ \E i \in {"none", "rejected", "ambiguous"} : Marked(w, Current(w), i)
      BY <1>6 DEF Reply, Confirmed, Settles, Closed, Marked, To, Typed, TypeOK, ScanTypes
    <2> QED
      BY <1>0, <2>1, <2>2
  <1>7. CASE Crash(w)
    BY <1>0, <1>7 DEF Crash, Interrupted, Marked, From
  <1>8. ASSUME NEW f \in Findings, Drain(w, f)
        PROVE  disk[w].intents[f] # "none" /\ \E i \in {"none", "rejected", "ambiguous"} : Marked(w, f, i)
    BY <1>8 DEF Drain, Marked, Settles
  <1> QED
    BY <1>1, <1>2, <1>3, <1>4, <1>5, <1>6, <1>7, <1>8, NextInGroups DEF Typed

LEMMA ReceiptInit == Init => ReceiptInv
  BY DEF Init, ReceiptInv

LEMMA ReceiptInvStep ==
    ASSUME Typed, ReceiptInv, [Next]_vars
    PROVE  ReceiptInv'
  <1>1. SUFFICES ASSUME NEW w \in Workers
                 PROVE  /\ \A f \in disk'[w].receipts : disk'[w].intents[f] = "none"
                        /\ pc'[w] \in {"posting", "sent"} => Current(w)' \notin disk'[w].receipts
    BY DEF ReceiptInv
  <1>0. disk \in [Workers -> Disks] /\ disk[w].receipts \subseteq Findings
    BY DEF Typed, TypeOK, ScanTypes, Disks
  <1>2. ASSUME NEW f \in Findings, NEW i \in {"none", "rejected", "ambiguous"}, Marked(w, f, i)
        PROVE  /\ disk'[w].receipts = disk[w].receipts
               /\ \A g \in Findings : g # f => disk'[w].intents[g] = disk[w].intents[g]
    BY <1>0, <1>2, MarkedDisk
  <1>3. ASSUME NEW f \in Findings, Closed(w, f, "none")
        PROVE  /\ disk'[w].receipts = disk[w].receipts \cup {f}
               /\ \A g \in Findings : disk'[w].intents[g] = IF g = f THEN "none" ELSE disk[w].intents[g]
    <2>1. \A g \in Findings : disk'[w].intents[g] = IF g = f THEN "none" ELSE disk[w].intents[g]
      BY <1>0, <1>3, ClosedIntents
    <2>2. disk'[w].receipts = disk[w].receipts \cup {f}
      BY <1>0, <1>3, ClosedDisk
    <2> QED
      BY <2>1, <2>2
  <1>4. \A f \in disk'[w].receipts : disk'[w].intents[f] = "none"
    BY <1>0, <1>2, <1>3, DiskWritten DEF ReceiptInv
  <1>5. ASSUME pc'[w] \in {"posting", "sent"}
        PROVE  Current(w)' \notin disk'[w].receipts
    <2>1. disk'[w].receipts = disk[w].receipts
      BY <1>2, <1>5, DiskWritten
    <2>2. Current(w)' = Current(w) /\ (pc[w] \in {"posting", "sent"} \/ ~Receipted(w))
      BY <1>5, GoesToSend DEF Current
    <2> QED
      BY <2>1, <2>2 DEF ReceiptInv, Receipted
  <1> QED
    BY <1>4, <1>5

\* A scanner with the receipt of an issue that lost its label opens that issue
\* again only by a request still under way: it waits for the label.
\* (overlaps.publish, confirm_publication)
THEOREM ReceiptsHold == Spec => NotReopened
  <1>1. ASSUME Typed, ReceiptInv, [Next]_vars
        PROVE  [\A w \in Workers, f \in Findings :
                  f \in disk[w].receipts /\ <<w, f>> \in hidden \ late => issues'[w][f] = issues[w][f]]_vars
    <2>1. SUFFICES ASSUME NEW w \in Workers, NEW f \in Findings, f \in disk[w].receipts,
                          <<w, f>> \in hidden \ late, issues'[w][f] # issues[w][f]
                   PROVE  FALSE
      OBVIOUS
    <2>2. PICK v \in Workers, g \in Findings :
            /\ Opens(v, g)
            /\ \/ Arrives(v, g)
               \/ Drain(v, g) /\ ~(disk[v].intents[g] = "ambiguous" /\ issues[v][g] > 0)
               \/ From(v, "sent") /\ g = Current(v) /\ (Reply(v) \/ Crash(v))
      BY <1>1, <2>1, CountedBy
    <2>3. v = w /\ g = f
      BY <1>1, <2>1, <2>2, OpensOne DEF Typed, TypeOK
    <2>4. ~Arrives(w, f)
      BY <2>1 DEF Arrives
    <2>5. disk[w].intents[f] = "none" /\ (pc[w] = "sent" => Current(w) # f)
      BY <1>1, <2>1 DEF ReceiptInv
    <2> QED
      BY <2>2, <2>3, <2>4, <2>5 DEF Drain, From
  <1> QED
    BY <1>1, TypedInit, TypedStep, ReceiptInit, ReceiptInvStep, PTL DEF Spec, NotReopened

==============================================================================
