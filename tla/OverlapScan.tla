----------------------------- MODULE OverlapScan -----------------------------
(***************************************************************************)
(* The Mathlib overlap scanner: overlaps.do_scan and publish, under the    *)
(* strict lease and the compare-and-swap cursor of overlap_state.          *)
(*                                                                         *)
(* A scanner takes the shared lease, reads how far the shared cursor is,   *)
(* has the commits behind it examined, publishes one issue per finding and *)
(* moves the cursor on.  The lease may run out at any point, a request may *)
(* be lost or late, the scanner may be killed between any two steps; what  *)
(* it leaves on its disk (the result of an investigation, receipts of      *)
(* issues, intents of the publication outbox) is used by its next round.   *)
(***************************************************************************)
EXTENDS Naturals, FiniteSets

CONSTANTS Workers,   \* scanners, each with an account and a disk of its own
          Sessions,  \* owners of leases: one per do_scan, recycled when unused
          NoSession, \* owner of an absent lease
          Oids,      \* ids of lease commits, recycled when unused
          NoOid,     \* id of an absent lease
          TTL,       \* lease length, in ticks
          FirstPin,  \* Tau Ceti's Mathlib pin, as a position in the history
          LastPin,   \* bound: how far the pin moves
          Batch,     \* commits examined by one investigation
          Findings,  \* the commits that overlap Tau Ceti, one finding each
          MaxFaults, \* bound: lost, late or refused requests and kills
          Timely,    \* pushes and renewals are done before the lease runs out
          Unlabels   \* may somebody take the label off an issue?

ASSUME OverlapAssumption ==
    /\ NoSession \notin Sessions /\ NoOid \notin Oids
    /\ Sessions \subseteq Nat /\ Oids \subseteq Nat
    /\ TTL \in Nat \ {0} /\ Batch \in Nat \ {0} /\ MaxFaults \in Nat
    /\ FirstPin \in Nat /\ LastPin \in Nat /\ FirstPin <= LastPin
    /\ Findings \subseteq 1..LastPin
    /\ Timely \in BOOLEAN /\ Unlabels \in BOOLEAN

VARIABLES
    ref,       \* the lease ref: commit id, owner and ticks left
    cursor,    \* the shared cursor; its history makes its commit id unique
    pin,       \* Tau Ceti's Mathlib pin
    issues,    \* how many issues each account has opened on each finding
    hidden,    \* the issues, by account and finding, that lost their label
    late,      \* requests for an issue that may still arrive
    pc,        \* what each scanner is doing
    session,   \* the owner it writes into its lease
    cmd,       \* the lease write it is about to push: commit read, ticks left
    beat,      \* its heartbeat thread
    beatCmd,   \* the renewal that thread is about to push
    lost,      \* Lease.lost: the event of its present lease
    scan,      \* the batch it works on, and the findings still to publish
    disk,      \* what survives it: result, receipts and outbox intents
    faults,    \* spent so far
    excuse     \* findings a request for which was interrupted, or overtaken

leases == <<ref, session, cmd, beat, beatCmd, lost>>
github == <<issues, hidden, late>>
vars == <<leases, cursor, pin, github, pc, scan, disk, faults, excuse>>

Absent == [oid |-> NoOid, owner |-> NoSession, left |-> 0]
NoCmd == [oid |-> NoOid, left |-> 0]
NoScan == [from |-> 0, thru |-> 0, pin |-> 0, todo |-> {}]
Less(t) == IF t > 0 THEN t - 1 ELSE 0

Steps == {"idle", "acquiring", "scanning", "working", "publishing", "filing", "posting",
          "sent", "advancing", "leaving", "releasing"}
Busy == {"scanning", "working", "publishing", "filing", "posting", "sent", "advancing"}
Cmds == [oid : Oids \cup {NoOid}, left : 0..TTL]

\* The types of the variables, and what goes with what: a lease is worked under
\* only by a scanner with a heartbeat, and nothing is retained of a batch ahead
\* of the pin.  (overlaps.do_scan, overlap_state.Lease)
LeaseTypes ==
    /\ ref \in [oid : Oids \cup {NoOid}, owner : Sessions \cup {NoSession}, left : 0..TTL]
    /\ session \in [Workers -> Sessions \cup {NoSession}]
    /\ cmd \in [Workers -> Cmds] /\ beatCmd \in [Workers -> Cmds]
    /\ beat \in [Workers -> {"off", "waiting", "renewing"}]
    /\ lost \in [Workers -> BOOLEAN]

GithubTypes ==
    /\ issues \in [Workers -> [Findings -> Nat]]
    /\ hidden \subseteq Workers \X Findings
    /\ late \subseteq Workers \X Findings
    /\ faults \in 0..MaxFaults /\ excuse \subseteq Findings

Batches == [from : 0..LastPin, thru : 0..LastPin, pin : 0..LastPin, todo : SUBSET Findings]
Disks == [from : 0..LastPin, thru : 0..LastPin, pin : 0..LastPin, receipts : SUBSET Findings,
          intents : [Findings -> {"none", "rejected", "ambiguous"}]]

ScanTypes ==
    /\ cursor \in 0..LastPin /\ pin \in FirstPin..LastPin
    /\ pc \in [Workers -> Steps]
    /\ scan \in [Workers -> Batches] /\ disk \in [Workers -> Disks]

Phases ==
    \A w \in Workers :
        /\ pc[w] \in Busy /\ beat[w] = "off" => lost[w]
        /\ beat[w] # "off" => pc[w] \in Busy \cup {"leaving"}
        /\ pc[w] = "idle" <=> session[w] = NoSession
        /\ disk[w].thru <= disk[w].pin /\ disk[w].pin <= pin
        /\ pc[w] \in {"posting", "sent"} => scan[w].todo # {}

TypeOK == LeaseTypes /\ GithubTypes /\ ScanTypes /\ Phases

Init ==
    /\ ref = Absent
    /\ cursor = 0 /\ pin = FirstPin
    /\ issues = [w \in Workers |-> [f \in Findings |-> 0]]
    /\ hidden = {} /\ late = {}
    /\ pc = [w \in Workers |-> "idle"]
    /\ session = [w \in Workers |-> NoSession]
    /\ cmd = [w \in Workers |-> NoCmd] /\ beatCmd = [w \in Workers |-> NoCmd]
    /\ beat = [w \in Workers |-> "off"]
    /\ lost = [w \in Workers |-> FALSE]
    /\ scan = [w \in Workers |-> NoScan]
    /\ disk = [w \in Workers |-> [from |-> 0, thru |-> 0, pin |-> 0, receipts |-> {},
                                  intents |-> [f \in Findings |-> "none"]]]
    /\ faults = 0 /\ excuse = {}

Fault == faults < MaxFaults /\ faults' = faults + 1
To(w, step) == pc' = [pc EXCEPT ![w] = step]
From(w, step) == pc[w] = step
NoFault == UNCHANGED faults

------------------------------------------------------------------------------
(* The lease *)

Least(S) == {x \in S : \A y \in S : x <= y}
FreshOids == Least(Oids \ ({ref.oid} \cup {cmd[w].oid : w \in Workers} \cup {beatCmd[w].oid : w \in Workers}))
FreshSessions == Least(Sessions \ ({ref.owner} \cup {session[w] : w \in Workers}))

\* State.cas, with the lost answer it reconciles by reading the ref again.
CasOk(c) == ref.oid = c.oid
Write(w, c) == \E o \in FreshOids : ref' = [oid |-> o, owner |-> session[w], left |-> c.left]

\* Mutants: a live lease is taken over; an expired one is left alone.
TakesLive(lease) == TRUE
TakesAbsent(lease) == lease.owner = NoSession
MayTake(lease) == lease.left = 0
Owns(w) == ref.owner = session[w] /\ ref.left > 0

\* NextIn is the finding a scanner publishes next.  Who takes the lease over
\* overtakes the scanners between `require` and the answer to their request.
NextIn(todo) == CHOOSE f \in todo : \A g \in todo : f <= g
Current(w) == NextIn(scan[w].todo)
Overtakes == excuse' = excuse \cup {Current(w) : w \in {v \in Workers : pc[v] \in {"posting", "sent"}}}

AcquireRead(w) ==
    /\ From(w, "idle")
    /\ MayTake(ref)
    /\ \E s \in FreshSessions : session' = [session EXCEPT ![w] = s]
    /\ cmd' = [cmd EXCEPT ![w] = [oid |-> ref.oid, left |-> TTL]]
    /\ To(w, "acquiring")
    /\ UNCHANGED <<ref, beat, beatCmd, lost, cursor, pin, github, scan, disk, faults, excuse>>

AcquireWon(w) ==
    /\ From(w, "acquiring")
    /\ CasOk(cmd[w]) /\ Write(w, cmd[w])
    /\ cmd' = [cmd EXCEPT ![w] = NoCmd]
    /\ beat' = [beat EXCEPT ![w] = "waiting"]
    /\ To(w, "scanning")
    /\ Overtakes
    /\ UNCHANGED <<lost, session, beatCmd, cursor, pin, github, scan, disk, faults>>

\* Another scanner came first, or the state of the ref could not be told.
AcquireFailed(w) ==
    /\ From(w, "acquiring")
    /\ \/ ~CasOk(cmd[w]) /\ NoFault /\ UNCHANGED <<ref, excuse>>
       \/ Fault /\ UNCHANGED <<ref, excuse>>
       \/ CasOk(cmd[w]) /\ Write(w, cmd[w]) /\ Fault /\ Overtakes
    /\ cmd' = [cmd EXCEPT ![w] = NoCmd]
    /\ session' = [session EXCEPT ![w] = NoSession]
    /\ To(w, "idle")
    /\ UNCHANGED <<beat, beatCmd, lost, cursor, pin, github, scan, disk>>

\* The heartbeat holds the mutex from its read to the end of its push.
BeatRead(w) ==
    /\ beat[w] = "waiting" /\ pc[w] \in Busy
    /\ \/ /\ Owns(w)
          /\ beat' = [beat EXCEPT ![w] = "renewing"]
          /\ beatCmd' = [beatCmd EXCEPT ![w] = [oid |-> ref.oid, left |-> TTL]]
          /\ UNCHANGED lost /\ NoFault
       \/ /\ IF Owns(w) THEN Fault ELSE NoFault
          /\ beat' = [beat EXCEPT ![w] = "off"]
          /\ lost' = [lost EXCEPT ![w] = TRUE]
          /\ UNCHANGED beatCmd
    /\ UNCHANGED <<ref, session, cmd, cursor, pin, github, pc, scan, disk, excuse>>

BeatPush(w) ==
    /\ beat[w] = "renewing"
    /\ \/ /\ CasOk(beatCmd[w]) /\ Write(w, beatCmd[w])
          /\ beat' = [beat EXCEPT ![w] = "waiting"]
          /\ UNCHANGED lost /\ NoFault
       \/ /\ \/ ~CasOk(beatCmd[w]) /\ UNCHANGED ref /\ NoFault
             \/ UNCHANGED ref /\ Fault
             \/ CasOk(beatCmd[w]) /\ Write(w, beatCmd[w]) /\ Fault
          /\ beat' = [beat EXCEPT ![w] = "off"]
          /\ lost' = [lost EXCEPT ![w] = TRUE]
    /\ beatCmd' = [beatCmd EXCEPT ![w] = NoCmd]
    /\ UNCHANGED <<session, cmd, cursor, pin, github, pc, scan, disk, excuse>>

\* Lease.require, on the way to `step`: it waits for the mutex, and a lease
\* found lost stays lost.
\* Mutant: it only looks at the event.
RequireEvent(w) == ~lost[w]
Required(w) == ~lost[w] /\ Owns(w)

Require(w, step) ==
    /\ beat[w] # "renewing"
    /\ \/ /\ Required(w)
          /\ To(w, step)
          /\ UNCHANGED lost /\ NoFault
       \/ /\ IF Required(w) THEN Fault ELSE NoFault
          /\ To(w, "leaving")
          /\ lost' = [lost EXCEPT ![w] = @ \/ ~Owns(w)]

\* Mutant: the heartbeat goes on.
KeepBeat(w) == beat
StopBeat(w) == [beat EXCEPT ![w] = "off"]

\* release: the heartbeat has stopped; only the lease's own owner deletes it.
ReleaseRead(w) ==
    /\ From(w, "leaving")
    /\ beat[w] # "renewing"
    /\ beat' = StopBeat(w)
    /\ IF ref.owner = session[w]
       THEN /\ To(w, "releasing")
            /\ cmd' = [cmd EXCEPT ![w].oid = ref.oid]
            /\ UNCHANGED session
       ELSE /\ To(w, "idle")
            /\ session' = [session EXCEPT ![w] = NoSession]
            /\ UNCHANGED cmd
    /\ scan' = [scan EXCEPT ![w] = NoScan]
    /\ lost' = [lost EXCEPT ![w] = FALSE]
    /\ UNCHANGED <<ref, beatCmd, cursor, pin, github, disk, faults, excuse>>

ReleasePush(w) ==
    /\ From(w, "releasing")
    /\ \/ CasOk(cmd[w]) /\ ref' = Absent /\ NoFault
       \/ UNCHANGED ref /\ (IF CasOk(cmd[w]) THEN Fault ELSE NoFault)
    /\ cmd' = [cmd EXCEPT ![w] = NoCmd]
    /\ session' = [session EXCEPT ![w] = NoSession]
    /\ To(w, "idle")
    /\ UNCHANGED <<beat, beatCmd, lost, cursor, pin, github, scan, disk, excuse>>

------------------------------------------------------------------------------
(* GitHub *)

\* Issues that the inventory, a listing by label, shows.
Shown(w, f) == issues[w][f] > 0 /\ <<w, f>> \notin hidden
Listed(f) == \E w \in Workers : Shown(w, f)
Opens(w, f) ==
    /\ issues' = [issues EXCEPT ![w][f] = @ + 1]
    /\ hidden' = hidden \ {<<w, f>>}

\* A request for an issue, made by w: opened; refused for now; refused for
\* good; or its answer lost, with the request handled, still on its way or gone.
Asked(w, f, reply) ==
    \/ reply = "opened" /\ Opens(w, f) /\ UNCHANGED <<late, faults, excuse>>
    \/ reply \in {"rejected", "denied"} /\ Fault /\ UNCHANGED github
       /\ excuse' = IF reply = "rejected" THEN excuse \cup {f} ELSE excuse
    \/ /\ reply = "ambiguous" /\ Fault
       /\ \/ Opens(w, f) /\ UNCHANGED late
          \/ late' = late \cup {<<w, f>>} /\ UNCHANGED <<issues, hidden>>
          \/ UNCHANGED github
       /\ excuse' = excuse \cup {f}

Arrives(w, f) ==
    /\ <<w, f>> \in late
    /\ late' = late \ {<<w, f>>}
    /\ Opens(w, f)
    /\ UNCHANGED <<leases, cursor, pin, pc, scan, disk, faults, excuse>>

\* Somebody takes the label off an issue, or puts it back.
Unlabel(w, f) ==
    /\ Unlabels
    /\ \/ Shown(w, f) /\ hidden' = hidden \cup {<<w, f>>} /\ Fault
       \/ <<w, f>> \in hidden /\ hidden' = hidden \ {<<w, f>>} /\ NoFault
    /\ UNCHANGED <<leases, cursor, pin, issues, late, pc, scan, disk, excuse>>

PinMoves ==
    /\ pin < LastPin
    /\ pin' = pin + 1
    /\ UNCHANGED <<leases, cursor, github, pc, scan, disk, faults, excuse>>

------------------------------------------------------------------------------
(* do_scan and publish *)

Within(from, thru) == {f \in Findings : from < f /\ f <= thru}
Reach(from) == IF from + Batch < pin THEN from + Batch ELSE pin
Retains(w) == disk[w].thru > cursor /\ disk[w].from = cursor /\ disk[w].pin = pin

\* The step of a scanner that only reads, or works on its own disk.
Local(w) == /\ session[w] # NoSession
            /\ UNCHANGED <<ref, session, cmd, beat, beatCmd, cursor, pin, github>>

\* It reads the cursor and the pin.  The result of an interrupted round is used
\* again if it was made for just these.
ReadCursor(w) ==
    /\ From(w, "scanning") /\ Local(w)
    /\ \/ /\ cursor < pin
          /\ LET thru == IF Retains(w) THEN disk[w].thru ELSE Reach(cursor)
             IN  scan' = [scan EXCEPT ![w] = [from |-> cursor, thru |-> thru, pin |-> pin, todo |-> {}]]
          /\ To(w, IF Retains(w) THEN "publishing" ELSE "working")
          /\ NoFault
       \/ cursor = pin /\ To(w, "leaving") /\ UNCHANGED scan /\ NoFault
       \/ To(w, "leaving") /\ UNCHANGED scan /\ Fault
    /\ UNCHANGED <<lost, disk, excuse>>

\* The agent has examined every commit of the batch.
Investigated(w) ==
    /\ From(w, "working") /\ Local(w)
    /\ disk' = [disk EXCEPT ![w].from = scan[w].from, ![w].thru = scan[w].thru, ![w].pin = scan[w].pin]
    /\ To(w, "publishing")
    /\ UNCHANGED <<lost, scan, faults, excuse>>

\* It was cancelled with the lease, or failed.
AgentStops(w) ==
    /\ From(w, "working") /\ Local(w)
    /\ IF lost[w] THEN NoFault ELSE Fault
    /\ To(w, "leaving")
    /\ UNCHANGED <<lost, scan, disk, excuse>>

\* The fresh inventory of labelled issues; without findings it is not asked for.
Inventory(w) ==
    /\ From(w, "publishing") /\ Local(w)
    /\ \/ /\ scan' = [scan EXCEPT ![w].todo = {f \in Within(scan[w].from, scan[w].thru) : ~Listed(f)}]
          /\ To(w, "filing") /\ NoFault
       \/ /\ Within(scan[w].from, scan[w].thru) # {}
          /\ To(w, "leaving") /\ UNCHANGED scan /\ Fault
    /\ UNCHANGED <<lost, disk, excuse>>

Filed(w) == scan' = [scan EXCEPT ![w].todo = @ \ {Current(w)}]

\* Mutant: receipts are not looked at.
NoReceipt(w) == FALSE
Receipted(w) == Current(w) \in disk[w].receipts

\* A receipt says which issue it is: it must show its label again.
Confirm(w) ==
    /\ From(w, "filing") /\ Local(w)
    /\ scan[w].todo # {} /\ Receipted(w)
    /\ IF Shown(w, Current(w)) THEN Filed(w) /\ UNCHANGED pc
                               ELSE To(w, "leaving") /\ UNCHANGED scan
    /\ UNCHANGED <<lost, disk, faults, excuse>>

RequireToPost(w) ==
    /\ From(w, "filing") /\ Local(w)
    /\ scan[w].todo # {} /\ ~Receipted(w)
    /\ Require(w, "posting")
    /\ UNCHANGED <<scan, disk, excuse>>

\* The outbox takes the request, or holds an uncertain one already.
Post(w) ==
    /\ From(w, "posting") /\ Local(w)
    /\ IF disk[w].intents[Current(w)] = "ambiguous"
       THEN To(w, "leaving") /\ UNCHANGED disk
       ELSE To(w, "sent") /\ disk' = [disk EXCEPT ![w].intents[Current(w)] = "ambiguous"]
    /\ UNCHANGED <<lost, scan, faults, excuse>>

Settles(reply) == IF reply \in {"rejected", "ambiguous"} THEN reply ELSE "none"

\* Mutant: an issue counts as published when its request was not refused.
AnyReply(reply) == reply # "denied"
Confirmed(reply) == reply = "opened"

Reply(w) ==
    /\ From(w, "sent")
    /\ \E reply \in {"opened", "rejected", "denied", "ambiguous"} :
        /\ Asked(w, Current(w), reply)
        /\ IF Confirmed(reply)
           THEN /\ disk' = [disk EXCEPT ![w].intents[Current(w)] = Settles(reply),
                                        ![w].receipts = @ \cup {Current(w)}]
                /\ Filed(w)
                /\ To(w, "filing")
           ELSE /\ disk' = [disk EXCEPT ![w].intents[Current(w)] = Settles(reply)]
                /\ UNCHANGED scan
                /\ To(w, "leaving")
    /\ UNCHANGED <<leases, cursor, pin>>

\* Everything is published: the cursor may move, if the lease is still there.
RequireToAdvance(w) ==
    /\ From(w, "filing") /\ Local(w)
    /\ scan[w].todo = {}
    /\ Require(w, "advancing")
    /\ UNCHANGED <<scan, disk, excuse>>

\* Mutant: the cursor is written over whatever it is by now.
AnyCursor(w) == TRUE
CursorOk(w) == cursor = scan[w].from

Advance(w) ==
    /\ From(w, "advancing")
    /\ \/ CursorOk(w) /\ cursor' = scan[w].thru /\ NoFault
       \/ ~CursorOk(w) /\ UNCHANGED cursor /\ NoFault
       \/ UNCHANGED cursor /\ Fault
    /\ To(w, "leaving")
    /\ UNCHANGED <<leases, pin, github, scan, disk, excuse>>

\* What a kill leaves of a request: an intent that is not sent, an issue
\* without a receipt, or a request whose answer nobody saw.
Interrupted(w, f) ==
    \/ /\ From(w, "posting") /\ disk[w].intents[f] # "ambiguous"
       /\ disk' = [disk EXCEPT ![w].intents[f] = "rejected"]
       /\ excuse' = excuse \cup {f} /\ Fault /\ UNCHANGED github
    \/ /\ From(w, "sent") /\ Opens(w, f)
       /\ disk' = [disk EXCEPT ![w].intents[f] = "none"]
       /\ Fault /\ UNCHANGED <<late, excuse>>
    \/ From(w, "sent") /\ Asked(w, f, "ambiguous") /\ UNCHANGED disk

\* SIGKILL.  What a push in progress did is a step of its own before this one.
Crash(w) ==
    /\ pc[w] # "idle"
    /\ \/ pc[w] # "sent" /\ Fault /\ UNCHANGED <<github, disk, excuse>>
       \/ scan[w].todo # {} /\ Interrupted(w, Current(w))
    /\ To(w, "idle")
    /\ session' = [session EXCEPT ![w] = NoSession]
    /\ cmd' = [cmd EXCEPT ![w] = NoCmd] /\ beatCmd' = [beatCmd EXCEPT ![w] = NoCmd]
    /\ beat' = [beat EXCEPT ![w] = "off"]
    /\ lost' = [lost EXCEPT ![w] = FALSE]
    /\ scan' = [scan EXCEPT ![w] = NoScan]
    /\ UNCHANGED <<ref, cursor, pin>>

\* Before a round selects work it drains the outbox, and takes no lease for it:
\* an uncertain intent is looked up among the issues of the account and sent
\* again if it is not there; one refused or never sent is sent as it is.
Drain(w, f) ==
    /\ From(w, "idle")
    /\ disk[w].intents[f] # "none"
    /\ IF disk[w].intents[f] = "ambiguous" /\ issues[w][f] > 0
       THEN /\ disk' = [disk EXCEPT ![w].intents[f] = "none"]
            /\ UNCHANGED <<github, faults, excuse>>
       ELSE \E reply \in {"opened", "rejected", "denied", "ambiguous"} :
                /\ Asked(w, f, reply)
                /\ disk' = [disk EXCEPT ![w].intents[f] = Settles(reply)]
    /\ UNCHANGED <<leases, cursor, pin, pc, scan>>

RunsOut(w) == ref.left = 1 /\ ref.owner = session[w]

\* A push or a renewal that would outlast the lease it is for.
TooSlow(w) == (RunsOut(w) /\ beat[w] # "off") \/ 1 \in {cmd[w].left, beatCmd[w].left}

Tick ==
    /\ Timely => \A w \in Workers : ~TooSlow(w)
    /\ ref' = [ref EXCEPT !.left = Less(@)]
    /\ cmd' = [w \in Workers |-> [cmd[w] EXCEPT !.left = Less(@)]]
    /\ beatCmd' = [w \in Workers |-> [beatCmd[w] EXCEPT !.left = Less(@)]]
    /\ UNCHANGED <<session, beat, lost, cursor, pin, github, pc, scan, disk, faults, excuse>>

ScanStep(w) ==
    \/ AcquireRead(w) \/ AcquireWon(w) \/ AcquireFailed(w)
    \/ ReadCursor(w) \/ Investigated(w) \/ AgentStops(w) \/ Inventory(w) \/ Confirm(w)
    \/ RequireToPost(w) \/ Post(w) \/ Reply(w) \/ RequireToAdvance(w) \/ Advance(w)
    \/ ReleaseRead(w) \/ ReleasePush(w)

BeatStep(w) == BeatRead(w) \/ BeatPush(w)

Next ==
    \/ \E w \in Workers : ScanStep(w) \/ BeatStep(w) \/ Crash(w)
    \/ \E w \in Workers, f \in Findings : Drain(w, f) \/ Arrives(w, f) \/ Unlabel(w, f)
    \/ PinMoves \/ Tick

Spec == Init /\ [][Next]_vars

\* Rounds follow one another and run their course, heartbeats wake up, time
\* passes.  A scanner waiting for the heartbeat's mutex gets it at last: the
\* heartbeat sleeps between renewals.  A round drains its outbox first.
FairSpec ==
    /\ Spec
    /\ \A w \in Workers :
        /\ SF_vars(ScanStep(w)) /\ WF_vars(BeatStep(w))
        /\ \A f \in Findings : SF_vars(Drain(w, f))
    /\ WF_vars(Tick)

------------------------------------------------------------------------------
(* Properties *)

\* The cursor covers only what is published: for every finding up to it there
\* is an issue, whatever was lost, refused, reused or left behind.
\* (overlaps.publish, do_scan)
CursorCovered ==
    \A f \in Findings : f <= cursor => \E w \in Workers : issues[w][f] > 0

\* The cursor never moves back: a scanner that lost its lease on the way cannot
\* undo what the one that took it over has covered since.
\* (overlap_state.State.advance, overlaps.do_scan)
CursorForward == [][cursor' >= cursor]_vars

Opened(f) == {e \in Workers \X (1..2) : issues[e[1]][f] >= e[2]}

\* A finding has two issues only if one of its requests was refused for now,
\* interrupted or never answered ("Rare duplicate issues remain possible after
\* interrupted requests"), or if the lease was taken over while a request was
\* between `require` and its answer: there the code does not look again.  A lease
\* that lapses anywhere else, a retained result or a restart makes no duplicate.
\* (overlaps.publish, Lease.require)
DuplicatesExcused ==
    \A f \in Findings : Cardinality(Opened(f)) > 1 => f \in excuse

\* The strict lease implements the lease register: errors, lost answers and
\* lapsed heartbeats never take a live lease from its owner.
\* (overlap_state.Lease, State.cas)
Register == INSTANCE LeaseRegister
            WITH Workers <- Sessions, NoWorker <- NoSession, owner <- ref.owner, left <- ref.left
RefinesRegister == Register!Spec

\* The scanners catch up with the pin, whatever happens on the way: only an
\* issue that stays without its label keeps them from it.  (overlaps.do_scan)
CatchesUp == []<>(cursor = pin \/ hidden # {})

\* A scanner that has the receipt of an issue without its label does not open
\* that issue again, unless a request of its own is still under way.
\* (overlaps.publish, confirm_publication)
NotReopened ==
    [][\A w \in Workers, f \in Findings :
        f \in disk[w].receipts /\ <<w, f>> \in hidden \ late => issues'[w][f] = issues[w][f]]_vars
==============================================================================
