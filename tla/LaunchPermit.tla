---------------------------- MODULE LaunchPermit ----------------------------
(***************************************************************************)
(* One paid invocation: the shim that stands in for the Claude command     *)
(* (claude_api_client.py), the gate that becomes the native process        *)
(* (usage_lifecycle.exec_gate), the bridge of the stage that admits it     *)
(* (claude_api.py), and the usage supervisor of the host                   *)
(* (usage_supervisor.py) that permits its launch and settles what it left. *)
(* Every one of them may be killed at any step, and what survives is files *)
(* and the row of the budget's ledger.                                     *)
(*                                                                         *)
(* In a container the host sees no processes: liveness is unknown until an *)
(* exact proof of the end is on disk.                                      *)
(***************************************************************************)
EXTENDS Naturals

CONSTANTS MaxCrashes,  \* bound: deaths of the supervisor
          Remotes      \* may the invocation run in a container? a set of BOOLEANs

LaunchAssumption == MaxCrashes \in Nat /\ Remotes \subseteq BOOLEAN

VARIABLES
    external, \* the invocation runs in a container
    shim,     \* the step the shim is at
    gate,     \* the process the shim starts, and what became of it
    spent,    \* the native process has made a paid request
    bridge,   \* the bridge of the stage
    file,     \* what is in the bridge's directories
    journal,  \* the usage journal of the invocation
    row,      \* the session in the ledger
    life,     \* the lifecycle record of the supervisor
    sup,      \* the pass of the supervisor
    crashes   \* deaths of the supervisor so far

world == <<external, shim, gate, spent>>
vars == <<world, bridge, file, journal, row, life, sup, crashes>>

Running == {"born", "waiting", "exec"}
Phases == {"none", "admitted", "permitted", "stopped", "no-inference", "reconciled"}
Files == [launch : BOOLEAN, permit : BOOLEAN, noExec : BOOLEAN, terminal : BOOLEAN, boundary : BOOLEAN,
          receipt : {"none", "open", "prefix", "final", "free"}]
NoFiles == [launch |-> FALSE, permit |-> FALSE, noExec |-> FALSE, terminal |-> FALSE, boundary |-> FALSE,
            receipt |-> "none"]
Stamp == [file EXCEPT !.launch = FALSE, !.permit = FALSE]
NoStamp == [NoFiles EXCEPT !.receipt = "prefix"]
Evidence == <<Stamp, journal>>
Idle == [pc |-> "idle", phase |-> "none", stamp |-> <<NoStamp, "none">>]
NoLife == [phase |-> "none", stamp |-> <<NoStamp, "none">>]
HasUsage == journal \in {"some", "closed"} \/ row.charge > 0
Native == row.by = "native"
Settled == row.status = "settled"

-----------------------------------------------------------------------------
(* What the host can tell of the processes. *)

ShimSeen == external \/ shim \notin {"done", "dead"}
GateSeen == external \/ gate \in Running

\* A lifecycle that was rebuilt as admitted learns its native process from the permit.
Known(phase) == IF phase \in {"none", "admitted"} /\ file.permit THEN "permitted" ELSE phase
NativeKnown(phase) == Known(phase) \notin {"none", "admitted", "no-inference"}

\* The end of an invocation in a container is proved by the end of its boundary,
\* by its own terminal record, or by a complete receipt of a successful exit.
ExitProved == \/ file.boundary
              \/ file.launch /\ (file.terminal \/ file.noExec)
              \/ file.receipt = "final"
\* Without a record of the supervisor the copy in the ledger is read.
Alive == /\ life.phase # "reconciled"
         /\ IF external THEN ~ExitProved
            ELSE ShimSeen \/ (NativeKnown(life.phase) /\ GateSeen)

-----------------------------------------------------------------------------
(* The row of the ledger. *)

SettleAs(by, charge) == [status |-> "settled", by |-> by, charge |-> charge]
LeaveAs(status) == [row EXCEPT !.status = status]

\* A receipt is refused while the process it speaks for may still run, and a
\* claim of no inference is refused when the journal says otherwise.
Refused == \/ NativeKnown(life.phase) /\ life.phase # "reconciled" /\ GateSeen /\ ~(external /\ ExitProved)
           \/ file.receipt = "free" /\ HasUsage
ReceiptRow ==
    IF Settled /\ Native THEN row
    ELSE CASE file.receipt = "none" -> row
           [] file.receipt = "open" -> IF Settled THEN row ELSE LeaveAs("unresolved")
           [] file.receipt = "prefix" -> IF Settled THEN row ELSE LeaveAs("provisional")
           [] file.receipt \in {"final", "free"} ->
                  IF Refused THEN row
                  ELSE SettleAs("native", IF file.receipt = "final" /\ spent THEN 1 ELSE 0)

\* The journal of a stopped invocation, when it has anything to charge.
Recovered(r) ==
    IF r.status = "settled" \/ Alive \/ journal \notin {"some", "closed"} THEN r
    ELSE IF journal = "closed" THEN SettleAs("estimate", 1)
    ELSE [status |-> "provisional", by |-> "none", charge |-> 1]
OrUnknown(r) == IF r.status = "active" THEN [r EXCEPT !.status = "unresolved"] ELSE r

-----------------------------------------------------------------------------
(* The bridge. *)

\* Admission: the ledger's row, with a copy of the lifecycle, comes first ...
Admit ==
    /\ bridge = "up" /\ shim = "asking" /\ row.status = "none"
    /\ row' = LeaveAs("active") /\ bridge' = "registering"
    /\ UNCHANGED <<world, file, journal, life, sup, crashes>>

\* ... then the record of the supervisor, then the answer.
Register ==
    /\ bridge = "registering"
    /\ life' = IF life.phase = "none" THEN [life EXCEPT !.phase = "admitted"] ELSE life
    /\ bridge' = "up"
    /\ shim' = IF shim = "asking" THEN "admitted" ELSE shim
    /\ UNCHANGED <<external, gate, spent, file, journal, row, sup, crashes>>

\* The bridge takes a settlement from the shim, or drains it when it closes.
BridgeSettles ==
    /\ bridge \in {"up", "closing"} /\ row.status \notin {"none"} /\ ReceiptRow # row
    /\ row' = ReceiptRow
    /\ UNCHANGED <<world, bridge, file, journal, life, sup, crashes>>

BridgeCloses ==
    /\ \/ bridge = "up" /\ bridge' = "closing" /\ row' = row
       \/ /\ bridge = "closing" /\ (row.status # "none" => ReceiptRow = row)
          /\ bridge' = "gone" /\ row' = OrUnknown(Recovered(row))
    /\ UNCHANGED <<world, file, journal, life, sup, crashes>>

BridgeDies ==
    /\ bridge # "gone" /\ bridge' = "gone"
    /\ UNCHANGED <<world, file, journal, row, life, sup, crashes>>

-----------------------------------------------------------------------------
(* The shim and the gate. *)

\* The journal exists before anything that could spend is started.
OpenJournal ==
    /\ shim = "admitted" /\ journal' = "empty" /\ shim' = "journaled"
    /\ UNCHANGED <<external, gate, spent, bridge, file, row, life, sup, crashes>>
JournalFails ==
    /\ shim = "admitted" /\ shim' = "flushed" /\ file' = [file EXCEPT !.receipt = "free"]
    /\ UNCHANGED <<external, gate, spent, bridge, journal, row, life, sup, crashes>>
SpawnGate ==
    /\ shim = "journaled" /\ gate' = "born" /\ shim' = "spawned"
    /\ UNCHANGED <<external, spent, bridge, file, journal, row, life, sup, crashes>>

\* The gate announces itself and waits half a minute for its permit.
Announce ==
    /\ gate = "born" /\ gate' = "waiting" /\ file' = [file EXCEPT !.launch = TRUE]
    /\ UNCHANGED <<external, shim, spent, bridge, journal, row, life, sup, crashes>>
ExecUnasked ==
    /\ gate = "waiting" /\ gate' = "exec"
    /\ UNCHANGED <<external, shim, spent, bridge, file, journal, row, life, sup, crashes>> \* Mutant: the gate does not wait.
Exec ==
    /\ gate = "waiting" /\ file.permit /\ gate' = "exec"
    /\ UNCHANGED <<external, shim, spent, bridge, file, journal, row, life, sup, crashes>>
NoExec ==
    /\ gate = "waiting" /\ gate' = "noexec" /\ file' = [file EXCEPT !.noExec = TRUE]
    /\ UNCHANGED <<external, shim, spent, bridge, journal, row, life, sup, crashes>>

ExecFails ==
    /\ gate = "waiting" /\ file.permit /\ gate' = "execfailed" /\ file' = [file EXCEPT !.noExec = TRUE]
    /\ UNCHANGED <<external, shim, spent, bridge, journal, row, life, sup, crashes>>

\* A paid request.  Its response is journaled if there is a shim to read it.
Spend ==
    /\ gate = "exec" /\ (~spent \/ journal = "empty")
    /\ spent' = TRUE /\ journal' = IF shim = "spawned" THEN "some" ELSE journal
    /\ UNCHANGED <<external, shim, gate, bridge, file, row, life, sup, crashes>>
ResultLine ==
    /\ gate = "exec" /\ shim = "spawned" /\ journal = "some" /\ file.receipt = "none"
    /\ file' = [file EXCEPT !.receipt = "prefix"]
    /\ UNCHANGED <<world, bridge, journal, row, life, sup, crashes>>
NativeExits(how) ==
    /\ gate = "exec" /\ gate' = how
    /\ UNCHANGED <<external, shim, spent, bridge, file, journal, row, life, sup, crashes>>

\* The shim reaps its child, records the end, closes the journal if all went
\* well, and leaves a receipt, in this order.
Reap ==
    /\ shim = "spawned" /\ gate \in {"over", "failed", "noexec", "execfailed", "killed"}
    /\ shim' = "reaped"
    /\ UNCHANGED <<external, gate, spent, bridge, file, journal, row, life, sup, crashes>>
RecordEnd ==
    /\ shim = "reaped" /\ shim' = "recorded" /\ file' = [file EXCEPT !.terminal = TRUE]
    /\ UNCHANGED <<external, gate, spent, bridge, journal, row, life, sup, crashes>>
CloseJournal ==
    /\ shim = "recorded" /\ shim' = "closed"
    /\ journal' = IF gate = "over" /\ journal = "some" THEN "closed" ELSE journal
    /\ UNCHANGED <<external, gate, spent, bridge, file, row, life, sup, crashes>>
LeaveReceipt ==
    /\ shim = "closed" /\ shim' = "flushed"
    /\ file' = [file EXCEPT !.receipt = CASE gate = "over" -> "final"
                                              [] gate = "execfailed" -> "free"
                                              [] OTHER -> IF @ = "prefix" THEN @ ELSE "open"]
    /\ UNCHANGED <<external, gate, spent, bridge, journal, row, life, sup, crashes>>
ShimEnds ==
    /\ shim = "flushed" \/ (shim = "asking" /\ bridge = "gone")
    /\ shim' = "done"
    /\ UNCHANGED <<external, gate, spent, bridge, file, journal, row, life, sup, crashes>>
ShimDies ==
    /\ shim \notin {"done", "dead"} /\ shim' = "dead"
    /\ UNCHANGED <<external, gate, spent, bridge, file, journal, row, life, sup, crashes>>
GateDies ==
    /\ gate \in Running /\ gate' = "killed"
    /\ UNCHANGED <<external, shim, spent, bridge, file, journal, row, life, sup, crashes>>

\* The container is stopped: nothing inside runs on, and the host records it.
BoundaryStops ==
    /\ external /\ ~file.boundary
    /\ shim' = IF shim \in {"done", "dead"} THEN shim ELSE "dead"
    /\ gate' = IF gate \in Running THEN "killed" ELSE gate
    /\ file' = [file EXCEPT !.boundary = TRUE]
    /\ UNCHANGED <<external, spent, bridge, journal, row, life, sup, crashes>>
-----------------------------------------------------------------------------
(* The supervisor: one pass over the record, in the order of its writes. *)

\* A session whose record was never written, or was lost while the supervisor
\* was down, gets one from the ledger; the first pass after a start covers the
\* sessions that were settled by an estimate too.
Reregister ==
    /\ sup.pc = "idle" /\ row.status # "none" /\ ~(Settled /\ Native) /\ life.phase = "none"
    /\ life' = [life EXCEPT !.phase = "admitted"]
    /\ UNCHANGED <<world, bridge, file, journal, row, sup, crashes>>

\* Nothing to do for a record whose evidence has not changed since it was used.
Due == /\ life.phase \notin {"none", "reconciled"}
       /\ ~(life.phase \in {"stopped", "no-inference"} /\ life.stamp = Evidence)
Archive ==
    /\ sup.pc = "idle" /\ Due /\ Settled /\ Native
    /\ life' = [life EXCEPT !.phase = "reconciled"]
    /\ UNCHANGED <<world, bridge, file, journal, row, sup, crashes>>

\* The native process is put on record before it can be permitted.
Grantable(phase) == phase = "admitted" /\ file.launch /\ ShimSeen /\ GateSeen /\ journal # "none"
BeginPass ==
    /\ sup.pc = "idle" /\ Due /\ ~(Settled /\ Native)
    /\ LET phase == Known(life.phase) IN
       /\ sup' = [pc |-> "permit", stamp |-> Evidence,
                  phase |-> IF Grantable(phase) THEN "permitted" ELSE phase]
       /\ life' = IF Grantable(phase) THEN [life EXCEPT !.phase = "permitted"] ELSE life
    /\ UNCHANGED <<world, bridge, file, journal, row, crashes>>

IssuePermit ==
    /\ sup.pc = "permit"
    /\ file' = [file EXCEPT !.permit = @ \/ (sup.phase = "permitted" /\ ShimSeen /\ GateSeen)]
    /\ sup' = [sup EXCEPT !.pc = "assess"]
    /\ UNCHANGED <<world, bridge, journal, row, life, crashes>>

\* Has it stopped?  An admission that never announced itself will not run any
\* more; what is known of a remote one only raises its reserve.
Stopped == IF external THEN ExitProved
           ELSE ~ShimSeen /\ ~(sup.phase \in {"permitted", "stopped"} /\ GateSeen)
Assessed == CASE ~Stopped -> sup.phase
              [] Stopped /\ sup.phase = "admitted" /\ ~file.launch /\ ~HasUsage -> "no-inference"
              [] Stopped /\ sup.phase = "permitted" -> "stopped"
              [] OTHER -> sup.phase
Assess ==
    /\ sup.pc = "assess"
    /\ life' = [life EXCEPT !.phase = Assessed]
    /\ row' = IF ~Stopped /\ external /\ ~Settled /\ journal \in {"some", "closed"}
              THEN LeaveAs("provisional") ELSE row
    /\ sup' = IF Stopped /\ life.stamp # sup.stamp THEN [sup EXCEPT !.pc = "settle", !.phase = Assessed] ELSE Idle
    /\ UNCHANGED <<world, bridge, file, journal, crashes>>

\* A proof that nothing ran settles at zero; otherwise the receipt, then the
\* journal, and a session without evidence keeps its reserve.
Settle ==
    /\ sup.pc = "settle"
    /\ LET receipt == IF (sup.phase = "no-inference" \/ file.noExec) /\ ~HasUsage
                      THEN IF Settled /\ Native THEN row ELSE SettleAs("native", 0)
                      ELSE IF file.receipt # "free" \/ ~HasUsage THEN ReceiptRow ELSE row
       IN  row' = IF Settled /\ Native THEN row ELSE OrUnknown(Recovered(receipt))
    /\ sup' = [sup EXCEPT !.pc = "stamp"]
    /\ UNCHANGED <<world, bridge, file, journal, life, crashes>>

RecordPass ==
    /\ sup.pc = "stamp" /\ life' = [phase |-> sup.phase, stamp |-> sup.stamp] /\ sup' = Idle
    /\ UNCHANGED <<world, bridge, file, journal, row, crashes>>

SupervisorDies ==
    /\ sup.pc # "idle" /\ crashes < MaxCrashes /\ crashes' = crashes + 1 /\ sup' = Idle
    /\ UNCHANGED <<world, bridge, file, journal, row, life>>

\* A record lost while the supervisor is down is rebuilt; the permit is its second copy.
RecordLost ==
    /\ sup.pc = "idle" /\ life.phase \in {"admitted", "permitted"}
    /\ crashes < MaxCrashes /\ crashes' = crashes + 1 /\ life' = NoLife
    /\ UNCHANGED <<world, bridge, file, journal, row, sup>>

-----------------------------------------------------------------------------
Init ==
    /\ external \in Remotes /\ shim = "asking" /\ gate = "none" /\ spent = FALSE
    /\ bridge = "up" /\ file = NoFiles /\ journal = "none"
    /\ row = [status |-> "none", by |-> "none", charge |-> 0]
    /\ life = NoLife /\ sup = Idle /\ crashes = 0

BridgeNext == Admit \/ Register \/ BridgeSettles \/ BridgeCloses
ShimNext == OpenJournal \/ SpawnGate \/ Reap \/ RecordEnd \/ CloseJournal \/ LeaveReceipt \/ ShimEnds
GateNext == Announce \/ Exec \/ NoExec \/ ExecFails \/ Spend \/ ResultLine
            \/ \E how \in {"over", "failed"} : NativeExits(how)
SupervisorNext == Reregister \/ Archive \/ BeginPass \/ IssuePermit \/ Assess \/ Settle \/ RecordPass
Faults == BridgeDies \/ JournalFails \/ ShimDies \/ GateDies \/ BoundaryStops \/ SupervisorDies \/ RecordLost
Next == BridgeNext \/ ShimNext \/ GateNext \/ SupervisorNext \/ Faults

Spec == Init /\ [][Next]_vars

\* The supervisor is restarted whenever it is gone; a process that runs ends,
\* if only with its round; a shim that runs goes on.
Fairness == /\ WF_vars(SupervisorNext) /\ WF_vars(ShimNext) /\ WF_vars(Announce)
            /\ WF_vars(NoExec) /\ WF_vars(\E how \in {"over", "failed"} : NativeExits(how))
            /\ WF_vars(Register \/ ShimDies)
FairSpec == Spec /\ Fairness

-----------------------------------------------------------------------------
(* Properties. *)

\* The types of the variables; the ledger knows of an invocation before the
\* supervisor has a record of it, and before its shim goes on.
TypeOK ==
    /\ external \in Remotes /\ file \in Files /\ spent \in BOOLEAN
    /\ bridge \in {"up", "registering", "closing", "gone"}
    /\ journal \in {"none", "empty", "some", "closed"}
    /\ life.phase \in Phases /\ sup.phase \in Phases /\ crashes \in 0..MaxCrashes
    /\ row.status \in {"none", "active", "unresolved", "provisional", "settled"}
    /\ (life.phase # "none" \/ shim \notin {"asking", "done", "dead"} \/ gate # "none")
          => row.status # "none"

\* No native process runs that the host could not find again: whatever was
\* killed or lost, its identity is on disk.  (exec_gate, recover_invocation)
RunsOnlyRecorded == gate = "exec" => NativeKnown(life.phase)

\* An invocation that is written off as free has not spent and never will,
\* however late its gate wakes up.  (recover_invocation)
NoFreeInference == Settled /\ row.charge = 0 => ~spent

\* Nothing is charged or settled while the process may still spend.
\* (recover_usage, settle_receipt, external_exit_proved)
NothingChargedWhileRunning == row.charge > 0 \/ Settled => gate # "exec"

\* Nothing paid runs unrecorded, nothing is free that was paid, and nothing is
\* charged while it runs.  (usage_lifecycle.py, usage_supervisor.py)
LaunchSafe == TypeOK /\ RunsOnlyRecorded /\ NoFreeInference /\ NothingChargedWhileRunning

\* A complete receipt is charged at last, whoever died meanwhile and whatever
\* the session had been settled at before it was found: a receipt that is there leads to that.
ReceiptFound == file.receipt = "final"

\* An invocation of the host does not stay "active" for good: it is settled,
\* or kept on the books as unresolved: it is again and again not in this state.
ActiveHere == row.status = "active" /\ ~external
=============================================================================
