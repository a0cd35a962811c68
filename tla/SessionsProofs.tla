----------------------------- MODULE SessionsProofs -----------------------------
(***************************************************************************)
(* The theorems about the four parts that launch a paid session.           *)
(*                                                                         *)
(* An invocation is launched, settled and charged as it should: LaunchSafe, *)
(* for any number of crashes of the supervisor, on the host and in a       *)
(* container.  A gate runs only with a permit, and a permit is given only  *)
(* for a gate that announced itself (Permits).  What is settled or charged *)
(* has ended, or has no permit and will never get one (Charged): the files *)
(* tell which (Told), and the row of the ledger agrees with them.          *)
(*                                                                         *)
(* An audit judges as it should: JudgmentSafe and PassedIsRead, for any    *)
(* number of workers that are killed whenever.  A finding is in the history *)
(* of a conversation that nothing replaces while the cursor stays there    *)
(* (Remembered), since the block is on disk before a request (Journaled).  *)
(*                                                                         *)
(* A report is published whole, paid for once and not dropped: both bodies *)
(* that lie under a receipt are of one writing (Filed), a fence is up while *)
(* they are not (Placed), and a receipt is taken off the desk only when the *)
(* report is published or a copy of it set aside (Placed, Kept).           *)
(*                                                                         *)
(* A retained change lands once, as it was verified: RetainedSafe.  Commits *)
(* are only added (Graph) and what the record names is among them (Named);  *)
(* the checkout and the one being built to replace it are never both the    *)
(* source (Handed); what is charged was admitted (Accounted); at each step  *)
(* the record tells what may be on its way to the branch (Pending), what is *)
(* committed is what was verified (Faithful), and what a push on its way    *)
(* would put back is nothing the record knows of (Recalled): it is only     *)
(* applied on the head it was prepared for.                                 *)
(***************************************************************************)
EXTENDS LaunchPermit, Audit, Report, Recovery, Integers, FiniteSetTheorems, WellFoundedInduction, TLAPS

-----------------------------------------------------------------------------
(* An invocation. *)

Shims == {"asking", "admitted", "journaled", "spawned", "reaped", "recorded", "closed", "flushed", "done", "dead"}
Gates == {"none", "born", "waiting", "exec", "noexec", "execfailed", "over", "failed", "killed"}
Stamps == Files \X {"none", "empty", "some", "closed"}
Rows == [status : {"none", "active", "unresolved", "provisional", "settled"}, by : {"none", "native", "estimate"},
         charge : 0..1]
Typed ==
    /\ shim \in Shims /\ gate \in Gates /\ file \in Files /\ external \in BOOLEAN /\ spent \in BOOLEAN
    /\ journal \in {"none", "empty", "some", "closed"}
    /\ bridge \in {"up", "registering", "closing", "gone"}
    /\ row \in Rows
    /\ life \in [phase : Phases, stamp : Stamps]
    /\ sup \in [pc : {"idle", "permit", "assess", "settle", "stamp"}, phase : Phases, stamp : Stamps]

\* Nobody acts for an invocation that the ledger does not know.
Admitted ==
    /\ sup.pc # "idle" => life.phase # "none"
    /\ bridge = "registering" \/ life.phase # "none" \/ shim \notin {"asking", "done", "dead"} \/ gate # "none"
         => row.status # "none"

Overs == {"over", "failed", "noexec", "execfailed", "killed"}
\* The gate came to its end, or its shim gave up before it was started.
Ended == gate \in Overs \/ (gate = "none" /\ shim \in {"flushed", "done", "dead"})

\* What the steps of the shim and the files it leaves tell of the gate.
Told ==
    /\ shim \in {"asking", "admitted", "journaled"} => gate = "none"
    /\ shim \in {"reaped", "recorded", "closed"} => gate \in Overs
    /\ journal \in {"some", "closed"} \/ spent => gate \in {"exec", "over", "failed", "killed"}
    /\ file.noExec => gate \in {"noexec", "execfailed"}
    /\ file.terminal => gate \in Overs
    /\ file.boundary => gate \notin Running /\ shim \in {"done", "dead"}
    /\ file.receipt = "final" => gate = "over"
    /\ file.receipt = "free" => Ended /\ gate \in {"none", "execfailed"}

\* A permit is for a gate that announced itself, and none is given to an
\* invocation that was found not to run; the pass and the record agree.
Permits ==
    /\ gate = "exec" \/ spent => file.permit
    /\ file.permit \/ "permitted" \in {sup.phase, life.phase} \/ "stopped" \in {sup.phase, life.phase} => file.launch
    /\ life.phase = "no-inference" => ~file.permit
    /\ sup.pc \in {"permit", "assess"} =>
        /\ life.phase \in {"admitted", "permitted", "stopped", "no-inference"}
        /\ sup.phase = life.phase \/ (sup.phase = "permitted" /\ life.phase = "admitted")
        /\ file.permit => sup.phase # "admitted"
    /\ sup.pc \in {"settle", "stamp"} => sup.phase = life.phase /\ life.phase # "reconciled"
    /\ life.phase = "reconciled" => Settled /\ Native

\* It never ran and never will.
Barred == ~file.permit /\ life.phase \in {"no-inference", "reconciled"}
Charged == row.charge > 0 \/ Settled => Ended \/ Barred

LaunchInv == Typed /\ Admitted /\ Told /\ Permits /\ Charged /\ NoFreeInference

-----------------------------------------------------------------------------
(* Types. *)

LEMMA LaunchSteps ==
    ASSUME [Next]_vars
    PROVE  \/ Admit \/ Register \/ BridgeSettles \/ BridgeCloses \/ BridgeDies
           \/ OpenJournal \/ JournalFails \/ SpawnGate \/ Reap \/ RecordEnd \/ CloseJournal \/ LeaveReceipt \/ ShimEnds
           \/ ShimDies \/ BoundaryStops
           \/ Announce \/ Exec \/ NoExec \/ ExecFails \/ Spend \/ ResultLine \/ GateDies
           \/ (\E how \in {"over", "failed"} : NativeExits(how))
           \/ Reregister \/ Archive \/ BeginPass \/ IssuePermit \/ Assess \/ Settle \/ RecordPass
           \/ SupervisorDies \/ RecordLost
           \/ UNCHANGED vars
  BY DEF Next, BridgeNext, ShimNext, GateNext, SupervisorNext, Faults

LEMMA ReceiptRows ==
    ASSUME Typed
    PROVE  ReceiptRow \in {row, LeaveAs("unresolved"), LeaveAs("provisional"), SettleAs("native", 0),
                           SettleAs("native", 1)}
  BY DEF Typed, Files, ReceiptRow

LEMMA RowTypes ==
    ASSUME Typed
    PROVE  /\ ReceiptRow \in Rows
           /\ \A r \in Rows : Recovered(r) \in Rows /\ OrUnknown(r) \in Rows
           /\ \A s \in {"active", "unresolved", "provisional"} :
                /\ LeaveAs(s) \in Rows /\ LeaveAs(s).status = s
                /\ LeaveAs(s).by = row.by /\ LeaveAs(s).charge = row.charge
           /\ SettleAs("native", 0) \in Rows
  <1>1. \A s \in {"active", "unresolved", "provisional"} :
          /\ LeaveAs(s) \in Rows /\ LeaveAs(s).status = s
          /\ LeaveAs(s).by = row.by /\ LeaveAs(s).charge = row.charge
    BY DEF Typed, LeaveAs, Rows
  <1>2. SettleAs("native", 0) \in Rows /\ SettleAs("native", 1) \in Rows /\ SettleAs("estimate", 1) \in Rows
    BY DEF SettleAs, Rows
  <1>3. ReceiptRow \in Rows
    <2>1. row \in Rows
      BY DEF Typed
    <2> QED
      BY <1>1, <1>2, <2>1, ReceiptRows
  <1>4. ASSUME NEW r \in Rows
        PROVE  Recovered(r) \in Rows /\ OrUnknown(r) \in Rows
    BY <1>2 DEF Recovered, OrUnknown, Rows
  <1> QED
    BY <1>1, <1>2, <1>3, <1>4

LEMMA TypedInit == ASSUME LaunchAssumption, Init PROVE Typed
  <1>1. NoFiles \in Files /\ NoStamp \in Files
    BY DEF NoFiles, NoStamp, Files
  <1>2. <<NoStamp, "none">> \in Stamps
    BY <1>1 DEF Stamps
  <1>3. /\ NoLife \in [phase : Phases, stamp : Stamps]
        /\ Idle \in [pc : {"idle", "permit", "assess", "settle", "stamp"}, phase : Phases, stamp : Stamps]
    BY <1>2 DEF NoLife, Idle, Phases
  <1>4. [status |-> "none", by |-> "none", charge |-> 0] \in Rows
    BY DEF Rows
  <1>5. external \in BOOLEAN
    BY DEF Init, LaunchAssumption
  <1> QED
    BY <1>1, <1>3, <1>4, <1>5 DEF Init, Typed, Shims, Gates

LEMMA TypedFile == ASSUME Typed, [Next]_vars PROVE file' \in Files
  <1> USE DEF Typed, Files
  <1>1. ASSUME Announce \/ NoExec \/ ExecFails \/ JournalFails \/ LeaveReceipt \/ RecordEnd \/ ResultLine
        PROVE  file' \in Files
    BY <1>1 DEF Announce, NoExec, ExecFails, JournalFails, LeaveReceipt, RecordEnd, ResultLine
  <1>2. ASSUME BoundaryStops \/ IssuePermit
        PROVE  file' \in Files
    BY <1>2 DEF BoundaryStops, IssuePermit
  <1>3. UNCHANGED file => file' \in Files
    OBVIOUS
  <1> QED
    BY <1>1, <1>2, <1>3, LaunchSteps DEF Admit, Register, BridgeSettles, BridgeCloses, BridgeDies, OpenJournal, SpawnGate,
       Reap, CloseJournal, ShimEnds, ShimDies, Exec, Spend, GateDies, NativeExits, Reregister, Archive, BeginPass,
       Assess, Settle, RecordPass, SupervisorDies, RecordLost, vars, world

LEMMA TypedWorld ==
    ASSUME Typed, [Next]_vars
    PROVE  /\ shim' \in Shims /\ gate' \in Gates /\ external' \in BOOLEAN /\ spent' \in BOOLEAN
           /\ journal' \in {"none", "empty", "some", "closed"}
           /\ bridge' \in {"up", "registering", "closing", "gone"}
           /\ external' = external
  <1> USE DEF Typed, Shims, Gates
  <1> USE DEF Admit, Register, BridgeSettles, BridgeCloses, BridgeDies, OpenJournal, JournalFails, SpawnGate, Reap,
       RecordEnd, CloseJournal, LeaveReceipt, ShimEnds, ShimDies, BoundaryStops, Announce, Exec, NoExec, ExecFails,
       Spend, ResultLine, GateDies, NativeExits, Reregister, Archive, BeginPass, IssuePermit, Assess, Settle,
       RecordPass, SupervisorDies, RecordLost, vars, world
  <1>1. shim' \in Shims
    BY LaunchSteps
  <1>2. gate' \in Gates
    BY LaunchSteps
  <1>3. external' \in BOOLEAN /\ external' = external
    BY LaunchSteps
  <1>4. spent' \in BOOLEAN
    BY LaunchSteps
  <1>5. journal' \in {"none", "empty", "some", "closed"}
    BY LaunchSteps
  <1>6. bridge' \in {"up", "registering", "closing", "gone"}
    BY LaunchSteps
  <1> QED
    BY <1>1, <1>2, <1>3, <1>4, <1>5, <1>6

LEMMA TypedRow == ASSUME Typed, [Next]_vars PROVE row' \in Rows
  <1>1. row \in Rows
    BY DEF Typed
  <1>2. CASE BridgeSettles \/ BridgeCloses
    BY <1>1, <1>2, RowTypes DEF BridgeSettles, BridgeCloses
  <1>3. CASE Settle
    <2>1. PICK r \in {row, SettleAs("native", 0), ReceiptRow} : row' \in {row, OrUnknown(Recovered(r))}
      BY <1>3 DEF Settle
    <2>2. r \in Rows
      BY <1>1, RowTypes
    <2>3. OrUnknown(Recovered(r)) \in Rows
      BY <2>2, RowTypes
    <2> QED
      BY <1>1, <2>1, <2>3
  <1>4. CASE Admit
    BY <1>4, RowTypes DEF Admit
  <1>5. CASE Assess
    BY <1>1, <1>5, RowTypes DEF Assess
  <1>6. UNCHANGED row => row' \in Rows
    BY <1>1
  <1> QED
    BY <1>2, <1>3, <1>4, <1>5, <1>6, LaunchSteps DEF Register, BridgeDies, OpenJournal, JournalFails, SpawnGate, Reap,
       RecordEnd, CloseJournal, LeaveReceipt, ShimEnds, ShimDies, BoundaryStops, Announce, Exec, NoExec, ExecFails,
       Spend, ResultLine, GateDies, NativeExits, Reregister, Archive, BeginPass, IssuePermit,
       RecordPass, SupervisorDies, RecordLost, vars, world

LEMMA TypedPass ==
    ASSUME Typed, [Next]_vars
    PROVE  /\ life' \in [phase : Phases, stamp : Stamps]
           /\ sup' \in [pc : {"idle", "permit", "assess", "settle", "stamp"}, phase : Phases, stamp : Stamps]
  <1>1. Stamp \in Files
    BY DEF Typed, Stamp, Files
  <1>2. Evidence \in Stamps
    BY <1>1 DEF Evidence, Stamps, Typed
  <1>3. <<NoStamp, "none">> \in Stamps
    BY DEF NoStamp, NoFiles, Stamps, Files
  <1>4. Idle \in [pc : {"idle", "permit", "assess", "settle", "stamp"}, phase : Phases, stamp : Stamps]
    BY <1>3 DEF Idle, Phases
  <1>5. NoLife \in [phase : Phases, stamp : Stamps]
    BY <1>3 DEF NoLife, Phases
  <1>6. Known(life.phase) \in Phases /\ Assessed \in Phases
    BY DEF Known, Assessed, Phases, Typed
  <1> HIDE DEF Stamps
  <1>7. life' \in [phase : Phases, stamp : Stamps]
    <2>1. CASE BeginPass \/ Assess
      BY <1>6, <2>1 DEF BeginPass, Assess, Typed, Phases
    <2>2. CASE Register \/ Reregister \/ Archive \/ RecordPass \/ RecordLost
      BY <1>5, <2>2 DEF Register, Reregister, Archive, RecordPass, RecordLost, Typed, Phases
    <2>3. UNCHANGED life => life' \in [phase : Phases, stamp : Stamps]
      BY DEF Typed
    <2> QED
      BY <2>1, <2>2, <2>3, LaunchSteps DEF Admit, BridgeSettles, BridgeCloses, BridgeDies, OpenJournal, JournalFails,
         SpawnGate, Reap, RecordEnd, CloseJournal, LeaveReceipt, ShimEnds, ShimDies, BoundaryStops, Announce, Exec,
         NoExec, ExecFails, Spend, ResultLine, GateDies, NativeExits, IssuePermit, Settle, SupervisorDies, vars, world
  <1>8. sup' \in [pc : {"idle", "permit", "assess", "settle", "stamp"}, phase : Phases, stamp : Stamps]
    <2>1. CASE BeginPass
      BY <1>2, <1>6, <2>1 DEF BeginPass, Phases
    <2>2. CASE IssuePermit \/ Settle
      BY <2>2 DEF IssuePermit, Settle, Typed
    <2>3. CASE Assess
      BY <1>4, <1>6, <2>3 DEF Assess, Typed
    <2>4. CASE RecordPass \/ SupervisorDies
      BY <1>4, <2>4 DEF RecordPass, SupervisorDies
    <2>5. UNCHANGED sup => sup' \in [pc : {"idle", "permit", "assess", "settle", "stamp"}, phase : Phases, stamp : Stamps]
      BY DEF Typed
    <2> QED
      BY <2>1, <2>2, <2>3, <2>4, <2>5, LaunchSteps DEF Admit, Register, BridgeSettles, BridgeCloses, BridgeDies, OpenJournal,
         JournalFails, SpawnGate, Reap, RecordEnd, CloseJournal, LeaveReceipt, ShimEnds, ShimDies, BoundaryStops,
         Announce, Exec, NoExec, ExecFails, Spend, ResultLine, GateDies, NativeExits, Reregister, Archive, RecordLost,
         vars, world
  <1> QED
    BY <1>7, <1>8

LEMMA TypedStep == ASSUME Typed, [Next]_vars PROVE Typed'
  BY TypedFile, TypedWorld, TypedRow, TypedPass DEF Typed

-----------------------------------------------------------------------------
(* The processes and their files. *)

LEMMA AdmittedStep == ASSUME Typed, Permits, Admitted, [Next]_vars PROVE Admitted'
  <1>1. row.status # "none" => row'.status # "none"
    <2>1. \A r \in Rows : r.status # "none" => Recovered(r).status # "none" /\ OrUnknown(r).status # "none"
      BY DEF Rows, Recovered, OrUnknown, SettleAs
    <2>2. ReceiptRow.status # "none" \/ ReceiptRow = row
      BY ReceiptRows, RowTypes DEF SettleAs
    <2>3. CASE BridgeSettles \/ BridgeCloses
      <3>1. row' \in {row, ReceiptRow, OrUnknown(Recovered(row))}
        BY <2>3 DEF BridgeSettles, BridgeCloses
      <3>2. row \in Rows /\ Recovered(row) \in Rows
        BY RowTypes DEF Typed
      <3> QED
        BY <2>1, <2>2, <3>1, <3>2
    <2>4. CASE Settle
      <3>1. PICK r \in {row, SettleAs("native", 0), ReceiptRow} : row' \in {row, OrUnknown(Recovered(r))}
        BY <2>4 DEF Settle
      <3>2. r \in Rows /\ Recovered(r) \in Rows
        BY <3>1, RowTypes DEF Typed
      <3>3. row.status # "none" => r.status # "none"
        BY <2>2, <3>1 DEF SettleAs
      <3> QED
        BY <2>1, <3>1, <3>2, <3>3
    <2>5. CASE Admit \/ Assess
      BY <2>5 DEF Admit, Assess, LeaveAs, Typed, Rows
    <2>6. UNCHANGED row => (row.status # "none" => row'.status # "none")
      OBVIOUS
    <2> QED
      BY <2>3, <2>4, <2>5, <2>6, LaunchSteps DEF Register, BridgeDies, OpenJournal, JournalFails, SpawnGate, Reap,
         RecordEnd, CloseJournal, LeaveReceipt, ShimEnds, ShimDies, BoundaryStops, Announce, Exec, NoExec, ExecFails,
         Spend, ResultLine, GateDies, NativeExits, Reregister, Archive, BeginPass, IssuePermit,
         RecordPass, SupervisorDies, RecordLost, vars, world
  <1> USE DEF Admitted
  <1>2. bridge' = "registering" => row'.status # "none"
    BY <1>1, LaunchSteps DEF Admit, LeaveAs, Typed, Rows, Register, BridgeSettles, BridgeCloses, BridgeDies, OpenJournal, JournalFails, SpawnGate, Reap,
       RecordEnd, CloseJournal, LeaveReceipt, ShimEnds, ShimDies, BoundaryStops, Announce, Exec, NoExec, ExecFails,
       Spend, ResultLine, GateDies, NativeExits, Reregister, Archive, BeginPass, IssuePermit, Assess, Settle,
       RecordPass, SupervisorDies, RecordLost, vars, world
  <1>3. shim' \notin {"asking", "done", "dead"} => row'.status # "none"
    BY <1>1, LaunchSteps DEF Admit, Register, BridgeSettles, BridgeCloses, BridgeDies, OpenJournal, JournalFails, SpawnGate,
       Reap, RecordEnd, CloseJournal, LeaveReceipt, ShimEnds, ShimDies, BoundaryStops, Announce, Exec, NoExec,
       ExecFails, Spend, ResultLine, GateDies, NativeExits, Reregister, Archive, BeginPass, IssuePermit, Assess, Settle,
       RecordPass, SupervisorDies, RecordLost, vars, world
  <1>4. gate' # "none" => row'.status # "none"
    BY <1>1, LaunchSteps DEF Admit, Register, BridgeSettles, BridgeCloses, BridgeDies, OpenJournal, JournalFails, SpawnGate,
       Reap, RecordEnd, CloseJournal, LeaveReceipt, ShimEnds, ShimDies, BoundaryStops, Announce, Exec, NoExec,
       ExecFails, Spend, ResultLine, GateDies, NativeExits, Reregister, Archive, BeginPass, IssuePermit, Assess, Settle,
       RecordPass, SupervisorDies, RecordLost, Running, vars, world
  <1>5. life'.phase # "none" => row'.status # "none"
    <2>1. CASE Register \/ Reregister \/ Archive \/ BeginPass \/ Assess \/ RecordPass \/ RecordLost
      BY <1>1, <2>1 DEF Register, Reregister, Archive, BeginPass, Assess, RecordPass, RecordLost, Due, NoLife
    <2>2. UNCHANGED life => (life'.phase # "none" => row'.status # "none")
      BY <1>1
    <2> QED
      BY <2>1, <2>2, LaunchSteps DEF Admit, BridgeSettles, BridgeCloses, BridgeDies, OpenJournal, JournalFails,
         SpawnGate, Reap, RecordEnd, CloseJournal, LeaveReceipt, ShimEnds, ShimDies, BoundaryStops, Announce, Exec,
         NoExec, ExecFails, Spend, ResultLine, GateDies, NativeExits, IssuePermit, Settle, SupervisorDies, vars, world
  <1>6. sup'.pc # "idle" => life'.phase # "none"
    <2>1. CASE BeginPass
      BY <2>1 DEF BeginPass, Due, Typed
    <2>2. CASE IssuePermit \/ Settle \/ SupervisorDies \/ RecordPass \/ RecordLost \/ Reregister \/ Archive
      BY <2>2 DEF IssuePermit, Settle, SupervisorDies, RecordPass, RecordLost, Reregister, Archive, Idle, Typed
    <2>3. CASE Assess
      <3>1. sup'.pc # "idle" => Assessed # "none"
        <4>1. sup'.pc # "idle" => sup.pc = "assess" /\ sup.phase # "none"
          BY <2>3 DEF Assess, Permits
        <4> QED
          BY <4>1 DEF Assessed
      <3> QED
        BY <2>3, <3>1 DEF Assess, Typed
    <2>4. CASE Register
      BY <2>4 DEF Register, Typed
    <2>5. UNCHANGED <<sup, life>> => (sup'.pc # "idle" => life'.phase # "none")
      OBVIOUS
    <2> QED
      BY <2>1, <2>2, <2>3, <2>4, <2>5, LaunchSteps DEF Admit, BridgeSettles, BridgeCloses, BridgeDies, OpenJournal,
         JournalFails, SpawnGate, Reap, RecordEnd, CloseJournal, LeaveReceipt, ShimEnds, ShimDies, BoundaryStops,
         Announce, Exec, NoExec, ExecFails, Spend, ResultLine, GateDies, NativeExits, vars, world
  <1> QED
    BY <1>2, <1>3, <1>4, <1>5, <1>6

LEMMA ToldStep == ASSUME Typed, Told, Permits, [Next]_vars PROVE Told'
  <1> USE DEF Typed, Files, Overs, Running, Gates, Shims
  <1>1. CASE UNCHANGED <<shim, gate, spent, journal, file>>
    BY <1>1 DEF Told, Ended
  <1>2. CASE OpenJournal \/ SpawnGate \/ Reap \/ CloseJournal \/ ShimEnds \/ ShimDies
    BY <1>2 DEF Told, Ended, OpenJournal, SpawnGate, Reap, CloseJournal, ShimEnds, ShimDies
  <1>3. CASE JournalFails
    BY <1>3 DEF Told, Ended, JournalFails
  <1>4. CASE RecordEnd
    BY <1>4 DEF Told, Ended, RecordEnd
  <1>5. CASE LeaveReceipt
    <2>1. /\ gate \in Overs /\ shim = "closed" /\ shim' = "flushed" /\ UNCHANGED <<gate, spent, journal>>
          /\ file'.noExec = file.noExec /\ file'.terminal = file.terminal /\ file'.boundary = file.boundary
          /\ file'.receipt = "final" => gate = "over"
          /\ file'.receipt = "free" => gate = "execfailed"
      BY <1>5 DEF Told, LeaveReceipt
    <2> QED
      BY <2>1 DEF Told, Ended
  <1>6. CASE BoundaryStops
    <2>1. /\ shim' \in {"done", "dead"} /\ UNCHANGED <<spent, journal>>
          /\ gate' = IF gate \in Running THEN "killed" ELSE gate
          /\ file'.noExec = file.noExec /\ file'.terminal = file.terminal /\ file'.receipt = file.receipt
      BY <1>6 DEF BoundaryStops
    <2> QED
      BY <2>1 DEF Told, Ended
  <1>7. CASE Announce \/ Exec \/ NoExec \/ ExecFails
    BY <1>7 DEF Told, Ended, Announce, Exec, NoExec, ExecFails
  <1>8. CASE Spend \/ ResultLine \/ GateDies \/ \E how \in {"over", "failed"} : NativeExits(how)
    <2>1. CASE Spend
      BY <1>8, <2>1 DEF Told, Ended, Spend
    <2>2. CASE ResultLine
      <3>1. /\ file'.noExec = file.noExec /\ file'.terminal = file.terminal /\ file'.boundary = file.boundary
            /\ file'.receipt = "prefix" /\ UNCHANGED <<shim, gate, spent, journal>>
        BY <2>2 DEF ResultLine, world
      <3> QED
        BY <3>1 DEF Told, Ended
    <2>3. CASE GateDies
      BY <2>3 DEF Told, Ended, GateDies
    <2>4. ASSUME NEW how \in {"over", "failed"}, NativeExits(how)
          PROVE  Told'
      BY <2>4 DEF Told, Ended, NativeExits
    <2> QED
      BY <1>8, <2>1, <2>2, <2>3, <2>4
  <1>9. CASE IssuePermit
    <2>1. /\ file'.noExec = file.noExec /\ file'.terminal = file.terminal /\ file'.boundary = file.boundary
          /\ file'.receipt = file.receipt /\ UNCHANGED <<shim, gate, spent, journal>>
      BY <1>9 DEF IssuePermit, world
    <2> QED
      BY <2>1 DEF Told, Ended
  <1>10. CASE Register
    BY <1>10 DEF Told, Ended, Register
  <1> QED
    BY <1>1, <1>2, <1>3, <1>4, <1>5, <1>6, <1>7, <1>8, <1>9, <1>10, LaunchSteps DEF Admit, BridgeSettles, BridgeCloses,
       BridgeDies, Reregister, Archive, BeginPass, Assess, Settle, RecordPass, SupervisorDies, RecordLost, vars, world

-----------------------------------------------------------------------------
(* Permits. *)

\* A permit is not taken back, and only a pass that found the gate gives one.
LEMMA PermitGiven ==
    ASSUME Typed, [Next]_vars
    PROVE  /\ file.permit => file'.permit
           /\ file.launch => file'.launch
           /\ file'.permit => file.permit \/ (IssuePermit /\ sup.phase = "permitted")
  <1>1. CASE IssuePermit
    BY <1>1 DEF IssuePermit, Typed, Files
  <1>2. CASE Announce \/ NoExec \/ ExecFails \/ JournalFails \/ RecordEnd \/ ResultLine \/ BoundaryStops
    BY <1>2 DEF Announce, NoExec, ExecFails, JournalFails, RecordEnd, ResultLine, BoundaryStops, Typed, Files
  <1>3. CASE LeaveReceipt
    BY <1>3 DEF LeaveReceipt, Typed, Files
  <1>4. UNCHANGED file => /\ file.permit => file'.permit
                          /\ file.launch => file'.launch
                          /\ file'.permit => file.permit \/ (IssuePermit /\ sup.phase = "permitted")
    OBVIOUS
  <1> QED
    BY <1>1, <1>2, <1>3, <1>4, LaunchSteps DEF Admit, Register, BridgeSettles, BridgeCloses, BridgeDies, OpenJournal,
       SpawnGate, Reap, CloseJournal, ShimEnds, ShimDies, Exec, Spend, GateDies, NativeExits, Reregister, Archive,
       BeginPass, Assess, Settle, RecordPass, SupervisorDies, RecordLost, vars, world

\* What the ledger settled by a native proof stays so.
LEMMA NativeStays ==
    ASSUME Typed, [Next]_vars, Settled, Native
    PROVE  row' = row
  <1>1. ReceiptRow = row /\ Recovered(row) = row /\ OrUnknown(row) = row
    BY DEF ReceiptRow, Recovered, OrUnknown, Settled, Typed, Files, Native
  <1> QED
    BY <1>1, LaunchSteps DEF Settled, Admit, Register, BridgeSettles, BridgeCloses, BridgeDies, OpenJournal, JournalFails,
       SpawnGate, Reap, RecordEnd, CloseJournal, LeaveReceipt, ShimEnds, ShimDies, BoundaryStops, Announce, Exec, NoExec,
       ExecFails, Spend, ResultLine, GateDies, NativeExits, Reregister, Archive, BeginPass, IssuePermit, Assess, Settle,
       RecordPass, SupervisorDies, RecordLost, vars, world

LEMMA PermitsStep == ASSUME Typed, Admitted, Permits, [Next]_vars PROVE Permits'
  <1> USE PermitGiven
  <1>1. (gate = "exec" \/ spent)' => file'.permit
    <2>1. CASE Exec \/ Spend
      BY <2>1 DEF Exec, Spend, Permits
    <2>2. (gate = "exec" \/ spent)' => Exec \/ Spend \/ gate = "exec" \/ spent
      BY LaunchSteps DEF Admit, Register, BridgeSettles, BridgeCloses, BridgeDies, OpenJournal, JournalFails,
         SpawnGate, Reap, RecordEnd, CloseJournal, LeaveReceipt, ShimEnds, ShimDies, BoundaryStops, Announce, NoExec,
         ExecFails, ResultLine, GateDies, NativeExits, Reregister, Archive, BeginPass, IssuePermit, Assess, Settle,
         RecordPass, SupervisorDies, RecordLost, vars, world
    <2> QED
      BY <2>1, <2>2 DEF Permits
  <1>2. CASE UNCHANGED <<sup, life, row>>
    <2>1. IssuePermit => sup'.pc # sup.pc
      BY DEF IssuePermit, Typed
    <2>2. file'.permit <=> file.permit
      BY <1>2, <2>1
    <2> QED
      BY <1>1, <1>2, <2>2 DEF Permits, Settled, Native
  <1>3. CASE UNCHANGED <<sup, life>> /\ (BridgeSettles \/ BridgeCloses \/ Admit)
    BY <1>1, <1>3, NativeStays DEF Permits, Settled, Native, BridgeSettles, BridgeCloses, Admit
  <1>4. CASE Register
    BY <1>1, <1>4 DEF Permits, Register, Admitted, Typed, Settled, Native
  <1>5. CASE Reregister
    BY <1>1, <1>5 DEF Permits, Reregister, Admitted, Typed, Settled, Native
  <1>6. CASE Archive
    BY <1>1, <1>6 DEF Permits, Archive, Admitted, Typed, Settled, Native, Due
  <1>7. CASE BeginPass
    BY <1>1, <1>7 DEF Permits, BeginPass, Due, Grantable, Known, Typed, Phases, Settled, Native
  <1>8. CASE IssuePermit
    BY <1>1, <1>8 DEF Permits, IssuePermit, Typed, Settled, Native
  <1>9. CASE Assess
    BY <1>1, <1>9 DEF Permits, Assess, Assessed, Idle, Typed, Settled, Native
  <1>10. CASE Settle \/ RecordPass
    BY <1>1, <1>10, NativeStays DEF Permits, Settle, RecordPass, Idle, Typed, Settled, Native
  <1>11. CASE SupervisorDies \/ RecordLost
    BY <1>1, <1>11 DEF Permits, SupervisorDies, RecordLost, Idle, NoLife, Typed, Settled, Native
  <1> QED
    BY <1>2, <1>3, <1>4, <1>5, <1>6, <1>7, <1>8, <1>9, <1>10, <1>11, LaunchSteps DEF Admit, BridgeSettles, BridgeCloses,
       BridgeDies, OpenJournal, JournalFails, SpawnGate, Reap, RecordEnd, CloseJournal, LeaveReceipt, ShimEnds,
       ShimDies, BoundaryStops, Announce, Exec, NoExec, ExecFails, Spend, ResultLine, GateDies, NativeExits, vars, world

-----------------------------------------------------------------------------
(* What is charged has come to its end. *)

\* What has ended does not begin again, and what is barred stays barred.
LEMMA EndedStays == ASSUME Typed, Told, [Next]_vars, Ended PROVE Ended'
  BY LaunchSteps DEF Ended, Overs, Running, Told, Admit, Register, BridgeSettles, BridgeCloses, BridgeDies, OpenJournal,
     JournalFails, SpawnGate, Reap, RecordEnd, CloseJournal, LeaveReceipt, ShimEnds, ShimDies, BoundaryStops, Announce,
     Exec, NoExec, ExecFails, Spend, ResultLine, GateDies, NativeExits, Reregister, Archive, BeginPass, IssuePermit,
     Assess, Settle, RecordPass, SupervisorDies, RecordLost, vars, world

LEMMA BarredStays == ASSUME Typed, Permits, [Next]_vars, Barred PROVE Barred'
  <1>1. ~file'.permit
    BY PermitGiven DEF Barred, Permits, IssuePermit
  <1>2. life'.phase \in {"no-inference", "reconciled"}
    <2>1. CASE Assess
      BY <2>1 DEF Assess, Assessed, Barred, Permits, Typed
    <2>2. CASE BeginPass
      BY <2>2 DEF BeginPass, Known, Grantable, Barred, Due, Typed
    <2>3. CASE Register \/ Reregister \/ Archive \/ RecordPass \/ RecordLost
      BY <2>3 DEF Register, Reregister, Archive, RecordPass, RecordLost, Barred, Permits, Typed
    <2>4. UNCHANGED life => life'.phase \in {"no-inference", "reconciled"}
      BY DEF Barred
    <2> QED
      BY <2>1, <2>2, <2>3, <2>4, LaunchSteps DEF Admit, BridgeSettles, BridgeCloses, BridgeDies, OpenJournal, JournalFails,
         SpawnGate, Reap, RecordEnd, CloseJournal, LeaveReceipt, ShimEnds, ShimDies, BoundaryStops, Announce, Exec,
         NoExec, ExecFails, Spend, ResultLine, GateDies, NativeExits, IssuePermit, Settle, SupervisorDies, vars, world
  <1> QED
    BY <1>1, <1>2 DEF Barred

\* What the receipt and the journal say is of an invocation that has ended.
LEMMA ReceiptTells ==
    ASSUME Typed, Told
    PROVE  \/ ReceiptRow.status # "settled" /\ ReceiptRow.charge = row.charge /\ ~Settled
           \/ ReceiptRow = row
           \/ Ended /\ (ReceiptRow.charge = 0 => ~spent)
  <1>1. CASE file.receipt \in {"final", "free"} /\ ~(Settled /\ Native) /\ ~Refused
    <2>1. Ended
      BY <1>1 DEF Told, Ended, Overs
    <2>2. ReceiptRow = SettleAs("native", IF file.receipt = "final" /\ spent THEN 1 ELSE 0)
      BY <1>1 DEF ReceiptRow
    <2>3. ReceiptRow.charge = IF file.receipt = "final" /\ spent THEN 1 ELSE 0
      BY <2>2 DEF SettleAs
    <2>4. file.receipt = "free" => ~spent
      BY DEF Told
    <2> QED
      BY <1>1, <2>1, <2>3, <2>4
  <1>2. CASE file.receipt = "open"
    BY <1>2, RowTypes DEF ReceiptRow, Settled
  <1>3. CASE file.receipt = "prefix"
    BY <1>3, RowTypes DEF ReceiptRow, Settled
  <1>4. CASE (Settled /\ Native) \/ file.receipt = "none" \/ (Refused /\ file.receipt \in {"final", "free"})
    BY <1>4 DEF ReceiptRow
  <1> QED
    BY <1>1, <1>2, <1>3, <1>4 DEF Typed, Files

LEMMA JournalTells ==
    ASSUME Typed, Told, Permits, NEW r \in Rows, life.phase = "reconciled" => r.status = "settled"
    PROVE  \/ Recovered(r) = r
           \/ Ended /\ Recovered(r).charge = 1
  <1>1. SUFFICES ASSUME ~Alive, journal \in {"some", "closed"}, r.status # "settled"
                 PROVE  Ended /\ Recovered(r).charge = 1
    BY DEF Recovered
  <1>2. Recovered(r).charge = 1
    BY <1>1 DEF Recovered, SettleAs
  <1>3. gate # "exec"
    <2>1. SUFFICES ASSUME gate = "exec"
                   PROVE  FALSE
      OBVIOUS
    <2>2. file.permit
      BY <2>1 DEF Permits
    <2>3. ~ExitProved
      BY <2>1 DEF ExitProved, Told, Overs, Running
    <2>4. NativeKnown(life.phase) /\ GateSeen
      BY <2>1, <2>2 DEF NativeKnown, Known, GateSeen, Running, Permits
    <2>5. life.phase = "reconciled"
      BY <1>1, <2>3, <2>4 DEF Alive
    <2> QED
      BY <1>1, <2>5
  <1> QED
    BY <1>1, <1>2, <1>3 DEF Told, Ended, Overs

\* What a row may become while the invocation is not settled by a native proof.
Fair(r) ==
    /\ r.charge > 0 \/ r.status = "settled" => Ended \/ Barred
    /\ r.status = "settled" /\ r.charge = 0 => ~spent

LEMMA FairRows ==
    ASSUME LaunchInv
    PROVE  /\ Fair(row) /\ Fair(ReceiptRow)
           /\ \A r \in Rows : /\ Fair(r) /\ (life.phase = "reconciled" => r.status = "settled")
                              => Fair(OrUnknown(Recovered(r)))
  <1> USE DEF LaunchInv
  <1>1. Fair(row)
    BY DEF Charged, NoFreeInference, Fair, Settled
  <1>2. Fair(ReceiptRow)
    BY <1>1, ReceiptTells DEF Fair, Settled
  <1>3. ASSUME NEW r \in Rows, Fair(r), life.phase = "reconciled" => r.status = "settled"
        PROVE  Fair(OrUnknown(Recovered(r)))
    <2>1. Fair(Recovered(r))
      <3>1. CASE Recovered(r) = r
        BY <1>3, <3>1
      <3>2. CASE Ended /\ Recovered(r).charge = 1
        BY <3>2 DEF Fair
      <3> QED
        BY <1>3, <3>1, <3>2, JournalTells
    <2>2. Recovered(r) \in Rows
      BY RowTypes
    <2>3. \A q \in Rows : OrUnknown(q).charge = q.charge /\ (OrUnknown(q).status = "settled" <=> q.status = "settled")
      BY DEF OrUnknown, Rows
    <2> QED
      BY <2>1, <2>2, <2>3 DEF Fair
  <1> QED
    BY <1>1, <1>2, <1>3

LEMMA ChargedStep == ASSUME LaunchInv, [Next]_vars PROVE Charged' /\ NoFreeInference'
  <1> USE DEF LaunchInv
  <1>1. Ended \/ Barred => (Ended \/ Barred)'
    BY EndedStays, BarredStays
  <1>2. Ended \/ Barred => spent' = spent
    <2>1. Spend => ~Ended /\ ~Barred
      BY DEF Spend, Ended, Overs, Barred, Permits
    <2> QED
      BY <2>1, LaunchSteps DEF Admit, Register, BridgeSettles, BridgeCloses, BridgeDies, OpenJournal, JournalFails,
         SpawnGate, Reap, RecordEnd, CloseJournal, LeaveReceipt, ShimEnds, ShimDies, BoundaryStops, Announce, Exec,
         NoExec, ExecFails, ResultLine, GateDies, NativeExits, Reregister, Archive, BeginPass, IssuePermit, Assess,
         Settle, RecordPass, SupervisorDies, RecordLost, vars, world
  <1>3. ASSUME NEW r, Fair(r), row' = r
        PROVE  Charged' /\ NoFreeInference'
    BY <1>1, <1>2, <1>3 DEF Fair, Charged, NoFreeInference, Settled
  <1>4. life.phase = "reconciled" => row.status = "settled" /\ ReceiptRow = row
    BY DEF Permits, Settled, Native, ReceiptRow
  <1>5. row \in Rows /\ ReceiptRow \in Rows
    BY RowTypes DEF Typed
  <1>6. Fair(OrUnknown(Recovered(row))) /\ Fair(OrUnknown(Recovered(ReceiptRow)))
    BY <1>4, <1>5, FairRows
  <1>7. CASE BridgeSettles \/ BridgeCloses
    BY <1>3, <1>6, <1>7, FairRows DEF BridgeSettles, BridgeCloses
  <1>8. CASE Settle
    <2>1. CASE UNCHANGED row
      BY <1>3, <2>1, FairRows
    <2>2. CASE ~(Settled /\ Native) /\ (sup.phase = "no-inference" \/ file.noExec) /\ ~HasUsage
      <3>1. SettleAs("native", 0) \in Rows /\ SettleAs("native", 0).status = "settled"
            /\ SettleAs("native", 0).charge = 0
        BY RowTypes DEF SettleAs
      <3>2. Ended \/ Barred
        BY <1>8, <2>2 DEF Settle, Permits, Told, Ended, Overs, Barred
      <3>3. ~spent
        BY <1>8, <2>2 DEF Settle, Permits, Told
      <3>4. Fair(SettleAs("native", 0))
        BY <3>1, <3>2, <3>3 DEF Fair
      <3>5. Fair(OrUnknown(Recovered(SettleAs("native", 0))))
        BY <3>1, <3>4, FairRows
      <3>6. row' = OrUnknown(Recovered(SettleAs("native", 0)))
        BY <1>8, <2>2 DEF Settle
      <3> QED
        BY <1>3, <3>5, <3>6
    <2>3. CASE row' \in {OrUnknown(Recovered(ReceiptRow)), OrUnknown(Recovered(row))}
      BY <1>3, <1>6, <2>3
    <2> QED
      BY <1>8, <2>1, <2>2, <2>3 DEF Settle
  <1>9. CASE Admit \/ Assess
    <2>1. row' = row \/ (~Settled /\ row' \in {LeaveAs("active"), LeaveAs("provisional")})
      BY <1>9 DEF Admit, Assess, Settled
    <2>2. \A s \in {"active", "provisional"} : ~Settled => Fair(LeaveAs(s))
      BY FairRows, RowTypes DEF Fair
    <2> QED
      BY <1>3, <2>1, <2>2, FairRows
  <1>10. CASE UNCHANGED row
    BY <1>3, <1>10, FairRows
  <1> QED
    BY <1>7, <1>8, <1>9, <1>10, LaunchSteps DEF Register, BridgeDies, OpenJournal, JournalFails, SpawnGate, Reap,
       RecordEnd, CloseJournal, LeaveReceipt, ShimEnds, ShimDies, BoundaryStops, Announce, Exec, NoExec, ExecFails,
       Spend, ResultLine, GateDies, NativeExits, Reregister, Archive, BeginPass, IssuePermit,
       RecordPass, SupervisorDies, RecordLost, vars, world

-----------------------------------------------------------------------------
(* The theorem. *)

LEMMA LaunchInit == ASSUME LaunchAssumption, Init PROVE LaunchInv
  <1>1. /\ Admitted /\ Told /\ Charged /\ NoFreeInference
    BY DEF Init, NoFiles, NoLife, Idle, Admitted, Told, Charged, NoFreeInference, Settled, Running, Overs
  <1>2. Permits
    BY DEF Init, NoFiles, NoLife, Idle, Permits
  <1> QED
    BY <1>1, <1>2, TypedInit DEF LaunchInv

LEMMA LaunchStep == ASSUME LaunchInv, [Next]_vars PROVE LaunchInv'
  BY TypedStep, AdmittedStep, ToldStep, PermitsStep, ChargedStep DEF LaunchInv

\* The bounds and the choice of the place, which no step changes.
Bounds == external \in Remotes /\ crashes \in 0..MaxCrashes

LEMMA LaunchStarts == ASSUME LaunchAssumption, Init PROVE LaunchInv /\ Bounds
  <1>1. Bounds
    BY DEF Init, Bounds, LaunchAssumption
  <1> QED
    BY <1>1, LaunchInit

LEMMA LaunchGoesOn == ASSUME LaunchAssumption, LaunchInv, Bounds, [Next]_vars PROVE LaunchInv' /\ Bounds'
  <1>1. external' = external
    BY TypedWorld DEF LaunchInv
  <1>2. crashes' \in 0..MaxCrashes
    <2>1. CASE SupervisorDies \/ RecordLost
      BY <2>1 DEF SupervisorDies, RecordLost, Bounds, LaunchAssumption
    <2>2. SupervisorDies \/ RecordLost \/ UNCHANGED crashes
      BY LaunchSteps DEF Admit, Register, BridgeSettles, BridgeCloses, BridgeDies, OpenJournal,
         JournalFails, SpawnGate, Reap, RecordEnd, CloseJournal, LeaveReceipt, ShimEnds, ShimDies, BoundaryStops,
         Announce, Exec, NoExec, ExecFails, Spend, ResultLine, GateDies, NativeExits, Reregister, Archive, BeginPass,
         IssuePermit, Assess, Settle, RecordPass, vars
    <2> QED
      BY <2>1, <2>2 DEF Bounds
  <1> QED
    BY <1>1, <1>2, LaunchStep DEF Bounds

LEMMA LaunchInvSafe == ASSUME LaunchInv, Bounds PROVE LaunchSafe
  <1>1. TypeOK
    <2>1. life.phase \in Phases /\ sup.phase \in Phases /\ row.status \in
            {"none", "active", "unresolved", "provisional", "settled"}
      BY DEF LaunchInv, Typed, Rows
    <2> QED
      BY <2>1 DEF LaunchInv, Bounds, TypeOK, Typed, Admitted
  <1>2. RunsOnlyRecorded
    BY DEF LaunchInv, RunsOnlyRecorded, Permits, NativeKnown, Known
  <1>3. NothingChargedWhileRunning
    BY DEF LaunchInv, NothingChargedWhileRunning, Charged, Ended, Overs, Barred, Permits
  <1> QED
    BY <1>1, <1>2, <1>3 DEF LaunchSafe, LaunchInv

\* A paid invocation is launched with its identity on disk, is never free when
\* it spent, and is charged only when it has ended, for any number of crashes,
\* on the host and in a container.  (usage_lifecycle.py, usage_supervisor.py)
THEOREM LaunchIsSafe == LaunchAssumption => (Spec => []LaunchSafe)
  <1> SUFFICES ASSUME LaunchAssumption PROVE Spec => []LaunchSafe
    OBVIOUS
  <1>1. Init => LaunchInv /\ Bounds
    BY LaunchStarts
  <1>2. LaunchInv /\ Bounds /\ [Next]_vars => LaunchInv' /\ Bounds'
    BY LaunchGoesOn
  <1>3. LaunchInv /\ Bounds => LaunchSafe
    BY LaunchInvSafe
  <1> HIDE DEF LaunchInv, Bounds, LaunchSafe
  <1> QED
    BY <1>1, <1>2, <1>3, PTL DEF Spec
-----------------------------------------------------------------------------
(* An audit. *)

(* Types: those of a worker, and those that all share. *)

Blocks == [kind: {"none", "interrupted", "timeout", "failed", "manual"}, from: 0..LastCommit, to: 0..LastCommit]
Sessions == [native: BOOLEAN, concern: BOOLEAN, empty: BOOLEAN, last: Finals, token: BOOLEAN, read: 0..Pages,
             out: {"none", "answer", "stale", "service", "turn"}]
JobSteps == {"idle", "reserved", "planned", "asking", "said", "back", "judged", "recorded", "checked", "patched"}
Jobs == [step: JobSteps, from: 0..LastCommit, to: 0..LastCommit, try: 1..3, by: {"round", "recovery", "admin"},
         got: Finals \cup {"service", "turn", "timeout"}, verdict: {"none", "pass", "concern"}]

WorkerTypes ==
  /\ block \in [Auditors -> Blocks] /\ session \in [Auditors -> Sessions]
  /\ refusals \in [Auditors -> SUBSET ((0..LastCommit) \X (1..LastCommit))]
  /\ cooling \in [Auditors -> BOOLEAN] /\ job \in [Auditors -> Jobs]
  /\ accused \in [Auditors -> SUBSET (0..LastCommit)] /\ launches \in [Auditors -> 0..2]
SharedTypes ==
  /\ main \in 1..LastCommit /\ cursor \in 0..LastCommit
  /\ human \in [step: {"idle", "attesting"}, from: 0..LastCommit, to: 0..LastCommit]
  /\ upsets \in [faults: 0..MaxFaults, admin: 0..MaxAdmin]

LEMMA AuditTypes == AuditTypeOK <=> WorkerTypes /\ SharedTypes
  BY DEF AuditTypeOK, WorkerTypes, SharedTypes, Blocks, Sessions, Jobs, JobSteps

-----------------------------------------------------------------------------
(* The invariant. *)

AtWork(w) == job[w].step # "idle"
\* The process has a verdict that it acts on.
Judged(w) == job[w].step \in {"judged", "recorded", "checked", "patched"}
\* An inspection from the start, in a conversation of its own.
NewTalk(w) == job[w].by = "round" /\ job[w].try = 1

\* The cursor is on main; what is attested begins at or before it.
CursorInOrder ==
  /\ cursor <= main
  /\ human.step = "attesting" => human.from <= cursor /\ human.from < human.to /\ human.to <= main

\* A block and a job are of commits of main, and a job began at or before the cursor.
Spans(w) ==
  /\ block[w].kind \notin {"none", "manual"} => block[w].from < block[w].to /\ block[w].to <= main
  /\ AtWork(w) => job[w].from <= cursor /\ job[w].from < job[w].to /\ job[w].to <= main

\* While a request runs, and before one of a recovery starts, the block at its cursor tells of it.
Journaled(w) ==
  \/ job[w].step \in {"reserved", "asking", "said", "back"}
  \/ job[w].step = "planned" /\ ~NewTalk(w)
  => block[w].from = job[w].from /\ block[w].kind \notin {"none", "manual"}

\* A cursor where fault was found: while the remote cursor is there, the worker is blocked and its history tells
\* of the fault; and nobody who works from there has passed, or begins a conversation anew.
Remembered(w) == \A f \in accused[w] :
  /\ f <= cursor
  /\ f = cursor => block[w].kind # "none" /\ block[w].from = f /\ session[w].concern
  /\ AtWork(w) => f <= job[w].from
  /\ AtWork(w) /\ f = job[w].from =>
       /\ session[w].concern /\ ~(Judged(w) /\ job[w].verdict = "pass")
       /\ ~(job[w].step = "planned" /\ NewTalk(w))

\* A pass that is acted on is of a conversation that read everything, or of commits that need none.
PassedWhole(w) ==
  /\ job[w].step \in {"checked", "patched"} => job[w].verdict = "pass"
  /\ Judged(w) /\ job[w].verdict = "pass" =>
       \/ Whole(session[w]) /\ ~session[w].concern
       \/ (job[w].from + 1)..job[w].to \subseteq Quiet

\* A recovery was launched only under a cooldown that is on disk, and none before the one that is reserved.
Rationed(w) ==
  /\ launches[w] <= 1 /\ (launches[w] = 1 => cooling[w])
  /\ job[w].step = "reserved" => job[w].by = "recovery" /\ job[w].try = 1
  /\ job[w].step \in {"reserved", "planned"} /\ job[w].by = "recovery" /\ job[w].try = 1 =>
       cooling[w] /\ launches[w] = 0

Sound(w) == Spans(w) /\ Journaled(w) /\ Remembered(w) /\ PassedWhole(w) /\ Rationed(w)
AuditInv == AuditTypeOK /\ CursorInOrder /\ \A w \in Auditors : Sound(w)

-----------------------------------------------------------------------------
(* A worker that does not move stays sound, whatever moves the cursor forward or main. *)

Same(w) ==
  /\ block'[w] = block[w] /\ session'[w] = session[w] /\ cooling'[w] = cooling[w] /\ job'[w] = job[w]
  /\ accused'[w] = accused[w] /\ launches'[w] = launches[w]

LEMMA Elsewhere ==
    ASSUME AuditAssumption, AuditInv, NEW w \in Auditors, Same(w),
           cursor' \in cursor..main', main' \in Nat, main <= main'
    PROVE  Sound(w)'
  <1> USE DEF Same, AuditInv, Sound, AuditTypeOK
  <1>1. Spans(w)'
    BY DEF Spans, AtWork
  <1>2. Journaled(w)'
    BY DEF Journaled, NewTalk
  <1>3. Remembered(w)'
    BY AuditTypes DEF Remembered, AtWork, Judged, NewTalk, WorkerTypes, SharedTypes
  <1>4. PassedWhole(w)'
    BY DEF PassedWhole, Judged, Whole
  <1>5. Rationed(w)'
    BY DEF Rationed
  <1> QED
    BY <1>1, <1>2, <1>3, <1>4, <1>5

-----------------------------------------------------------------------------
(* The batch exists: some first commit does not fit, or none. *)

\* A set of natural numbers has a least element.
LEMMA LeastElement ==
    ASSUME NEW S \in SUBSET Nat, S # {}
    PROVE  \E n \in S : \A k \in S : n <= k
  <1> DEFINE T == {0..n : n \in S}
  <1>1. T \subseteq FiniteSubsetsOf(Nat) /\ T # {}
    <2>1. ASSUME NEW n \in S PROVE 0..n \in FiniteSubsetsOf(Nat)
      <3>1. IsFiniteSet(0..n) /\ 0..n \subseteq Nat
        BY FS_Interval
      <3> QED
        BY <3>1 DEF FiniteSubsetsOf
    <2> QED
      BY <2>1
  <1>2. \E t \in T : \A u \in T : <<u, t>> \notin StrictSubsetOrdering(Nat)
    <2> HIDE DEF T
    <2> QED
      BY <1>1, FS_StrictSubsetOrderingWellFounded, WFMin
  <1>3. PICK n \in S : \A k \in S : <<0..k, 0..n>> \notin StrictSubsetOrdering(Nat)
    BY <1>2
  <1>4. ASSUME NEW k \in S, k < n PROVE FALSE
    <2>1. 0..k \subseteq 0..n /\ n \in 0..n /\ n \notin 0..k
      BY <1>4
    <2>2. 0..k \in SUBSET Nat /\ 0..n \in SUBSET Nat /\ 0..k # 0..n
      BY <2>1
    <2> DEFINE less == 0..k
               more == 0..n
    <2>3. less \in SUBSET Nat /\ more \in SUBSET Nat /\ less \subseteq more /\ less # more
      BY <2>1, <2>2
    <2> HIDE DEF less, more
    <2>4. <<less, more>> \in StrictSubsetOrdering(Nat)
      BY <2>3 DEF StrictSubsetOrdering
    <2> QED
      BY <1>3, <2>4 DEF less, more
  <1> QED
    BY <1>4

\* It is the end of main, or the first commit before one that does not fit.
LEMMA LastReadable ==
    ASSUME AuditAssumption, AuditTypeOK, CursorInOrder
    PROVE  BatchEnd \in cursor..main
  <1> DEFINE Ends == {t \in cursor..main : t = main \/ t = cursor + MaxBatch \/ t + 1 \in Oversized}
  <1>0. main \in Nat /\ cursor \in Nat /\ cursor <= main /\ MaxBatch \in Nat
    BY DEF AuditTypeOK, CursorInOrder, AuditAssumption
  <1>1. main \in Ends /\ Ends \subseteq Nat
    BY <1>0
  <1>2. PICK t \in Ends : \A n \in Ends : t <= n
    <2> HIDE DEF Ends
    <2> QED
      BY <1>1, LeastElement
  <1>3. t <= cursor + MaxBatch
    BY <1>0, <1>2
  <1>4. (cursor + 1)..t \cap Oversized = {}
    <2> SUFFICES ASSUME NEW x \in (cursor + 1)..t, x \in Oversized PROVE FALSE
      OBVIOUS
    <2>1. x - 1 \in Ends /\ x - 1 < t
      BY <1>0, <1>2
    <2> QED
      BY <1>2, <2>1
  <1>5. \E e \in cursor..main : /\ e <= cursor + MaxBatch /\ (cursor + 1)..e \cap Oversized = {}
                                /\ \/ e = main \/ e = cursor + MaxBatch \/ e + 1 \in Oversized
    BY <1>2, <1>3, <1>4
  <1> QED
    BY <1>5 DEF BatchEnd

-----------------------------------------------------------------------------
(* The turn of one worker.  What an action does to the records of its worker is the first step of each  *)
(* proof, the parts of the invariant are the others.                                                     *)

Turn(w) == /\ WorkerTypes' /\ SharedTypes' /\ Sound(w)' /\ \A q \in Auditors \ {w} : Same(q)
           /\ CursorInOrder' /\ cursor <= cursor' /\ main <= main'

LEMMA AuditRecords ==
    ASSUME AuditAssumption, AuditTypeOK, NEW w \in Auditors
    PROVE  /\ job[w] \in Jobs /\ block[w] \in Blocks /\ session[w] \in Sessions /\ accused[w] \subseteq 0..LastCommit
           /\ AtRest \in Jobs /\ NoBlock \in Blocks /\ NoSession \in Sessions
           /\ cursor \in 0..LastCommit /\ main \in 1..LastCommit
  BY AuditTypes DEF WorkerTypes, SharedTypes, Jobs, JobSteps, Blocks, Sessions, Finals, AtRest, NoBlock, NoSession,
     AuditAssumption

\* What a write to the record of one worker comes to.
LEMMA Writes ==
    ASSUME WorkerTypes, NEW w \in Auditors
    PROVE  /\ \A j \in Jobs : job' = [job EXCEPT ![w] = j] =>
                job' \in [Auditors -> Jobs] /\ job'[w] = j /\ \A q \in Auditors \ {w} : job'[q] = job[q]
           /\ \A b \in Blocks : block' = [block EXCEPT ![w] = b] =>
                block' \in [Auditors -> Blocks] /\ block'[w] = b /\ \A q \in Auditors \ {w} : block'[q] = block[q]
           /\ \A t \in Sessions : session' = [session EXCEPT ![w] = t] =>
                /\ session' \in [Auditors -> Sessions] /\ session'[w] = t
                /\ \A q \in Auditors \ {w} : session'[q] = session[q]
  BY DEF WorkerTypes

Administered == upsets.admin < MaxAdmin /\ upsets' = [upsets EXCEPT !.admin = @ + 1]

LEMMA Upset ==
    ASSUME AuditAssumption, SharedTypes, UNCHANGED upsets \/ Faulty \/ Administered
    PROVE  upsets' \in [faults: 0..MaxFaults, admin: 0..MaxAdmin]
  BY DEF SharedTypes, Faulty, Administered, AuditAssumption

\* What the workers share stays in order when the cursor moves to the end of a batch.
LEMMA Standing ==
    ASSUME AuditAssumption, AuditInv, NEW w \in Auditors, UNCHANGED <<main, human>>,
           UNCHANGED upsets \/ Faulty \/ Administered,
           cursor' = cursor \/ (AtWork(w) /\ cursor <= job[w].to /\ cursor' = job[w].to)
    PROVE  SharedTypes' /\ CursorInOrder' /\ cursor <= cursor' /\ main <= main'
  <1>1. upsets' \in [faults: 0..MaxFaults, admin: 0..MaxAdmin] /\ SharedTypes /\ job[w] \in Jobs
    BY Upset, AuditTypes DEF AuditInv, WorkerTypes
  <1> QED
    BY <1>1 DEF AuditInv, Sound, Spans, SharedTypes, CursorInOrder, Jobs

\* The outcomes of a step: the job goes on, it is over with or without a new block.
GoesOn(w) == /\ job'[w].from = job[w].from /\ job'[w].to = job[w].to
             /\ job'[w].by = job[w].by /\ job'[w].verdict = job[w].verdict
Rested(w) == job'[w] = AtRest /\ block' = block
EndsBlocked(w) == /\ job'[w] = AtRest /\ block'[w].kind \in {"timeout", "failed"}
              /\ block'[w].from = job[w].from /\ block'[w].to = job[w].to

LEMMA Failing ==
    ASSUME AuditTypeOK, AuditAssumption, NEW w \in Auditors, NEW kind \in {"timeout", "failed"}, Fails(w, kind)
    PROVE  /\ EndsBlocked(w) /\ job' \in [Auditors -> Jobs] /\ block' \in [Auditors -> Blocks]
           /\ \A q \in Auditors \ {w} : job'[q] = job[q] /\ block'[q] = block[q]
  <1> DEFINE m == [kind |-> kind, from |-> job[w].from, to |-> job[w].to]
  <1>1. m \in Blocks /\ m.kind = kind /\ m.from = job[w].from /\ m.to = job[w].to
    BY AuditRecords DEF Blocks, Jobs
  <1>2. job' = [job EXCEPT ![w] = AtRest] /\ block' = [block EXCEPT ![w] = m]
    BY DEF Fails
  <1>3. AtRest \in Jobs /\ WorkerTypes
    BY AuditRecords, AuditTypes
  <1> HIDE DEF m
  <1> QED
    BY <1>1, <1>2, <1>3, Writes DEF EndsBlocked

LEMMA NoProgressing ==
    ASSUME AuditTypeOK, AuditAssumption, NEW w \in Auditors, NoProgress(w)
    PROVE  /\ EndsBlocked(w) \/ Rested(w)
           /\ job' \in [Auditors -> Jobs] /\ block' \in [Auditors -> Blocks]
           /\ \A q \in Auditors \ {w} : job'[q] = job[q] /\ block'[q] = block[q]
  <1>1. CASE Fails(w, "failed")
    BY <1>1, Failing
  <1>2. CASE job' = [job EXCEPT ![w] = AtRest] /\ UNCHANGED block
    BY <1>2, AuditRecords, AuditTypes, Writes DEF WorkerTypes, Rested
  <1> QED
    BY <1>1, <1>2 DEF NoProgress

LEMMA PlanBatchKeeps ==
    ASSUME AuditAssumption, AuditInv, NEW w \in Auditors, PlanBatch(w)
    PROVE  Turn(w)
  <1> USE DEF AuditInv, Sound
  <1>0. /\ job[w] \in Jobs /\ block[w] \in Blocks /\ session[w] \in Sessions /\ WorkerTypes /\ SharedTypes
        /\ accused[w] \subseteq 0..LastCommit /\ cursor \in 0..LastCommit /\ main \in 1..LastCommit
        /\ AtRest \in Jobs /\ NoBlock \in Blocks /\ NoSession \in Sessions
        /\ launches[w] \in 0..2 /\ cooling[w] \in BOOLEAN
    BY AuditRecords, AuditTypes DEF WorkerTypes
  <1> DEFINE quiet == (cursor + 1)..BatchEnd \subseteq Quiet
             j == [AtRest EXCEPT !.from = cursor, !.to = BatchEnd,
                     !.step = IF quiet THEN "judged" ELSE "planned", !.verdict = IF quiet THEN "pass" ELSE "none"]
             m == [kind |-> "manual", from |-> cursor, to |-> 0]
  <1>1. /\ WorkerTypes' /\ \A q \in Auditors \ {w} : Same(q)
        /\ UNCHANGED <<main, cursor, session, human, cooling, accused, launches>>
        /\ job[w].step = "idle" /\ ~Blocked(w)
        /\ \/ job' = job /\ block'[w].kind = "manual" /\ block'[w].from = cursor
           \/ /\ block' = block /\ cursor < BatchEnd /\ BatchEnd <= main
              /\ job'[w].from = cursor /\ job'[w].to = BatchEnd /\ job'[w].try = 1 /\ job'[w].by = "round"
              /\ \/ job'[w].step = "judged" /\ job'[w].verdict = "pass" /\ (cursor + 1)..BatchEnd \subseteq Quiet
                 \/ job'[w].step = "planned"
    <2>1. m \in Blocks /\ m.kind = "manual" /\ m.from = cursor
      BY <1>0 DEF Blocks, AuditAssumption
    <2>2. \/ UNCHANGED job /\ block' = [block EXCEPT ![w] = m]
          \/ UNCHANGED block /\ BatchEnd # cursor /\ job' = [job EXCEPT ![w] = j]
      BY DEF PlanBatch
    <2>3. /\ UNCHANGED <<main, cursor, session, refusals, human, cooling, accused, launches>>
          /\ job[w].step = "idle" /\ ~Blocked(w)
      BY DEF PlanBatch
    <2> HIDE DEF quiet
    <2>4. BatchEnd \in 0..LastCommit /\ BatchEnd <= main
      BY <1>0, LastReadable DEF AuditAssumption
    <2>5. j \in Jobs
      BY <1>0, <2>4 DEF AtRest, Jobs, JobSteps
    <2>6. /\ j.from = cursor /\ j.to = BatchEnd /\ j.try = 1 /\ j.by = "round"
          /\ \/ j.step = "judged" /\ j.verdict = "pass" /\ quiet
             \/ j.step = "planned"
      BY DEF AtRest
    <2>7. BatchEnd # cursor => cursor < BatchEnd
      BY <1>0, LastReadable
    <2> HIDE DEF m, j
    <2> QED
      BY <1>0, <2>1, <2>2, <2>3, <2>4, <2>5, <2>6, <2>7, Writes DEF WorkerTypes, Same, quiet
  <1>2. SharedTypes' /\ CursorInOrder' /\ cursor <= cursor' /\ main <= main'
    BY <1>0, <1>1, Standing DEF PlanBatch, Administered, AtWork
  <1>3. Spans(w)'
    BY <1>0, <1>1, <1>2 DEF GoesOn, Rested, EndsBlocked, Spans, Journaled, AtWork, CursorInOrder, Jobs, Blocks,
       AtRest
  <1>4. Journaled(w)'
    BY <1>0, <1>1 DEF GoesOn, Rested, EndsBlocked, Journaled, NewTalk, Jobs, Blocks, AtRest
  <1>5. Remembered(w)'
    BY <1>0, <1>1, <1>2 DEF Blocked, GoesOn, Rested, EndsBlocked, Remembered, Spans, Journaled, PassedWhole,
       AtWork, Judged, NewTalk, Jobs, Blocks, AtRest
  <1>6. PassedWhole(w)'
    BY <1>0, <1>1 DEF GoesOn, Rested, EndsBlocked, PassedWhole, Judged, Whole, AtRest
  <1>7. Rationed(w)'
    BY <1>0, <1>1 DEF GoesOn, Rested, EndsBlocked, NewTalk, Rationed, Jobs, AtRest
  <1> QED
    BY <1>1, <1>2, <1>3, <1>4, <1>5, <1>6, <1>7 DEF Turn

LEMMA RecoverKeeps ==
    ASSUME AuditAssumption, AuditInv, NEW w \in Auditors, Recover(w)
    PROVE  Turn(w)
  <1> USE DEF AuditInv, Sound
  <1>0. /\ job[w] \in Jobs /\ block[w] \in Blocks /\ session[w] \in Sessions /\ WorkerTypes /\ SharedTypes
        /\ accused[w] \subseteq 0..LastCommit /\ cursor \in 0..LastCommit /\ main \in 1..LastCommit
        /\ AtRest \in Jobs /\ NoBlock \in Blocks /\ NoSession \in Sessions
        /\ launches[w] \in 0..2 /\ cooling[w] \in BOOLEAN
    BY AuditRecords, AuditTypes DEF WorkerTypes
  <1> DEFINE done == [AtRest EXCEPT !.step = "judged", !.from = block[w].from, !.to = block[w].to, !.verdict = "pass"]
             anew == [AtRest EXCEPT !.step = "reserved", !.from = block[w].from, !.to = block[w].to, !.by = "recovery"]
  <1>1. /\ WorkerTypes' /\ \A q \in Auditors \ {w} : Same(q)
        /\ UNCHANGED <<main, cursor, block, session, human, accused, launches>>
        /\ job[w].step = "idle" /\ block[w].kind \notin {"none", "manual"} /\ block[w].from = cursor
        /\ ~session[w].concern
        /\ job'[w].from = block[w].from /\ job'[w].to = block[w].to /\ job'[w].try = 1
        /\ \/ cooling' = cooling /\ job'[w].step = "judged" /\ job'[w].verdict = "pass" /\ Whole(session[w])
           \/ ~cooling[w] /\ cooling'[w] /\ job'[w].step = "reserved" /\ job'[w].by = "recovery"
    <2>1. /\ done \in Jobs /\ done.from = block[w].from /\ done.to = block[w].to /\ done.try = 1
          /\ done.step = "judged" /\ done.verdict = "pass"
      BY <1>0 DEF AtRest, Jobs, JobSteps, Blocks
    <2>2. /\ anew \in Jobs /\ anew.from = block[w].from /\ anew.to = block[w].to /\ anew.try = 1
          /\ anew.step = "reserved" /\ anew.by = "recovery"
      BY <1>0 DEF AtRest, Jobs, JobSteps, Blocks
    <2>3. \/ CompletedPass(session[w]) /\ UNCHANGED cooling /\ job' = [job EXCEPT ![w] = done]
          \/ ~cooling[w] /\ cooling' = [cooling EXCEPT ![w] = TRUE] /\ job' = [job EXCEPT ![w] = anew]
      BY DEF Recover, Reserved
    <2>4. /\ UNCHANGED <<main, cursor, block, session, refusals, human, accused, launches>>
          /\ job[w].step = "idle" /\ block[w].kind \notin {"none", "manual"} /\ block[w].from = cursor
          /\ ~session[w].concern
      BY DEF Recover, Blocked, Recoverable, KeepsSource, SafeHistory
    <2>5. cooling' \in [Auditors -> BOOLEAN] /\ (\A q \in Auditors \ {w} : cooling'[q] = cooling[q])
      BY <1>0, <2>3 DEF WorkerTypes
    <2> HIDE DEF done, anew
    <2>7. CASE CompletedPass(session[w]) /\ UNCHANGED cooling /\ job' = [job EXCEPT ![w] = done]
      BY <1>0, <2>1, <2>4, <2>5, <2>7, Writes DEF WorkerTypes, Same, CompletedPass
    <2>8. CASE ~cooling[w] /\ cooling' = [cooling EXCEPT ![w] = TRUE] /\ job' = [job EXCEPT ![w] = anew]
      BY <1>0, <2>2, <2>4, <2>5, <2>8, Writes DEF WorkerTypes, Same
    <2> QED
      BY <2>3, <2>7, <2>8
  <1>2. SharedTypes' /\ CursorInOrder' /\ cursor <= cursor' /\ main <= main'
    BY <1>0, <1>1, Standing DEF Recover, Administered, AtWork
  <1>3. Spans(w)'
    BY <1>0, <1>1, <1>2 DEF GoesOn, Rested, EndsBlocked, Spans, Journaled, AtWork, CursorInOrder, Jobs, Blocks,
       AtRest
  <1>4. Journaled(w)'
    BY <1>0, <1>1 DEF GoesOn, Rested, EndsBlocked, Journaled, NewTalk, Jobs, Blocks, AtRest
  <1>5. Remembered(w)'
    BY <1>0, <1>1, <1>2 DEF GoesOn, Rested, EndsBlocked, Remembered, Spans, Journaled, PassedWhole, AtWork,
       Judged, NewTalk, Jobs, Blocks, AtRest
  <1>6. PassedWhole(w)'
    BY <1>0, <1>1 DEF GoesOn, Rested, EndsBlocked, PassedWhole, Judged, Whole, AtRest
  <1>7. Rationed(w)'
    BY <1>0, <1>1 DEF GoesOn, Rested, EndsBlocked, NewTalk, Rationed, Jobs, AtRest
  <1> QED
    BY <1>1, <1>2, <1>3, <1>4, <1>5, <1>6, <1>7 DEF Turn

LEMMA JournalKeeps ==
    ASSUME AuditAssumption, AuditInv, NEW w \in Auditors, Journal(w)
    PROVE  Turn(w)
  <1> USE DEF AuditInv, Sound
  <1>0. /\ job[w] \in Jobs /\ block[w] \in Blocks /\ session[w] \in Sessions /\ WorkerTypes /\ SharedTypes
        /\ accused[w] \subseteq 0..LastCommit /\ cursor \in 0..LastCommit /\ main \in 1..LastCommit
        /\ AtRest \in Jobs /\ NoBlock \in Blocks /\ NoSession \in Sessions
        /\ launches[w] \in 0..2 /\ cooling[w] \in BOOLEAN
    BY AuditRecords, AuditTypes DEF WorkerTypes
  <1> DEFINE j == [job[w] EXCEPT !.step = "planned"]
             noted == [block[w] EXCEPT !.kind = "interrupted"]
             t == [session[w] EXCEPT !.out = "none"]
  <1>1. /\ WorkerTypes' /\ \A q \in Auditors \ {w} : Same(q)
        /\ UNCHANGED <<main, cursor, human, cooling, accused, launches>>
        /\ job[w].step = "reserved"
        /\ \/ /\ GoesOn(w) /\ job'[w].try = job[w].try /\ job'[w].step = "planned"
              /\ block'[w].kind = "interrupted" /\ block'[w].from = block[w].from /\ block'[w].to = block[w].to
              /\ session'[w].concern = session[w].concern
           \/ Rested(w) /\ UNCHANGED session
    <2>1. /\ j \in Jobs /\ j.from = job[w].from /\ j.to = job[w].to /\ j.by = job[w].by /\ j.try = job[w].try
          /\ j.verdict = job[w].verdict /\ j.step = "planned"
      BY <1>0 DEF Jobs, JobSteps
    <2>2. noted \in Blocks /\ noted.kind = "interrupted" /\ noted.from = block[w].from /\ noted.to = block[w].to
      BY <1>0 DEF Blocks
    <2>3. t \in Sessions /\ t.concern = session[w].concern
      BY <1>0 DEF Sessions
    <2>4. \/ /\ job' = [job EXCEPT ![w] = j] /\ block' = [block EXCEPT ![w] = noted]
             /\ session' = [session EXCEPT ![w] = t]
          \/ job' = [job EXCEPT ![w] = AtRest] /\ UNCHANGED <<block, session>>
      BY <1>0 DEF Journal, WorkerTypes
    <2>5. UNCHANGED <<main, cursor, refusals, human, cooling, accused, launches>> /\ job[w].step = "reserved"
      BY DEF Journal
    <2> HIDE DEF j, noted, t
    <2> QED
      BY <1>0, <2>1, <2>2, <2>3, <2>4, <2>5, Writes DEF WorkerTypes, Same, GoesOn, Rested
  <1>2. SharedTypes' /\ CursorInOrder' /\ cursor <= cursor' /\ main <= main'
    BY <1>0, <1>1, Standing DEF Journal, Administered, AtWork
  <1>3. Spans(w)'
    BY <1>0, <1>1, <1>2 DEF GoesOn, Rested, EndsBlocked, Spans, Journaled, AtWork, CursorInOrder, Jobs, Blocks,
       AtRest
  <1>4. Journaled(w)'
    BY <1>0, <1>1 DEF GoesOn, Rested, EndsBlocked, Journaled, NewTalk, Jobs, Blocks, AtRest
  <1>5. Remembered(w)'
    BY <1>0, <1>1, <1>2 DEF GoesOn, Rationed, Rested, EndsBlocked, Remembered, Spans, Journaled, PassedWhole,
       AtWork, Judged, NewTalk, Jobs, Blocks, AtRest
  <1>6. PassedWhole(w)'
    BY <1>0, <1>1 DEF GoesOn, Rested, EndsBlocked, PassedWhole, Judged, Whole, AtRest
  <1>7. Rationed(w)'
    BY <1>0, <1>1 DEF GoesOn, Rested, EndsBlocked, NewTalk, Rationed, Jobs, AtRest
  <1> QED
    BY <1>1, <1>2, <1>3, <1>4, <1>5, <1>6, <1>7 DEF Turn

LEMMA LaunchClientKeeps ==
    ASSUME AuditAssumption, AuditInv, NEW w \in Auditors, LaunchClient(w)
    PROVE  Turn(w)
  <1> USE DEF AuditInv, Sound
  <1>0. /\ job[w] \in Jobs /\ block[w] \in Blocks /\ session[w] \in Sessions /\ WorkerTypes /\ SharedTypes
        /\ accused[w] \subseteq 0..LastCommit /\ cursor \in 0..LastCommit /\ main \in 1..LastCommit
        /\ AtRest \in Jobs /\ NoBlock \in Blocks /\ NoSession \in Sessions
        /\ launches[w] \in 0..2 /\ cooling[w] \in BOOLEAN
    BY AuditRecords, AuditTypes DEF WorkerTypes
  <1> DEFINE j == [job[w] EXCEPT !.step = "asking"]
             t == IF NewTalk(w) THEN NoSession
                  ELSE IF job[w].try = 1 THEN [session[w] EXCEPT !.out = "none"] ELSE session[w]
             counts == job[w].by = "recovery" /\ job[w].try = 1 /\ launches[w] < 2
  <1>1. /\ WorkerTypes' /\ \A q \in Auditors \ {w} : Same(q)
        /\ UNCHANGED <<main, cursor, human, accused>>
        /\ job[w].step = "planned" /\ GoesOn(w) /\ job'[w].try = job[w].try /\ job'[w].step = "asking"
        /\ block'[w].kind = "interrupted" /\ block'[w].from = job[w].from /\ block'[w].to = job[w].to
        /\ \/ NewTalk(w) /\ launches'[w] = 0
           \/ /\ ~NewTalk(w) /\ session'[w].concern = session[w].concern /\ cooling'[w] = cooling[w]
              /\ launches'[w] = IF counts THEN launches[w] + 1 ELSE launches[w]
    <2>1. /\ j \in Jobs /\ j.from = job[w].from /\ j.to = job[w].to /\ j.by = job[w].by /\ j.try = job[w].try
          /\ j.verdict = job[w].verdict /\ j.step = "asking"
      BY <1>0 DEF Jobs, JobSteps
    <2>2. /\ LaunchBlock(w) \in Blocks /\ LaunchBlock(w).kind = "interrupted"
          /\ LaunchBlock(w).from = job[w].from /\ LaunchBlock(w).to = job[w].to
      BY <1>0 DEF LaunchBlock, Blocks, Jobs
    <2>3. t \in Sessions /\ (~NewTalk(w) => t.concern = session[w].concern)
      BY <1>0 DEF Sessions
    <2>4. /\ job' = [job EXCEPT ![w] = j] /\ block' = [block EXCEPT ![w] = LaunchBlock(w)]
          /\ session' = [session EXCEPT ![w] = t]
      BY <1>0 DEF LaunchClient, WorkerTypes, NewTalk
    <2>5. UNCHANGED <<main, cursor, refusals, human, accused>> /\ job[w].step = "planned"
      BY DEF LaunchClient
    <2> DEFINE n == IF NewTalk(w) THEN 0 ELSE IF counts THEN launches[w] + 1 ELSE launches[w]
               c == IF NewTalk(w) THEN FALSE ELSE cooling[w]
    <2>6. /\ launches' = [launches EXCEPT ![w] = n] /\ cooling' = [cooling EXCEPT ![w] = c]
      BY <1>0 DEF LaunchClient, WorkerTypes, NewTalk
    <2>7. /\ launches' \in [Auditors -> 0..2] /\ cooling' \in [Auditors -> BOOLEAN]
          /\ launches'[w] = IF NewTalk(w) THEN 0 ELSE IF counts THEN launches[w] + 1 ELSE launches[w]
          /\ ~NewTalk(w) => cooling'[w] = cooling[w]
          /\ \A q \in Auditors \ {w} : launches'[q] = launches[q] /\ cooling'[q] = cooling[q]
      <3>0. n \in 0..2
        BY <1>0
      <3>1. n \in 0..2 /\ c \in BOOLEAN
        BY <1>0, <3>0, Zenon
      <3>2. ~NewTalk(w) => c = cooling[w]
        OBVIOUS
      <3> HIDE DEF n, c
      <3>3. /\ launches' \in [Auditors -> 0..2] /\ launches'[w] = n
            /\ (\A q \in Auditors \ {w} : launches'[q] = launches[q])
        BY <1>0, <2>6, <3>1 DEF WorkerTypes
      <3>4. /\ cooling' \in [Auditors -> BOOLEAN] /\ cooling'[w] = c
            /\ (\A q \in Auditors \ {w} : cooling'[q] = cooling[q])
        BY <1>0, <2>6, <3>1 DEF WorkerTypes
      <3> QED
        BY <3>2, <3>3, <3>4 DEF n
    <2> HIDE DEF j, t, counts
    <2>9. /\ job' \in [Auditors -> Jobs] /\ block' \in [Auditors -> Blocks] /\ session' \in [Auditors -> Sessions]
          /\ \A q \in Auditors \ {w} : job'[q] = job[q] /\ block'[q] = block[q] /\ session'[q] = session[q]
      BY <1>0, <2>1, <2>2, <2>3, <2>4, Writes
    <2>8. WorkerTypes' /\ \A q \in Auditors \ {w} : Same(q)
      BY <1>0, <2>5, <2>7, <2>9 DEF WorkerTypes, Same
    <2> QED
      BY <1>0, <2>1, <2>2, <2>3, <2>4, <2>5, <2>7, <2>8, Writes DEF GoesOn
  <1>2. SharedTypes' /\ CursorInOrder' /\ cursor <= cursor' /\ main <= main'
    BY <1>0, <1>1, Standing DEF LaunchClient, Administered, AtWork
  <1>3. Spans(w)'
    BY <1>0, <1>1, <1>2 DEF GoesOn, Rested, EndsBlocked, Spans, Journaled, AtWork, CursorInOrder, Jobs, Blocks,
       AtRest
  <1>4. Journaled(w)'
    BY <1>0, <1>1 DEF GoesOn, Rested, EndsBlocked, Journaled, NewTalk, Jobs, Blocks, AtRest
  <1>5. Remembered(w)'
    BY <1>0, <1>1, <1>2 DEF GoesOn, Rested, EndsBlocked, Remembered, Spans, Journaled, PassedWhole, AtWork,
       Judged, NewTalk, Jobs, Blocks, AtRest
  <1>6. PassedWhole(w)'
    BY <1>0, <1>1 DEF GoesOn, Rested, EndsBlocked, PassedWhole, Judged, Whole, AtRest
  <1>7. Rationed(w)'
    BY <1>0, <1>1 DEF GoesOn, Rested, EndsBlocked, NewTalk, Rationed, Jobs, AtRest
  <1> QED
    BY <1>1, <1>2, <1>3, <1>4, <1>5, <1>6, <1>7 DEF Turn

LEMMA ModelTurnKeeps ==
    ASSUME AuditAssumption, AuditInv, NEW w \in Auditors, ModelTurn(w)
    PROVE  Turn(w)
  <1> USE DEF AuditInv, Sound
  <1>0. /\ job[w] \in Jobs /\ block[w] \in Blocks /\ session[w] \in Sessions /\ WorkerTypes /\ SharedTypes
        /\ accused[w] \subseteq 0..LastCommit /\ cursor \in 0..LastCommit /\ main \in 1..LastCommit
        /\ AtRest \in Jobs /\ NoBlock \in Blocks /\ NoSession \in Sessions
        /\ launches[w] \in 0..2 /\ cooling[w] \in BOOLEAN
    BY AuditRecords, AuditTypes DEF WorkerTypes
  <1>1. /\ WorkerTypes' /\ \A q \in Auditors \ {w} : Same(q)
        /\ UNCHANGED <<main, cursor, human, block, cooling, launches>>
        /\ job[w].step = "asking" /\ GoesOn(w) /\ job'[w].try = job[w].try /\ job'[w].step = "said"
        /\ \/ accused'[w] = accused[w] /\ (session[w].concern => session'[w].concern)
           \/ accused'[w] = accused[w] \cup {job[w].from} /\ session'[w].concern
    <2>1. PICK read \in session[w].read..Pages,
               got \in {"pass", "unfinished", "empty", "concern", "turn", "service", "timeout"},
               token \in BOOLEAN, recants \in BOOLEAN :
            /\ recants => got \in {"pass", "timeout"}
            /\ got \in {"turn", "service", "timeout"} => ~token
            /\ IF \/ got \in {"empty", "turn", "service", "timeout"}
                  \/ ~token /\ got \in {"pass", "unfinished"}
                  \/ got \in {"pass", "unfinished"} /\ read < Pages /\ read = session[w].read
                  \/ got = "unfinished" /\ read = Pages
               THEN Faulty ELSE UNCHANGED upsets
            /\ session' = [session EXCEPT ![w] = [session[w] EXCEPT
                 !.native = TRUE, !.read = read,
                 !.concern = session[w].concern \/ got = "concern" \/ recants,
                 !.empty = session[w].empty \/ got = "empty",
                 !.last = IF got \in Finals THEN got ELSE IF recants THEN "concern" ELSE session[w].last,
                 !.token = IF got \in Finals THEN token ELSE session[w].token,
                 !.out = IF session[w].out = "answer" /\ (got \in Finals \/ recants) THEN "stale" ELSE session[w].out]]
            /\ accused' = [accused EXCEPT ![w] =
                             IF got = "concern" \/ recants THEN @ \cup {job[w].from} ELSE @]
            /\ job' = [job EXCEPT ![w].step = "said", ![w].got = got]
      BY DEF ModelTurn
    <2>2. UNCHANGED <<main, cursor, human, block, refusals, cooling, launches>> /\ job[w].step = "asking"
      BY DEF ModelTurn
    <2> DEFINE j == [job[w] EXCEPT !.step = "said", !.got = got]
               concern == session[w].concern \/ got = "concern" \/ recants
               empty == session[w].empty \/ got = "empty"
               last == IF got \in Finals THEN got ELSE IF recants THEN "concern" ELSE session[w].last
               known == IF got \in Finals THEN token ELSE session[w].token
               out == IF session[w].out = "answer" /\ (got \in Finals \/ recants) THEN "stale" ELSE session[w].out
               t == [session[w] EXCEPT !.native = TRUE, !.read = read, !.concern = concern, !.empty = empty,
                       !.last = last, !.token = known, !.out = out]
    <2>3. /\ j \in Jobs /\ j.from = job[w].from /\ j.to = job[w].to /\ j.by = job[w].by /\ j.try = job[w].try
          /\ j.verdict = job[w].verdict /\ j.step = "said"
      BY <1>0 DEF Jobs, JobSteps, Finals
    <2>4. /\ read \in 0..Pages /\ concern \in BOOLEAN /\ empty \in BOOLEAN /\ last \in Finals /\ known \in BOOLEAN
          /\ out \in {"none", "answer", "stale", "service", "turn"}
      BY <1>0 DEF Sessions, Finals, AuditAssumption
    <2>5. t \in Sessions /\ t.concern = concern
      <3> HIDE DEF concern, empty, last, known, out
      <3>1. session[w] \in Sessions
        BY <1>0
      <3> QED
        BY <2>4, <3>1 DEF Sessions
    <2> DEFINE charged == IF got = "concern" \/ recants THEN accused[w] \cup {job[w].from} ELSE accused[w]
    <2>11. accused' = [accused EXCEPT ![w] = charged] /\ charged \in SUBSET (0..LastCommit)
      BY <1>0, <2>1 DEF WorkerTypes, Jobs
    <2>6. /\ accused' \in [Auditors -> SUBSET (0..LastCommit)] /\ \A q \in Auditors \ {w} : accused'[q] = accused[q]
          /\ accused'[w] = IF got = "concern" \/ recants THEN accused[w] \cup {job[w].from} ELSE accused[w]
      <3>1. charged = IF got = "concern" \/ recants THEN accused[w] \cup {job[w].from} ELSE accused[w]
        OBVIOUS
      <3> HIDE DEF charged
      <3> QED
        BY <1>0, <2>11, <3>1 DEF WorkerTypes
    <2>7. job' = [job EXCEPT ![w] = j] /\ session' = [session EXCEPT ![w] = t]
      <3>1. job' = [job EXCEPT ![w] = j]
        BY <1>0, <2>1 DEF WorkerTypes
      <3>2. session' = [session EXCEPT ![w] = t]
        BY <2>1
      <3> QED
        BY <3>1, <3>2
    <2>8. /\ (got = "concern" \/ recants => concern) /\ (session[w].concern => concern)
      OBVIOUS
    <2> HIDE DEF j, t, concern
    <2>9. /\ WorkerTypes' /\ \A q \in Auditors \ {w} : Same(q)
      BY <1>0, <2>2, <2>3, <2>5, <2>6, <2>7, Writes DEF WorkerTypes, Same
    <2>10. job'[w] = j /\ session'[w] = t
      BY <1>0, <2>3, <2>5, <2>7, Writes
    <2> QED
      BY <2>2, <2>3, <2>5, <2>6, <2>8, <2>9, <2>10 DEF GoesOn
  <1>2. SharedTypes' /\ CursorInOrder' /\ cursor <= cursor' /\ main <= main'
    BY <1>0, <1>1, Standing DEF ModelTurn, Administered, AtWork
  <1>3. Spans(w)'
    BY <1>0, <1>1, <1>2 DEF GoesOn, Rested, EndsBlocked, Spans, Journaled, AtWork, CursorInOrder, Jobs, Blocks,
       AtRest
  <1>4. Journaled(w)'
    BY <1>0, <1>1 DEF GoesOn, Rested, EndsBlocked, Journaled, NewTalk, Jobs, Blocks, AtRest
  <1>5. Remembered(w)'
    BY <1>0, <1>1, <1>2 DEF GoesOn, Rested, EndsBlocked, Remembered, Spans, Journaled, PassedWhole, AtWork,
       Judged, NewTalk, Jobs, Blocks, AtRest
  <1>6. PassedWhole(w)'
    BY <1>0, <1>1 DEF GoesOn, Rested, EndsBlocked, PassedWhole, Judged, Whole, AtRest
  <1>7. Rationed(w)'
    BY <1>0, <1>1 DEF GoesOn, Rested, EndsBlocked, NewTalk, Rationed, Jobs, AtRest
  <1> QED
    BY <1>1, <1>2, <1>3, <1>4, <1>5, <1>6, <1>7 DEF Turn

LEMMA ClientExitsKeeps ==
    ASSUME AuditAssumption, AuditInv, NEW w \in Auditors, ClientExits(w)
    PROVE  Turn(w)
  <1> USE DEF AuditInv, Sound
  <1>0. /\ job[w] \in Jobs /\ block[w] \in Blocks /\ session[w] \in Sessions /\ WorkerTypes /\ SharedTypes
        /\ accused[w] \subseteq 0..LastCommit /\ cursor \in 0..LastCommit /\ main \in 1..LastCommit
        /\ AtRest \in Jobs /\ NoBlock \in Blocks /\ NoSession \in Sessions
        /\ launches[w] \in 0..2 /\ cooling[w] \in BOOLEAN
    BY AuditRecords, AuditTypes DEF WorkerTypes
  <1> DEFINE j == [job[w] EXCEPT !.step = "back"]
             out == IF job[w].got = "timeout" THEN "none" ELSE IF job[w].got \in Finals THEN "answer" ELSE job[w].got
             t == [session[w] EXCEPT !.out = out]
  <1>1. /\ WorkerTypes' /\ \A q \in Auditors \ {w} : Same(q)
        /\ UNCHANGED <<main, cursor, human, cooling, accused, launches>>
        /\ job[w].step = "said" /\ session'[w].concern = session[w].concern
        /\ \/ block' = block /\ GoesOn(w) /\ job'[w].try = job[w].try /\ job'[w].step = "back"
           \/ EndsBlocked(w)
    <2>1. /\ j \in Jobs /\ j.from = job[w].from /\ j.to = job[w].to /\ j.by = job[w].by /\ j.try = job[w].try
          /\ j.verdict = job[w].verdict /\ j.step = "back"
      BY <1>0 DEF Jobs, JobSteps
    <2>2. out \in {"none", "answer", "service", "turn"}
      BY <1>0 DEF Jobs
    <2>3. t \in Sessions /\ t.concern = session[w].concern
      <3> HIDE DEF out
      <3> QED
        BY <1>0, <2>2 DEF Sessions
    <2>4. /\ UNCHANGED <<main, cursor, refusals, human, cooling, accused, launches>> /\ job[w].step = "said"
          /\ session' = [session EXCEPT ![w] = t]
          /\ \/ \E kind \in {"timeout", "failed"} : Fails(w, kind)
             \/ job' = [job EXCEPT ![w] = j] /\ UNCHANGED block
      BY <1>0 DEF ClientExits, WorkerTypes
    <2>5. /\ job' \in [Auditors -> Jobs] /\ block' \in [Auditors -> Blocks]
          /\ \A q \in Auditors \ {w} : job'[q] = job[q] /\ block'[q] = block[q]
          /\ \/ block' = block /\ job'[w] = j
             \/ EndsBlocked(w)
      <3> HIDE DEF j, t
      <3> QED
        BY <1>0, <2>1, <2>4, Failing, Writes DEF WorkerTypes
    <2> HIDE DEF j, t
    <2> QED
      BY <1>0, <2>1, <2>3, <2>4, <2>5, Writes DEF WorkerTypes, Same, GoesOn
  <1>2. SharedTypes' /\ CursorInOrder' /\ cursor <= cursor' /\ main <= main'
    BY <1>0, <1>1, Standing DEF ClientExits, Administered, AtWork
  <1>3. Spans(w)'
    BY <1>0, <1>1, <1>2 DEF GoesOn, Rested, EndsBlocked, Spans, Journaled, AtWork, CursorInOrder, Jobs, Blocks,
       AtRest
  <1>4. Journaled(w)'
    BY <1>0, <1>1 DEF GoesOn, Rested, EndsBlocked, Journaled, NewTalk, Jobs, Blocks, AtRest
  <1>5. Remembered(w)'
    BY <1>0, <1>1, <1>2 DEF GoesOn, Rested, EndsBlocked, Remembered, Spans, Journaled, PassedWhole, AtWork,
       Judged, NewTalk, Jobs, Blocks, AtRest
  <1>6. PassedWhole(w)'
    BY <1>0, <1>1 DEF GoesOn, Rested, EndsBlocked, PassedWhole, Judged, Whole, AtRest
  <1>7. Rationed(w)'
    BY <1>0, <1>1 DEF GoesOn, Rested, EndsBlocked, NewTalk, Rationed, Jobs, AtRest
  <1> QED
    BY <1>1, <1>2, <1>3, <1>4, <1>5, <1>6, <1>7 DEF Turn

LEMMA JudgeKeeps ==
    ASSUME AuditAssumption, AuditInv, NEW w \in Auditors, Judge(w)
    PROVE  Turn(w)
  <1> USE DEF AuditInv, Sound
  <1>0. /\ job[w] \in Jobs /\ block[w] \in Blocks /\ session[w] \in Sessions /\ WorkerTypes /\ SharedTypes
        /\ accused[w] \subseteq 0..LastCommit /\ cursor \in 0..LastCommit /\ main \in 1..LastCommit
        /\ AtRest \in Jobs /\ NoBlock \in Blocks /\ NoSession \in Sessions
        /\ launches[w] \in 0..2 /\ cooling[w] \in BOOLEAN
    BY AuditRecords, AuditTypes DEF WorkerTypes
  <1> DEFINE next == [job[w] EXCEPT !.step = "planned", !.try = job[w].try + 1]
             over == [job[w] EXCEPT !.step = "judged", !.verdict = VerdictOf(session[w])]
  <1>1. /\ WorkerTypes' /\ \A q \in Auditors \ {w} : Same(q)
        /\ UNCHANGED <<main, cursor, session, human, cooling, accused, launches>>
        /\ job[w].step = "back"
        /\ \/ block' = block /\ GoesOn(w) /\ job'[w].try = job[w].try + 1 /\ job'[w].step = "planned"
           \/ /\ block' = block /\ job'[w].from = job[w].from /\ job'[w].to = job[w].to /\ job'[w].step = "judged"
              /\ job'[w].verdict = "pass" => Whole(session[w]) /\ ~session[w].concern
           \/ EndsBlocked(w)
    <2>0. job[w].try < 3 => job[w].try + 1 \in 1..3
      BY <1>0 DEF Jobs
    <2>1. /\ job[w].try < 3 => next \in Jobs
          /\ next.from = job[w].from /\ next.to = job[w].to /\ next.by = job[w].by /\ next.try = job[w].try + 1
          /\ next.verdict = job[w].verdict /\ next.step = "planned"
      BY <1>0, <2>0 DEF Jobs, JobSteps
    <2>2. /\ VerdictOf(session[w]) \in {"none", "pass", "concern"}
          /\ VerdictOf(session[w]) = "pass" => Whole(session[w]) /\ ~session[w].concern
      BY <1>0 DEF VerdictOf, CompletedPass, Whole, Sessions
    <2>3. /\ over \in Jobs /\ over.from = job[w].from /\ over.to = job[w].to /\ over.step = "judged"
          /\ over.verdict = VerdictOf(session[w])
      BY <1>0, <2>2 DEF Jobs, JobSteps
    <2>4. UNCHANGED <<main, cursor, session, refusals, human, cooling, accused, launches>> /\ job[w].step = "back"
      BY DEF Judge
    <2>5. \/ job[w].try < 3 /\ job' = [job EXCEPT ![w] = next] /\ UNCHANGED block
          \/ Fails(w, "failed")
          \/ job' = [job EXCEPT ![w] = over] /\ UNCHANGED block
      BY <1>0 DEF Judge, AsksAgain, WorkerTypes
    <2> HIDE DEF next, over
    <2>6. /\ job' \in [Auditors -> Jobs] /\ block' \in [Auditors -> Blocks]
          /\ \A q \in Auditors \ {w} : job'[q] = job[q] /\ block'[q] = block[q]
          /\ \/ block' = block /\ job'[w] = next
             \/ block' = block /\ job'[w] = over
             \/ EndsBlocked(w)
      BY <1>0, <2>1, <2>3, <2>5, Failing, Writes DEF WorkerTypes
    <2> QED
      BY <1>0, <2>1, <2>2, <2>3, <2>4, <2>6 DEF WorkerTypes, Same, GoesOn
  <1>2. SharedTypes' /\ CursorInOrder' /\ cursor <= cursor' /\ main <= main'
    BY <1>0, <1>1, Standing DEF Judge, Administered, AtWork
  <1>3. Spans(w)'
    BY <1>0, <1>1, <1>2 DEF GoesOn, Rested, EndsBlocked, Spans, Journaled, AtWork, CursorInOrder, Jobs, Blocks,
       AtRest
  <1>4. Journaled(w)'
    BY <1>0, <1>1 DEF GoesOn, Rested, EndsBlocked, Journaled, NewTalk, Jobs, Blocks, AtRest
  <1>5. Remembered(w)'
    BY <1>0, <1>1, <1>2 DEF GoesOn, Rested, EndsBlocked, Remembered, Spans, Journaled, PassedWhole, AtWork,
       Judged, NewTalk, Jobs, Blocks, AtRest
  <1>6. PassedWhole(w)'
    BY <1>0, <1>1 DEF GoesOn, Rested, EndsBlocked, PassedWhole, Judged, Whole, AtRest
  <1>7. Rationed(w)'
    BY <1>0, <1>1 DEF GoesOn, Rested, EndsBlocked, NewTalk, Rationed, Jobs, AtRest
  <1> QED
    BY <1>1, <1>2, <1>3, <1>4, <1>5, <1>6, <1>7 DEF Turn

LEMMA RecordVerdictKeeps ==
    ASSUME AuditAssumption, AuditInv, NEW w \in Auditors, RecordVerdict(w)
    PROVE  Turn(w)
  <1> USE DEF AuditInv, Sound
  <1>0. /\ job[w] \in Jobs /\ block[w] \in Blocks /\ session[w] \in Sessions /\ WorkerTypes /\ SharedTypes
        /\ accused[w] \subseteq 0..LastCommit /\ cursor \in 0..LastCommit /\ main \in 1..LastCommit
        /\ AtRest \in Jobs /\ NoBlock \in Blocks /\ NoSession \in Sessions
        /\ launches[w] \in 0..2 /\ cooling[w] \in BOOLEAN
    BY AuditRecords, AuditTypes DEF WorkerTypes
  <1> DEFINE j == [job[w] EXCEPT !.step = "recorded"]
  <1>1. /\ WorkerTypes' /\ \A q \in Auditors \ {w} : Same(q)
        /\ UNCHANGED <<main, cursor, block, session, human, cooling, accused, launches>>
        /\ job[w].step = "judged" /\ GoesOn(w) /\ job'[w].try = job[w].try /\ job'[w].step = "recorded"
    <2>1. /\ j \in Jobs /\ j.from = job[w].from /\ j.to = job[w].to /\ j.by = job[w].by /\ j.try = job[w].try
          /\ j.verdict = job[w].verdict /\ j.step = "recorded"
      BY <1>0 DEF Jobs, JobSteps
    <2>2. /\ UNCHANGED <<main, cursor, block, session, human, cooling, accused, launches>> /\ job[w].step = "judged"
          /\ job' = [job EXCEPT ![w] = j]
          /\ \/ UNCHANGED refusals
             \/ refusals' = [refusals EXCEPT ![w] = refusals[w] \cup {<<job[w].from, job[w].to>>}]
      BY <1>0 DEF RecordVerdict, WorkerTypes
    <2>3. <<job[w].from, job[w].to>> \in (0..LastCommit) \X (1..LastCommit)
      BY <1>0, <2>2 DEF Spans, AtWork, Jobs
    <2>4. refusals' \in [Auditors -> SUBSET ((0..LastCommit) \X (1..LastCommit))]
      <3> DEFINE span == <<job[w].from, job[w].to>>
                 All == (0..LastCommit) \X (1..LastCommit)
      <3>1. span \in All /\ refusals \in [Auditors -> SUBSET All]
        BY <1>0, <2>3 DEF WorkerTypes
      <3>2. UNCHANGED refusals \/ refusals' = [refusals EXCEPT ![w] = refusals[w] \cup {span}]
        BY <2>2
      <3> HIDE DEF span, All
      <3>3. refusals' \in [Auditors -> SUBSET All]
        BY <3>1, <3>2
      <3> QED
        BY <3>3 DEF All
    <2> HIDE DEF j
    <2> QED
      BY <1>0, <2>1, <2>2, <2>4, Writes DEF WorkerTypes, Same, GoesOn
  <1>2. SharedTypes' /\ CursorInOrder' /\ cursor <= cursor' /\ main <= main'
    BY <1>0, <1>1, Standing DEF RecordVerdict, Administered, AtWork
  <1>3. Spans(w)'
    BY <1>0, <1>1, <1>2 DEF GoesOn, Rested, EndsBlocked, Spans, Journaled, AtWork, CursorInOrder, Jobs, Blocks,
       AtRest
  <1>4. Journaled(w)'
    BY <1>0, <1>1 DEF GoesOn, Rested, EndsBlocked, Journaled, NewTalk, Jobs, Blocks, AtRest
  <1>5. Remembered(w)'
    BY <1>0, <1>1, <1>2 DEF GoesOn, Rested, EndsBlocked, Remembered, Spans, Journaled, PassedWhole, AtWork,
       Judged, NewTalk, Jobs, Blocks, AtRest
  <1>6. PassedWhole(w)'
    BY <1>0, <1>1 DEF GoesOn, Rested, EndsBlocked, PassedWhole, Judged, Whole, AtRest
  <1>7. Rationed(w)'
    BY <1>0, <1>1 DEF GoesOn, Rested, EndsBlocked, NewTalk, Rationed, Jobs, AtRest
  <1> QED
    BY <1>1, <1>2, <1>3, <1>4, <1>5, <1>6, <1>7 DEF Turn

LEMMA BlockOnConcernKeeps ==
    ASSUME AuditAssumption, AuditInv, NEW w \in Auditors, BlockOnConcern(w)
    PROVE  Turn(w)
  <1> USE DEF AuditInv, Sound
  <1>0. /\ job[w] \in Jobs /\ block[w] \in Blocks /\ session[w] \in Sessions /\ WorkerTypes /\ SharedTypes
        /\ accused[w] \subseteq 0..LastCommit /\ cursor \in 0..LastCommit /\ main \in 1..LastCommit
        /\ AtRest \in Jobs /\ NoBlock \in Blocks /\ NoSession \in Sessions
        /\ launches[w] \in 0..2 /\ cooling[w] \in BOOLEAN
    BY AuditRecords, AuditTypes DEF WorkerTypes
  <1>1. /\ WorkerTypes' /\ \A q \in Auditors \ {w} : Same(q)
        /\ UNCHANGED <<main, cursor, session, human, cooling, accused, launches>>
        /\ job[w].step = "recorded" /\ EndsBlocked(w)
    BY <1>0, Failing DEF BlockOnConcern, WorkerTypes, Same
  <1>2. SharedTypes' /\ CursorInOrder' /\ cursor <= cursor' /\ main <= main'
    BY <1>0, <1>1, Standing DEF BlockOnConcern, Administered, AtWork
  <1>3. Spans(w)'
    BY <1>0, <1>1, <1>2 DEF GoesOn, Rested, EndsBlocked, Spans, Journaled, AtWork, CursorInOrder, Jobs, Blocks,
       AtRest
  <1>4. Journaled(w)'
    BY <1>0, <1>1 DEF GoesOn, Rested, EndsBlocked, Journaled, NewTalk, Jobs, Blocks, AtRest
  <1>5. Remembered(w)'
    BY <1>0, <1>1, <1>2 DEF GoesOn, Rested, EndsBlocked, Remembered, Spans, Journaled, PassedWhole, AtWork,
       Judged, NewTalk, Jobs, Blocks, AtRest
  <1>6. PassedWhole(w)'
    BY <1>0, <1>1 DEF GoesOn, Rested, EndsBlocked, PassedWhole, Judged, Whole, AtRest
  <1>7. Rationed(w)'
    BY <1>0, <1>1 DEF GoesOn, Rested, EndsBlocked, NewTalk, Rationed, Jobs, AtRest
  <1> QED
    BY <1>1, <1>2, <1>3, <1>4, <1>5, <1>6, <1>7 DEF Turn

LEMMA CheckCursorKeeps ==
    ASSUME AuditAssumption, AuditInv, NEW w \in Auditors, CheckCursor(w)
    PROVE  Turn(w)
  <1> USE DEF AuditInv, Sound
  <1>0. /\ job[w] \in Jobs /\ block[w] \in Blocks /\ session[w] \in Sessions /\ WorkerTypes /\ SharedTypes
        /\ accused[w] \subseteq 0..LastCommit /\ cursor \in 0..LastCommit /\ main \in 1..LastCommit
        /\ AtRest \in Jobs /\ NoBlock \in Blocks /\ NoSession \in Sessions
        /\ launches[w] \in 0..2 /\ cooling[w] \in BOOLEAN
    BY AuditRecords, AuditTypes DEF WorkerTypes
  <1> DEFINE j == [job[w] EXCEPT !.step = "checked"]
  <1>1. /\ WorkerTypes' /\ \A q \in Auditors \ {w} : Same(q)
        /\ UNCHANGED <<main, cursor, session, human, cooling, accused, launches>>
        /\ job[w].step = "recorded" /\ job[w].verdict = "pass"
        /\ \/ block' = block /\ GoesOn(w) /\ job'[w].try = job[w].try /\ job'[w].step = "checked"
           \/ cursor # job[w].from /\ (EndsBlocked(w) \/ Rested(w))
    <2>1. /\ j \in Jobs /\ j.from = job[w].from /\ j.to = job[w].to /\ j.by = job[w].by /\ j.try = job[w].try
          /\ j.verdict = job[w].verdict /\ j.step = "checked"
      BY <1>0 DEF Jobs, JobSteps
    <2>2. /\ UNCHANGED <<main, cursor, session, refusals, human, cooling, accused, launches>>
          /\ job[w].step = "recorded" /\ job[w].verdict = "pass"
          /\ \/ job' = [job EXCEPT ![w] = j] /\ UNCHANGED block
             \/ cursor # job[w].from /\ NoProgress(w)
      BY <1>0 DEF CheckCursor, WorkerTypes
    <2> HIDE DEF j
    <2>3. CASE job' = [job EXCEPT ![w] = j] /\ UNCHANGED block
      BY <1>0, <2>1, <2>2, <2>3, Writes DEF WorkerTypes, Same, GoesOn
    <2>4. CASE cursor # job[w].from /\ NoProgress(w)
      BY <1>0, <2>2, <2>4, NoProgressing DEF WorkerTypes, Same
    <2> QED
      BY <2>2, <2>3, <2>4
  <1>2. SharedTypes' /\ CursorInOrder' /\ cursor <= cursor' /\ main <= main'
    BY <1>0, <1>1, Standing DEF CheckCursor, Administered, AtWork
  <1>3. Spans(w)'
    BY <1>0, <1>1, <1>2 DEF GoesOn, Rested, EndsBlocked, Spans, Journaled, AtWork, CursorInOrder, Jobs, Blocks,
       AtRest
  <1>4. Journaled(w)'
    BY <1>0, <1>1 DEF GoesOn, Rested, EndsBlocked, Journaled, NewTalk, Jobs, Blocks, AtRest
  <1>5. Remembered(w)'
    BY <1>0, <1>1, <1>2 DEF GoesOn, Rested, EndsBlocked, Remembered, Spans, Journaled, PassedWhole, AtWork,
       Judged, NewTalk, Jobs, Blocks, AtRest
  <1>6. PassedWhole(w)'
    BY <1>0, <1>1 DEF GoesOn, Rested, EndsBlocked, PassedWhole, Judged, Whole, AtRest
  <1>7. Rationed(w)'
    BY <1>0, <1>1 DEF GoesOn, Rested, EndsBlocked, NewTalk, Rationed, Jobs, AtRest
  <1> QED
    BY <1>1, <1>2, <1>3, <1>4, <1>5, <1>6, <1>7 DEF Turn

LEMMA PatchCursorKeeps ==
    ASSUME AuditAssumption, AuditInv, NEW w \in Auditors, PatchCursor(w)
    PROVE  Turn(w)
  <1> USE DEF AuditInv, Sound
  <1>0. /\ job[w] \in Jobs /\ block[w] \in Blocks /\ session[w] \in Sessions /\ WorkerTypes /\ SharedTypes
        /\ accused[w] \subseteq 0..LastCommit /\ cursor \in 0..LastCommit /\ main \in 1..LastCommit
        /\ AtRest \in Jobs /\ NoBlock \in Blocks /\ NoSession \in Sessions
        /\ launches[w] \in 0..2 /\ cooling[w] \in BOOLEAN
    BY AuditRecords, AuditTypes DEF WorkerTypes
  <1> DEFINE j == [job[w] EXCEPT !.step = "patched"]
  <1>1. /\ WorkerTypes' /\ \A q \in Auditors \ {w} : Same(q)
        /\ UNCHANGED <<main, session, human, cooling, accused, launches>>
        /\ job[w].step = "checked" /\ (cursor' = cursor \/ (cursor <= job[w].to /\ cursor' = job[w].to))
        /\ \/ block' = block /\ GoesOn(w) /\ job'[w].try = job[w].try /\ job'[w].step = "patched"
           \/ EndsBlocked(w) \/ Rested(w)
    <2>1. /\ j \in Jobs /\ j.from = job[w].from /\ j.to = job[w].to /\ j.by = job[w].by /\ j.try = job[w].try
          /\ j.verdict = job[w].verdict /\ j.step = "patched"
      BY <1>0 DEF Jobs, JobSteps
    <2>2. /\ UNCHANGED <<main, session, refusals, human, cooling, accused, launches>> /\ job[w].step = "checked"
          /\ (cursor' = cursor \/ (cursor <= job[w].to /\ cursor' = job[w].to))
          /\ \/ job' = [job EXCEPT ![w] = j] /\ UNCHANGED block
             \/ NoProgress(w)
      BY <1>0 DEF PatchCursor, WorkerTypes
    <2> HIDE DEF j
    <2>3. CASE job' = [job EXCEPT ![w] = j] /\ UNCHANGED block
      BY <1>0, <2>1, <2>2, <2>3, Writes DEF WorkerTypes, Same, GoesOn
    <2>4. CASE NoProgress(w)
      BY <1>0, <2>2, <2>4, NoProgressing DEF WorkerTypes, Same
    <2> QED
      BY <2>2, <2>3, <2>4
  <1>2. SharedTypes' /\ CursorInOrder' /\ cursor <= cursor' /\ main <= main'
    BY <1>0, <1>1, Standing DEF PatchCursor, Administered, AtWork
  <1>3. Spans(w)'
    BY <1>0, <1>1, <1>2 DEF GoesOn, Rested, EndsBlocked, Spans, Journaled, AtWork, CursorInOrder, Jobs, Blocks,
       AtRest
  <1>4. Journaled(w)'
    BY <1>0, <1>1 DEF GoesOn, Rested, EndsBlocked, Journaled, NewTalk, Jobs, Blocks, AtRest
  <1>5. Remembered(w)'
    BY <1>0, <1>1, <1>2 DEF GoesOn, Rested, EndsBlocked, Remembered, Spans, Journaled, PassedWhole, AtWork,
       Judged, NewTalk, Jobs, Blocks, AtRest
  <1>6. PassedWhole(w)'
    BY <1>0, <1>1 DEF GoesOn, Rested, EndsBlocked, PassedWhole, Judged, Whole, AtRest
  <1>7. Rationed(w)'
    BY <1>0, <1>1 DEF GoesOn, Rested, EndsBlocked, NewTalk, Rationed, Jobs, AtRest
  <1> QED
    BY <1>1, <1>2, <1>3, <1>4, <1>5, <1>6, <1>7 DEF Turn

LEMMA ConfirmCursorKeeps ==
    ASSUME AuditAssumption, AuditInv, NEW w \in Auditors, ConfirmCursor(w)
    PROVE  Turn(w)
  <1> USE DEF AuditInv, Sound
  <1>0. /\ job[w] \in Jobs /\ block[w] \in Blocks /\ session[w] \in Sessions /\ WorkerTypes /\ SharedTypes
        /\ accused[w] \subseteq 0..LastCommit /\ cursor \in 0..LastCommit /\ main \in 1..LastCommit
        /\ AtRest \in Jobs /\ NoBlock \in Blocks /\ NoSession \in Sessions
        /\ launches[w] \in 0..2 /\ cooling[w] \in BOOLEAN
    BY AuditRecords, AuditTypes DEF WorkerTypes
  <1>1. /\ WorkerTypes' /\ \A q \in Auditors \ {w} : Same(q)
        /\ UNCHANGED <<main, cursor, session, human, cooling, accused, launches>>
        /\ job[w].step = "patched"
        /\ \/ cursor = job[w].to /\ block'[w].kind = "none" /\ job'[w] = AtRest
           \/ EndsBlocked(w) \/ Rested(w)
    <2>1. /\ UNCHANGED <<main, cursor, session, refusals, human, cooling, accused, launches>> /\ job[w].step = "patched"
          /\ \/ /\ cursor = job[w].to /\ block' = [block EXCEPT ![w] = NoBlock]
                /\ job' = [job EXCEPT ![w] = AtRest]
             \/ NoProgress(w)
      BY <1>0 DEF ConfirmCursor, WorkerTypes
    <2>2. CASE /\ cursor = job[w].to /\ block' = [block EXCEPT ![w] = NoBlock]
               /\ job' = [job EXCEPT ![w] = AtRest]
      BY <1>0, <2>1, <2>2, Writes DEF WorkerTypes, Same, NoBlock
    <2>3. CASE NoProgress(w)
      BY <1>0, <2>1, <2>3, NoProgressing DEF WorkerTypes, Same
    <2> QED
      BY <2>1, <2>2, <2>3
  <1>2. SharedTypes' /\ CursorInOrder' /\ cursor <= cursor' /\ main <= main'
    BY <1>0, <1>1, Standing DEF ConfirmCursor, Administered, AtWork
  <1>3. Spans(w)'
    BY <1>0, <1>1, <1>2 DEF GoesOn, Rested, EndsBlocked, Spans, Journaled, AtWork, CursorInOrder, Jobs, Blocks,
       AtRest
  <1>4. Journaled(w)'
    BY <1>0, <1>1 DEF GoesOn, Rested, EndsBlocked, Journaled, NewTalk, Jobs, Blocks, AtRest
  <1>5. Remembered(w)'
    BY <1>0, <1>1, <1>2 DEF GoesOn, Rested, EndsBlocked, Remembered, Spans, Journaled, PassedWhole, AtWork,
       Judged, NewTalk, Jobs, Blocks, AtRest
  <1>6. PassedWhole(w)'
    BY <1>0, <1>1 DEF GoesOn, Rested, EndsBlocked, PassedWhole, Judged, Whole, AtRest
  <1>7. Rationed(w)'
    BY <1>0, <1>1 DEF GoesOn, Rested, EndsBlocked, NewTalk, Rationed, Jobs, AtRest
  <1> QED
    BY <1>1, <1>2, <1>3, <1>4, <1>5, <1>6, <1>7 DEF Turn

LEMMA AuditorKilledKeeps ==
    ASSUME AuditAssumption, AuditInv, NEW w \in Auditors, AuditorKilled(w)
    PROVE  Turn(w)
  <1> USE DEF AuditInv, Sound
  <1>0. /\ job[w] \in Jobs /\ block[w] \in Blocks /\ session[w] \in Sessions /\ WorkerTypes /\ SharedTypes
        /\ accused[w] \subseteq 0..LastCommit /\ cursor \in 0..LastCommit /\ main \in 1..LastCommit
        /\ AtRest \in Jobs /\ NoBlock \in Blocks /\ NoSession \in Sessions
        /\ launches[w] \in 0..2 /\ cooling[w] \in BOOLEAN
    BY AuditRecords, AuditTypes DEF WorkerTypes
  <1>1. /\ WorkerTypes' /\ \A q \in Auditors \ {w} : Same(q)
        /\ UNCHANGED <<main, cursor, session, human, cooling, accused, launches>> /\ Rested(w)
    BY <1>0, Writes DEF AuditorKilled, WorkerTypes, Same, Rested
  <1>2. SharedTypes' /\ CursorInOrder' /\ cursor <= cursor' /\ main <= main'
    BY <1>0, <1>1, Standing DEF AuditorKilled, Administered, AtWork
  <1>3. Spans(w)'
    BY <1>0, <1>1, <1>2 DEF GoesOn, Rested, EndsBlocked, Spans, Journaled, AtWork, CursorInOrder, Jobs, Blocks,
       AtRest
  <1>4. Journaled(w)'
    BY <1>0, <1>1 DEF GoesOn, Rested, EndsBlocked, Journaled, NewTalk, Jobs, Blocks, AtRest
  <1>5. Remembered(w)'
    BY <1>0, <1>1, <1>2 DEF GoesOn, Rested, EndsBlocked, Remembered, Spans, Journaled, PassedWhole, AtWork,
       Judged, NewTalk, Jobs, Blocks, AtRest
  <1>6. PassedWhole(w)'
    BY <1>0, <1>1 DEF GoesOn, Rested, EndsBlocked, PassedWhole, Judged, Whole, AtRest
  <1>7. Rationed(w)'
    BY <1>0, <1>1 DEF GoesOn, Rested, EndsBlocked, NewTalk, Rationed, Jobs, AtRest
  <1> QED
    BY <1>1, <1>2, <1>3, <1>4, <1>5, <1>6, <1>7 DEF Turn

LEMMA CooldownEndsKeeps ==
    ASSUME AuditAssumption, AuditInv, NEW w \in Auditors, CooldownEnds(w)
    PROVE  Turn(w)
  <1> USE DEF AuditInv, Sound
  <1>0. /\ job[w] \in Jobs /\ block[w] \in Blocks /\ session[w] \in Sessions /\ WorkerTypes /\ SharedTypes
        /\ accused[w] \subseteq 0..LastCommit /\ cursor \in 0..LastCommit /\ main \in 1..LastCommit
        /\ AtRest \in Jobs /\ NoBlock \in Blocks /\ NoSession \in Sessions
        /\ launches[w] \in 0..2 /\ cooling[w] \in BOOLEAN
    BY AuditRecords, AuditTypes DEF WorkerTypes
  <1>1. /\ WorkerTypes' /\ \A q \in Auditors \ {w} : Same(q)
        /\ UNCHANGED <<main, cursor, session, human, accused, block, job>>
        /\ job[w].step = "idle" /\ launches'[w] = 0
    BY <1>0 DEF CooldownEnds, WorkerTypes, Same
  <1>2. SharedTypes' /\ CursorInOrder' /\ cursor <= cursor' /\ main <= main'
    BY <1>0, <1>1, Standing DEF CooldownEnds, Administered, AtWork
  <1>3. Spans(w)'
    BY <1>0, <1>1, <1>2 DEF GoesOn, Rested, EndsBlocked, Spans, Journaled, AtWork, CursorInOrder, Jobs, Blocks,
       AtRest
  <1>4. Journaled(w)'
    BY <1>0, <1>1 DEF GoesOn, Rested, EndsBlocked, Journaled, NewTalk, Jobs, Blocks, AtRest
  <1>5. Remembered(w)'
    BY <1>0, <1>1, <1>2 DEF GoesOn, Rested, EndsBlocked, Remembered, Spans, Journaled, PassedWhole, AtWork,
       Judged, NewTalk, Jobs, Blocks, AtRest
  <1>6. PassedWhole(w)'
    BY <1>0, <1>1 DEF GoesOn, Rested, EndsBlocked, PassedWhole, Judged, Whole, AtRest
  <1>7. Rationed(w)'
    BY <1>0, <1>1 DEF GoesOn, Rested, EndsBlocked, NewTalk, Rationed, Jobs, AtRest
  <1> QED
    BY <1>1, <1>2, <1>3, <1>4, <1>5, <1>6, <1>7 DEF Turn

LEMMA AdminResumesKeeps ==
    ASSUME AuditAssumption, AuditInv, NEW w \in Auditors, AdminResumes(w)
    PROVE  Turn(w)
  <1> USE DEF AuditInv, Sound
  <1>0. /\ job[w] \in Jobs /\ block[w] \in Blocks /\ session[w] \in Sessions /\ WorkerTypes /\ SharedTypes
        /\ accused[w] \subseteq 0..LastCommit /\ cursor \in 0..LastCommit /\ main \in 1..LastCommit
        /\ AtRest \in Jobs /\ NoBlock \in Blocks /\ NoSession \in Sessions
        /\ launches[w] \in 0..2 /\ cooling[w] \in BOOLEAN
    BY AuditRecords, AuditTypes DEF WorkerTypes
  <1> DEFINE j == [AtRest EXCEPT !.step = "planned", !.from = block[w].from, !.to = block[w].to, !.by = "admin"]
  <1>1. /\ WorkerTypes' /\ \A q \in Auditors \ {w} : Same(q)
        /\ UNCHANGED <<main, cursor, block, session, human, cooling, accused, launches>>
        /\ job[w].step = "idle" /\ block[w].kind = "failed" /\ block[w].from = cursor
        /\ job'[w].from = block[w].from /\ job'[w].to = block[w].to /\ job'[w].try = 1
        /\ job'[w].step = "planned" /\ job'[w].by = "admin"
    <2>1. /\ j \in Jobs /\ j.from = block[w].from /\ j.to = block[w].to /\ j.try = 1
          /\ j.step = "planned" /\ j.by = "admin"
      BY <1>0 DEF AtRest, Jobs, JobSteps, Blocks
    <2>2. /\ UNCHANGED <<main, cursor, block, session, refusals, human, cooling, accused, launches>>
          /\ job[w].step = "idle" /\ block[w].kind = "failed" /\ block[w].from = cursor
          /\ job' = [job EXCEPT ![w] = j]
      BY DEF AdminResumes, Blocked
    <2> HIDE DEF j
    <2> QED
      BY <1>0, <2>1, <2>2, Writes DEF WorkerTypes, Same
  <1>2. SharedTypes' /\ CursorInOrder' /\ cursor <= cursor' /\ main <= main'
    BY <1>0, <1>1, Standing DEF AdminResumes, Administered, AtWork
  <1>3. Spans(w)'
    BY <1>0, <1>1, <1>2 DEF GoesOn, Rested, EndsBlocked, Spans, Journaled, AtWork, CursorInOrder, Jobs, Blocks,
       AtRest
  <1>4. Journaled(w)'
    BY <1>0, <1>1 DEF GoesOn, Rested, EndsBlocked, Journaled, NewTalk, Jobs, Blocks, AtRest
  <1>5. Remembered(w)'
    BY <1>0, <1>1, <1>2 DEF GoesOn, Rested, EndsBlocked, Remembered, Spans, Journaled, PassedWhole, AtWork,
       Judged, NewTalk, Jobs, Blocks, AtRest
  <1>6. PassedWhole(w)'
    BY <1>0, <1>1 DEF GoesOn, Rested, EndsBlocked, PassedWhole, Judged, Whole, AtRest
  <1>7. Rationed(w)'
    BY <1>0, <1>1 DEF GoesOn, Rested, EndsBlocked, NewTalk, Rationed, Jobs, AtRest
  <1> QED
    BY <1>1, <1>2, <1>3, <1>4, <1>5, <1>6, <1>7 DEF Turn

-----------------------------------------------------------------------------
(* The others: a human, and the authors of commits. *)

LEMMA PassingOthers ==
    ASSUME AuditAssumption, AuditInv, AttestBegins \/ AttestAdvances \/ CommitLands \/ UNCHANGED avars
    PROVE  AuditInv'
  <1>0. /\ WorkerTypes /\ SharedTypes /\ CursorInOrder
        /\ UNCHANGED <<block, session, refusals, cooling, job, upsets, accused, launches>>
    BY AuditTypes DEF AuditInv, AttestBegins, AttestAdvances, CommitLands, avars
  <1>1. SharedTypes' /\ CursorInOrder' /\ cursor <= cursor' /\ main <= main'
    <2>1. CASE AttestBegins
      <3>1. PICK t \in (cursor + 1)..main : human' = [step |-> "attesting", from |-> cursor, to |-> t]
        BY <2>1 DEF AttestBegins
      <3> QED
        BY <1>0, <2>1, <3>1 DEF AttestBegins, SharedTypes, CursorInOrder, AuditAssumption
    <2>2. CASE AttestAdvances
      BY <1>0, <2>2 DEF AttestAdvances, SharedTypes, CursorInOrder
    <2>3. CASE CommitLands
      BY <1>0, <2>3 DEF CommitLands, SharedTypes, CursorInOrder, AuditAssumption
    <2>4. CASE UNCHANGED avars
      BY <1>0, <2>4 DEF avars, SharedTypes, CursorInOrder
    <2> QED
      BY <2>1, <2>2, <2>3, <2>4
  <1>2. cursor' \in cursor..main' /\ main' \in Nat
    BY <1>0, <1>1 DEF SharedTypes, CursorInOrder
  <1>3. WorkerTypes'
    BY <1>0 DEF WorkerTypes
  <1>4. ASSUME NEW w \in Auditors PROVE Sound(w)'
    BY <1>0, <1>1, <1>2, Elsewhere DEF Same
  <1> QED
    BY <1>1, <1>3, <1>4, AuditTypes DEF AuditInv, AuditTypeOK, WorkerTypes, SharedTypes, Blocks, Sessions,
       Jobs, JobSteps

-----------------------------------------------------------------------------
(* Together. *)

LEMMA AuditStarts ==
    ASSUME AuditAssumption, AuditInit
    PROVE  AuditInv
  <1>1. /\ cursor = 0 /\ main \in 1..LastCommit /\ human = [step |-> "idle", from |-> 0, to |-> 0]
        /\ upsets = [faults |-> 0, admin |-> 0] /\ LastCommit \in Nat /\ MaxFaults \in Nat /\ MaxAdmin \in Nat
    BY DEF AuditInit, AuditAssumption
  <1>2. AuditTypeOK
    <2>1. NoBlock \in Blocks /\ NoSession \in Sessions /\ AtRest \in Jobs
      BY <1>1 DEF NoBlock, NoSession, AtRest, Blocks, Sessions, Jobs, JobSteps, Finals, AuditAssumption
    <2>2. WorkerTypes
      BY <2>1 DEF AuditInit, WorkerTypes
    <2> QED
      BY <1>1, <2>2, AuditTypes DEF SharedTypes
  <1>3. ASSUME NEW w \in Auditors PROVE Sound(w)
    <2>1. /\ block[w].kind = "none" /\ job[w].step = "idle" /\ accused[w] = {} /\ launches[w] = 0
      BY DEF AuditInit, NoBlock, AtRest
    <2> QED
      BY <2>1 DEF Sound, Spans, Journaled, Remembered, PassedWhole, Rationed, AtWork, Judged
  <1> QED
    BY <1>1, <1>2, <1>3 DEF AuditInv, CursorInOrder

\* The turn of one worker leaves the others where they are, and what is shared ahead of them.
LEMMA TurnKeeps ==
    ASSUME AuditAssumption, AuditInv, NEW w \in Auditors, Turn(w)
    PROVE  AuditInv'
  <1>1. cursor' \in cursor..main' /\ main' \in Nat /\ main <= main'
    BY AuditTypes DEF AuditInv, Turn, SharedTypes, CursorInOrder
  <1>2. ASSUME NEW q \in Auditors PROVE Sound(q)'
    <2>1. CASE q = w
      BY <2>1 DEF Turn
    <2>2. CASE q # w
      BY <1>1, <2>2, Elsewhere DEF Turn
    <2> QED
      BY <2>1, <2>2
  <1>3. AuditTypeOK'
    BY AuditTypes DEF Turn, AuditTypeOK, WorkerTypes, SharedTypes, Blocks, Sessions, Jobs, JobSteps
  <1> QED
    BY <1>2, <1>3 DEF AuditInv, Turn

LEMMA AuditGoesOn ==
    ASSUME AuditAssumption, AuditInv, [AuditNext]_avars
    PROVE  AuditInv'
  <1>1. CASE \E w \in Auditors : AuditStep(w) \/ AuditorKilled(w) \/ CooldownEnds(w) \/ AdminResumes(w)
    <2>1. PICK w \in Auditors : AuditStep(w) \/ AuditorKilled(w) \/ CooldownEnds(w) \/ AdminResumes(w)
      BY <1>1
    <2>2. Turn(w)
      BY <2>1, PlanBatchKeeps, RecoverKeeps, JournalKeeps, LaunchClientKeeps, ModelTurnKeeps, ClientExitsKeeps,
         JudgeKeeps, RecordVerdictKeeps, BlockOnConcernKeeps, CheckCursorKeeps, PatchCursorKeeps,
         ConfirmCursorKeeps, AuditorKilledKeeps, CooldownEndsKeeps, AdminResumesKeeps DEF AuditStep
    <2> QED
      BY <2>2, TurnKeeps
  <1>2. CASE AttestBegins \/ AttestAdvances \/ CommitLands \/ UNCHANGED avars
    BY <1>2, PassingOthers
  <1> QED
    BY <1>1, <1>2 DEF AuditNext

LEMMA AuditInvSafe ==
    ASSUME AuditInv
    PROVE  JudgmentSafe
  <1>1. FindingBinds
    BY DEF AuditInv, Sound, Remembered, FindingBinds, AtWork, Judged
  <1>2. BudgetStands
    BY DEF AuditInv, Sound, Rationed, BudgetStands
  <1> QED
    BY <1>1, <1>2 DEF AuditInv, JudgmentSafe

\* Only a human who attests, and a worker that checked the cursor, move it.
LEMMA CursorMovers ==
    ASSUME [AuditNext]_avars, cursor' # cursor
    PROVE  AttestAdvances \/ \E w \in Auditors : PatchCursor(w)
  <1>1. CASE \E w \in Auditors : AuditStep(w) \/ AuditorKilled(w) \/ CooldownEnds(w) \/ AdminResumes(w)
    <2>1. PICK w \in Auditors : AuditStep(w) \/ AuditorKilled(w) \/ CooldownEnds(w) \/ AdminResumes(w)
      BY <1>1
    <2>2. /\ PlanBatch(w) \/ Recover(w) \/ Journal(w) \/ LaunchClient(w) => UNCHANGED cursor
          /\ ModelTurn(w) \/ ClientExits(w) \/ Judge(w) \/ RecordVerdict(w) => UNCHANGED cursor
          /\ BlockOnConcern(w) \/ CheckCursor(w) \/ ConfirmCursor(w) => UNCHANGED cursor
          /\ AuditorKilled(w) \/ CooldownEnds(w) \/ AdminResumes(w) => UNCHANGED cursor
      BY DEF PlanBatch, Recover, Journal, LaunchClient, ModelTurn, ClientExits, Judge, RecordVerdict, BlockOnConcern,
         CheckCursor, ConfirmCursor, AuditorKilled, CooldownEnds, AdminResumes
    <2> QED
      BY <2>1, <2>2 DEF AuditStep
  <1>2. CASE AttestBegins \/ AttestAdvances \/ CommitLands \/ UNCHANGED avars
    BY <1>2 DEF AttestBegins, CommitLands, avars
  <1> QED
    BY <1>1, <1>2 DEF AuditNext

LEMMA AuditPasses ==
    ASSUME AuditAssumption, AuditInv, [AuditNext]_avars
    PROVE  PassedIsRead
  <1> SUFFICES ASSUME cursor' # cursor
               PROVE  /\ cursor' > cursor
                      /\ \/ human.step = "attesting" /\ human.from <= cursor /\ cursor' = human.to
                         \/ \E w \in Auditors :
                              /\ job[w].step = "checked" /\ job[w].from <= cursor /\ cursor' = job[w].to
                              /\ \/ Whole(session[w]) /\ ~session[w].concern
                                 \/ (job[w].from + 1)..job[w].to \subseteq Quiet
    BY DEF PassedIsRead
  <1>0. WorkerTypes /\ SharedTypes /\ CursorInOrder
    BY AuditTypes DEF AuditInv
  <1>1. CASE AttestAdvances
    BY <1>0, <1>1 DEF AttestAdvances, SharedTypes, CursorInOrder
  <1>2. CASE \E w \in Auditors : PatchCursor(w)
    <2>1. PICK w \in Auditors : PatchCursor(w)
      BY <1>2
    <2>2. /\ job[w].step = "checked" /\ cursor <= job[w].to /\ cursor' = job[w].to /\ job[w] \in Jobs
      BY <1>0, <2>1 DEF PatchCursor, WorkerTypes
    <2>3. Spans(w) /\ PassedWhole(w)
      BY DEF AuditInv, Sound
    <2> QED
      BY <1>0, <2>2, <2>3 DEF Spans, PassedWhole, AtWork, Judged, SharedTypes, Jobs
  <1> QED
    BY <1>1, <1>2, CursorMovers

\* Who found fault does not pass the same commits, and one recovery is launched in a cooldown, however many
\* workers there are, whenever they are killed.  (security_audit.py, audit_recovery.py)
THEOREM AuditIsSafe == AuditAssumption => (AuditSpec => []JudgmentSafe)
  <1> SUFFICES ASSUME AuditAssumption PROVE AuditSpec => []JudgmentSafe
    OBVIOUS
  <1>1. AuditInit => AuditInv
    BY AuditStarts
  <1>2. AuditInv /\ [AuditNext]_avars => AuditInv'
    BY AuditGoesOn
  <1>3. AuditInv => JudgmentSafe
    BY AuditInvSafe
  <1> QED
    BY <1>1, <1>2, <1>3, PTL DEF AuditSpec

\* The cursor passes only commits that were attested, or that one conversation read to the last page and
\* passed.  (security_audit.advance)
THEOREM PassedWasRead == AuditAssumption => (AuditSpec => [][PassedIsRead]_avars)
  <1> SUFFICES ASSUME AuditAssumption PROVE AuditSpec => [][PassedIsRead]_avars
    OBVIOUS
  <1>1. AuditInit => AuditInv
    BY AuditStarts
  <1>2. AuditInv /\ [AuditNext]_avars => AuditInv' /\ PassedIsRead
    BY AuditGoesOn, AuditPasses
  <1> QED
    BY <1>1, <1>2, PTL DEF AuditSpec

-----------------------------------------------------------------------------
(* The reports of one worker. *)

\* Both bodies are of one writing, and that was about the window the report names.
OneText(p) == p.status = p.section /\ p.status \in 1..Len(prose) /\ prose[p.status] = p.win
\* A report that is done with was published, or a copy of it was set aside.
Kept(p) == p \in shelf \/ p.win \in github.seen \/ Landed(p.win)

GitHubType == [landed : SUBSET Windows, open : SUBSET Papers, seen : SUBSET Windows]
ReceiptType == [files : Papers, actor : Actors \cup {"none"}, attempts : 0..MaxAttempts, waiting : BOOLEAN,
                waits : 0..MaxWaits]
DeskType == [paper : Papers, facts : Windows \cup {NoWindow}, receipt : ReceiptType, done : Papers, fence : BOOLEAN,
             branches : SUBSET Windows]
GateType == [docs : BOOLEAN, mech : BOOLEAN, gap : BOOLEAN, errs : 0..MaxErrors]
SheetType == [pc : Steps, win : Windows \cup {NoWindow}, plans : Nat, status : {0}]

ReportsTyped ==
  /\ github \in GitHubType /\ account \in Actors /\ desk \in DeskType /\ shelf \subseteq Papers
  /\ gates \in GateType /\ verdict \in {"none", "due", "not"} /\ watcher \in {"idle", "asking"}
  /\ sheet \in SheetType /\ prose \in Seq(Windows) /\ Len(prose) <= MaxWritings

\* What lies on the desk: a receipt is of one text, and so is a report nobody has fenced off.
Filed == /\ Marked => OneText(desk.receipt.files)
         /\ ~desk.fence => desk.paper = NoPaper \/ OneText(desk.paper)

\* What is open was opened, and is of one text.
Posted == \A p \in github.open : p.win \in github.seen /\ (p.status # 0 => OneText(p))

Fresh == {"refresh", "prepare", "fence", "clear", "plan", "facts", "prompt", "launch", "writing", "section", "receipt"}
Planning == {"fence", "clear", "plan", "facts", "prompt", "launch", "writing"}
Ending == {"defer", "fetch", "publish", "applied", "park", "complete", "unlink"}

\* What a step of the round may rely on.
Placed ==
  /\ sheet.pc \in Fresh => ~Marked
  /\ sheet.pc \in {"clear", "plan", "facts", "prompt", "launch", "writing", "section", "receipt"} => desk.fence
  /\ sheet.pc \in Planning => sheet.win \in Windows /\ ~SetAside(sheet.win)
  /\ sheet.pc \in {"facts", "prompt", "launch", "writing"} => desk.paper.win = sheet.win
  /\ sheet.pc = "writing" => Len(prose) < MaxWritings
  /\ sheet.pc = "section" => desk.paper.status = Len(prose) /\ desk.paper.status # 0
  /\ sheet.pc = "section" => prose[desk.paper.status] = desk.paper.win
  /\ sheet.pc = "receipt" => OneText(desk.paper)
  /\ sheet.pc \in Ending => Marked /\ desk.receipt.files = desk.paper
  /\ sheet.pc = "defer" => desk.receipt.attempts = 0
  /\ sheet.pc \in {"complete", "unlink"} => Kept(desk.paper)

ReportInv == ReportsTyped /\ Filed /\ Posted /\ Placed

LEMMA Papered ==
    ASSUME ReportAssumption
    PROVE  /\ NoPaper \in Papers /\ NoPaper.win = NoWindow /\ NoPaper.status = 0 /\ NoWindow \notin Windows
           /\ NoReceipt \in ReceiptType /\ NoReceipt.files = NoPaper /\ NoReceipt.attempts = 0 /\ ~NoReceipt.waiting
           /\ Resting \in SheetType /\ Resting.pc = "idle"
           /\ MaxWritings \in Nat \ {0} /\ MaxAttempts \in Nat \ {0} /\ MaxWaits \in Nat \ {0} /\ MaxErrors \in Nat \ {0}
  <1>1. NoPaper \in Papers /\ NoPaper.win = NoWindow /\ NoPaper.status = 0 /\ NoWindow \notin Windows
    BY DEF NoPaper, Papers, NoWindow, ReportAssumption
  <1>2. NoReceipt \in ReceiptType /\ NoReceipt.files = NoPaper /\ NoReceipt.attempts = 0 /\ ~NoReceipt.waiting
    BY <1>1 DEF NoReceipt, ReceiptType, ReportAssumption
  <1>3. Resting \in SheetType /\ Resting.pc = "idle"
    BY DEF Resting, SheetType, Steps
  <1> QED
    BY <1>1, <1>2, <1>3 DEF ReportAssumption

LEMMA FullIsWhole == ASSUME ReportAssumption, ReportsTyped, Filed, Retained PROVE OneText(desk.paper)
  BY Papered DEF Retained, Filed, Adoptable, Full, Marked

LEMMA MarkedText ==
    ASSUME ReportAssumption, ReportsTyped, NEW p \in Papers, OneText(p)
    PROVE  p.win \in Windows /\ p # NoPaper /\ Full(p)
  BY Papered DEF ReportsTyped, OneText, Full, Papers

LEMMA ReportStarts == ASSUME ReportAssumption, ReportInit PROVE ReportInv
  <1>1. github = [landed |-> Reported, open |-> {}, seen |-> {}] /\ github \in GitHubType
    BY DEF ReportInit, GitHubType, ReportAssumption
  <1>2. /\ account \in Actors /\ shelf \subseteq Papers /\ verdict \in {"none", "due", "not"}
        /\ watcher \in {"idle", "asking"} /\ sheet \in SheetType /\ sheet.pc = "idle" /\ gates \in GateType
    BY Papered DEF ReportInit, GateType
  <1>3. /\ desk \in DeskType /\ ~Marked /\ prose \in Seq(Windows) /\ Len(prose) <= MaxWritings
        /\ ~desk.fence => desk.paper = NoPaper \/ OneText(desk.paper)
    <2>1. Bare \in DeskType /\ Bare.receipt = NoReceipt /\ Bare.paper = NoPaper
      BY Papered DEF Bare, DeskType
    <2>2. ASSUME NEW w \in Windows
          PROVE  /\ Legacy(w) \in DeskType /\ Legacy(w).receipt = NoReceipt /\ Legacy(w).paper = Text(w)
                 /\ Used(w) \in DeskType /\ Used(w).receipt = NoReceipt /\ Used(w).fence
      <3>1. Text(w) \in Papers
        BY Papered DEF Text, Papers
      <3> DEFINE t == Text(w)
                 d1 == [Bare EXCEPT !.paper = t]
                 d2 == [d1 EXCEPT !.facts = w]
                 d3 == [d2 EXCEPT !.branches = {w}]
                 d4 == [d3 EXCEPT !.done = t]
                 d5 == [d4 EXCEPT !.fence = TRUE]
      <3>2. Legacy(w) = d3
        BY DEF Legacy, Bare
      <3>3. Used(w) = d5
        BY <3>2 DEF Used, Bare
      <3> HIDE DEF t
      <3>4. d1 \in DeskType /\ d1.receipt = NoReceipt /\ d1.paper = t
        BY <2>1, <3>1 DEF DeskType, t
      <3> HIDE DEF d1
      <3>5. d2 \in DeskType /\ d2.receipt = NoReceipt /\ d2.paper = t
        BY <3>4 DEF DeskType
      <3> HIDE DEF d2
      <3>6. d3 \in DeskType /\ d3.receipt = NoReceipt /\ d3.paper = t
        BY <3>5 DEF DeskType
      <3> HIDE DEF d3
      <3>7. d4 \in DeskType /\ d4.receipt = NoReceipt
        BY <3>1, <3>6 DEF DeskType, t
      <3> HIDE DEF d4
      <3>8. d5 \in DeskType /\ d5.receipt = NoReceipt /\ d5.fence
        BY <3>7 DEF DeskType
      <3> QED
        BY <3>2, <3>3, <3>6, <3>8 DEF t
    <2>3. CASE desk = Bare /\ prose = <<>>
      BY <2>1, <2>3, Papered DEF Marked
    <2>4. ASSUME NEW w \in Windows, desk = Legacy(w) \/ desk = Used(w), prose = <<w>>
          PROVE  /\ desk \in DeskType /\ ~Marked /\ prose \in Seq(Windows) /\ Len(prose) <= MaxWritings
                 /\ ~desk.fence => desk.paper = NoPaper \/ OneText(desk.paper)
      <3>1. OneText(Text(w))
        BY <2>4 DEF OneText, Text
      <3> QED
        BY <2>2, <2>4, <3>1, Papered DEF Marked
    <2> QED
      BY <2>3, <2>4 DEF ReportInit, ReportAssumption
  <1>4. Filed /\ Posted
    BY <1>1, <1>3 DEF Filed, Posted
  <1>5. Placed
    BY <1>2 DEF Placed, Fresh, Planning, Ending
  <1> QED
    BY <1>1, <1>2, <1>3, <1>4, <1>5 DEF ReportInv, ReportsTyped

LEMMA Moved ==
    ASSUME ReportAssumption, ReportsTyped, NEW pc \in Steps, To(pc)
    PROVE  sheet' \in SheetType /\ sheet'.pc = pc /\ sheet'.win = sheet.win
  BY DEF To, ReportsTyped, SheetType

\* The files are as they were.
LEMMA DeskStays ==
    ASSUME ReportAssumption, ReportInv, UNCHANGED <<github, desk, shelf, prose>>, account' \in Actors,
           gates' \in GateType, verdict' \in {"none", "due", "not"}, watcher' \in {"idle", "asking"},
           sheet' \in SheetType, Placed'
    PROVE  ReportInv'
  <1>1. ReportsTyped'
    BY DEF ReportInv, ReportsTyped
  <1>2. Filed' /\ Posted'
    BY DEF ReportInv, Filed, Posted, Marked, OneText
  <1> QED
    BY <1>1, <1>2 DEF ReportInv

\* The round is over, or has not come further than that a report is wanted.
LEMMA RestPlaced == ASSUME sheet'.pc \in {"idle", "asking", "due"} PROVE Placed'
  BY DEF Placed, Fresh, Planning, Ending

LEMMA RoundRests ==
    ASSUME ReportAssumption, ReportInv, UNCHANGED <<github, desk, shelf, prose>>, account' \in Actors,
           gates' \in GateType, verdict' \in {"none", "due", "not"}, watcher' \in {"idle", "asking"},
           sheet' \in SheetType, sheet'.pc \in {"idle", "asking", "due"}
    PROVE  ReportInv'
  BY RestPlaced, DeskStays

\* The round stands where it stood, and its desk is as it was.
LEMMA StaysPlaced ==
    ASSUME ReportInv, UNCHANGED <<desk, shelf, prose, sheet>>, github.seen \subseteq github'.seen,
           github.landed \subseteq github'.landed
    PROVE  Placed'
  <1>1. Placed
    BY DEF ReportInv
  <1>2. Marked' <=> Marked
    BY DEF Marked
  <1>3. OneText(desk.paper) => OneText(desk.paper)'
    BY DEF OneText
  <1>4. Kept(desk.paper) => Kept(desk.paper)'
    BY DEF Kept, Landed
  <1>5. SetAside(sheet.win)' <=> SetAside(sheet.win)
    BY DEF SetAside
  <1> QED
    BY <1>1, <1>2, <1>3, <1>4, <1>5 DEF Placed

LEMMA WorldMoves ==
    ASSUME ReportAssumption, ReportInv, UNCHANGED <<desk, shelf, gates, verdict, watcher, sheet, prose>>,
           account' \in Actors, github' \in GitHubType, github.seen \subseteq github'.seen,
           github.landed \subseteq github'.landed,
           \A p \in github'.open : p \in github.open \/ (p.win \in github'.seen /\ p.status = 0)
    PROVE  ReportInv'
  <1>1. ReportsTyped'
    BY DEF ReportInv, ReportsTyped
  <1>2. Filed'
    BY DEF ReportInv, Filed, Marked, OneText
  <1>3. Posted'
    BY DEF ReportInv, Posted, OneText
  <1>4. Placed'
    BY StaysPlaced
  <1> QED
    BY <1>1, <1>2, <1>3, <1>4 DEF ReportInv

LEMMA GateEnds == ASSUME gates \in GateType, DelayEnds PROVE gates' \in GateType
  <1>1. PICK g \in {"docs", "mech", "gap"} : gates' = [gates EXCEPT ![g] = FALSE]
    BY DEF DelayEnds
  <1>2. CASE g = "docs"
    BY <1>1, <1>2 DEF GateType
  <1>3. CASE g = "mech"
    BY <1>1, <1>3 DEF GateType
  <1>4. CASE g = "gap"
    BY <1>1, <1>4 DEF GateType
  <1> QED
    BY <1>2, <1>3, <1>4

LEMMA WorldSafe == ASSUME ReportAssumption, ReportInv, ReportWorld PROVE ReportInv'
  <1>1. ReportsTyped /\ github \in GitHubType /\ account \in Actors /\ desk \in DeskType /\ gates \in GateType
    BY DEF ReportInv, ReportsTyped
  <1>2. ASSUME NEW p \in github.open, ReportMerges(p) PROVE ReportInv'
    <2> DEFINE g == [github EXCEPT !.landed = github.landed \cup {p.win}]
               h == [g EXCEPT !.open = github.open \ {p}]
    <2>1. github' = h
      BY <1>1, <1>2 DEF ReportMerges, GitHubType
    <2>2. p.win \in Windows
      BY <1>1 DEF ReportInv, Posted, GitHubType
    <2>3. g \in GitHubType /\ g.landed = github.landed \cup {p.win} /\ g.seen = github.seen /\ g.open = github.open
      BY <1>1, <2>2 DEF GitHubType
    <2> HIDE DEF g
    <2>4. h \in GitHubType /\ h.landed = g.landed /\ h.seen = g.seen /\ h.open = github.open \ {p}
      BY <1>1, <2>3 DEF GitHubType
    <2> HIDE DEF h
    <2> QED
      BY <1>1, <1>2, <2>1, <2>3, <2>4, WorldMoves DEF ReportMerges
  <1>3. ASSUME NEW p \in github.open, ReportCloses(p) PROVE ReportInv'
    <2>1. github' = [github EXCEPT !.open = github.open \ {p}] /\ UNCHANGED <<account, desk, shelf, gates, verdict, watcher, sheet, prose>>
      BY <1>3 DEF ReportCloses
    <2>2. github' \in GitHubType /\ github'.landed = github.landed /\ github'.seen = github.seen /\ github'.open \subseteq github.open
      BY <1>1, <2>1 DEF GitHubType
    <2> QED
      BY <1>1, <2>1, <2>2, WorldMoves
  <1>4. CASE PeerReports
    <2>1. PICK w \in Windows : github' = Opened([NoPaper EXCEPT !.win = w])
      BY <1>4 DEF PeerReports, Reportable
    <2> DEFINE p == [NoPaper EXCEPT !.win = w]
               g == [github EXCEPT !.open = github.open \cup {p}]
               h == [g EXCEPT !.seen = github.seen \cup {w}]
    <2>2. p \in Papers /\ p.win = w /\ p.status = 0
      BY Papered DEF NoPaper, Papers
    <2>3. github' = h
      BY <1>1, <2>1, <2>2 DEF Opened, GitHubType
    <2> HIDE DEF p
    <2>4. g \in GitHubType /\ g.landed = github.landed /\ g.seen = github.seen /\ g.open = github.open \cup {p}
      BY <1>1, <2>2 DEF GitHubType
    <2> HIDE DEF g
    <2>5. h \in GitHubType /\ h.landed = g.landed /\ h.seen = github.seen \cup {w} /\ h.open = g.open
      BY <1>1, <2>4 DEF GitHubType
    <2> HIDE DEF h
    <2> QED
      BY <1>1, <1>4, <2>2, <2>3, <2>4, <2>5, WorldMoves DEF PeerReports
  <1>5. CASE SwitchAccount
    BY <1>1, <1>5, WorldMoves DEF SwitchAccount
  <1>6. CASE DelayEnds \/ VerdictAges \/ WatchAsks \/ WatchAnswers
    <2>1. gates' \in GateType
      BY <1>1, <1>6, GateEnds DEF VerdictAges, WatchAsks, WatchAnswers
    <2>2. /\ UNCHANGED <<github, account, desk, shelf, prose, sheet>>
          /\ verdict' \in {"none", "due", "not"} /\ watcher' \in {"idle", "asking"}
      BY <1>6 DEF ReportInv, ReportsTyped, DelayEnds, VerdictAges, WatchAsks, WatchAnswers, World, Answer
    <2>3. Placed'
      BY <2>2, StaysPlaced
    <2> QED
      BY <1>1, <2>1, <2>2, <2>3, DeskStays DEF ReportsTyped
  <1>7. CASE RetryComes
    <2> DEFINE r == [desk.receipt EXCEPT !.waiting = FALSE]
    <2>1. desk' = [desk EXCEPT !.receipt = r] /\ UNCHANGED <<github, account, shelf, gates, verdict, watcher, sheet, prose>>
      BY <1>1, <1>7 DEF RetryComes, DeskType
    <2>2. Marked
      BY <1>7, Papered DEF RetryComes, Marked
    <2>3. r \in ReceiptType /\ r.files = desk.receipt.files /\ r.attempts = desk.receipt.attempts
      BY <1>1 DEF DeskType, ReceiptType
    <2> HIDE DEF r
    <2>4. desk' \in DeskType /\ desk'.receipt = r /\ desk'.paper = desk.paper /\ desk'.fence = desk.fence
      BY <1>1, <2>1, <2>3 DEF DeskType
    <2>5. OneText(desk.receipt.files) /\ desk.receipt.files \in Papers
      BY <1>1, <2>2 DEF ReportInv, Filed, DeskType, ReceiptType
    <2>6. Marked'
      BY <1>1, <2>3, <2>4, <2>5, MarkedText, Papered DEF Marked
    <2>7. ReportsTyped'
      BY <2>1, <2>4 DEF ReportInv, ReportsTyped
    <2>8. Filed' /\ Posted'
      BY <2>1, <2>3, <2>4, <2>5 DEF ReportInv, Filed, Posted, OneText
    <2>9. Placed'
      BY <2>1, <2>2, <2>3, <2>4, <2>6 DEF ReportInv, Placed, OneText, Kept, Landed, SetAside
    <2> QED
      BY <2>7, <2>8, <2>9 DEF ReportInv
  <1> QED
    BY <1>2, <1>3, <1>4, <1>5, <1>6, <1>7 DEF ReportWorld

LEMMA GatesTurn ==
    ASSUME ReportAssumption, gates \in GateType
    PROVE  /\ [gates EXCEPT !.mech = TRUE] \in GateType /\ [gates EXCEPT !.mech = FALSE] \in GateType
           /\ [gates EXCEPT !.gap = TRUE] \in GateType /\ [gates EXCEPT !.docs = FALSE] \in GateType
           /\ [gates EXCEPT !.errs = 0] \in GateType /\ [gates EXCEPT !.errs = MoreErrs(@)] \in GateType
           /\ [gates EXCEPT !.mech = TRUE, !.docs = FALSE] \in GateType
           /\ [gates EXCEPT !.docs = TRUE, !.mech = FALSE] \in GateType
           /\ [gates EXCEPT !.mech = TRUE, !.errs = MoreErrs(@)] \in GateType
  <1>1. MoreErrs(gates.errs) \in 0..MaxErrors /\ 0 \in 0..MaxErrors
    BY Papered DEF GateType, MoreErrs
  <1> HIDE DEF MoreErrs
  <1> QED
    BY <1>1 DEF GateType

\* A round that decides, or fails, and leaves the desk as it found it.
LEMMA RestsSafe ==
    ASSUME ReportAssumption, ReportInv,
           \/ LookPrepared \/ LookCached \/ LookAsks \/ LookAnswers \/ PeerWrites \/ LeftAlone \/ RefreshFails
           \/ NothingDue \/ PlanSetAside \/ DocumentationAway \/ PlanFails \/ DeadlineWait \/ InstallFails
           \/ PromptFails \/ WriterFails \/ ReportDies
    PROVE  ReportInv'
  <1>1. ReportsTyped /\ gates \in GateType /\ verdict \in {"none", "due", "not"}
    BY DEF ReportInv, ReportsTyped
  <1>2. UNCHANGED <<github, account, desk, shelf, prose, watcher>> /\ verdict' \in {"none", "due", "not"}
    BY <1>1 DEF LookPrepared, LookCached, LookAsks, LookAnswers, PeerWrites, LeftAlone, RefreshFails, NothingDue, PlanSetAside,
       DocumentationAway, PlanFails, DeadlineWait, InstallFails, PromptFails, WriterFails, ReportDies, Untouched, AtDesk, World,
       Mechanical, DocumentationWait, MechanicalFailed, Bust, Answer
  <1>3. gates' \in GateType
    BY <1>1, GatesTurn DEF LookPrepared, LookCached, LookAsks, LookAnswers, PeerWrites, LeftAlone, RefreshFails, NothingDue,
       PlanSetAside, DocumentationAway, PlanFails, DeadlineWait, InstallFails, PromptFails, WriterFails, ReportDies, Untouched,
       DocumentationWait, MechanicalFailed
  <1>4. Rest \/ To("due") \/ To("asking")
    BY DEF LookPrepared, LookCached, LookAsks, LookAnswers, PeerWrites, LeftAlone, RefreshFails, NothingDue, PlanSetAside,
       DocumentationAway, PlanFails, DeadlineWait, InstallFails, PromptFails, WriterFails, ReportDies, DocumentationWait,
       MechanicalFailed
  <1>5. sheet' \in SheetType /\ sheet'.pc \in {"idle", "asking", "due"}
    BY <1>1, <1>4, Moved, Papered DEF Rest, Steps
  <1> QED
    BY <1>1, <1>2, <1>3, <1>5, RoundRests DEF ReportsTyped

\* A round that goes on, and leaves the desk as it found it.
LEMMA GoesOnSafe ==
    ASSUME ReportAssumption, ReportInv, NEW pc \in Steps, To(pc), AtDesk, UNCHANGED <<desk, shelf>>, gates' \in GateType,
           verdict' \in {"none", "due", "not"}, Placed'
    PROVE  ReportInv'
  BY Moved, DeskStays DEF ReportInv, ReportsTyped, AtDesk, World

LEMMA DeskPlace ==
    ASSUME UNCHANGED <<desk, shelf, prose, github>>
    PROVE  /\ Marked' <=> Marked
           /\ OneText(desk.paper)' <=> OneText(desk.paper)
           /\ Kept(desk.paper)' <=> Kept(desk.paper)
           /\ \A w : SetAside(w)' <=> SetAside(w)
  BY DEF Marked, OneText, Kept, Landed, SetAside

\* Of a report with a receipt, or without, as far as its publication.
LEMMA BeginParkSafe == ASSUME ReportAssumption, ReportInv, BeginPark PROVE ReportInv'
  <1>1. ReportsTyped /\ To("park") /\ "park" \in Steps /\ Untouched
    BY DEF BeginPark, ReportInv, Steps
  <1>2. Marked /\ desk.receipt.files = desk.paper
    <2>1. Marked
      BY Papered DEF BeginPark, Counts, Receipt, NoReceipt
    <2> QED
      BY <2>1 DEF BeginPark, Retained
  <1>3. Placed'
    BY <1>1, <1>2, Moved, DeskPlace DEF Placed, Fresh, Planning, Ending, Untouched, AtDesk, World
  <1> QED
    BY <1>1, <1>3, GoesOnSafe DEF Untouched, ReportsTyped

LEMMA FetchedSafe == ASSUME ReportAssumption, ReportInv, Fetched PROVE ReportInv'
  <1>1. ReportsTyped /\ To("publish") /\ "publish" \in Steps /\ Untouched
    BY DEF Fetched, ReportInv, Steps
  <1>2. Marked /\ desk.receipt.files = desk.paper
    BY DEF Fetched, ReportInv, Placed, Ending
  <1>3. Placed'
    BY <1>1, <1>2, Moved, DeskPlace DEF Placed, Fresh, Planning, Ending, Untouched, AtDesk, World
  <1> QED
    BY <1>1, <1>3, GoesOnSafe DEF Untouched, ReportsTyped

LEMMA ApplyDoneSafe == ASSUME ReportAssumption, ReportInv, ApplyDone PROVE ReportInv'
  <1>1. ReportsTyped /\ To("complete") /\ "complete" \in Steps /\ Untouched
    BY DEF ApplyDone, ReportInv, Steps
  <1>2. Marked /\ desk.receipt.files = desk.paper
    BY DEF ApplyDone, ReportInv, Placed, Ending
  <1>3. Kept(desk.paper)
    BY DEF ApplyDone, ReportInv, Posted, Kept, InFlight
  <1>4. Placed'
    BY <1>1, <1>2, <1>3, Moved, DeskPlace DEF Placed, Fresh, Planning, Ending, Untouched, AtDesk, World
  <1> QED
    BY <1>1, <1>4, GoesOnSafe DEF Untouched, ReportsTyped

LEMMA FreshSafe == ASSUME ReportAssumption, ReportInv, BeginFresh \/ Refreshed PROVE ReportInv'
  <1> DEFINE pc == IF sheet.pc = "due" THEN "refresh" ELSE "prepare"
  <1>1. /\ To(pc) /\ pc \in Steps /\ ~Marked /\ AtDesk /\ UNCHANGED <<desk, shelf>> /\ ReportsTyped /\ pc \in {"refresh", "prepare"}
        /\ gates' \in GateType /\ verdict' \in {"none", "due", "not"}
    BY GatesTurn DEF BeginFresh, Refreshed, ReportInv, Placed, Fresh, Untouched, Steps, Bust, ReportsTyped
  <1> HIDE DEF pc
  <1>2. Placed'
    BY <1>1, Moved, DeskPlace DEF Placed, Fresh, Planning, Ending, AtDesk, World
  <1> QED
    BY <1>1, <1>2, GoesOnSafe

LEMMA ReplanSafe == ASSUME ReportAssumption, ReportInv, Replan PROVE ReportInv'
  <1>1. ReportsTyped /\ Mechanical /\ sheet.pc = "prepare" /\ ~Marked /\ sheet \in SheetType /\ gates \in GateType
    BY DEF Replan, ReportInv, ReportsTyped, Placed, Fresh
  <1>2. CASE sheet.plans + 1 < MaxPlans
    <2>1. sheet' = [sheet EXCEPT !.plans = sheet.plans + 1] /\ UNCHANGED <<gates, verdict>>
      BY <1>2 DEF Replan
    <2>2. sheet' \in SheetType /\ sheet'.pc = "prepare"
      BY <1>1, <2>1 DEF SheetType
    <2>3. Placed'
      BY <1>1, <2>2, DeskPlace DEF Placed, Fresh, Planning, Ending, Mechanical, AtDesk, World
    <2> QED
      BY <1>1, <2>1, <2>2, <2>3, DeskStays DEF ReportsTyped, Mechanical, AtDesk, World
  <1>3. CASE ~(sheet.plans + 1 < MaxPlans)
    BY <1>1, <1>3, GatesTurn, Papered, RoundRests DEF Replan, DocumentationWait, Rest, Bust, ReportsTyped, Mechanical, AtDesk, World
  <1> QED
    BY <1>2, <1>3

LEMMA PlannedSafe == ASSUME ReportAssumption, ReportInv, Planned PROVE ReportInv'
  <1>1. ReportsTyped /\ Untouched /\ ~Marked /\ sheet \in SheetType /\ gates \in GateType
    BY DEF Planned, ReportInv, ReportsTyped, Placed, Fresh
  <1>2. PICK w \in Windows : ~SetAside(w) /\ sheet' = [sheet EXCEPT !.pc = "fence", !.win = w]
    BY DEF Planned, Reportable
  <1> DEFINE n == [sheet EXCEPT !.pc = "fence"]
             m == [n EXCEPT !.win = w]
  <1>3. sheet' = m
    BY <1>1, <1>2 DEF SheetType
  <1>4. n \in SheetType /\ n.pc = "fence"
    BY <1>1 DEF SheetType, Steps
  <1> HIDE DEF n
  <1>5. m \in SheetType /\ m.pc = "fence" /\ m.win = w
    BY <1>4 DEF SheetType
  <1>6. sheet' \in SheetType /\ sheet'.pc = "fence" /\ sheet'.win = w
    BY <1>3, <1>5
  <1>7. Placed'
    BY <1>1, <1>2, <1>6, DeskPlace DEF Placed, Fresh, Planning, Ending, Untouched, AtDesk, World
  <1> QED
    BY <1>1, <1>6, <1>7, DeskStays DEF ReportsTyped, Untouched, AtDesk, World

\* The writer is about to be paid: for a window of which no report was set aside.
LEMMA PromptedSafe == ASSUME ReportAssumption, ReportInv, Prompted \/ LaunchWriter PROVE ReportInv'
  <1> DEFINE pc == IF sheet.pc = "prompt" THEN "launch" ELSE "writing"
  <1>1. /\ To(pc) /\ pc \in Steps /\ AtDesk /\ UNCHANGED <<desk, shelf>> /\ ReportsTyped /\ pc \in {"launch", "writing"}
        /\ gates' \in GateType /\ verdict' \in {"none", "due", "not"} /\ (pc = "writing" => Len(prose) < MaxWritings)
    BY GatesTurn DEF Prompted, LaunchWriter, ReportInv, Steps, ReportsTyped
  <1>2. ~Marked /\ desk.fence /\ sheet.win \in Windows /\ ~SetAside(sheet.win) /\ desk.paper.win = sheet.win
    BY DEF Prompted, LaunchWriter, ReportInv, Placed, Fresh, Planning
  <1> HIDE DEF pc
  <1>3. Placed'
    BY <1>1, <1>2, Moved, DeskPlace DEF Placed, Fresh, Planning, Ending, AtDesk, World
  <1> QED
    BY <1>1, <1>3, GoesOnSafe

\* Something on the desk changes.
LEMMA DeskMoves ==
    ASSUME ReportAssumption, ReportInv, UNCHANGED <<github, account, watcher, prose>>, desk' \in DeskType,
           shelf' \subseteq Papers, gates' \in GateType, verdict' \in {"none", "due", "not"}, sheet' \in SheetType,
           Marked' => OneText(desk'.receipt.files),
           ~desk'.fence => desk'.paper = NoPaper \/ OneText(desk'.paper), Placed'
    PROVE  ReportInv'
  <1>1. ReportsTyped'
    BY DEF ReportInv, ReportsTyped
  <1>2. Filed' /\ Posted'
    BY DEF ReportInv, Filed, Posted, OneText
  <1> QED
    BY <1>1, <1>2 DEF ReportInv

\* The receipt is written anew, for the text it was of.
LEMMA ReceiptMoves ==
    ASSUME ReportAssumption, ReportInv, NEW r \in ReceiptType, desk' = [desk EXCEPT !.receipt = r], r.files = desk.paper,
           OneText(desk.paper), UNCHANGED <<github, account, watcher, prose, shelf>>, gates' \in GateType,
           verdict' \in {"none", "due", "not"}, sheet' \in SheetType,
           sheet'.pc \in {"idle", "asking", "due", "defer", "fetch", "publish", "applied", "park"},
           sheet'.pc = "defer" => r.attempts = 0
    PROVE  ReportInv'
  <1>1. ReportsTyped /\ desk \in DeskType /\ desk.paper \in Papers
    BY DEF ReportInv, ReportsTyped, DeskType
  <1>2. desk' \in DeskType /\ desk'.receipt = r /\ desk'.paper = desk.paper /\ desk'.fence = desk.fence
    BY <1>1 DEF DeskType
  <1>3. Marked'
    BY <1>1, <1>2, MarkedText, Papered DEF Marked
  <1>4. Placed'
    BY <1>2, <1>3 DEF Placed, Fresh, Planning, Ending
  <1> QED
    BY <1>1, <1>2, <1>4, DeskMoves DEF ReportsTyped

LEMMA Receipted ==
    ASSUME ReportAssumption, ReportInv, Retained
    PROVE  /\ Receipt \in ReceiptType /\ Receipt.files = desk.paper /\ OneText(desk.paper)
           /\ ~Marked => Receipt.attempts = 0
  <1>1. ReportsTyped /\ desk \in DeskType /\ OneText(desk.paper)
    BY FullIsWhole DEF ReportInv, ReportsTyped
  <1>2. CASE Marked
    BY <1>1, <1>2 DEF Receipt, Retained, DeskType
  <1>3. CASE ~Marked
    <2> DEFINE n == [NoReceipt EXCEPT !.files = desk.paper]
               m == [n EXCEPT !.actor = CHOOSE c \in Actors : TRUE]
    <2>1. Receipt = m
      BY <1>3 DEF Receipt, NoReceipt
    <2>2. (CHOOSE c \in Actors : TRUE) \in Actors
      BY DEF ReportAssumption
    <2>3. n \in ReceiptType /\ n.files = desk.paper /\ n.attempts = 0
      BY <1>1, Papered DEF ReceiptType, DeskType
    <2> HIDE DEF n
    <2>4. m \in ReceiptType /\ m.files = desk.paper /\ m.attempts = 0
      BY <2>2, <2>3 DEF ReceiptType
    <2> QED
      BY <1>1, <2>1, <2>4
  <1> QED
    BY <1>2, <1>3

\* Another attempt is counted, or another wait, or the report is told to wait for its shelf.
LEMMA DeferredTyped ==
    ASSUME ReportAssumption, NEW r \in ReceiptType
    PROVE  /\ ~Counts(r) => Deferred(r) \in ReceiptType
           /\ Deferred(r).files = r.files
           /\ r.waits < MaxWaits => WaitingFor(r) \in ReceiptType
           /\ WaitingFor(r).files = r.files
           /\ ParkFails(r) \in ReceiptType /\ ParkFails(r).files = r.files
  <1> DEFINE w == [r EXCEPT !.waiting = TRUE]
             d == [w EXCEPT !.attempts = r.attempts + 1]
             x == [w EXCEPT !.waits = r.waits + 1]
             y == [x EXCEPT !.attempts = IF r.attempts > 0 THEN r.attempts - 1 ELSE 0]
  <1>1. Deferred(r) = d /\ WaitingFor(r) = y /\ ParkFails(r) = w
    BY DEF Deferred, WaitingFor, ParkFails, ReceiptType
  <1>2. w \in ReceiptType /\ w.files = r.files /\ w.attempts = r.attempts /\ w.waits = r.waits
    BY DEF ReceiptType
  <1> HIDE DEF w
  <1>3. d.files = w.files /\ (~Counts(r) => d \in ReceiptType)
    BY <1>2, Papered DEF Counts, ReceiptType
  <1>4. x.files = w.files /\ x.attempts = w.attempts /\ (r.waits < MaxWaits => x \in ReceiptType)
    BY <1>2, Papered DEF ReceiptType
  <1> HIDE DEF x, d
  <1>5. y.files = x.files
    BY DEF ReceiptType
  <1>6. (IF r.attempts > 0 THEN r.attempts - 1 ELSE 0) \in 0..MaxAttempts
    BY Papered DEF ReceiptType
  <1>7. x \in ReceiptType => y \in ReceiptType
    BY <1>6 DEF ReceiptType
  <1> QED
    BY <1>1, <1>2, <1>3, <1>4, <1>5, <1>7

LEMMA BeginRetainedSafe == ASSUME ReportAssumption, ReportInv, BeginRetained PROVE ReportInv'
  <1>1. ReportsTyped /\ Retained /\ ~Counts(Receipt) /\ To("fetch") /\ "fetch" \in Steps
    BY DEF BeginRetained, ReportInv, Steps
  <1>2. desk' = [desk EXCEPT !.receipt = Deferred(Receipt)] /\ Deferred(Receipt) \in ReceiptType /\ OneText(desk.paper)
        /\ Deferred(Receipt).files = desk.paper
    BY <1>1, Receipted, DeferredTyped DEF BeginRetained
  <1> QED
    BY <1>1, <1>2, Moved, ReceiptMoves DEF BeginRetained, AtDesk, World, Bust, ReportsTyped

\* A wait for GitHub: the round rests, or the report is set aside.
LEMMA WaitSafe == ASSUME ReportAssumption, ReportInv, FetchFails \/ ApplyWaits PROVE ReportInv'
  <1>1. /\ ReportsTyped /\ desk \in DeskType /\ Marked /\ desk.receipt.files = desk.paper /\ desk.receipt \in ReceiptType
        /\ TemporaryWait /\ AtDesk /\ UNCHANGED <<shelf, gates, verdict>> /\ OneText(desk.paper)
    BY DEF FetchFails, ApplyWaits, ReportInv, ReportsTyped, Placed, Ending, Filed, DeskType
  <1>2. CASE To("park") /\ UNCHANGED desk
    <2>1. "park" \in Steps
      BY DEF Steps
    <2>2. Placed'
      BY <1>1, <1>2, <2>1, Moved, DeskPlace DEF Placed, Fresh, Planning, Ending, AtDesk, World
    <2> QED
      BY <1>1, <1>2, <2>1, <2>2, GoesOnSafe DEF ReportsTyped
  <1>3. CASE desk.receipt.waits < MaxWaits /\ Rest /\ desk' = [desk EXCEPT !.receipt = WaitingFor(@)]
    <2>1. desk' = [desk EXCEPT !.receipt = WaitingFor(desk.receipt)]
      BY <1>1, <1>3 DEF DeskType
    <2>2. WaitingFor(desk.receipt) \in ReceiptType /\ WaitingFor(desk.receipt).files = desk.paper
      BY <1>1, <1>3, DeferredTyped
    <2>3. sheet' \in SheetType /\ sheet'.pc = "idle"
      BY <1>3, Papered DEF Rest
    <2> QED
      BY <1>1, <2>1, <2>2, <2>3, ReceiptMoves DEF ReportsTyped, AtDesk, World
  <1> QED
    BY <1>1, <1>2, <1>3 DEF TemporaryWait

LEMMA ApplyFailsSafe == ASSUME ReportAssumption, ReportInv, ApplyFails PROVE ReportInv'
  <1>1. /\ ReportsTyped /\ Marked /\ desk.receipt.files = desk.paper /\ AtDesk /\ UNCHANGED <<desk, shelf, verdict>>
        /\ gates' \in GateType
    BY GatesTurn DEF ApplyFails, ReportInv, ReportsTyped, Placed, Ending
  <1>2. CASE Rest
    BY <1>1, <1>2, Papered, RoundRests DEF Rest, ReportsTyped, AtDesk, World
  <1>3. CASE To("park")
    <2>1. "park" \in Steps
      BY DEF Steps
    <2>2. Placed'
      BY <1>1, <1>3, <2>1, Moved, DeskPlace DEF Placed, Fresh, Planning, Ending, AtDesk, World
    <2> QED
      BY <1>1, <1>3, <2>1, <2>2, GoesOnSafe DEF ReportsTyped
  <1> QED
    BY <1>2, <1>3 DEF ApplyFails

LEMMA ParkRefusedSafe == ASSUME ReportAssumption, ReportInv, ParkRefused PROVE ReportInv'
  <1>1. /\ ReportsTyped /\ desk.receipt.files = desk.paper /\ desk.receipt \in ReceiptType /\ OneText(desk.paper)
        /\ Receipt = desk.receipt /\ Rest /\ AtDesk /\ UNCHANGED <<shelf, gates, verdict>>
    BY DEF ParkRefused, ReportInv, ReportsTyped, Placed, Ending, Filed, DeskType, Receipt, Installing
  <1>2. sheet' \in SheetType /\ sheet'.pc = "idle"
    BY <1>1, Papered DEF Rest
  <1>3. CASE desk' = desk
    BY <1>1, <1>2, <1>3, RoundRests DEF ReportsTyped, AtDesk, World
  <1>4. CASE desk' = [desk EXCEPT !.receipt = ParkFails(Receipt)]
    BY <1>1, <1>2, <1>4, DeferredTyped, ReceiptMoves DEF ReportsTyped, AtDesk, World
  <1> QED
    BY <1>3, <1>4 DEF ParkRefused

LEMMA SaveSafe == ASSUME ReportAssumption, ReportInv, SaveReceipt PROVE ReportInv'
  <1>1. /\ ReportsTyped /\ desk \in DeskType /\ OneText(desk.paper) /\ To("defer") /\ "defer" \in Steps
        /\ Installing /\ account \in Actors
    BY DEF SaveReceipt, ReportInv, ReportsTyped, Placed, Steps
  <1> DEFINE n == [NoReceipt EXCEPT !.files = desk.paper]
             m == [n EXCEPT !.actor = account]
  <1>2. desk' = [desk EXCEPT !.receipt = m]
    BY DEF SaveReceipt, NoReceipt
  <1>3. n \in ReceiptType /\ n.files = desk.paper /\ n.attempts = 0
    BY <1>1, Papered DEF ReceiptType, DeskType
  <1> HIDE DEF n
  <1>4. m \in ReceiptType /\ m.files = desk.paper /\ m.attempts = 0
    BY <1>1, <1>3 DEF ReceiptType
  <1> HIDE DEF m
  <1> QED
    BY <1>1, <1>2, <1>4, Moved, ReceiptMoves DEF ReportsTyped, Installing, AtDesk, World

LEMMA DeferSafe == ASSUME ReportAssumption, ReportInv, DeferReceipt PROVE ReportInv'
  <1>1. /\ ReportsTyped /\ desk \in DeskType /\ OneText(desk.paper) /\ To("publish") /\ "publish" \in Steps
        /\ Installing /\ desk.receipt \in ReceiptType /\ desk.receipt.files = desk.paper /\ ~Counts(desk.receipt)
    BY Papered DEF DeferReceipt, ReportInv, ReportsTyped, Placed, Ending, Filed, Steps, DeskType, Counts
  <1>2. desk' = [desk EXCEPT !.receipt = Deferred(desk.receipt)]
    BY <1>1 DEF DeferReceipt, DeskType
  <1>3. Deferred(desk.receipt) \in ReceiptType /\ Deferred(desk.receipt).files = desk.paper
    BY <1>1, DeferredTyped
  <1> QED
    BY <1>1, <1>2, <1>3, Moved, ReceiptMoves DEF ReportsTyped, Installing, AtDesk, World

\* The paper under the writer's hands: it is fenced off, and has no receipt.
LEMMA PaperMoves ==
    ASSUME ReportAssumption, ReportInv, NEW p \in Papers, desk' = [desk EXCEPT !.paper = p], ~Marked, desk.fence,
           UNCHANGED <<github, account, watcher, prose, shelf, gates, verdict>>, sheet' \in SheetType, Placed'
    PROVE  ReportInv'
  <1>1. ReportsTyped /\ desk \in DeskType
    BY DEF ReportInv, ReportsTyped
  <1>2. desk' \in DeskType /\ desk'.receipt = desk.receipt /\ desk'.fence
    BY <1>1 DEF DeskType
  <1>3. ~Marked'
    BY <1>2 DEF Marked
  <1> QED
    BY <1>1, <1>2, <1>3, DeskMoves DEF ReportsTyped

LEMMA FenceSafe == ASSUME ReportAssumption, ReportInv, BeginWriting PROVE ReportInv'
  <1> DEFINE pc == IF SameInputs THEN "plan" ELSE "clear"
  <1>1. /\ ReportsTyped /\ desk \in DeskType /\ ~Marked /\ sheet.win \in Windows /\ ~SetAside(sheet.win)
        /\ Installing /\ To(pc) /\ pc \in {"plan", "clear"} /\ pc \in Steps
    BY DEF BeginWriting, ReportInv, ReportsTyped, Placed, Fresh, Planning, Steps
  <1>2. desk' = [desk EXCEPT !.fence = TRUE]
    BY DEF BeginWriting, Fenced
  <1>3. desk' \in DeskType /\ desk'.receipt = desk.receipt /\ desk'.fence
    BY <1>1, <1>2 DEF DeskType
  <1> HIDE DEF pc
  <1>4. ~Marked'
    BY <1>1, <1>3 DEF Marked
  <1>5. ~SetAside(sheet.win)'
    BY <1>1, Moved DEF SetAside, Installing
  <1>6. Placed'
    BY <1>1, <1>3, <1>4, <1>5, Moved DEF Placed, Fresh, Planning, Ending
  <1> QED
    BY <1>1, <1>3, <1>4, <1>6, Moved, DeskMoves DEF ReportsTyped, Installing, AtDesk, World

LEMMA ClearSafe == ASSUME ReportAssumption, ReportInv, ClearStatus \/ ClearSection PROVE ReportInv'
  <1>1. /\ ReportsTyped /\ desk \in DeskType /\ ~Marked /\ sheet.win \in Windows /\ ~SetAside(sheet.win) /\ desk.fence
        /\ Installing /\ "plan" \in Steps /\ sheet.pc = "clear" /\ sheet \in SheetType /\ MaxWritings \in Nat
    BY Papered DEF ClearStatus, ClearSection, ReportInv, ReportsTyped, Placed, Fresh, Planning, Steps
  <1> DEFINE p == IF desk.paper.status # 0 THEN [desk.paper EXCEPT !.status = 0] ELSE [desk.paper EXCEPT !.section = 0]
  <1>2. desk' = [desk EXCEPT !.paper = p]
    BY <1>1 DEF ClearStatus, ClearSection, DeskType
  <1>3. p \in Papers
    BY <1>1 DEF DeskType, Papers
  <1>4. sheet' \in SheetType /\ sheet'.pc \in {"clear", "plan"} /\ sheet'.win = sheet.win
    BY <1>1, Moved DEF ClearStatus, ClearSection
  <1> HIDE DEF p
  <1>5. desk'.receipt = desk.receipt /\ desk'.fence
    BY <1>1, <1>2 DEF DeskType
  <1>6. Placed'
    BY <1>1, <1>4, <1>5 DEF Placed, Fresh, Planning, Ending, Marked, SetAside, Installing
  <1> QED
    BY <1>1, <1>2, <1>3, <1>4, <1>6, PaperMoves DEF Installing, AtDesk, World

LEMMA PlanSafe == ASSUME ReportAssumption, ReportInv, InstallPlan PROVE ReportInv'
  <1>1. /\ ReportsTyped /\ desk \in DeskType /\ ~Marked /\ sheet.win \in Windows /\ ~SetAside(sheet.win) /\ desk.fence
        /\ Installing /\ "facts" \in Steps /\ To("facts") /\ sheet \in SheetType
    BY DEF InstallPlan, ReportInv, ReportsTyped, Placed, Fresh, Planning, Steps
  <1> DEFINE p == [desk.paper EXCEPT !.win = sheet.win]
  <1>2. desk' = [desk EXCEPT !.paper = p]
    BY <1>1 DEF InstallPlan, DeskType
  <1>3. p \in Papers /\ p.win = sheet.win
    BY <1>1 DEF DeskType, Papers
  <1> HIDE DEF p
  <1>5. desk'.receipt = desk.receipt /\ desk'.fence /\ desk'.paper = p
    BY <1>1, <1>2 DEF DeskType
  <1>6. Placed'
    BY <1>1, <1>3, <1>5, Moved DEF Placed, Fresh, Planning, Ending, Marked, SetAside, Installing
  <1> QED
    BY <1>1, <1>2, <1>3, <1>6, Moved, PaperMoves DEF Installing, AtDesk, World

LEMMA FactsSafe == ASSUME ReportAssumption, ReportInv, InstallFacts PROVE ReportInv'
  <1>1. /\ ReportsTyped /\ desk \in DeskType /\ ~Marked /\ sheet.win \in Windows /\ ~SetAside(sheet.win) /\ desk.fence
        /\ AtDesk /\ UNCHANGED <<shelf, verdict>> /\ "prompt" \in Steps /\ To("prompt") /\ desk.paper.win = sheet.win
        /\ gates' \in GateType
    BY GatesTurn DEF InstallFacts, ReportInv, ReportsTyped, Placed, Fresh, Planning, Steps
  <1>2. desk' = [desk EXCEPT !.facts = sheet.win]
    BY DEF InstallFacts
  <1>3. desk' \in DeskType /\ desk'.receipt = desk.receipt /\ desk'.fence /\ desk'.paper = desk.paper
    BY <1>1, <1>2 DEF DeskType
  <1>4. ~Marked'
    BY <1>1, <1>3 DEF Marked
  <1>5. Placed'
    BY <1>1, <1>3, <1>4, Moved DEF Placed, Fresh, Planning, Ending, SetAside
  <1> QED
    BY <1>1, <1>3, <1>4, <1>5, Moved, DeskMoves DEF ReportsTyped, AtDesk, World

\* A text that was there is there after another was written.
LEMMA TextsStand ==
    ASSUME ReportAssumption, ReportsTyped, NEW w \in Windows, prose' = Append(prose, w)
    PROVE  /\ prose' \in Seq(Windows) /\ Len(prose') = Len(prose) + 1 /\ prose'[Len(prose')] = w
           /\ \A p \in Papers : OneText(p) => OneText(p)'
  <1>1. /\ prose' \in Seq(Windows) /\ Len(prose') = Len(prose) + 1 /\ prose'[Len(prose')] = w
        /\ \A i \in 1..Len(prose) : prose'[i] = prose[i]
    BY DEF ReportsTyped
  <1> QED
    BY <1>1 DEF OneText, ReportsTyped

LEMMA WrittenSafe == ASSUME ReportAssumption, ReportInv, WriterDone PROVE ReportInv'
  <1>1. /\ ReportsTyped /\ desk \in DeskType /\ ~Marked /\ sheet.win \in Windows /\ desk.fence
        /\ World /\ UNCHANGED <<shelf, gates, verdict, watcher>> /\ "section" \in Steps /\ To("section")
        /\ desk.paper.win = sheet.win /\ Len(prose) < MaxWritings /\ prose' = Append(prose, sheet.win)
        /\ Len(prose) \in Nat /\ MaxWritings \in Nat
    BY Papered DEF WriterDone, ReportInv, ReportsTyped, Placed, Fresh, Planning, Steps
  <1>2. /\ prose' \in Seq(Windows) /\ Len(prose') = Len(prose) + 1 /\ prose'[Len(prose')] = sheet.win
        /\ \A p \in Papers : OneText(p) => OneText(p)'
    BY <1>1, TextsStand
  <1> DEFINE p == [desk.paper EXCEPT !.status = Len(prose')]
  <1>3. desk' = [desk EXCEPT !.paper = p]
    BY <1>1 DEF WriterDone, DeskType
  <1>4. p \in Papers /\ p.win = sheet.win /\ p.status = Len(prose')
    BY <1>1, <1>2 DEF DeskType, Papers
  <1> HIDE DEF p
  <1>5. desk' \in DeskType /\ desk'.receipt = desk.receipt /\ desk'.fence /\ desk'.paper = p
    BY <1>1, <1>3, <1>4 DEF DeskType
  <1>6. ~Marked' /\ Filed'
    BY <1>1, <1>5 DEF Marked, Filed
  <1>7. Posted'
    BY <1>1, <1>2 DEF ReportInv, Posted, World, ReportsTyped, GitHubType
  <1>8. Placed'
    BY <1>1, <1>2, <1>4, <1>5, <1>6, Moved DEF Placed, Fresh, Planning, Ending
  <1>9. ReportsTyped'
    BY <1>1, <1>2, <1>5, Moved DEF ReportsTyped, World
  <1> QED
    BY <1>6, <1>7, <1>8, <1>9 DEF ReportInv

LEMMA SectionSafe == ASSUME ReportAssumption, ReportInv, InstallSection PROVE ReportInv'
  <1>1. /\ ReportsTyped /\ desk \in DeskType /\ ~Marked /\ desk.fence
        /\ Installing /\ "receipt" \in Steps /\ To("receipt") /\ sheet \in SheetType /\ Len(prose) \in Nat
        /\ desk.paper.status = Len(prose) /\ desk.paper.status # 0 /\ prose[desk.paper.status] = desk.paper.win
        /\ Len(prose) <= MaxWritings /\ MaxWritings \in Nat
    BY Papered DEF InstallSection, ReportInv, ReportsTyped, Placed, Fresh, Planning, Steps
  <1> DEFINE p == [desk.paper EXCEPT !.section = Len(prose)]
  <1>2. desk' = [desk EXCEPT !.paper = p]
    BY <1>1 DEF InstallSection, DeskType
  <1>3. p \in Papers /\ p.win = desk.paper.win /\ p.status = desk.paper.status /\ p.section = Len(prose)
    BY <1>1 DEF DeskType, Papers
  <1> HIDE DEF p
  <1>4. OneText(p)
    BY <1>1, <1>3 DEF OneText
  <1>5. desk'.receipt = desk.receipt /\ desk'.fence /\ desk'.paper = p
    BY <1>1, <1>2 DEF DeskType
  <1>6. Placed'
    <2>1. OneText(desk.paper)'
      BY <1>1, <1>4, <1>5 DEF OneText, Installing, AtDesk
    <2> QED
      BY <1>1, <1>5, <2>1, Moved DEF Placed, Fresh, Planning, Ending, Marked
  <1> QED
    BY <1>1, <1>2, <1>3, <1>6, Moved, PaperMoves DEF Installing, AtDesk, World

\* The text on the desk is published: whole, and under its own window.
LEMMA ApplySafe == ASSUME ReportAssumption, ReportInv, ApplyOpens \/ ApplyBranches PROVE ReportInv'
  <1>1. /\ ReportsTyped /\ desk \in DeskType /\ github \in GitHubType /\ Marked /\ desk.receipt.files = desk.paper
        /\ OneText(desk.paper) /\ desk.paper \in Papers /\ desk.paper.win \in Windows /\ "applied" \in Steps /\ To("applied")
        /\ UNCHANGED <<account, shelf, gates, verdict, watcher, prose>>
    BY MarkedText DEF ApplyOpens, ApplyBranches, ReportInv, ReportsTyped, Placed, Ending, Filed, Steps, DeskType, Installing,
       AtDesk, World
  <1> DEFINE d == [desk EXCEPT !.branches = desk.branches \cup {desk.paper.win}]
  <1>2. d \in DeskType /\ d.paper = desk.paper /\ d.receipt = desk.receipt /\ d.fence = desk.fence
    BY <1>1 DEF DeskType
  <1>3. desk' \in {desk, d}
    BY DEF ApplyOpens, ApplyBranches
  <1> HIDE DEF d
  <1>4. desk' \in DeskType /\ desk'.paper = desk.paper /\ desk'.receipt = desk.receipt /\ desk'.fence = desk.fence
    BY <1>1, <1>2, <1>3
  <1>5. Placed'
    BY <1>1, <1>4, Moved DEF Placed, Fresh, Planning, Ending, Marked
  <1>6. github' \in GitHubType /\ Posted'
    <2>1. CASE github' = github
      BY <1>1, <2>1 DEF ReportInv, Posted, OneText
    <2>2. CASE github' = Opened(desk.paper)
      <3> DEFINE g == [github EXCEPT !.open = github.open \cup {desk.paper}]
                 h == [g EXCEPT !.seen = github.seen \cup {desk.paper.win}]
      <3>1. github' = h
        BY <1>1, <2>2 DEF Opened, GitHubType
      <3>2. g \in GitHubType /\ g.seen = github.seen /\ g.open = github.open \cup {desk.paper}
        BY <1>1 DEF GitHubType
      <3> HIDE DEF g
      <3>3. h \in GitHubType /\ h.seen = github.seen \cup {desk.paper.win} /\ h.open = g.open
        BY <1>1, <3>2 DEF GitHubType
      <3> HIDE DEF h
      <3> QED
        BY <1>1, <3>1, <3>2, <3>3 DEF ReportInv, Posted, OneText
    <2> QED
      BY <2>1, <2>2 DEF ApplyOpens, ApplyBranches, Installing, AtDesk, World
  <1>7. ReportsTyped'
    BY <1>1, <1>4, <1>6, Moved DEF ReportsTyped
  <1>8. Filed'
    BY <1>1, <1>4 DEF ReportInv, Filed, Marked, OneText
  <1> QED
    BY <1>5, <1>6, <1>7, <1>8 DEF ReportInv

LEMMA ParkSafe == ASSUME ReportAssumption, ReportInv, Park PROVE ReportInv'
  <1>1. /\ ReportsTyped /\ desk \in DeskType /\ Marked /\ desk.receipt.files = desk.paper
        /\ OneText(desk.paper) /\ desk.paper \in Papers /\ "complete" \in Steps /\ To("complete")
        /\ UNCHANGED <<github, account, desk, gates, verdict, watcher, prose>> /\ shelf' = shelf \cup {desk.paper}
    BY DEF Park, ReportInv, ReportsTyped, Placed, Ending, Filed, Steps, DeskType, AtDesk, World
  <1>2. Kept(desk.paper)' /\ Marked'
    BY <1>1 DEF Kept, Marked
  <1>3. Placed'
    BY <1>1, <1>2, Moved DEF Placed, Fresh, Planning, Ending
  <1> QED
    BY <1>1, <1>2, <1>3, Moved, DeskMoves DEF ReportInv, ReportsTyped, Filed

LEMMA CompleteSafe == ASSUME ReportAssumption, ReportInv, Complete PROVE ReportInv'
  <1>1. /\ ReportsTyped /\ desk \in DeskType /\ Marked /\ desk.receipt.files = desk.paper /\ OneText(desk.paper)
        /\ Kept(desk.paper) /\ "unlink" \in Steps /\ To("unlink") /\ Installing
    BY DEF Complete, ReportInv, ReportsTyped, Placed, Ending, Filed, Steps
  <1>2. desk' = [desk EXCEPT !.done = desk.paper]
    BY DEF Complete
  <1>3. desk' \in DeskType /\ desk'.paper = desk.paper /\ desk'.receipt = desk.receipt /\ desk'.fence = desk.fence
    BY <1>1, <1>2 DEF DeskType
  <1>4. Kept(desk.paper)' /\ Marked'
    BY <1>1, <1>3 DEF Kept, Marked, Installing, AtDesk, World, Landed
  <1>5. Placed'
    BY <1>1, <1>3, <1>4, Moved DEF Placed, Fresh, Planning, Ending
  <1> QED
    BY <1>1, <1>3, <1>4, <1>5, Moved, DeskMoves DEF ReportInv, ReportsTyped, Filed, Installing, AtDesk, World

LEMMA DropSafe == ASSUME ReportAssumption, ReportInv, DropReceipt PROVE ReportInv'
  <1>1. /\ ReportsTyped /\ desk \in DeskType /\ desk' = [desk EXCEPT !.receipt = NoReceipt] /\ NoReceipt \in ReceiptType
        /\ Rest /\ AtDesk /\ gates' \in GateType /\ verdict' = "none" /\ UNCHANGED shelf
    BY GatesTurn, Papered DEF DropReceipt, ReportInv, ReportsTyped, Bust
  <1>2. desk' \in DeskType /\ desk'.paper = desk.paper /\ desk'.receipt = NoReceipt /\ desk'.fence = desk.fence
    BY <1>1 DEF DeskType
  <1>3. Placed' /\ sheet' \in SheetType
    BY <1>1, Papered, RestPlaced DEF Rest
  <1> QED
    BY <1>1, <1>2, <1>3, DeskMoves DEF ReportInv, ReportsTyped, Filed, Marked, AtDesk, World

LEMMA ReportStutters == ASSUME ReportInv, UNCHANGED pvars PROVE ReportInv'
  <1>1. ReportsTyped'
    BY DEF ReportInv, ReportsTyped, pvars
  <1>2. Filed' /\ Posted'
    BY DEF ReportInv, Filed, Posted, Marked, OneText, pvars
  <1>3. Placed'
    BY StaysPlaced DEF pvars
  <1> QED
    BY <1>1, <1>2, <1>3 DEF ReportInv

LEMMA RoundGoesOn == ASSUME ReportAssumption, ReportInv, ReportRound PROVE ReportInv'
  <1>1. CASE BeginPark \/ BeginRetained \/ BeginFresh \/ Fetched \/ FetchFails \/ Refreshed \/ Replan \/ Planned
    BY <1>1, BeginParkSafe, BeginRetainedSafe, FreshSafe, FetchedSafe, WaitSafe, ReplanSafe, PlannedSafe
  <1>2. CASE BeginWriting \/ ClearStatus \/ ClearSection \/ InstallPlan \/ InstallFacts \/ Prompted \/ LaunchWriter
    BY <1>2, FenceSafe, ClearSafe, PlanSafe, FactsSafe, PromptedSafe
  <1>3. CASE WriterDone \/ InstallSection \/ SaveReceipt \/ DeferReceipt
    BY <1>3, WrittenSafe, SectionSafe, SaveSafe, DeferSafe
  <1>4. CASE ApplyOpens \/ ApplyBranches \/ ApplyDone \/ ApplyWaits \/ ApplyFails
    BY <1>4, ApplySafe, ApplyDoneSafe, WaitSafe, ApplyFailsSafe
  <1>5. CASE Park \/ ParkRefused \/ Complete \/ DropReceipt
    BY <1>5, ParkSafe, ParkRefusedSafe, CompleteSafe, DropSafe
  <1>6. CASE \/ PeerWrites \/ LeftAlone \/ RefreshFails \/ NothingDue \/ PlanSetAside \/ DocumentationAway \/ PlanFails
             \/ DeadlineWait \/ InstallFails \/ PromptFails \/ WriterFails
    BY <1>6, RestsSafe
  <1> QED
    BY <1>1, <1>2, <1>3, <1>4, <1>5, <1>6 DEF ReportRound

LEMMA ReportGoesOn == ASSUME ReportAssumption, ReportInv, [ReportNext]_pvars PROVE ReportInv'
  BY WorldSafe, RoundGoesOn, RestsSafe, ReportStutters DEF ReportNext

LEMMA ReportMeans == ASSUME ReportAssumption, ReportInv PROVE ReportTypeOK /\ PublishedWhole
  <1>1. ReportTypeOK
    <2>1. DOMAIN prose \subseteq 1..MaxWritings
      <3>1. DOMAIN prose = 1..Len(prose) /\ Len(prose) \in Nat /\ Len(prose) <= MaxWritings /\ MaxWritings \in Nat
        BY Papered DEF ReportInv, ReportsTyped
      <3> QED
        BY <3>1
    <2> QED
      BY <2>1 DEF ReportTypeOK, ReportInv, ReportsTyped, GitHubType, DeskType, ReceiptType, GateType, SheetType
  <1>2. PublishedWhole
    BY DEF PublishedWhole, ReportInv, Posted, OneText
  <1> QED
    BY <1>1, <1>2

LEMMA PaysOnce == ASSUME ReportInv PROVE PaidOnce
  BY DEF PaidOnce, LaunchWriter, ReportInv, Placed, Fresh, Planning, SetAside

\* The receipt on the desk is exchanged only for another once its report is kept.
LEMMA DropsNothing == ASSUME ReportAssumption, ReportInv, [ReportNext]_pvars PROVE NothingDropped
  <1> SUFFICES ASSUME Marked, desk'.receipt.files # desk.receipt.files PROVE Kept(desk.receipt.files)
    BY DEF NothingDropped, Marked, Kept
  <1>1. desk' # desk /\ desk \in DeskType
    BY DEF ReportInv, ReportsTyped
  <1>2. CASE DropReceipt
    BY <1>2 DEF DropReceipt, ReportInv, Placed, Ending
  <1>3. CASE SaveReceipt
    BY <1>3 DEF SaveReceipt, ReportInv, Placed, Fresh
  <1>4. CASE BeginRetained
    <2>1. desk'.receipt = Deferred(desk.receipt)
      BY <1>1, <1>4 DEF BeginRetained, DeskType, Receipt
    <2> QED
      BY <1>1, <2>1, DeferredTyped DEF DeskType
  <1>5. CASE DeferReceipt
    <2>1. desk' = [desk EXCEPT !.receipt = Deferred(desk.receipt)]
      BY <1>1, <1>5 DEF DeferReceipt, DeskType
    <2> QED
      BY <1>1, <2>1, DeferredTyped DEF DeskType
  <1>6. CASE FetchFails \/ ApplyWaits
    <2>1. desk' = [desk EXCEPT !.receipt = WaitingFor(desk.receipt)]
      BY <1>1, <1>6 DEF FetchFails, ApplyWaits, TemporaryWait, DeskType
    <2> QED
      BY <1>1, <2>1, DeferredTyped DEF DeskType
  <1>7. CASE ParkRefused
    <2>1. desk' = [desk EXCEPT !.receipt = ParkFails(desk.receipt)]
      BY <1>1, <1>7 DEF ParkRefused, Receipt
    <2> QED
      BY <1>1, <2>1, DeferredTyped DEF DeskType
  <1>8. CASE RetryComes
    <2>1. desk' = [desk EXCEPT !.receipt = [desk.receipt EXCEPT !.waiting = FALSE]]
      BY <1>1, <1>8 DEF RetryComes, DeskType
    <2> QED
      BY <1>1, <2>1 DEF DeskType, ReceiptType
  <1>9. CASE \/ BeginWriting \/ ClearStatus \/ ClearSection \/ InstallPlan \/ InstallFacts \/ WriterDone
             \/ InstallSection \/ ApplyOpens \/ ApplyBranches \/ Complete
    <2>1. desk'.receipt = desk.receipt
      BY <1>1, <1>9 DEF BeginWriting, Fenced, ClearStatus, ClearSection, InstallPlan, InstallFacts, WriterDone, InstallSection, ApplyOpens,
         ApplyBranches, Complete, DeskType
    <2> QED
      BY <2>1
  <1>10. ReportRound => \/ DropReceipt \/ SaveReceipt \/ BeginRetained \/ DeferReceipt \/ FetchFails \/ ApplyWaits \/ ParkRefused
                        \/ BeginWriting \/ ClearStatus \/ ClearSection \/ InstallPlan \/ InstallFacts \/ WriterDone
                        \/ InstallSection \/ ApplyOpens \/ ApplyBranches \/ Complete
    BY <1>1 DEF ReportRound, PeerWrites, LeftAlone, BeginPark, BeginFresh, Fetched, Refreshed, RefreshFails, NothingDue, PlanSetAside,
       Replan, DocumentationAway, PlanFails, DeadlineWait, Planned, InstallFails, PromptFails, Prompted, LaunchWriter, WriterFails,
       ApplyDone, ApplyFails, Park, Untouched, Mechanical
  <1>11. [ReportNext]_pvars => ReportRound \/ RetryComes
    BY <1>1 DEF ReportNext, ReportWorld, ReportMerges, ReportCloses, PeerReports, SwitchAccount, DelayEnds, VerdictAges, WatchAsks,
       WatchAnswers, LookPrepared, LookCached, LookAsks, LookAnswers, ReportDies, Untouched, pvars
  <1> QED
    BY <1>2, <1>3, <1>4, <1>5, <1>6, <1>7, <1>8, <1>9, <1>10, <1>11

\* For any windows, accounts, kills and failures: what is published is one text about one window, the writer is not
\* paid again for a report that is prepared or set aside, and none of those is dropped
\* (work_units.do_progress, progress_publication.py).
THEOREM ReportIsSafe == ReportAssumption =>
    (ReportSpec => [](ReportTypeOK /\ PublishedWhole) /\ [][PaidOnce /\ NothingDropped]_pvars)
  <1> SUFFICES ASSUME ReportAssumption
               PROVE  ReportSpec => [](ReportTypeOK /\ PublishedWhole) /\ [][PaidOnce /\ NothingDropped]_pvars
    OBVIOUS
  <1>1. ReportInit => ReportInv
    BY ReportStarts
  <1>2. ReportInv /\ [ReportNext]_pvars => ReportInv'
    BY ReportGoesOn
  <1>3. ReportInv => ReportTypeOK /\ PublishedWhole
    BY ReportMeans
  <1>4. ReportInv /\ [ReportNext]_pvars => [PaidOnce /\ NothingDropped]_pvars
    BY PaysOnce, DropsNothing
  <1> QED
    BY <1>1, <1>2, <1>3, <1>4, PTL DEF ReportSpec

-----------------------------------------------------------------------------
(* A retained change. *)

\* Commits, checkouts, deltas, publications: what their fields hold.
Objects == [hist : SUBSET Nat, tree : SUBSET Nat]
Checkouts == [there : BOOLEAN, head : Nat, tree : SUBSET Nat, merging : Nat, conflict : BOOLEAN, mark : Nat, pushed : Nat]
Stages == {"none", "prepared", "ready", "applied"}
Deltas == [id : Nat, stage : Stages, expected : Nat, target : Nat, source : Nat, patch : SUBSET Nat,
           applied : SUBSET Nat, reason : BOOLEAN, paid : BOOLEAN]
Pubs == [oid : Nat, expected : Nat, tree : SUBSET Nat, sent : BOOLEAN, prior : BOOLEAN]
Views == [head : Nat, pr : {"open", "held", "closed"}]
Outcomes == {"retained", "eligible", "resuming", "verified", "publication-pending", "published", "obsolete",
             "blocked"}
Records == [state : Outcomes, attempts : Int, seen : Views, ready : BOOLEAN, integrated : Nat, merging : Nat,
            source : Nat, before : Nat, started : Nat, onDelta : Nat, content : Int, refunds : Nat,
            delta : Deltas, history : SUBSET Nat, rebuild : BOOLEAN, pub : Pubs]
Early == {"idle", "reconcile", "admit", "acquire"}
Holding == {"journal", "source", "integrate", "build", "merge", "merged", "integrated", "pay", "charge", "launch", "agent",
         "given up", "verify", "verified", "prepare", "commit", "publish"}
Late == {"push", "sent", "landed", "refused", "confirm"}
Ats == Early \cup Holding \cup Late \cup {"restore", "move", "applied"}
Invs == [at : Ats, facts : Views, why : BOOLEAN, tried : BOOLEAN, fresh : BOOLEAN, owned : BOOLEAN,
         charged : BOOLEAN, checked : SUBSET Nat, before : [tally : Int, content : Int]]
Ghosts == [dropped : SUBSET Nat, landed : SUBSET Nat, again : SUBSET Nat, confirmed : SUBSET Nat,
           revived : SUBSET Nat, known : SUBSET Nat, worked : Int]
RecTyped ==
  /\ git \in Seq(Objects) /\ remote \in Nat /\ pr \in {"open", "held", "closed"} /\ record \in Records /\ tally \in Int
  /\ checkout \in Checkouts /\ built \in Checkouts /\ inv \in Invs /\ wire \in Nat /\ ghost \in Ghosts

Oids == 1..Len(git)
Graph == \A c \in Oids : /\ c \in git[c].hist /\ git[c].hist \subseteq 1..c
                         /\ \A p \in git[c].hist : git[p].hist \subseteq git[c].hist

\* Whatever is named is a commit of the repository.
Named ==
  /\ Head0 \in Oids /\ remote \in Oids /\ wire \in Oids \cup {None}
  /\ record.integrated \in Oids \cup {None} /\ record.merging \in Oids \cup {None} /\ record.history \subseteq Oids
  /\ record.merging # None => record.source \in Oids
  /\ Delta = NoDelta \/ (Delta.id # None /\ Delta.stage # "none" /\ Delta.expected \in Oids /\ Delta.target \in Oids
                         /\ Delta.source \in Oids)
  /\ record.pub = NoPub \/ (record.pub.oid \in Oids /\ record.pub.expected \in Oids)
  /\ inv.at # "idle" => inv.facts.head \in Oids
  /\ checkout.head \in Oids \cup {None} /\ checkout.merging \in Oids \cup {None} /\ (checkout.there => checkout.head \in Oids)
  /\ built.head \in Oids \cup {None} /\ built.merging = None /\ (built.there => built.head \in Oids)
  /\ ghost.dropped \subseteq Oids

\* Where the checkout is, between its renames.
Handed ==
  /\ inv.at \in Holding \cup Late \cup {"applied"} => checkout.there
  /\ record.ready /\ Delta.stage # "ready" => checkout.there
  /\ built.there <=> Delta.stage = "ready" /\ ~(checkout.there /\ checkout.mark = Delta.id)
  /\ built.there => built.mark = Delta.id
  /\ checkout.mark <= Delta.id
  /\ Delta.stage = "prepared" => checkout.mark < Delta.id
  /\ Delta.stage = "ready" => inv.at \in Early \cup {"restore", "move", "applied"}
  /\ inv.at \in {"move", "applied"} => Delta.stage = "ready"
  /\ inv.at = "applied" => checkout.mark = Delta.id
  /\ inv.at = "build" => Delta.stage = "prepared"

\* What an invocation was charged, and what an agent was paid.
Accounted ==
  /\ tally >= 0 /\ inv.before.tally >= 0
  /\ record.attempts \in 0..3 /\ record.content \in 0..Allowance
  /\ inv.charged <=> inv.at \notin Early
  /\ inv.charged => record.attempts >= 1
  /\ inv.at = "acquire" => record.attempts <= 2
  /\ ghost.worked \in 0..record.content
  /\ inv.at = "charge" => inv.before.content = record.content /\ record.content < Allowance
  /\ inv.at \in {"launch", "agent"} => inv.before.content = record.content - 1
  /\ inv.at = "launch" => ghost.worked < record.content
  /\ inv.at = "agent" => ghost.worked >= 1

\* What is known of the publication at each step of it.
Pending ==
  LET pub == record.pub IN
  /\ ghost.landed \subseteq {pub.oid} /\ wire \in {None, pub.oid}
  /\ ~pub.sent => ghost.landed = {} /\ ghost.confirmed = {} /\ wire = None
  /\ pub.prior => pub.sent
  /\ pub.oid = None => pub = NoPub
  /\ pub # NoPub /\ ~pub.sent => inv.at \in {"idle", "publish"}
  /\ inv.at = "publish" => pub # NoPub /\ (pub.sent <=> pub.prior)
  /\ inv.at \in Late => pub.sent
  /\ inv.at \in {"push", "refused"} /\ ~pub.prior => ghost.landed = {} /\ wire = None
  /\ inv.at = "sent" /\ ~pub.prior => ghost.landed = {}
  /\ inv.at = "landed" => wire = None
  /\ inv.at \in {"pay", "charge", "launch", "agent", "given up"} => pub = NoPub
  /\ ghost.again = {}
  /\ ghost.confirmed # {} =>
       /\ ghost.confirmed = {pub.oid} /\ checkout.pushed = pub.oid /\ wire = None
       /\ inv.at \in {"idle", "reconcile", "confirm"}

\* The checkout of the commit that is published holds what was verified of it.
Faithful ==
  LET pub == record.pub IN
  /\ built.there => git[built.head].tree \subseteq built.tree
  /\ pub # NoPub /\ checkout.head = pub.oid => git[pub.oid].tree \subseteq checkout.tree
  /\ inv.at \in {"verified", "prepare", "commit"} =>
       /\ inv.checked \subseteq checkout.tree
       /\ pub # NoPub /\ checkout.head = pub.oid => git[pub.oid].tree \subseteq inv.checked
  /\ pub.sent => git[pub.oid].tree = pub.tree

Aimed == {"restore", "move", "applied"} \cup (Holding \ {"publish"})
\* What a push that may still be applied would put back is nothing the record knows of.
Recalled ==
  LET pub == record.pub IN
  /\ ghost.dropped \cap git[remote].hist = {}
  /\ wire # None \/ inv.at \in {"publish", "push"} =>
       Recorded \cap (git[pub.oid].hist \ git[pub.expected].hist) \subseteq {pub.oid}
  /\ inv.at \notin {"idle", "reconcile", "admit"} => inv.facts.pr = "open"
  /\ wire # None /\ inv.at \in {"admit", "acquire"} /\ inv.facts.pr = "open" =>
       \A x \in git[remote].hist : x \in git[pub.expected].hist \/ x > inv.facts.head
  /\ wire # None /\ inv.at \in Aimed => inv.facts.head \in git[pub.expected].hist
  /\ ghost.known = {}

RecInv == RecTyped /\ Graph /\ Named /\ Handed /\ Accounted /\ Pending /\ Faithful /\ Recalled

Grown == /\ Len(git) <= Len(git')
         /\ \A c \in Oids : git'[c] = git[c]

LEMMA Appended ==
    ASSUME git \in Seq(Objects), Graph, NEW parents \in SUBSET Oids, NEW tree \in SUBSET Nat,
           git' = Append(git, CommitOf(parents, tree))
    PROVE  /\ git' \in Seq(Objects) /\ Len(git') = Len(git) + 1 /\ NextOid \in Oids'
           /\ git'[NextOid] = CommitOf(parents, tree)
           /\ Grown /\ Graph'
  <1> DEFINE new == CommitOf(parents, tree)
  <1>0. Len(git) \in Nat /\ \A c \in Oids : git[c] \in Objects
    BY DEF Oids
  <1>1. ASSUME NEW p \in parents
        PROVE  git[p].hist \subseteq Oids /\ git[p].hist \subseteq Nat
    <2>1. p \in 1..Len(git) /\ git[p].hist \subseteq 1..p
      BY DEF Graph, Oids
    <2> QED BY <2>1, <1>0 DEF Oids
  <1> DEFINE old == UNION {git[p].hist : p \in parents}
  <1>a. old \subseteq Oids /\ old \subseteq Nat
    <2>1. ASSUME NEW x \in old
          PROVE  x \in Oids /\ x \in Nat
      <3>1. PICK p \in parents : x \in git[p].hist
        OBVIOUS
      <3> QED BY <3>1, <1>1
    <2> HIDE DEF old
    <2> QED BY <2>1
  <1>2. new \in Objects /\ new.hist = old \cup {NextOid}
    <2>1. new = [hist |-> old \cup {Len(git) + 1}, tree |-> tree]
      BY Zenon DEF CommitOf
    <2>2. old \cup {Len(git) + 1} \in SUBSET Nat
      BY <1>a, <1>0
    <2> HIDE DEF new, old
    <2> QED BY <2>1, <2>2, <1>0 DEF Objects, NextOid
  <1>3. git' = Append(git, new) /\ git' \in Seq(Objects) /\ Len(git') = Len(git) + 1
    BY <1>2, <1>0
  <1>4. git'[NextOid] = new /\ NextOid \in Oids' /\ Grown
    BY <1>3, <1>0 DEF NextOid, Oids, Grown
  <1>5. ASSUME NEW c \in Oids'
        PROVE  /\ c \in git'[c].hist /\ git'[c].hist \subseteq 1..c
               /\ \A p \in git'[c].hist : git'[p].hist \subseteq git'[c].hist
    <2>1. CASE c \in Oids
      <3>1. git'[c] = git[c] /\ git[c].hist \subseteq 1..c /\ c \in git[c].hist
        BY <2>1, <1>4 DEF Grown, Graph
      <3>2. ASSUME NEW p \in git[c].hist
            PROVE  git'[p] = git[p] /\ git[p].hist \subseteq git[c].hist
        <4>1. p \in 1..c /\ c \in 1..Len(git)
          BY <3>1, <2>1 DEF Oids
        <4> QED BY <4>1, <2>1, <1>4, <1>0 DEF Grown, Oids, Graph
      <3> QED BY <3>1, <3>2
    <2>2. CASE c = NextOid
      <3>1. git'[c].hist = old \cup {c}
        BY <2>2, <1>4, <1>2
      <3>3. c \in git'[c].hist /\ git'[c].hist \subseteq 1..c
        <4> HIDE DEF old
        <4>1. c = Len(git) + 1
          BY <2>2 DEF NextOid
        <4>2. old \subseteq 1..c
          BY <1>a, <4>1, <1>0 DEF Oids
        <4>3. c \in 1..c
          BY <4>1, <1>0
        <4> QED BY <3>1, <4>2, <4>3
      <3>4. ASSUME NEW q \in old
            PROVE  git'[q].hist \subseteq git'[c].hist
        <4>1. PICK p \in parents : q \in git[p].hist
          OBVIOUS
        <4>2. git[q].hist \subseteq git[p].hist /\ q \in Oids
          BY <4>1, <1>1 DEF Graph
        <4>3. git'[q] = git[q]
          BY <4>2, <1>4 DEF Grown
        <4> QED BY <4>2, <4>3, <3>1
      <3> HIDE DEF old
      <3> QED BY <3>1, <3>3, <3>4
    <2> QED BY <2>1, <2>2, <1>3, <1>0 DEF Oids, NextOid
  <1> QED BY <1>3, <1>4, <1>5 DEF Graph

LEMMA ObjectTypes ==
    ASSUME git \in Seq(Objects), NEW c \in Oids
    PROVE  git[c].hist \in SUBSET Nat /\ git[c].tree \in SUBSET Nat
  <1>1. git[c] \in Objects
    BY DEF Oids
  <1> QED BY <1>1 DEF Objects

LEMMA Stays ==
    ASSUME git \in Seq(Objects), Graph, UNCHANGED git
    PROVE  git' \in Seq(Objects) /\ Graph' /\ Grown
  <1>1. Graph'
    BY DEF Graph, Oids
  <1>2. Len(git) \in Nat
    OBVIOUS
  <1> QED BY <1>1, <1>2 DEF Grown

LEMMA CommitGrows ==
    ASSUME RecTyped, Graph, Named, checkout.there, git' = CommittedGit
    PROVE  /\ git' \in Seq(Objects) /\ Graph' /\ Grown
           /\ CommittedHead \in Oids' /\ git'[CommittedHead].tree = checkout.tree
           /\ CommittedHead = checkout.head \/ (CommittedHead \notin Oids /\ CommittedHead = NextOid)
           /\ ~Dirty => CommittedHead = checkout.head
  <1>1. git \in Seq(Objects) /\ checkout.tree \in SUBSET Nat /\ checkout.head \in Oids
    BY DEF RecTyped, Checkouts, Named
  <1>2. CASE Dirty
    <2>1. Parents \in SUBSET Oids
      BY <1>1 DEF Parents, Named
    <2>2. git' = Append(git, CommitOf(Parents, checkout.tree)) /\ CommittedHead = NextOid
      BY <1>2 DEF CommittedGit, CommittedHead
    <2>3. /\ git' \in Seq(Objects) /\ NextOid \in Oids' /\ Grown /\ Graph'
          /\ git'[NextOid] = CommitOf(Parents, checkout.tree)
      BY <2>1, <2>2, <1>1, Appended
    <2>4. git'[NextOid].tree = checkout.tree
      BY <2>3 DEF CommitOf
    <2>5. NextOid \notin Oids
      BY <1>1 DEF NextOid, Oids
    <2> QED BY <2>2, <2>3, <2>4, <2>5, <1>2
  <1>3. CASE ~Dirty
    <2>1. UNCHANGED git /\ CommittedHead = checkout.head /\ checkout.tree = git[checkout.head].tree
      BY <1>3 DEF CommittedGit, CommittedHead, Dirty
    <2>2. Oids' = Oids
      BY <2>1 DEF Oids
    <2> QED BY <2>1, <2>2, <1>1, Stays
  <1> QED BY <1>2, <1>3

GitGrew == git' \in Seq(Objects) /\ Graph' /\ Grown

\* Nothing that is committed is lost or rewritten.
LEMMA GitGrows == RecInv /\ RecoveryNext => GitGrew
  <1> SUFFICES ASSUME RecInv, RecoveryNext
               PROVE  GitGrew
    OBVIOUS
  <1>1. RecTyped /\ Graph /\ Named /\ Handed /\ git \in Seq(Objects)
    BY DEF RecInv, RecTyped
  <1>2. CASE UNCHANGED git
    BY <1>1, <1>2, Stays DEF GitGrew
  <1>3. CASE OtherPushes
    <2>1. PICK parent \in git[remote].hist, extra \in {{}, {Saved}} :
            git' = Append(git, CommitOf({parent}, git[parent].tree \cup {NextOid} \cup extra))
      BY <1>3 DEF OtherPushes
    <2>2. git[remote].hist \subseteq 1..remote /\ remote \in 1..Len(git) /\ Len(git) \in Nat
      BY <1>1 DEF Graph, Named, Oids
    <2>3. parent \in Oids
      BY <2>2 DEF Oids
    <2>4. git[parent].tree \cup {NextOid} \cup extra \in SUBSET Nat
      <3>1. git[parent].tree \in SUBSET Nat /\ NextOid \in Nat /\ extra \in SUBSET Nat
        BY <2>3, <2>2, <1>1, ObjectTypes DEF NextOid, Saved
      <3> QED BY <3>1
    <2> QED BY <2>1, <2>3, <2>4, <1>1, Appended DEF GitGrew
  <1>4. CASE git' = CommittedGit /\ checkout.there
    BY <1>4, <1>1, CommitGrows DEF GitGrew
  <1>5. CASE Merges
    <2> DEFINE tree == checkout.tree \cup git[Target].tree
    <2>1. UNCHANGED git \/ git' = Append(git, CommitOf({checkout.head, Target}, tree))
      BY <1>5 DEF Merges
    <2>2. checkout.head \in Oids /\ Target \in Oids
      BY <1>5, <1>1 DEF Merges, Named, Handed, Holding, Target
    <2>3. checkout.tree \in SUBSET Nat /\ git[Target].tree \in SUBSET Nat
      BY <2>2, <1>1, ObjectTypes DEF RecTyped, Checkouts
    <2>4. {checkout.head, Target} \in SUBSET Oids /\ tree \in SUBSET Nat
      BY <2>2, <2>3
    <2> HIDE DEF tree
    <2> QED BY <2>1, <2>4, <1>1, <1>2, Appended DEF GitGrew
  <1>6. CASE AgentWorks
    <2>1. CASE AgentEdits
      BY <2>1, <1>2 DEF AgentEdits
    <2>2. CASE AgentCommits
      BY <2>2, <1>4, <1>6, <1>1 DEF AgentCommits, AgentWorks, Handed, Holding
    <2>3. CASE AgentImports
      <3>1. PICK past \in Pinned \ git[checkout.head].hist :
              git' = Append(git, CommitOf(Parents \cup {past}, checkout.tree))
        BY <2>3 DEF AgentImports
      <3>2. past \in Oids
        BY <3>1, <1>1 DEF Pinned, Past, Named, NoDelta
      <3>3. Parents \in SUBSET Oids
        BY <1>6, <1>1 DEF Parents, Named, Handed, Holding, AgentWorks
      <3>4. checkout.tree \in SUBSET Nat
        BY <1>1 DEF RecTyped, Checkouts
      <3> QED BY <3>1, <3>2, <3>3, <3>4, <1>1, Appended DEF GitGrew
    <2> QED BY <2>1, <2>2, <2>3, <1>6 DEF AgentWorks
  <1>7. CASE Integrates
    <2>1. checkout.there
      BY <1>7, <1>1 DEF Integrates, Handed, Holding
    <2>2. UNCHANGED git \/ git' = CommittedGit
      BY <1>7 DEF Integrates, RebuildsDelta, ResumesDelta, AsksForDelta, AsksForMerge, LeavesMerge,
                  Interrupted, CutsDelta, UpToDate, OwnsMerge
    <2> QED BY <2>1, <2>2, <1>2, <1>4
  <1>8. CASE Commits
    <2>1. checkout.there
      BY <1>8, <1>1 DEF Commits, Handed, Holding
    <2>2. UNCHANGED git \/ git' = CommittedGit
      BY <1>8 DEF Commits
    <2> QED BY <2>1, <2>2, <1>2, <1>4
  <1>9. CASE RecoveryProgress
    BY <1>9, <1>2, <1>5, <1>6, <1>7, <1>8
       DEF RecoveryProgress, Look, Reconcile, Admits, Acquires, Restores, RestoreRecorded, DeltaMoves, DeltaApplied,
           ChecksSource, BuildsDelta, MergeRecorded, Integrated, Pays, Charges, Launches, GivesUp,
           Verifies, Verified, Prepared, Publishes, Sends, Lands, Answered, Confirms, disk
  <1>10. CASE RecoveryUpsets
    BY <1>10, <1>2, <1>3
       DEF RecoveryUpsets, OtherRestores, OtherDecides, Killed, Trips, ClaimLost, Strays, NotLaunched,
           AgentFails, ProviderFails, AnswerLost, disk
  <1> QED BY <1>9, <1>10 DEF RecoveryNext

\* The fields of a record that a round's end leaves alone.
PlanKept(j) ==
  /\ record'.delta = j.delta /\ record'.history = j.history /\ record'.integrated = j.integrated
  /\ record'.merging = j.merging /\ record'.source = j.source /\ record'.ready = j.ready

RoundEnds(j) ==
  /\ inv' = NoInv /\ record' \in Records /\ PlanKept(j) /\ record'.content = j.content
  /\ record'.pub \in {j.pub, KeptPub(j.pub)} /\ record'.attempts \in 0..3

LEMMA KeptPubType == \A p \in Pubs : KeptPub(p) \in Pubs
  BY DEF KeptPub, NoPub, Pubs, None

LEMMA SettlesEnds ==
    ASSUME NEW j \in Records, NEW state \in Outcomes, Settles(j, state),
           j.attempts \in 0..3, inv.charged => j.attempts >= 1
    PROVE  RoundEnds(j) /\ record'.pub = KeptPub(j.pub)
  <1> DEFINE kept == KeptPub(j.pub)
             left == IF inv.charged THEN j.attempts - 1 ELSE j.attempts
  <1>1. kept \in Pubs /\ left \in 0..3 /\ left \in Int
    BY KeptPubType DEF Records
  <1>2. record' = [j EXCEPT !.state = state, !.pub = kept, !.attempts = left] /\ inv' = NoInv
    BY DEF Settles
  <1> HIDE DEF kept, left
  <1>3. record' \in Records /\ PlanKept(j) /\ record'.content = j.content /\ record'.pub = kept /\ record'.attempts = left
    BY <1>1, <1>2 DEF Records, PlanKept
  <1> QED BY <1>1, <1>2, <1>3 DEF RoundEnds, kept

LEMMA StopsEnds ==
    ASSUME RecInv, NEW state \in Outcomes, Stops(state)
    PROVE  RoundEnds(record) /\ record'.pub = KeptPub(record.pub)
  <1> record \in Records /\ record.attempts \in 0..3 /\ (inv.charged => record.attempts >= 1)
    BY DEF RecInv, RecTyped, Accounted
  <1> QED BY SettlesEnds DEF Stops

LEMMA FailsEnds ==
    ASSUME RecInv, FailsRound
    PROVE  RoundEnds(record)
  <1> DEFINE kept == KeptPub(record.pub)
             left == IF inv.charged \/ record.attempts = 3 THEN record.attempts ELSE record.attempts + 1
  <1>0. record \in Records /\ record.attempts \in 0..3
    BY DEF RecInv, RecTyped, Accounted
  <1>1. kept \in Pubs /\ left \in 0..3 /\ left \in Int
    BY <1>0, KeptPubType DEF Records
  <1>2. record' = [record EXCEPT !.state = "eligible", !.pub = kept, !.attempts = left] /\ inv' = NoInv
    BY DEF FailsRound
  <1> HIDE DEF kept, left
  <1>3. /\ record' \in Records /\ PlanKept(record) /\ record'.content = record.content
        /\ record'.pub = kept /\ record'.attempts = left
    BY <1>0, <1>1, <1>2 DEF Records, PlanKept, Outcomes
  <1> QED BY <1>1, <1>2, <1>3 DEF RoundEnds, kept

NothingMoved == UNCHANGED <<git, remote, wire, ghost, checkout, built, tally>>

\* A round may end at every step.
LEMMA EndsKeep ==
    ASSUME RecInv, RoundEnds(record), NothingMoved, pr' \in {"open", "held", "closed"}
    PROVE  RecInv'
  <1> USE DEF RecInv, NothingMoved
  <1>0. inv'.at = "idle" /\ inv'.charged = FALSE /\ inv'.before = [tally |-> 0, content |-> 0] /\ inv' \in Invs
    BY DEF RoundEnds, NoInv, NoFacts, None, Invs, Ats, Early, Views
  <1>1. RecTyped'
    BY <1>0 DEF RecTyped, RoundEnds
  <1>2. Graph'
    BY DEF Graph, Oids
  <1>3. Named'
    BY <1>0 DEF Named, RoundEnds, PlanKept, KeptPub, Oids, Delta
  <1>4. Handed'
    BY <1>0 DEF Handed, RoundEnds, PlanKept, Delta, Early, Holding, Late
  <1>5. Accounted'
    BY <1>0 DEF Accounted, RoundEnds, Early
  <1>a. record'.pub = record.pub \/ (record'.pub = NoPub /\ ~record.pub.sent)
    BY DEF RoundEnds, KeptPub
  <1>b. NoPub.oid = None /\ NoPub.sent = FALSE /\ NoPub.prior = FALSE
    BY DEF NoPub
  <1>6. Pending'
    <2>1. CASE record'.pub = record.pub
      BY <1>0, <2>1 DEF Pending, Late
    <2>2. CASE record'.pub = NoPub /\ ~record.pub.sent
      BY <1>0, <1>b, <2>2 DEF Pending, Late
    <2> QED BY <1>a, <2>1, <2>2
  <1>7. Faithful'
    <2>1. CASE record'.pub = record.pub
      BY <1>0, <2>1 DEF Faithful
    <2>2. CASE record'.pub = NoPub /\ ~record.pub.sent
      BY <1>0, <1>b, <2>2 DEF Faithful
    <2> QED BY <1>a, <2>1, <2>2
  <1>8. Recalled'
    BY <1>0 DEF Recalled, RoundEnds, KeptPub, NoPub, Recorded, Past, Delta, PlanKept, Aimed, Holding, Pending
  <1> QED BY <1>1, <1>2, <1>3, <1>4, <1>5, <1>6, <1>7, <1>8

Moves(way) ==
  /\ inv' \in Invs /\ inv'.at = way /\ inv'.facts = inv.facts /\ inv'.charged = inv.charged
  /\ inv'.before = inv.before /\ inv'.checked = inv.checked
  /\ record' \in Records /\ PlanKept(record) /\ record'.pub = record.pub /\ record'.content = record.content
  /\ record'.attempts = record.attempts

LEMMA GoesMoves ==
    ASSUME RecTyped, NEW way \in Ats, NEW w \in BOOLEAN, UNCHANGED record,
           Goes(way) \/ inv' = [inv EXCEPT !.at = way, !.why = w]
    PROVE  Moves(way)
  BY DEF RecTyped, Goes, Invs, Moves, PlanKept

\* The steps that only go on, and what each of them has looked at.
Ways(way) ==
  \/ way = inv.at
  \/ /\ inv.at = "reconcile" /\ way = "admit"
     /\ \/ record.pub = NoPub
        \/ /\ checkout.pushed # record.pub.oid
           /\ remote = record.pub.expected \/ inv.facts.pr # "open"
  \/ inv.at = "restore" /\ way = "move" /\ Delta.stage = "ready"
  \/ inv.at = "restore" /\ way = "source" /\ Delta.stage # "ready" /\ record.ready
  \/ inv.at = "move" /\ way = "applied" /\ checkout.there /\ checkout.mark = Delta.id
  \/ inv.at = "source" /\ way = "integrate"
  \/ inv.at = "integrate" /\ way = "integrated"
  \/ inv.at = "integrate" /\ way = "build" /\ Delta.stage = "prepared"
  \/ inv.at = "integrated" /\ way = "verify"
  \/ inv.at \in {"integrated", "verify"} /\ way = "pay" /\ record.pub = NoPub
  \/ inv.at = "verified" /\ way = "prepare"
  \/ inv.at = "prepare" /\ way = "commit"

LEMMA MovesKeep ==
    ASSUME RecInv, NEW way, Moves(way), Ways(way), NothingMoved, pr' \in {"open", "held", "closed"}
    PROVE  RecInv'
  <1> USE DEF RecInv, NothingMoved
  <1>1. RecTyped'
    BY DEF RecTyped, Moves
  <1>2. Graph'
    BY DEF Graph, Oids
  <1>3. Named'
    BY DEF Named, Moves, Ways, PlanKept, Oids, Delta
  <1>4. Handed'
    BY DEF Handed, Moves, Ways, PlanKept, Delta, Early, Holding, Late
  <1>5. Accounted'
    BY DEF Accounted, Moves, Ways, Early
  <1>a. NoPub.oid = None /\ NoPub.sent = FALSE /\ NoPub.prior = FALSE
    BY DEF NoPub
  <1>6. Pending'
    BY <1>a DEF Pending, Moves, Ways, Late
  <1>7. Faithful'
    BY DEF Faithful, Moves, Ways
  <1>b. Recorded' = Recorded
    BY DEF Recorded, Past, Delta, Moves, PlanKept
  <1>c. record.pub = NoPub => wire = None
    BY <1>a DEF Pending
  <1>8. Recalled'
    BY <1>b, <1>c DEF Recalled, Moves, Ways, Aimed, Holding
  <1> QED BY <1>1, <1>2, <1>3, <1>4, <1>5, <1>6, <1>7, <1>8

\* A round looks at the target, and discards a publication that was not started.
LEMMA LookKeeps == RecInv /\ Look => RecInv'
  <1> SUFFICES ASSUME RecInv, Look
               PROVE  RecInv'
    OBVIOUS
  <1> USE DEF RecInv
  <1>a. record.pub \in Pubs /\ KeptPub(record.pub) \in Pubs
    BY KeptPubType DEF RecTyped, Records
  <1>f. NoInv \in Invs /\ Facts \in Views
    BY DEF NoInv, NoFacts, None, Invs, Ats, Early, Views, Facts, RecTyped
  <1>0. /\ inv' \in Invs /\ inv'.at = "reconcile" /\ inv'.charged = FALSE /\ inv'.facts.head = remote
        /\ inv'.before = [tally |-> 0, content |-> 0]
        /\ UNCHANGED <<git, remote, wire, ghost, checkout, built, tally, pr>> /\ inv.at = "idle"
    <2>1. inv' = [NoInv EXCEPT !.at = "reconcile", !.facts = Facts]
      BY DEF Look
    <2>2. NoInv.charged = FALSE /\ NoInv.before = [tally |-> 0, content |-> 0] /\ Facts.head = remote
      BY DEF NoInv, Facts
    <2> QED BY <1>f, <2>1, <2>2 DEF Look, Invs, Ats, Early, outside, disk
  <1>b. record' = [record EXCEPT !.pub = KeptPub(record.pub)] /\ record \in Records
    BY DEF Look, RecTyped
  <1>c. /\ record' \in Records /\ PlanKept(record) /\ record'.content = record.content
        /\ record'.attempts = record.attempts /\ record'.pub = KeptPub(record.pub)
    BY <1>a, <1>b DEF Records, PlanKept
  <1>d. \/ record'.pub = record.pub /\ (record.pub = NoPub \/ record.pub.sent)
        \/ record'.pub = NoPub /\ ~record.pub.sent
    BY <1>c DEF KeptPub, Pending
  <1>e. NoPub.oid = None /\ NoPub.sent = FALSE /\ NoPub.prior = FALSE
    BY DEF NoPub
  <1>1. RecTyped'
    BY <1>0, <1>c DEF RecTyped
  <1>2. Graph'
    BY <1>0 DEF Graph, Oids
  <1>3. Named'
    BY <1>0, <1>c, <1>d DEF Named, PlanKept, Oids, Delta
  <1>4. Handed'
    BY <1>0, <1>c DEF Handed, PlanKept, Delta, Early, Holding, Late
  <1>5. Accounted'
    BY <1>0, <1>c DEF Accounted, Early
  <1>6. Pending'
    BY <1>0, <1>d, <1>e DEF Pending, Late
  <1>7. Faithful'
    BY <1>0, <1>d, <1>e DEF Faithful
  <1>8. Recalled'
    BY <1>0, <1>c, <1>d, <1>e DEF Recalled, Recorded, Past, Delta, PlanKept, Aimed, Holding, Pending
  <1> QED BY <1>1, <1>2, <1>3, <1>4, <1>5, <1>6, <1>7, <1>8

LEMMA EmptyPub == NoPub.oid = None /\ NoPub.sent = FALSE /\ NoPub.prior = FALSE
  BY DEF NoPub

LEMMA SameRecordEnds ==
    ASSUME RecInv, NEW s \in Outcomes, inv' = NoInv, record' = record \/ record' = [record EXCEPT !.state = s]
    PROVE  RoundEnds(record)
  BY DEF RecInv, RecTyped, Records, Accounted, RoundEnds, PlanKept

LEMMA UpsetKeeps == RecInv /\ (OtherDecides \/ Killed \/ Trips \/ ClaimLost \/ AnswerLost) => RecInv'
  <1> SUFFICES ASSUME RecInv, OtherDecides \/ Killed \/ Trips \/ ClaimLost \/ AnswerLost
               PROVE  RecInv'
    OBVIOUS
  <1>0. RecTyped /\ pr \in {"open", "held", "closed"} /\ "eligible" \in Outcomes /\ inv.at \in Ats
    BY DEF RecInv, RecTyped, Outcomes, Invs
  <1>1. CASE OtherDecides
    <2>1. Moves(inv.at)
      BY <1>1, <1>0 DEF OtherDecides, RecTyped, Invs, Moves, PlanKept
    <2> QED BY <1>1, <1>0, <2>1, MovesKeep DEF OtherDecides, Ways, NothingMoved
  <1>2. CASE Killed
    BY <1>2, <1>0, SameRecordEnds, EndsKeep DEF Killed, NothingMoved
  <1>3. CASE Trips
    BY <1>3, <1>0, FailsEnds, EndsKeep DEF Trips, NothingMoved, outside, disk
  <1>4. CASE ClaimLost
    <2>1. Moves(inv.at)
      BY <1>4, <1>0 DEF ClaimLost, RecTyped, Invs, Moves, PlanKept
    <2> QED BY <1>4, <1>0, <2>1, MovesKeep DEF ClaimLost, Ways, NothingMoved, outside, disk
  <1>5. CASE AnswerLost
    <2>1. RoundEnds(record)
      BY <1>5, <1>0, SameRecordEnds DEF AnswerLost
    <2> QED BY <1>5, <1>0, <2>1, EndsKeep DEF AnswerLost, NothingMoved, outside, disk
  <1> QED BY <1>1, <1>2, <1>3, <1>4, <1>5

LEMMA ReconcileKeeps == RecInv /\ Reconcile => RecInv'
  <1> SUFFICES ASSUME RecInv, Reconcile
               PROVE  RecInv'
    OBVIOUS
  <1>0. RecTyped /\ pr \in {"open", "held", "closed"} /\ {"obsolete", "published"} \subseteq Outcomes /\ "admit" \in Ats
        /\ inv.at = "reconcile" /\ NothingMoved /\ pr' = pr
    BY DEF RecInv, RecTyped, Outcomes, Ats, Early, Reconcile, NothingMoved, outside, disk
  <1>1. CASE Goes("admit") /\ UNCHANGED record
    <2>1. \/ record.pub = NoPub
          \/ /\ checkout.pushed # record.pub.oid
             /\ remote = record.pub.expected \/ inv.facts.pr # "open"
      BY <1>1, <1>0 DEF Reconcile, Superseded, Stops, Settles, Goes, NoInv, RecTyped, Invs
    <2>2. Moves("admit")
      BY <1>1, <1>0, GoesMoves
    <2> QED BY <2>1, <2>2, <1>0, MovesKeep DEF Ways
  <1>2. CASE inv' = NoInv /\ record' = [record EXCEPT !.state = "published"]
    BY <1>2, <1>0, SameRecordEnds, EndsKeep
  <1>3. CASE Stops("obsolete")
    BY <1>3, <1>0, StopsEnds, EndsKeep
  <1> QED BY <1>1, <1>2, <1>3 DEF Reconcile

LEMMA SeenType ==
    ASSUME RecInv, inv.at = "admit"
    PROVE  /\ Seen \in Records /\ Seen.attempts \in 0..3 /\ Seen.content = record.content /\ Seen.pub = record.pub
           /\ Seen.delta = record.delta /\ Seen.history = record.history /\ Seen.integrated = record.integrated
           /\ Seen.merging = record.merging /\ Seen.source = record.source /\ Seen.ready = record.ready
  <1> DEFINE now == inv.facts
  <1>1. record \in Records /\ now \in Views /\ record.attempts \in 0..3 /\ "eligible" \in Outcomes
    BY DEF RecInv, RecTyped, Invs, Accounted, Outcomes
  <1>2. Seen = record \/ Seen = [record EXCEPT !.seen = now, !.attempts = 0, !.state = "eligible"]
    BY DEF Seen
  <1> HIDE DEF now
  <1>3. CASE Seen = record
    BY <1>1, <1>3
  <1>4. CASE Seen = [record EXCEPT !.seen = now, !.attempts = 0, !.state = "eligible"]
    <2> DEFINE z == 0
               e == "eligible"
    <2>1. z \in Int /\ z \in 0..3 /\ e \in Outcomes /\ Seen = [record EXCEPT !.seen = now, !.attempts = z, !.state = e]
      BY <1>1, <1>4
    <2> HIDE DEF z, e
    <2> QED BY <1>1, <2>1 DEF Records
  <1> QED BY <1>2, <1>3, <1>4

LEMMA AdmitsKeeps == RecInv /\ Admits => RecInv'
  <1> SUFFICES ASSUME RecInv, Admits
               PROVE  RecInv'
    OBVIOUS
  <1>0. RecTyped /\ pr' \in {"open", "held", "closed"} /\ inv.at = "admit" /\ NothingMoved /\ pr' = pr
    BY DEF RecInv, RecTyped, Admits, NothingMoved, outside, disk
  <1>1. CASE Policy(inv.facts) # "open" /\ Settles(Seen, Policy(inv.facts))
    <2>1. Policy(inv.facts) \in Outcomes
      BY <1>1 DEF Policy, Outcomes
    <2>2. ~inv.charged
      BY <1>0 DEF RecInv, Accounted, Early
    <2>3. RoundEnds(Seen)
      BY <2>1, <2>2, <1>0, <1>1, SeenType, SettlesEnds
    <2>4. RoundEnds(record)
      BY <2>3, <1>0, SeenType DEF RoundEnds, PlanKept
    <2> QED BY <2>4, <1>0, EndsKeep
  <1>2. CASE /\ Policy(inv.facts) = "open" /\ Goes("acquire")
             /\ record' = [Seen EXCEPT !.attempts = IF @ = 3 THEN 0 ELSE @]
    <2> DEFINE tries == IF Seen.attempts = 3 THEN 0 ELSE Seen.attempts
    <2>0. Seen.attempts \in 0..3
      BY <1>0, SeenType
    <2>1. tries \in 0..2 /\ tries \in Int /\ record' = [Seen EXCEPT !.attempts = tries]
      BY <1>2, <2>0
    <2> HIDE DEF tries
    <2>2. /\ record' \in Records /\ record'.attempts \in 0..2 /\ PlanKept(record)
          /\ record'.content = record.content /\ record'.pub = record.pub
      BY <2>1, <1>0, SeenType DEF Records, PlanKept
    <2>3. inv.facts.pr = "open"
      BY <1>2, <1>0 DEF Policy, RecTyped, Invs, Views
    <2>4. /\ inv' \in Invs /\ inv'.at = "acquire" /\ inv'.facts = inv.facts /\ inv'.charged = inv.charged
          /\ inv'.before = inv.before
      BY <1>2, <1>0 DEF Goes, RecTyped, Invs, Ats, Early
    <2> USE DEF RecInv, NothingMoved
    <2>5. RecTyped' /\ Graph'
      BY <1>0, <2>2, <2>4 DEF RecTyped, Graph, Oids
    <2>6. Named'
      BY <1>0, <2>2, <2>4 DEF Named, PlanKept, Oids, Delta
    <2>7. Handed'
      BY <1>0, <2>2, <2>4 DEF Handed, PlanKept, Delta, Early, Holding, Late
    <2>8. Accounted'
      BY <1>0, <2>2, <2>4 DEF Accounted, Early
    <2>9. Pending'
      BY <1>0, <2>2, <2>4, EmptyPub DEF Pending, Late
    <2>10. Faithful'
      BY <1>0, <2>2, <2>4 DEF Faithful
    <2>11. Recorded' = Recorded
      BY <2>2 DEF Recorded, Past, Delta, PlanKept
    <2>12. Recalled'
      BY <1>0, <2>2, <2>3, <2>4, <2>11 DEF Recalled, Aimed, Holding
    <2> QED BY <2>5, <2>6, <2>7, <2>8, <2>9, <2>10, <2>12
  <1> QED BY <1>1, <1>2 DEF Admits

LEMMA AcquiresKeeps == RecInv /\ Acquires => RecInv'
  <1> SUFFICES ASSUME RecInv, Acquires
               PROVE  RecInv'
    OBVIOUS
  <1>0. RecTyped /\ pr' \in {"open", "held", "closed"} /\ inv.at = "acquire" /\ NothingMoved /\ pr' = pr
    BY DEF RecInv, RecTyped, Acquires, NothingMoved, outside, disk
  <1>1. CASE \E s \in Outcomes : Stops(s)
    BY <1>1, <1>0, StopsEnds, EndsKeep
  <1>2. CASE /\ Facts = inv.facts
             /\ inv' = [inv EXCEPT !.at = "restore", !.owned = TRUE, !.charged = TRUE]
             /\ record' = [record EXCEPT !.state = "resuming", !.attempts = @ + 1]
    <2> DEFINE tries == record.attempts + 1
               s == "resuming"
    <2>0. record.attempts \in 0..2 /\ record \in Records
      BY <1>0 DEF RecInv, RecTyped, Accounted
    <2>1. tries \in 1..3 /\ tries \in Int /\ s \in Outcomes /\ record' = [record EXCEPT !.state = s, !.attempts = tries]
      BY <2>0, <1>2 DEF Outcomes
    <2> HIDE DEF tries, s
    <2>2. /\ record' \in Records /\ record'.attempts \in 1..3 /\ PlanKept(record)
          /\ record'.content = record.content /\ record'.pub = record.pub
      BY <2>0, <2>1 DEF Records, PlanKept
    <2>3. inv.facts.head = remote /\ inv.facts.pr = "open" /\ inv.facts.head \in Oids
      BY <1>2, <1>0 DEF Facts, RecInv, Recalled, Named
    <2>4. inv' \in Invs /\ inv'.at = "restore" /\ inv'.facts = inv.facts /\ inv'.charged /\ inv'.before = inv.before
      BY <1>2, <1>0 DEF RecTyped, Invs, Ats
    <2> USE DEF RecInv, NothingMoved
    <2>5. RecTyped' /\ Graph'
      BY <1>0, <2>2, <2>4 DEF RecTyped, Graph, Oids
    <2>6. Named'
      BY <1>0, <2>2, <2>4 DEF Named, PlanKept, Oids, Delta
    <2>7. Handed'
      BY <1>0, <2>2, <2>4 DEF Handed, PlanKept, Delta, Early, Holding, Late
    <2>8. Accounted'
      BY <1>0, <2>2, <2>4 DEF Accounted, Early
    <2>9. Pending'
      BY <1>0, <2>2, <2>4, EmptyPub DEF Pending, Late
    <2>10. Faithful'
      BY <1>0, <2>2, <2>4 DEF Faithful
    <2>11. Recorded' = Recorded
      BY <2>2 DEF Recorded, Past, Delta, PlanKept
    <2>12. wire # None => remote \in git[record.pub.expected].hist
      <3>1. remote \in git[remote].hist /\ remote \in Nat
        BY <1>0, <2>3 DEF Graph, RecTyped
      <3> QED BY <3>1, <1>0, <2>3 DEF Recalled
    <2>13. Recalled'
      BY <1>0, <2>2, <2>3, <2>4, <2>11, <2>12 DEF Recalled, Aimed, Holding
    <2> QED BY <2>5, <2>6, <2>7, <2>8, <2>9, <2>10, <2>13
  <1>3. CASE Facts # inv.facts /\ Stops(IF Policy(Facts) = "open" THEN "eligible" ELSE Policy(Facts))
    BY <1>1, <1>3 DEF Policy, Outcomes
  <1>4. CASE Stops("eligible")
    BY <1>1, <1>4 DEF Outcomes
  <1> QED BY <1>2, <1>3, <1>4 DEF Acquires

LEMMA RestoresKeeps == RecInv /\ (Restores \/ RestoreRecorded) => RecInv'
  <1> SUFFICES ASSUME RecInv, Restores \/ RestoreRecorded
               PROVE  RecInv'
    OBVIOUS
  <1>0. RecTyped /\ pr' \in {"open", "held", "closed"} /\ pr' = pr
    BY DEF RecInv, RecTyped, Restores, RestoreRecorded, outside, disk
  <1>1. CASE inv.at = "restore" /\ Delta.stage = "ready" /\ Goes("move") /\ UNCHANGED record /\ NothingMoved
    <2>1. Moves("move")
      BY <1>1, <1>0, GoesMoves DEF Ats
    <2> QED BY <1>1, <2>1, <1>0, MovesKeep DEF Ways
  <1>2. CASE inv.at = "restore" /\ Delta.stage # "ready" /\ record.ready /\ Goes("source") /\ UNCHANGED record /\ NothingMoved
    <2>1. Moves("source")
      BY <1>2, <1>0, GoesMoves DEF Ats, Holding
    <2> QED BY <1>2, <2>1, <1>0, MovesKeep DEF Ways
  <1>3. CASE /\ inv.at = "restore" /\ Delta.stage # "ready" /\ Goes("journal") /\ UNCHANGED record
             /\ checkout' = [NoTree EXCEPT !.there = TRUE, !.head = Head0, !.tree = git[Head0].tree \cup {Saved}]
             /\ UNCHANGED <<git, remote, wire, ghost, built, tally>>
    <2>1. Moves("journal") /\ "journal" \in Holding
      BY <1>3, <1>0, GoesMoves DEF Ats, Holding
    <2>2. Head0 \in Oids /\ git[Head0].tree \in SUBSET Nat
      BY <1>0, ObjectTypes DEF RecInv, Named, RecTyped
    <2> DEFINE tree == git[Head0].tree \cup {Saved}
    <2>3. tree \in SUBSET Nat /\ git[Head0].tree \subseteq tree
      BY <2>2 DEF Saved
    <2> HIDE DEF tree
    <2>4. checkout' = [NoTree EXCEPT !.there = TRUE, !.head = Head0, !.tree = tree]
      BY <1>3 DEF tree
    <2>5. /\ checkout' \in Checkouts /\ checkout'.there /\ checkout'.head = Head0 /\ checkout'.tree = tree
          /\ checkout'.merging = None /\ checkout'.mark = None
      BY <2>3, <2>4 DEF NoTree, Checkouts, Head0, None
    <2> USE DEF RecInv
    <2>6. RecTyped' /\ Graph'
      BY <1>0, <1>3, <2>1, <2>5 DEF RecTyped, Graph, Oids, Moves
    <2>7. Named'
      BY <1>3, <2>1, <2>2, <2>5 DEF Named, Moves, PlanKept, Oids, Delta
    <2>a. Delta.id \in Nat /\ (Delta.stage = "prepared" => Delta.id # None) /\ Delta.stage \in Stages
      BY <1>0 DEF Named, NoDelta, RecTyped, Records, Deltas, Delta
    <2>8. Handed'
      BY <1>3, <2>1, <2>5, <2>a DEF Handed, Moves, PlanKept, Delta, Early, Holding, Late, None
    <2>9. Accounted'
      BY <1>3, <2>1 DEF Accounted, Moves, Early
    <2>10. Pending'
      BY <1>3, <2>1, EmptyPub DEF Pending, Moves, Late
    <2>11. Faithful'
      BY <1>3, <2>1, <2>3, <2>5 DEF Faithful, Moves
    <2>12. Recorded' = Recorded
      BY <2>1 DEF Recorded, Past, Delta, Moves, PlanKept
    <2>13. Recalled'
      BY <1>3, <2>1, <2>12 DEF Recalled, Moves, Aimed, Holding
    <2> QED BY <2>6, <2>7, <2>8, <2>9, <2>10, <2>11, <2>13
  <1>4. CASE RestoreRecorded
    <2>0. inv.at = "journal" /\ NothingMoved /\ record \in Records /\ checkout.there
      BY <1>4, <1>0 DEF RestoreRecorded, NothingMoved, outside, disk, RecTyped, RecInv, Handed, Holding
    <2>1. record' = [record EXCEPT !.ready = TRUE]
      BY <1>4 DEF RestoreRecorded
    <2>2. /\ record' \in Records /\ record'.attempts = record.attempts /\ record'.content = record.content
          /\ record'.pub = record.pub /\ record'.delta = record.delta /\ record'.history = record.history
          /\ record'.integrated = record.integrated /\ record'.merging = record.merging
          /\ record'.source = record.source
      BY <2>0, <2>1 DEF Records
    <2>3. /\ inv' \in Invs /\ inv'.at = "source" /\ inv'.facts = inv.facts /\ inv'.charged = inv.charged
          /\ inv'.before = inv.before
      BY <1>4, <1>0 DEF RestoreRecorded, Goes, RecTyped, Invs, Ats, Holding
    <2> USE DEF RecInv, NothingMoved
    <2>6. RecTyped' /\ Graph'
      BY <1>0, <2>0, <2>2, <2>3 DEF RecTyped, Graph, Oids
    <2>7. Named'
      BY <2>0, <2>2, <2>3 DEF Named, Oids, Delta
    <2>8. Handed'
      BY <2>0, <2>2, <2>3 DEF Handed, Delta, Early, Holding, Late
    <2>9. Accounted'
      BY <2>0, <2>2, <2>3 DEF Accounted, Early
    <2>10. Pending'
      BY <2>0, <2>2, <2>3, EmptyPub DEF Pending, Late
    <2>11. Faithful'
      BY <2>0, <2>2, <2>3 DEF Faithful
    <2>12. Recorded' = Recorded
      BY <2>2 DEF Recorded, Past, Delta
    <2>13. Recalled'
      BY <2>0, <2>2, <2>3, <2>12 DEF Recalled, Aimed, Holding
    <2> QED BY <2>6, <2>7, <2>8, <2>9, <2>10, <2>11, <2>13
  <1> QED BY <1>1, <1>2, <1>3, <1>4 DEF Restores, NothingMoved, outside, Delta

LEMMA EmptyDelta == NoDelta.id = None /\ NoDelta.stage = "none" /\ NoDelta.reason = FALSE
  BY DEF NoDelta

LEMMA DeltaMovesKeeps == RecInv /\ DeltaMoves => RecInv'
  <1> SUFFICES ASSUME RecInv, DeltaMoves
               PROVE  RecInv'
    OBVIOUS
  <1>0. /\ RecTyped /\ pr' = pr /\ pr \in {"open", "held", "closed"} /\ inv.at = "move" /\ Delta.stage = "ready"
        /\ UNCHANGED <<git, remote, wire, ghost, tally, record>>
    BY DEF RecInv, RecTyped, DeltaMoves, outside, Handed
  <1>1. CASE checkout.there /\ checkout.mark = record.delta.id /\ Goes("applied") /\ UNCHANGED <<checkout, built>>
    <2>1. Moves("applied")
      BY <1>1, <1>0, GoesMoves DEF Ats
    <2> QED BY <1>1, <2>1, <1>0, MovesKeep DEF Ways, NothingMoved, Delta
  <1>a. NoTree \in Checkouts /\ NoTree.there = FALSE /\ NoTree.head = None /\ NoTree.merging = None /\ NoTree.mark = None
    BY DEF NoTree, Checkouts, None
  <1>b. /\ checkout.mark \in Nat /\ Delta.id \in Nat /\ None \notin Oids
        /\ checkout.there \in BOOLEAN /\ built.there \in BOOLEAN
    BY <1>0 DEF RecTyped, Checkouts, Records, Deltas, Delta, Oids, None
  <1>d. (built.there /\ built.mark = Delta.id) \/ (checkout.there /\ checkout.mark = Delta.id)
    BY <1>0, <1>b DEF RecInv, Handed
  <1>c. record.pub # NoPub => record.pub.oid # None
    BY DEF RecInv, Pending
  <1>2. CASE checkout.there /\ checkout.mark # record.delta.id /\ checkout' = NoTree /\ UNCHANGED <<built, inv>>
    <2> USE DEF RecInv
    <2>1. RecTyped' /\ Graph'
      BY <1>0, <1>2, <1>a DEF RecTyped, Graph, Oids
    <2>2. Named'
      BY <1>0, <1>2, <1>a DEF Named, Oids, Delta
    <2>3. Handed'
      <3>1. Delta' = Delta /\ inv'.at = "move" /\ ~checkout'.there /\ checkout'.mark = 0 /\ built' = built
        BY <1>0, <1>2, <1>a DEF Delta, None
      <3>2. built.there /\ built.mark = Delta.id
        BY <1>d, <1>2 DEF Delta
      <3> QED BY <3>1, <3>2, <1>0, <1>b DEF Handed, Early, Holding, Late
    <2>4. Accounted'
      BY <1>0, <1>2 DEF Accounted
    <2>5. Pending'
      BY <1>0, <1>2 DEF Pending
    <2>6. Faithful'
      BY <1>0, <1>2, <1>a, <1>c DEF Faithful
    <2>7. Recorded' = Recorded
      BY <1>0 DEF Recorded, Past, Delta
    <2>8. Recalled'
      BY <1>0, <1>2, <2>7 DEF Recalled
    <2> QED BY <2>1, <2>2, <2>3, <2>4, <2>5, <2>6, <2>8
  <1>3. CASE ~checkout.there /\ checkout' = built /\ built' = NoTree /\ UNCHANGED inv
    <2> USE DEF RecInv
    <2>1. RecTyped' /\ Graph'
      BY <1>0, <1>3, <1>a DEF RecTyped, Graph, Oids
    <2>2. Named'
      BY <1>0, <1>3, <1>a DEF Named, Oids, Delta
    <2>3. Handed'
      <3>1. Delta' = Delta /\ inv'.at = "move" /\ checkout' = built /\ ~built'.there
        BY <1>0, <1>3, <1>a DEF Delta
      <3>2. built.there /\ built.mark = Delta.id
        BY <1>d, <1>3
      <3> QED BY <3>1, <3>2, <1>0, <1>b DEF Handed, Early, Holding, Late
    <2>4. Accounted'
      BY <1>0, <1>3 DEF Accounted
    <2>5. Pending'
      BY <1>0, <1>3 DEF Pending
    <2>6. Faithful'
      BY <1>0, <1>3, <1>a, <1>c DEF Faithful, Handed
    <2>7. Recorded' = Recorded
      BY <1>0 DEF Recorded, Past, Delta
    <2>8. Recalled'
      BY <1>0, <1>3, <2>7 DEF Recalled
    <2> QED BY <2>1, <2>2, <2>3, <2>4, <2>5, <2>6, <2>8
  <1> QED BY <1>1, <1>2, <1>3 DEF DeltaMoves

LEMMA DeltaAppliedKeeps == RecInv /\ DeltaApplied => RecInv'
  <1> SUFFICES ASSUME RecInv, DeltaApplied
               PROVE  RecInv'
    OBVIOUS
  <1> USE DEF RecInv
  <1>0. /\ RecTyped /\ pr' = pr /\ inv.at = "applied" /\ Delta.stage = "ready" /\ NothingMoved /\ checkout.there
        /\ checkout.mark = Delta.id /\ record \in Records /\ Delta # NoDelta /\ Delta.target \in Oids
    BY EmptyDelta DEF RecTyped, DeltaApplied, outside, disk, Handed, NothingMoved, Named
  <1> DEFINE goal == record.delta.target
             done == [record.delta EXCEPT !.stage = "applied"]
  <1>a. done \in Deltas /\ goal \in Nat /\ done.id = Delta.id /\ done.expected = Delta.expected
        /\ done.target = Delta.target /\ done.source = Delta.source /\ done.stage = "applied"
    BY <1>0 DEF Records, Deltas, Stages, Delta
  <1>b. record' = [record EXCEPT !.delta = done, !.ready = TRUE, !.integrated = goal]
    BY DEF DeltaApplied
  <1> HIDE DEF goal, done
  <1>1. /\ record' \in Records /\ record'.attempts = record.attempts /\ record'.content = record.content
        /\ record'.pub = record.pub /\ record'.delta = done /\ record'.history = record.history
        /\ record'.integrated = goal /\ record'.merging = record.merging /\ record'.source = record.source
    BY <1>0, <1>a, <1>b DEF Records
  <1>2. /\ inv' \in Invs /\ inv'.at \in {"integrated", "source"} /\ inv'.facts = inv.facts
        /\ inv'.charged = inv.charged /\ inv'.before = inv.before
    <2> DEFINE why == record.delta.reason
    <2>1. why \in BOOLEAN /\ inv \in Invs
      BY <1>0 DEF RecTyped, Records, Deltas
    <2>2. inv' = [inv EXCEPT !.at = "integrated", !.why = why] \/ inv' = [inv EXCEPT !.at = "source"]
      BY DEF DeltaApplied, Goes
    <2> HIDE DEF why
    <2>3. {"integrated", "source"} \subseteq Ats
      BY DEF Ats, Holding
    <2> QED BY <2>1, <2>2, <2>3 DEF Invs
  <1>3. RecTyped' /\ Graph'
    BY <1>0, <1>1, <1>2 DEF RecTyped, Graph, Oids, NothingMoved
  <1>c. done # NoDelta /\ goal = Delta.target
    BY <1>a, EmptyDelta DEF goal, Delta
  <1>4. Named'
    BY <1>0, <1>1, <1>2, <1>a, <1>c, EmptyDelta DEF Named, Oids, Delta, NothingMoved
  <1>5. Handed'
    BY <1>0, <1>1, <1>2, <1>a DEF Handed, Delta, Early, Holding, Late, NothingMoved
  <1>6. Accounted'
    BY <1>0, <1>1, <1>2 DEF Accounted, Early, NothingMoved
  <1>7. Pending'
    BY <1>0, <1>1, <1>2, EmptyPub DEF Pending, Late, NothingMoved
  <1>8. Faithful'
    BY <1>0, <1>1, <1>2 DEF Faithful, NothingMoved
  <1>9. Recorded' \subseteq Recorded
    BY <1>0, <1>1, <1>a, <1>c DEF Recorded, Past, Delta
  <1>10. Recalled'
    BY <1>0, <1>1, <1>2, <1>9 DEF Recalled, Aimed, Holding, NothingMoved
  <1> QED BY <1>3, <1>4, <1>5, <1>6, <1>7, <1>8, <1>10

LEMMA StopKeeps ==
    ASSUME RecInv, NothingMoved, pr' = pr, \E s \in Outcomes : Stops(s)
    PROVE  RecInv'
  <1> pr \in {"open", "held", "closed"}
    BY DEF RecInv, RecTyped
  <1> QED BY StopsEnds, EndsKeep

LEMMA PolicyType == Policy(Facts) \in Outcomes \cup {"open"} /\ {"eligible", "obsolete"} \subseteq Outcomes
  BY DEF Policy, Outcomes

\* The steps that look, and go on or stop.
LEMMA ChecksKeep ==
    RecInv /\ (ChecksSource \/ Integrated \/ GivesUp \/ Verified \/ Prepared \/ Confirms) => RecInv'
  <1> SUFFICES ASSUME RecInv, ChecksSource \/ Integrated \/ GivesUp \/ Verified \/ Prepared \/ Confirms
               PROVE  RecInv'
    OBVIOUS
  <1>0. RecTyped /\ NothingMoved /\ pr' = pr /\ pr \in {"open", "held", "closed"}
    BY DEF RecInv, RecTyped, ChecksSource, Integrated, GivesUp, Verified, Prepared, Confirms, NothingMoved, outside, disk
  <1>1. CASE \E s \in Outcomes : Stops(s)
    BY <1>0, <1>1, StopKeeps
  <1>2. CASE FailsRound
    BY <1>0, <1>2, FailsEnds, EndsKeep
  <1>3. CASE inv' = NoInv /\ record' = [record EXCEPT !.state = "published"]
    <2>1. "published" \in Outcomes
      BY DEF Outcomes
    <2> QED BY <1>0, <1>3, <2>1, SameRecordEnds, EndsKeep
  <1>4. CASE \E way \in {"integrate", "pay", "verify", "prepare", "commit"} : Goes(way) /\ UNCHANGED record /\ Ways(way)
    <2>1. PICK way \in {"integrate", "pay", "verify", "prepare", "commit"} : Goes(way) /\ UNCHANGED record /\ Ways(way)
      BY <1>4
    <2>2. way \in Ats
      BY DEF Ats, Holding
    <2>3. Moves(way)
      BY <2>1, <2>2, <1>0, GoesMoves
    <2> QED BY <2>1, <2>3, <1>0, MovesKeep
  <1>5. CASE ChecksSource
    BY <1>5, <1>1, <1>4, PolicyType DEF ChecksSource, Ways
  <1>6. CASE Integrated
    BY <1>6, <1>1, <1>4, PolicyType DEF Integrated, Ways
  <1>7. CASE GivesUp
    BY <1>7, <1>1, PolicyType DEF GivesUp
  <1>8. CASE Verified
    BY <1>8, <1>1, <1>4, PolicyType DEF Verified, Unchanged, Ways
  <1>9. CASE Prepared
    BY <1>9, <1>2, <1>4 DEF Prepared, Ways
  <1>10. CASE Confirms
    BY <1>10, <1>1, <1>3, PolicyType DEF Confirms
  <1> QED BY <1>5, <1>6, <1>7, <1>8, <1>9, <1>10

LEMMA VerifiesKeeps == RecInv /\ Verifies => RecInv'
  <1> SUFFICES ASSUME RecInv, Verifies
               PROVE  RecInv'
    OBVIOUS
  <1>0. RecTyped /\ NothingMoved /\ pr' = pr /\ pr \in {"open", "held", "closed"} /\ inv.at = "verify" /\ checkout.there
    BY DEF RecInv, RecTyped, Verifies, NothingMoved, outside, disk, Handed, Holding
  <1>1. CASE Stops("eligible")
    BY <1>0, <1>1, StopKeeps, PolicyType
  <1>2. CASE Goes("pay") /\ UNCHANGED record /\ record.pub = NoPub
    <2>1. Moves("pay")
      BY <1>0, <1>2, GoesMoves DEF Ats, Holding
    <2> QED BY <2>1, <1>0, <1>2, MovesKeep DEF Ways
  <1>3. CASE inv' = [inv EXCEPT !.at = "verified", !.checked = checkout.tree] /\ record' = [record EXCEPT !.state = "verified"]
    <2> DEFINE tree == checkout.tree
    <2>1. inv \in Invs /\ tree \in SUBSET Nat /\ record \in Records
      BY <1>0 DEF RecTyped, Checkouts
    <2>2. inv' = [inv EXCEPT !.at = "verified", !.checked = tree]
      BY <1>3
    <2> HIDE DEF tree
    <2>3. /\ inv' \in Invs /\ inv'.at = "verified" /\ inv'.facts = inv.facts /\ inv'.charged = inv.charged
          /\ inv'.before = inv.before /\ inv'.checked = tree
      BY <2>1, <2>2 DEF Invs, Ats, Holding
    <2>4. /\ record' \in Records /\ PlanKept(record) /\ record'.pub = record.pub /\ record'.content = record.content
          /\ record'.attempts = record.attempts
      BY <2>1, <1>3 DEF Records, Outcomes, PlanKept
    <2> USE DEF RecInv, NothingMoved
    <2>5. RecTyped' /\ Graph'
      BY <1>0, <2>3, <2>4 DEF RecTyped, Graph, Oids
    <2>6. Named'
      BY <1>0, <2>3, <2>4 DEF Named, PlanKept, Oids, Delta
    <2>7. Handed'
      BY <1>0, <2>3, <2>4 DEF Handed, PlanKept, Delta, Early, Holding, Late
    <2>8. Accounted'
      BY <1>0, <2>3, <2>4 DEF Accounted, Early
    <2>9. Pending'
      BY <1>0, <2>3, <2>4, EmptyPub DEF Pending, Late
    <2>10. Faithful'
      BY <1>0, <2>3, <2>4 DEF Faithful, tree
    <2>11. Recorded' = Recorded
      BY <2>4 DEF Recorded, Past, Delta, PlanKept
    <2>12. Recalled'
      BY <1>0, <2>3, <2>4, <2>11 DEF Recalled, Aimed, Holding
    <2> QED BY <2>5, <2>6, <2>7, <2>8, <2>9, <2>10, <2>12
  <1> QED BY <1>1, <1>2, <1>3 DEF Verifies

LEMMA PublishesKeeps == RecInv /\ Publishes => RecInv'
  <1> SUFFICES ASSUME RecInv, Publishes
               PROVE  RecInv'
    OBVIOUS
  <1>0. /\ RecTyped /\ NothingMoved /\ pr' = pr /\ pr \in {"open", "held", "closed"} /\ inv.at = "publish" /\ checkout.there
        /\ record \in Records /\ record.pub \in Pubs
    BY DEF RecInv, RecTyped, Publishes, NothingMoved, outside, disk, Handed, Holding, Records
  <1>1. CASE (Facts # inv.facts \/ ~inv.owned) /\ Unchanged("push")
    BY <1>0, <1>1, StopKeeps, PolicyType DEF Unchanged
  <1>2. CASE FailsRound
    BY <1>0, <1>2, FailsEnds, EndsKeep
  <1>3. CASE /\ ~Dirty /\ checkout.head = record.pub.oid /\ Fingerprint = record.pub.tree
             /\ record' = [record EXCEPT !.pub.sent = TRUE] /\ Goes("push")
    <2> DEFINE sent == [record.pub EXCEPT !.sent = TRUE]
    <2>1. /\ sent \in Pubs /\ sent.oid = record.pub.oid /\ sent.expected = record.pub.expected
          /\ sent.tree = record.pub.tree /\ sent.prior = record.pub.prior /\ sent.sent
      BY <1>0 DEF Pubs
    <2>2. record' = [record EXCEPT !.pub = sent]
      BY <1>3
    <2> HIDE DEF sent
    <2>3. /\ record' \in Records /\ PlanKept(record) /\ record'.pub = sent /\ record'.content = record.content
          /\ record'.attempts = record.attempts
      BY <2>1, <2>2, <1>0 DEF Records, PlanKept
    <2>4. /\ inv' \in Invs /\ inv'.at = "push" /\ inv'.facts = inv.facts /\ inv'.charged = inv.charged
          /\ inv'.before = inv.before
      BY <1>0, <1>3 DEF Goes, RecTyped, Invs, Ats, Late
    <2>a. record.pub # NoPub /\ record.pub.oid # None
      BY <1>0 DEF RecInv, Pending
    <2> USE DEF RecInv, NothingMoved
    <2>5. RecTyped' /\ Graph'
      BY <1>0, <2>3, <2>4 DEF RecTyped, Graph, Oids
    <2>6. Named'
      BY <1>0, <2>1, <2>3, <2>4, <2>a DEF Named, PlanKept, Oids, Delta
    <2>7. Handed'
      BY <1>0, <2>3, <2>4 DEF Handed, PlanKept, Delta, Early, Holding, Late
    <2>8. Accounted'
      BY <1>0, <2>3, <2>4 DEF Accounted, Early
    <2>9. Pending'
      BY <1>0, <2>1, <2>3, <2>4, <2>a, EmptyPub DEF Pending, Late
    <2>b. git[record.pub.oid].tree = record.pub.tree
      BY <1>3 DEF Dirty, Fingerprint
    <2>10. Faithful'
      BY <1>0, <2>1, <2>3, <2>4, <2>a, <2>b DEF Faithful
    <2>11. Recorded' = Recorded
      BY <2>3 DEF Recorded, Past, Delta, PlanKept
    <2>12. Recalled'
      BY <1>0, <2>1, <2>3, <2>4, <2>11 DEF Recalled, Aimed, Holding
    <2> QED BY <2>5, <2>6, <2>7, <2>8, <2>9, <2>10, <2>12
  <1> QED BY <1>1, <1>2, <1>3 DEF Publishes

\* The checkout was worked on: it is still there, and of a commit.
Reworked ==
  /\ checkout' \in Checkouts /\ checkout'.there = checkout.there /\ checkout'.mark = checkout.mark
  /\ checkout'.pushed = checkout.pushed /\ checkout'.head \in Oids' /\ checkout'.merging \in Oids' \cup {None}
  /\ record.pub # NoPub /\ checkout'.head = record.pub.oid => git'[record.pub.oid].tree \subseteq checkout'.tree

\* The record says the same of the publication, and of what it is based on.
SamePlan(j) ==
  /\ j \in Records /\ j.history = record.history /\ j.integrated = record.integrated /\ j.ready = record.ready
  /\ j.merging \in Oids' \cup {None} /\ (j.merging # None => j.source \in Oids')
  /\ j.delta.id = Delta.id /\ j.delta.stage = Delta.stage /\ j.delta.expected = Delta.expected
  /\ j.delta.target = Delta.target /\ j.delta.source = Delta.source /\ (j.delta = NoDelta <=> Delta = NoDelta)
  /\ j.pub = record.pub /\ j.content = record.content

OutsideSame == UNCHANGED <<remote, wire, ghost, built, tally, pr>>

LEMMA OidsGrow == GitGrew /\ RecTyped => Oids \subseteq Oids' /\ \A c \in Oids : git'[c] = git[c]
  <1> SUFFICES ASSUME GitGrew, RecTyped
               PROVE  Oids \subseteq Oids' /\ \A c \in Oids : git'[c] = git[c]
    OBVIOUS
  <1>1. Len(git) \in Nat /\ Len(git') \in Nat /\ Len(git) <= Len(git')
    BY DEF GitGrew, Grown, RecTyped
  <1> QED BY <1>1 DEF GitGrew, Grown, Oids

LEMMA WorkEnds ==
    ASSUME RecInv, GitGrew, NEW j, SamePlan(j), RoundEnds(j), Reworked, OutsideSame
    PROVE  RecInv'
  <1> USE DEF RecInv, OutsideSame
  <1>0. inv'.at = "idle" /\ inv'.charged = FALSE /\ inv'.before = [tally |-> 0, content |-> 0] /\ inv' \in Invs
    BY DEF RoundEnds, NoInv, NoFacts, None, Invs, Ats, Early, Views
  <1>a. record'.pub = record.pub \/ (record'.pub = NoPub /\ ~record.pub.sent)
    BY DEF RoundEnds, KeptPub, SamePlan
  <1>b. Oids \subseteq Oids' /\ \A c \in Oids : git'[c] = git[c]
    BY OidsGrow
  <1>c. record.pub # NoPub => record.pub.oid \in Oids /\ record.pub.expected \in Oids
    BY DEF Named
  <1>1. RecTyped'
    BY <1>0 DEF RecTyped, RoundEnds, GitGrew, Reworked
  <1>2. Graph'
    BY DEF GitGrew
  <1>3. Named'
    BY <1>0, <1>a, <1>b DEF Named, RoundEnds, PlanKept, SamePlan, Reworked, Delta
  <1>4. Handed'
    BY <1>0 DEF Handed, RoundEnds, PlanKept, SamePlan, Reworked, Delta, Early, Holding, Late
  <1>5. Accounted'
    BY <1>0 DEF Accounted, RoundEnds, SamePlan, Early
  <1>6. Pending'
    <2>1. CASE record'.pub = record.pub
      BY <1>0, <2>1 DEF Pending, Late, Reworked
    <2>2. CASE record'.pub = NoPub /\ ~record.pub.sent
      BY <1>0, <2>2, EmptyPub DEF Pending, Late
    <2> QED BY <1>a, <2>1, <2>2
  <1>7. Faithful'
    <2>0. built.there => built.head \in Oids
      BY DEF Named
    <2>1. CASE record'.pub = record.pub
      BY <1>0, <2>0, <2>1, <1>b, <1>c, EmptyPub DEF Faithful, Reworked
    <2>2. CASE record'.pub = NoPub /\ ~record.pub.sent
      BY <1>0, <2>0, <2>2, <1>b, EmptyPub DEF Faithful, Reworked
    <2> QED BY <1>a, <2>1, <2>2
  <1>8. Recorded' = Recorded
    BY DEF Recorded, Past, Delta, SamePlan, RoundEnds, PlanKept
  <1>9. Recalled'
    <2>0. remote \in Oids /\ (wire # None => record.pub.sent)
      BY DEF Named, Pending
    <2>1. CASE record'.pub = record.pub
      BY <1>0, <1>8, <2>0, <2>1, <1>b, <1>c, EmptyPub DEF Recalled, Aimed, Holding
    <2>2. CASE record'.pub = NoPub /\ ~record.pub.sent
      BY <1>0, <1>8, <2>0, <2>2, <1>b, EmptyPub DEF Recalled, Aimed, Holding
    <2> QED BY <1>a, <2>1, <2>2
  <1> QED BY <1>1, <1>2, <1>3, <1>4, <1>5, <1>6, <1>7, <1>9

LEMMA WorkMoves ==
    ASSUME RecInv, GitGrew, SamePlan(record'), record'.attempts = record.attempts, Reworked, OutsideSame,
           inv' \in Invs, inv'.facts = inv.facts, inv'.charged = inv.charged, inv'.before = inv.before,
           \/ inv.at = "integrate" /\ inv'.at = "merge"
           \/ inv.at = "merge" /\ inv'.at \in {"merged", "integrated"}
           \/ inv.at = "agent" /\ inv'.at \in {"verify", "given up"}
    PROVE  RecInv'
  <1> USE DEF RecInv, OutsideSame
  <1>b. Oids \subseteq Oids' /\ \A c \in Oids : git'[c] = git[c]
    BY OidsGrow
  <1>c. record.pub # NoPub => record.pub.oid \in Oids /\ record.pub.expected \in Oids
    BY DEF Named
  <1>1. RecTyped'
    BY DEF RecTyped, SamePlan, GitGrew, Reworked
  <1>2. Graph'
    BY DEF GitGrew
  <1>3. Named'
    BY <1>b DEF Named, SamePlan, Reworked, Delta
  <1>4. Handed'
    BY DEF Handed, SamePlan, Reworked, Delta, Early, Holding, Late
  <1>5. Accounted'
    BY DEF Accounted, SamePlan, Early
  <1>6. Pending'
    BY EmptyPub DEF Pending, Late, Reworked, SamePlan
  <1>7. Faithful'
    <2>0. built.there => built.head \in Oids
      BY DEF Named
    <2> QED BY <2>0, <1>b, <1>c, EmptyPub DEF Faithful, Reworked, SamePlan
  <1>8. Recorded' = Recorded
    BY DEF Recorded, Past, Delta, SamePlan
  <1>9. Recalled'
    <2>0. remote \in Oids /\ (wire # None => record.pub.sent)
      BY DEF Named, Pending
    <2> QED BY <1>8, <2>0, <1>b, <1>c, EmptyPub DEF Recalled, Aimed, Holding, SamePlan
  <1> QED BY <1>1, <1>2, <1>3, <1>4, <1>5, <1>6, <1>7, <1>9

\* Nothing changed but the counters, and the step.
CountsChange ==
  /\ UNCHANGED <<git, remote, wire, checkout, built, pr>> /\ ghost' \in Ghosts /\ tally' \in Int
  /\ ghost'.dropped = ghost.dropped /\ ghost'.landed = ghost.landed /\ ghost'.again = ghost.again
  /\ ghost'.confirmed = ghost.confirmed /\ ghost'.known = ghost.known
  /\ record' \in Records /\ PlanKept(record) /\ record'.pub = record.pub
  /\ inv' \in Invs

LEMMA CountsKeep ==
    ASSUME RecInv, CountsChange, Accounted', inv.at \in {"pay", "charge", "launch", "agent"},
           inv' = NoInv \/ (inv'.facts = inv.facts /\ inv'.at \in {"charge", "launch", "agent"})
    PROVE  RecInv'
  <1> USE DEF RecInv, CountsChange
  <1>0. inv'.at = "idle" \/ (inv'.facts = inv.facts /\ inv'.at \in {"charge", "launch", "agent"})
    BY DEF NoInv
  <1>1. RecTyped'
    BY DEF RecTyped
  <1>2. Graph'
    BY DEF Graph, Oids
  <1>3. Named'
    BY <1>0 DEF Named, PlanKept, Oids, Delta
  <1>4. Handed'
    BY <1>0 DEF Handed, PlanKept, Delta, Early, Holding, Late
  <1>6. Pending'
    BY <1>0, EmptyPub DEF Pending, Late
  <1>7. Faithful'
    BY <1>0 DEF Faithful
  <1>8. Recorded' = Recorded
    BY DEF Recorded, Past, Delta, PlanKept
  <1>9. Recalled'
    BY <1>0, <1>8 DEF Recalled, Aimed, Holding
  <1> QED BY <1>1, <1>2, <1>3, <1>4, <1>6, <1>7, <1>9

LEMMA PaysKeeps == RecInv /\ Pays => RecInv'
  <1> SUFFICES ASSUME RecInv, Pays
               PROVE  RecInv'
    OBVIOUS
  <1>0. RecTyped /\ pr' = pr /\ inv.at = "pay" /\ UNCHANGED <<git, remote, wire, checkout, built, ghost>>
    BY DEF RecInv, RecTyped, Pays, outside, disk
  <1>1. CASE (\E s \in Outcomes : Stops(s)) /\ UNCHANGED tally
    BY <1>0, <1>1, StopKeeps DEF NothingMoved
  <1>2. CASE /\ MayPay /\ tally' = tally + 1 /\ UNCHANGED record
             /\ inv' = [inv EXCEPT !.at = "charge", !.tried = TRUE,
                          !.before = [tally |-> tally, content |-> record.content]]
    <2> DEFINE was == [tally |-> tally, content |-> record.content]
    <2>1. tally \in Int /\ inv \in Invs /\ was \in [tally : Int, content : Int] /\ record \in Records /\ ghost \in Ghosts
      BY <1>0 DEF RecTyped, Records
    <2>2. inv' = [inv EXCEPT !.at = "charge", !.tried = TRUE, !.before = was]
      BY <1>2
    <2>3. was.content = record.content /\ was.tally = tally
      OBVIOUS
    <2> HIDE DEF was
    <2>4. inv' \in Invs /\ inv'.at = "charge" /\ inv'.facts = inv.facts /\ inv'.charged = inv.charged /\ inv'.before = was
      BY <2>1, <2>2 DEF Invs, Ats, Holding
    <2>5. CountsChange
      BY <1>0, <1>2, <2>1, <2>4 DEF CountsChange, PlanKept
    <2>6. Accounted'
      BY <1>0, <1>2, <2>1, <2>3, <2>4 DEF RecInv, Accounted, MayPay, Early
    <2> QED BY <2>4, <2>5, <2>6, <1>0, CountsKeep
  <1>3. CASE ~MayPay /\ Stops("eligible") /\ UNCHANGED tally
    BY <1>1, <1>3, PolicyType
  <1>4. CASE Stops(IF Policy(Facts) = "open" THEN "eligible" ELSE Policy(Facts)) /\ UNCHANGED tally
    BY <1>1, <1>4, PolicyType
  <1> QED BY <1>2, <1>3, <1>4 DEF Pays

LEMMA ChargesKeeps == RecoveryAssumption /\ RecInv /\ (Charges \/ Launches) => RecInv'
  <1> SUFFICES ASSUME RecoveryAssumption, RecInv, Charges \/ Launches
               PROVE  RecInv'
    OBVIOUS
  <1>0. RecTyped /\ inv \in Invs /\ record \in Records /\ ghost \in Ghosts /\ tally \in Int
    BY DEF RecInv, RecTyped
  <1>1. CASE Charges
    <2> DEFINE new == record.content + 1
               on == record.delta.id
    <2>0. new \in Int /\ tally \in Nat /\ on \in Nat
      BY <1>0 DEF RecInv, Accounted, Records, Deltas
    <2>1. record' = [record EXCEPT !.content = new, !.started = tally, !.onDelta = on]
      BY <1>0, <1>1 DEF Charges, Records, Delta
    <2> HIDE DEF new, on
    <2>2. /\ record' \in Records /\ PlanKept(record) /\ record'.pub = record.pub /\ record'.content = new
          /\ record'.attempts = record.attempts
      BY <1>0, <2>0, <2>1 DEF Records, PlanKept
    <2>3. inv' \in Invs /\ inv'.at = "launch" /\ inv'.facts = inv.facts /\ inv'.charged = inv.charged /\ inv'.before = inv.before
      BY <1>0, <1>1 DEF Charges, Goes, Invs, Ats, Holding
    <2>4. CountsChange /\ inv.at = "charge" /\ ghost' = ghost /\ tally' = tally
      BY <1>0, <1>1, <2>2, <2>3 DEF Charges, CountsChange, outside, disk
    <2>5. Accounted'
      BY <1>0, <2>0, <2>2, <2>3, <2>4 DEF RecInv, Accounted, Early, new, RecoveryAssumption, Records
    <2> QED BY <2>3, <2>4, <2>5, CountsKeep
  <1>2. CASE Launches
    <2> DEFINE more == ghost.worked + 1
    <2>0. more \in Int
      BY <1>0 DEF Ghosts
    <2>1. ghost' = [ghost EXCEPT !.worked = more]
      BY <1>0, <1>2 DEF Launches, Ghosts
    <2> HIDE DEF more
    <2>2. /\ ghost' \in Ghosts /\ ghost'.dropped = ghost.dropped /\ ghost'.landed = ghost.landed
          /\ ghost'.again = ghost.again /\ ghost'.confirmed = ghost.confirmed /\ ghost'.known = ghost.known
          /\ ghost'.worked = more
      BY <1>0, <2>0, <2>1 DEF Ghosts
    <2>3. inv' \in Invs /\ inv'.at = "agent" /\ inv'.facts = inv.facts /\ inv'.charged = inv.charged /\ inv'.before = inv.before
      BY <1>0, <1>2 DEF Launches, Goes, Invs, Ats, Holding
    <2>4. CountsChange /\ inv.at = "launch" /\ record' = record /\ tally' = tally
      BY <1>0, <1>2, <2>2, <2>3 DEF Launches, CountsChange, disk, PlanKept
    <2>5. Accounted'
      BY <1>0, <2>2, <2>3, <2>4 DEF RecInv, Accounted, Early, more, Records, Ghosts
    <2> QED BY <2>3, <2>4, <2>5, CountsKeep
  <1> QED BY <1>1, <1>2

\* A round that is refused before the agent starts, and gets its content back.
RoundRefunded ==
  /\ inv.at = "launch" /\ tally' = RefundedTally /\ inv' = NoInv
  /\ \E back \in {0, 1} :
       record' = [Refunded(record) EXCEPT !.state = "eligible", !.pub = KeptPub(@), !.attempts = @ - back]
  /\ UNCHANGED <<outside, disk>>

\* What a refusal and a provider's failure give back.
LEMMA RefundsKeep ==
    ASSUME RecoveryAssumption, RecInv, RoundRefunded \/ ProviderFails
    PROVE  RecInv'
  <1>0. /\ RecTyped /\ inv \in Invs /\ record \in Records /\ ghost \in Ghosts /\ inv.at \in {"launch", "agent"}
        /\ inv.before \in [tally : Int, content : Int]
    BY DEF RecInv, RecTyped, RoundRefunded, ProviderFails, Invs
  <1>a. record.pub = NoPub /\ KeptPub(NoPub) = NoPub /\ NoPub \in Pubs
    BY <1>0, EmptyPub DEF RecInv, Pending, KeptPub, NoPub, Pubs, None
  <1>b. record.attempts \in 1..3 /\ tally \in Nat /\ inv.before.tally \in Nat /\ inv.before.content = record.content - 1
    BY <1>0 DEF RecInv, Accounted, Early, RecTyped
  <1>c. NoInv \in Invs /\ NoInv.at = "idle" /\ NoInv.charged = FALSE /\ NoInv.before = [tally |-> 0, content |-> 0]
    BY DEF NoInv, NoFacts, None, Invs, Ats, Early, Views
  <1>d. tally' \in Nat /\ inv' = NoInv /\ UNCHANGED <<git, remote, wire, checkout, built, pr>>
    BY <1>b DEF RoundRefunded, ProviderFails, RefundedTally, outside, disk
  <1> DEFINE less == inv.before.content
             again == record.refunds + 1
             s == "eligible"
             z == 0
  <1>e. less \in Int /\ again \in Nat /\ s \in Outcomes /\ z \in Nat
    BY <1>0, <1>b DEF Outcomes, Records
  <1>1. CASE RoundRefunded
    <2>0. PICK back \in {0, 1} :
            record' = [Refunded(record) EXCEPT !.state = "eligible", !.pub = KeptPub(@), !.attempts = @ - back]
      BY <1>1 DEF RoundRefunded
    <2> DEFINE tries == record.attempts - back
    <2>c. tries \in 0..3 /\ tries \in Int
      BY <1>b
    <2> DEFINE j == [record EXCEPT !.content = less, !.started = z]
    <2>a. j \in Records /\ j.pub = NoPub /\ j.attempts = record.attempts /\ j.content = less
      BY <1>0, <1>a, <1>e DEF Records
    <2>1. record' = [j EXCEPT !.state = s, !.pub = NoPub, !.attempts = tries]
      <3>1. record' = [j EXCEPT !.state = "eligible", !.pub = KeptPub(j.pub), !.attempts = j.attempts - back]
        BY <2>0 DEF Refunded
      <3> QED BY <3>1, <2>a, <1>a
    <2>b. j.delta = record.delta /\ j.history = record.history /\ j.integrated = record.integrated
          /\ j.merging = record.merging /\ j.source = record.source /\ j.ready = record.ready
      BY <1>0, <1>e DEF Records
    <2> HIDE DEF less, tries, s, z, j
    <2>2. /\ record' \in Records /\ PlanKept(j) /\ record'.pub = NoPub /\ record'.content = less /\ record'.attempts = tries
      BY <2>1, <2>a, <2>c, <1>a, <1>e DEF Records, PlanKept
    <2>3. CountsChange /\ ghost' = ghost /\ inv.at = "launch"
      BY <1>0, <1>1, <1>a, <1>c, <1>d, <2>2, <2>b DEF CountsChange, PlanKept, RoundRefunded, outside
    <2>4. Accounted'
      BY <1>0, <1>b, <1>c, <1>d, <1>e, <2>c, <2>2, <2>3 DEF RecInv, Accounted, Early, less, Ghosts, Records, RecoveryAssumption
    <2> QED BY <1>d, <2>3, <2>4, CountsKeep
  <1>2. CASE ProviderFails
    <2> DEFINE j == [record EXCEPT !.content = less, !.started = z]
               fewer == ghost.worked - 1
    <2>a. j \in Records /\ j.pub = NoPub /\ j.attempts = record.attempts /\ j.content = less /\ j.refunds = record.refunds
      BY <1>0, <1>a, <1>e DEF Records
    <2>1. record' = [j EXCEPT !.refunds = again, !.state = s, !.pub = NoPub]
      <3>1. record' = [j EXCEPT !.refunds = j.refunds + 1, !.state = "eligible", !.pub = KeptPub(j.pub)]
        BY <1>2 DEF ProviderFails, Refunded
      <3> QED BY <3>1, <2>a, <1>a
    <2>b. j.delta = record.delta /\ j.history = record.history /\ j.integrated = record.integrated
          /\ j.merging = record.merging /\ j.source = record.source /\ j.ready = record.ready
      BY <1>0, <1>e DEF Records
    <2>c. fewer \in Int /\ ghost' = [ghost EXCEPT !.worked = fewer]
      BY <1>0, <1>2 DEF Ghosts, ProviderFails
    <2> HIDE DEF less, s, z, j, again, fewer
    <2>2. /\ record' \in Records /\ PlanKept(j) /\ record'.pub = NoPub /\ record'.content = less
          /\ record'.attempts = record.attempts
      BY <2>1, <2>a, <1>a, <1>e DEF Records, PlanKept
    <2>3. /\ ghost' \in Ghosts /\ ghost'.dropped = ghost.dropped /\ ghost'.landed = ghost.landed
          /\ ghost'.again = ghost.again /\ ghost'.confirmed = ghost.confirmed /\ ghost'.known = ghost.known
          /\ ghost'.worked = fewer
      BY <1>0, <2>c DEF Ghosts
    <2>4. CountsChange /\ inv.at = "agent"
      BY <1>0, <1>2, <1>a, <1>c, <1>d, <2>2, <2>3, <2>b DEF CountsChange, PlanKept, ProviderFails
    <2>5. Accounted'
      BY <1>0, <1>b, <1>c, <1>d, <1>e, <2>2, <2>3, <2>4
         DEF RecInv, Accounted, Early, less, fewer, Ghosts, Records, RecoveryAssumption
    <2> QED BY <1>d, <2>4, <2>5, CountsKeep
  <1> QED BY <1>1, <1>2

\* A budget error gives nothing back.
LEMMA NotLaunchedKeeps ==
    ASSUME RecoveryAssumption, RecInv, NotLaunched
    PROVE  RecInv'
  <1>1. RoundRefunded \/ (Stops("eligible") /\ UNCHANGED <<tally, outside, disk>>)
    BY DEF NotLaunched, RoundRefunded
  <1>2. CASE Stops("eligible") /\ UNCHANGED <<tally, outside, disk>>
    <2>1. RoundEnds(record) /\ NothingMoved /\ pr' \in {"open", "held", "closed"}
      BY <1>2, StopsEnds DEF outside, disk, NothingMoved, RecInv, RecTyped, Outcomes
    <2> QED BY <2>1, EndsKeep
  <1> QED BY <1>1, <1>2, RefundsKeep

\* What an agent may do to the checkout, and what it finds of the publication there: nothing.
LEMMA ResolvedType ==
    ASSUME RecInv, inv.at = "agent", checkout' \in Resolutions, UNCHANGED git
    PROVE  Reworked
  <1>0. checkout \in Checkouts /\ checkout.there /\ Target \in Oids /\ git \in Seq(Objects) /\ record.pub = NoPub
    BY DEF RecInv, RecTyped, Handed, Holding, Named, Target, Pending
  <1> DEFINE tree == git[Target].tree
  <1>1. tree \in SUBSET Nat
    BY <1>0, ObjectTypes
  <1>2. checkout' \in {[checkout EXCEPT !.conflict = FALSE], checkout, [checkout EXCEPT !.conflict = FALSE, !.tree = tree]}
    BY DEF Resolutions
  <1> HIDE DEF tree
  <1>3. /\ checkout' \in Checkouts /\ checkout'.there = checkout.there /\ checkout'.mark = checkout.mark
        /\ checkout'.pushed = checkout.pushed /\ checkout'.head = checkout.head /\ checkout'.merging = checkout.merging
    BY <1>0, <1>1, <1>2 DEF Checkouts
  <1>4. Oids' = Oids /\ checkout.head \in Oids /\ checkout.merging \in Oids \cup {None}
    BY <1>0 DEF Oids, RecInv, Named
  <1> QED BY <1>0, <1>3, <1>4 DEF Reworked

LEMMA UnchangedPlan == RecInv /\ GitGrew => SamePlan(record)
  BY OidsGrow DEF RecInv, RecTyped, Named, SamePlan, Delta

LEMMA AgentFailsKeeps == RecInv /\ AgentFails => RecInv'
  <1> SUFFICES ASSUME RecInv, AgentFails
               PROVE  RecInv'
    OBVIOUS
  <1>1. RoundEnds(record)
    BY StopsEnds, PolicyType DEF AgentFails
  <1>2. UNCHANGED git /\ OutsideSame /\ Reworked
    BY ResolvedType DEF AgentFails, outside, OutsideSame
  <1>3. GitGrew
    BY <1>2, Stays DEF GitGrew, RecInv, RecTyped
  <1> QED BY <1>1, <1>2, <1>3, UnchangedPlan, WorkEnds

LEMMA CommittedType ==
    ASSUME RecInv, checkout.there, git' = CommittedGit
    PROVE  /\ GitGrew /\ Committed \in Checkouts /\ Committed.there /\ Committed.mark = checkout.mark
           /\ Committed.pushed = checkout.pushed /\ Committed.head = CommittedHead /\ CommittedHead \in Oids'
           /\ Committed.merging = None /\ Committed.tree = checkout.tree /\ Committed.conflict = checkout.conflict
  <1>1. /\ git' \in Seq(Objects) /\ Graph' /\ Grown /\ CommittedHead \in Oids'
    BY CommitGrows DEF RecInv
  <1>2. CommittedHead \in Nat /\ checkout \in Checkouts
    BY <1>1 DEF Oids, RecInv, RecTyped
  <1>3. Committed = [checkout EXCEPT !.head = CommittedHead, !.merging = None]
    BY DEF Committed
  <1> QED BY <1>1, <1>2, <1>3 DEF Checkouts, GitGrew, None

\* A delta keeps what it is of, whatever is thought of it.
LEMMA ReasonPlanned ==
    ASSUME RecInv, GitGrew, NEW asked \in BOOLEAN, NEW j, j = [record EXCEPT !.delta.reason = asked], Delta = NoDelta => ~asked
    PROVE  SamePlan(j) /\ j.attempts = record.attempts
  <1> DEFINE d == [record.delta EXCEPT !.reason = asked]
  <1>0. record \in Records /\ record.delta \in Deltas
    BY DEF RecInv, RecTyped, Records
  <1>1. d \in Deltas /\ d.id = Delta.id /\ d.stage = Delta.stage /\ d.expected = Delta.expected
        /\ d.target = Delta.target /\ d.source = Delta.source
    BY <1>0 DEF Deltas, Delta
  <1>2. d = NoDelta <=> Delta = NoDelta
    <2>1. CASE Delta = NoDelta
      <3>1. record.delta.reason = asked
        BY <2>1, EmptyDelta DEF Delta
      <3>2. d = record.delta
        BY <3>1, <1>0 DEF Deltas
      <3> QED BY <3>2, <2>1 DEF Delta
    <2>2. CASE Delta # NoDelta
      BY <2>2, <1>1, EmptyDelta DEF RecInv, Named
    <2> QED BY <2>1, <2>2
  <1>3. j = [record EXCEPT !.delta = d]
    OBVIOUS
  <1> HIDE DEF d
  <1>4. /\ j \in Records /\ j.history = record.history /\ j.integrated = record.integrated /\ j.ready = record.ready
        /\ j.merging = record.merging /\ j.source = record.source /\ j.delta = d /\ j.pub = record.pub
        /\ j.content = record.content /\ j.attempts = record.attempts
    BY <1>0, <1>1, <1>3 DEF Records
  <1> QED BY <1>1, <1>2, <1>4, UnchangedPlan DEF SamePlan

LEMMA AgentWorksKeeps == RecInv /\ AgentWorks => RecInv'
  <1> SUFFICES ASSUME RecInv, AgentWorks
               PROVE  RecInv'
    OBVIOUS
  <1>0. /\ RecTyped /\ inv.at = "agent" /\ inv \in Invs /\ record \in Records /\ OutsideSame /\ checkout.there
        /\ checkout \in Checkouts /\ git \in Seq(Objects) /\ Graph /\ record.pub = NoPub
    BY DEF RecInv, RecTyped, AgentWorks, outside, OutsideSame, Handed, Holding, Pending
  <1>1. GitGrew /\ Reworked
    <2>1. CASE AgentEdits
      BY <2>1, <1>0, ResolvedType, Stays DEF AgentEdits, GitGrew
    <2>2. CASE AgentCommits
      <3>1. /\ GitGrew /\ Committed \in Checkouts /\ Committed.there /\ Committed.mark = checkout.mark
            /\ Committed.pushed = checkout.pushed /\ Committed.head \in Oids' /\ Committed.merging = None
        BY <2>2, <1>0, CommittedType DEF AgentCommits
      <3>2. checkout' = [Committed EXCEPT !.conflict = FALSE]
        BY <2>2 DEF AgentCommits
      <3>3. /\ checkout' \in Checkouts /\ checkout'.there /\ checkout'.mark = checkout.mark
            /\ checkout'.pushed = checkout.pushed /\ checkout'.head \in Oids' /\ checkout'.merging = None
        BY <3>1, <3>2 DEF Checkouts
      <3> QED BY <3>1, <3>3, <1>0 DEF Reworked
    <2>3. CASE AgentImports
      <3>0. GitGrew
        BY GitGrows, <1>0 DEF RecoveryNext, RecoveryProgress
      <3>1. PICK past \in Pinned \ git[checkout.head].hist :
              git' = Append(git, CommitOf(Parents \cup {past}, checkout.tree))
        BY <2>3 DEF AgentImports
      <3>2. checkout' = [checkout EXCEPT !.head = NextOid, !.merging = None, !.conflict = FALSE]
        BY <2>3 DEF AgentImports
      <3>3. past \in Oids
        BY <3>1, <1>0 DEF Pinned, Past, Named, NoDelta, RecInv
      <3>4. Parents \cup {past} \in SUBSET Oids /\ checkout.tree \in SUBSET Nat
        BY <3>3, <1>0 DEF Parents, Named, Checkouts, RecInv
      <3>5. NextOid \in Oids' /\ NextOid \in Nat
        BY <3>1, <3>4, <1>0, Appended DEF NextOid
      <3> DEFINE n == NextOid
                 z == None
      <3>6. n \in Nat /\ z \in Nat /\ checkout' = [checkout EXCEPT !.head = n, !.merging = z, !.conflict = FALSE]
        BY <3>2, <3>5 DEF None
      <3> HIDE DEF n, z
      <3>7. /\ checkout' \in Checkouts /\ checkout'.there = checkout.there /\ checkout'.mark = checkout.mark
            /\ checkout'.pushed = checkout.pushed /\ checkout'.head = n /\ checkout'.merging = z
        BY <3>6, <1>0 DEF Checkouts
      <3> QED BY <3>0, <3>5, <3>7, <1>0 DEF Reworked, n, z
    <2> QED BY <2>1, <2>2, <2>3 DEF AgentWorks
  <1>2. CASE Delta # NoDelta /\ Settles([record EXCEPT !.delta.reason = TRUE], "eligible")
    <2> DEFINE j == [record EXCEPT !.delta.reason = TRUE]
    <2>1. SamePlan(j) /\ j.attempts = record.attempts
      BY <1>1, <1>2, ReasonPlanned
    <2>2. Settles(j, "eligible")
      BY <1>2
    <2> HIDE DEF j
    <2>3. j \in Records /\ j.attempts \in 0..3 /\ (inv.charged => j.attempts >= 1) /\ "eligible" \in Outcomes
      BY <2>1, PolicyType DEF SamePlan, RecInv, Accounted
    <2>4. RoundEnds(j)
      BY <2>2, <2>3, SettlesEnds
    <2> QED BY <2>1, <2>4, <1>0, <1>1, WorkEnds
  <1>3. CASE record' = [record EXCEPT !.delta.reason = FALSE] /\ (Goes("given up") \/ Goes("verify"))
    <2>1. SamePlan(record') /\ record'.attempts = record.attempts
      BY <1>1, <1>3, ReasonPlanned
    <2>2. /\ inv' \in Invs /\ inv'.facts = inv.facts /\ inv'.charged = inv.charged /\ inv'.before = inv.before
          /\ inv'.at \in {"verify", "given up"}
      BY <1>0, <1>3 DEF Goes, Invs, Ats, Holding
    <2> QED BY <2>1, <2>2, <1>0, <1>1, WorkMoves
  <1> QED BY <1>2, <1>3 DEF AgentWorks

LEMMA CommittedReworks ==
    ASSUME RecInv, checkout.there, git' = CommittedGit, checkout' = Committed
    PROVE  GitGrew /\ Reworked
  <1>1. /\ GitGrew /\ Committed \in Checkouts /\ Committed.there /\ Committed.mark = checkout.mark
        /\ Committed.pushed = checkout.pushed /\ Committed.head = CommittedHead /\ CommittedHead \in Oids'
        /\ Committed.merging = None /\ Committed.tree = checkout.tree
    BY CommittedType
  <1>2. CommittedHead = checkout.head \/ CommittedHead \notin Oids
    BY CommitGrows DEF RecInv
  <1>3. record.pub # NoPub => record.pub.oid \in Oids
    BY DEF RecInv, Named
  <1>4. ASSUME record.pub # NoPub, CommittedHead = record.pub.oid
        PROVE  git'[record.pub.oid].tree \subseteq checkout.tree
    <2>1. git[record.pub.oid].tree \subseteq checkout.tree
      BY <1>2, <1>3, <1>4 DEF RecInv, Faithful
    <2>2. git'[record.pub.oid] = git[record.pub.oid]
      BY <1>1, <1>3, <1>4, OidsGrow DEF RecInv
    <2> QED BY <2>1, <2>2
  <1> QED BY <1>1, <1>4 DEF Reworked

\* A delta is cut, again or for the first time: the target is all the record learns.
LEMMA PreparesKeeps ==
    ASSUME RecInv, GitGrew, Reworked, OutsideSame, inv.at = "integrate", checkout.there,
           NEW expected \in Recorded, NEW source \in Oids', NEW patch \in SUBSET Nat, NEW force \in BOOLEAN,
           Prepares(NewDelta(expected, source, patch, force), Past)
    PROVE  RecInv'
  <1> USE DEF RecInv, OutsideSame
  <1> DEFINE d == NewDelta(expected, source, patch, force)
             n == Delta.id + 1
             goal == Target
             past == Past
             z == None
  <1>0. RecTyped /\ record \in Records /\ Delta \in Deltas /\ inv \in Invs /\ Target \in Oids
    BY DEF RecTyped, Records, Delta, Named, Target
  <1>a. Oids \subseteq Oids' /\ \A c \in Oids : git'[c] = git[c]
    BY OidsGrow
  <1>b. Recorded \subseteq Oids /\ Past \subseteq Oids
    BY DEF Recorded, Past, Named, NoDelta
  <1>c. Oids \subseteq Nat /\ Oids' \subseteq Nat /\ None \notin Oids'
    BY DEF Oids, None
  <1>d. n \in Nat /\ n # None /\ goal \in Nat /\ expected \in Nat /\ source \in Nat /\ past \in SUBSET Nat /\ z \in Nat
    BY <1>0, <1>b, <1>c DEF Deltas, None
  <1>1. /\ d \in Deltas /\ d.id = n /\ d.stage = "prepared" /\ d.expected = expected /\ d.target = goal
        /\ d.source = source
    <2>1. d = [NoDelta EXCEPT !.id = n, !.stage = "prepared", !.expected = expected,
                              !.target = goal, !.source = source, !.patch = patch, !.paid = force]
      BY DEF NewDelta
    <2>2. NoDelta \in Deltas
      BY DEF NoDelta, Deltas, Stages, None
    <2> HIDE DEF d, n, goal
    <2> QED BY <2>1, <2>2, <1>d DEF Deltas, Stages
  <1>2. record' = [record EXCEPT !.delta = d, !.history = past, !.rebuild = FALSE, !.merging = z]
    BY DEF Prepares
  <1>3. inv' \in Invs /\ inv'.at = "build" /\ inv'.facts = inv.facts /\ inv'.charged = inv.charged /\ inv'.before = inv.before
    BY <1>0 DEF Prepares, Goes, Invs, Ats, Holding
  <1> HIDE DEF d, n, goal, past, z
  <1>4. /\ record' \in Records /\ record'.attempts = record.attempts /\ record'.content = record.content
        /\ record'.pub = record.pub /\ record'.delta = d /\ record'.history = past
        /\ record'.integrated = record.integrated /\ record'.merging = z /\ record'.ready = record.ready
    BY <1>0, <1>1, <1>2, <1>d DEF Records
  <1>5. d # NoDelta
    BY <1>1, <1>d, EmptyDelta
  <1>6. RecTyped' /\ Graph'
    BY <1>3, <1>4 DEF RecTyped, GitGrew, Reworked
  <1>7. Named'
    <2>1. goal \in Oids /\ past \subseteq Oids /\ z = None
      BY <1>0, <1>b DEF goal, past, z
    <2> QED BY <1>1, <1>3, <1>4, <1>5, <1>a, <1>b, <1>d, <2>1 DEF Named, Reworked, Delta
  <1>8. Handed'
    <2>1. ~built.there /\ checkout.mark < n /\ checkout.mark \in Nat
      BY <1>0 DEF Handed, Holding, Early, n, Deltas, RecTyped, Checkouts
    <2> QED BY <1>1, <1>3, <1>4, <1>d, <2>1 DEF Handed, Reworked, Delta, Early, Holding, Late
  <1>9. Accounted'
    BY <1>3, <1>4 DEF Accounted, Early
  <1>10. Pending'
    BY <1>3, <1>4, EmptyPub DEF Pending, Late, Reworked
  <1>e. record.pub # NoPub => record.pub.oid \in Oids /\ record.pub.expected \in Oids
    BY DEF Named
  <1>11. Faithful'
    <2>0. built.there => built.head \in Oids
      BY DEF Named
    <2> QED BY <2>0, <1>3, <1>4, <1>a, <1>e, EmptyPub DEF Faithful, Reworked, Pending
  <1>12. Recorded' \subseteq Recorded \cup {Target}
    BY <1>1, <1>4, <1>5 DEF Recorded, Past, Delta, goal, past
  <1>13. Recalled'
    <2>0. remote \in Oids /\ (wire # None => record.pub # NoPub)
      BY EmptyPub DEF Named, Pending
    <2>1. wire # None => Target \in git[record.pub.expected].hist
      BY DEF Recalled, Aimed, Holding, Target
    <2> QED BY <1>3, <1>4, <1>12, <1>a, <1>e, <2>0, <2>1 DEF Recalled, Aimed, Holding
  <1> QED BY <1>6, <1>7, <1>8, <1>9, <1>10, <1>11, <1>13

LEMMA IntegratesKeeps == RecInv /\ Integrates => RecInv'
  <1> SUFFICES ASSUME RecInv, Integrates
               PROVE  RecInv'
    OBVIOUS
  <1>0. /\ RecTyped /\ inv.at = "integrate" /\ inv \in Invs /\ record \in Records /\ OutsideSame /\ checkout.there
        /\ checkout \in Checkouts /\ git \in Seq(Objects) /\ Graph /\ pr \in {"open", "held", "closed"}
        /\ Target \in Oids /\ Delta \in Deltas
    BY DEF RecInv, RecTyped, Integrates, outside, OutsideSame, Handed, Holding, Named, Target, Records, Delta
  <1>a. Recorded \subseteq Oids /\ Expected \in Recorded /\ Head0 \in Oids
    BY DEF RecInv, Recorded, Past, Named, NoDelta, Expected
  <1>b. Oids \subseteq Nat /\ None \notin Oids
    BY DEF Oids, None
  <1>1. CASE RebuildsDelta \/ ResumesDelta \/ AsksForDelta \/ AsksForMerge \/ LeavesMerge \/ Interrupted \/ UpToDate
    <2>a. UNCHANGED <<git, checkout>>
      BY <1>1 DEF RebuildsDelta, ResumesDelta, AsksForDelta, AsksForMerge, LeavesMerge, Interrupted, UpToDate
    <2>0. GitGrew /\ Oids' = Oids
      BY <1>0, <2>a, Stays DEF GitGrew, Oids
    <2>1. Reworked
      BY <1>0, <2>a, <2>0 DEF Reworked, RecInv, Named, Faithful
    <2>2. NothingMoved
      BY <1>0, <2>a DEF NothingMoved, OutsideSame
    <2>3. CASE RebuildsDelta
      <3>1. Delta # NoDelta /\ Prepares(NewDelta(Delta.expected, Delta.source, Delta.patch, PaidProgress), Past)
        BY <2>3 DEF RebuildsDelta, FrozenDelta
      <3>2. Delta.expected \in Recorded /\ Delta.source \in Oids
        BY <3>1 DEF RecInv, Named, Recorded, Past
      <3>3. Delta.patch \in SUBSET Nat /\ PaidProgress \in BOOLEAN
        BY <1>0 DEF Deltas, PaidProgress, Delta, Records
      <3> QED BY <1>0, <2>0, <2>1, <3>1, <3>2, <3>3, PreparesKeeps
    <2>4. CASE LeavesMerge
      <3> DEFINE patch == git[record.source].tree \ git[Expected].tree
                 force == record.started # 0 /\ record.started # record.before
      <3>1. Prepares(NewDelta(Expected, record.source, patch, force), Past)
        BY <2>4 DEF LeavesMerge
      <3>2. record.source \in Oids
        BY <2>4 DEF LeavesMerge, MovedMerge, OwnedMerge, RecInv, Named
      <3>3. patch \in SUBSET Nat /\ force \in BOOLEAN
        BY <1>0, <3>2, ObjectTypes
      <3> HIDE DEF patch, force
      <3> QED BY <1>0, <1>a, <2>0, <2>1, <3>1, <3>2, <3>3, PreparesKeeps
    <2>5. CASE PreparedDelta /\ Goes("build") /\ UNCHANGED record
      <3>1. Moves("build")
        BY <1>0, <2>5, GoesMoves DEF Ats, Holding
      <3> QED BY <1>0, <2>2, <2>5, <3>1, MovesKeep DEF Ways, PreparedDelta, OutsideSame
    <2>6. CASE UNCHANGED record /\ \E w \in BOOLEAN : inv' = [inv EXCEPT !.at = "integrated", !.why = w]
      <3>1. PICK w \in BOOLEAN : inv' = [inv EXCEPT !.at = "integrated", !.why = w]
        BY <2>6
      <3>2. "integrated" \in Ats
        BY DEF Ats, Holding
      <3>3. Moves("integrated")
        BY <1>0, <2>6, <3>1, <3>2, GoesMoves
      <3> QED BY <1>0, <2>2, <3>3, MovesKeep DEF Ways, OutsideSame
    <2>7. DeltaResolved \in BOOLEAN /\ checkout.conflict \in BOOLEAN
      BY <1>0 DEF DeltaResolved, Checkouts
    <2>8. CASE AsksForDelta
      <3>1. inv' = [inv EXCEPT !.at = "integrated", !.why = ~DeltaResolved] /\ UNCHANGED record
        BY <2>8 DEF AsksForDelta
      <3> QED BY <2>6, <2>7, <3>1
    <2>9. CASE AsksForMerge
      BY <2>6, <2>7, <2>9 DEF AsksForMerge
    <2>10. CASE Interrupted \/ UpToDate
      BY <2>6, <2>10 DEF Interrupted, UpToDate
    <2>11. CASE ResumesDelta
      BY <2>5, <2>11 DEF ResumesDelta
    <2> QED BY <1>1, <2>3, <2>4, <2>8, <2>9, <2>10, <2>11
  <1>2. CASE CutsDelta \/ OwnsMerge
    <2>1. git' = CommittedGit /\ checkout' = Committed
      BY <1>2 DEF CutsDelta, OwnsMerge
    <2>2. GitGrew /\ Reworked /\ CommittedHead \in Oids'
      BY <1>0, <2>1, CommittedReworks, CommittedType
    <2>3. Oids \subseteq Oids'
      BY <1>0, <2>2, OidsGrow
    <2>4. CASE CutsDelta
      <3> DEFINE patch == checkout.tree \ git[Expected].tree
      <3>1. Prepares(NewDelta(Expected, CommittedHead, patch, FALSE), Past)
        BY <2>4 DEF CutsDelta
      <3>2. patch \in SUBSET Nat
        BY <1>0 DEF Checkouts
      <3> HIDE DEF patch
      <3> QED BY <1>0, <1>a, <2>2, <3>1, <3>2, PreparesKeeps
    <2>5. CASE Stops("obsolete")
      BY <1>0, <2>2, <2>5, StopsEnds, PolicyType, UnchangedPlan, WorkEnds
    <2>6. CASE /\ Goes("merge")
               /\ record' = [record EXCEPT !.merging = Target, !.source = CommittedHead, !.before = record.started]
      <3> DEFINE goal == Target
                 head == CommittedHead
                 start == record.started
      <3>1. goal \in Nat /\ head \in Nat /\ start \in Nat /\ goal \in Oids' /\ head \in Oids' /\ Oids' \subseteq Nat
        BY <1>0, <1>b, <2>2, <2>3 DEF Records, Oids
      <3>2. record' = [record EXCEPT !.merging = goal, !.source = head, !.before = start]
        BY <2>6
      <3> HIDE DEF goal, head, start
      <3>3. /\ record' \in Records /\ record'.attempts = record.attempts /\ record'.content = record.content
            /\ record'.pub = record.pub /\ record'.delta = record.delta /\ record'.history = record.history
            /\ record'.integrated = record.integrated /\ record'.merging = goal /\ record'.source = head
            /\ record'.ready = record.ready
        BY <1>0, <3>1, <3>2 DEF Records
      <3>4. SamePlan(record')
        BY <3>1, <3>3 DEF SamePlan, Delta
      <3>5. /\ inv' \in Invs /\ inv'.at = "merge" /\ inv'.facts = inv.facts /\ inv'.charged = inv.charged
            /\ inv'.before = inv.before
        BY <1>0, <2>6 DEF Goes, Invs, Ats, Holding
      <3> QED BY <1>0, <2>2, <3>3, <3>4, <3>5, WorkMoves
    <2> QED BY <1>2, <2>4, <2>5, <2>6 DEF OwnsMerge
  <1> QED BY <1>1, <1>2 DEF Integrates

LEMMA MergesKeeps == RecInv /\ Merges => RecInv'
  <1> SUFFICES ASSUME RecInv, Merges
               PROVE  RecInv'
    OBVIOUS
  <1>0. /\ RecTyped /\ inv.at = "merge" /\ inv \in Invs /\ record \in Records /\ OutsideSame /\ checkout.there
        /\ checkout \in Checkouts /\ git \in Seq(Objects) /\ Graph /\ Target \in Oids /\ record' = record
        /\ checkout.head \in Oids /\ checkout.merging \in Oids \cup {None} /\ Oids \subseteq Nat
    BY DEF RecInv, RecTyped, Merges, outside, OutsideSame, Handed, Holding, Named, Target, Oids
  <1>1. GitGrew
    BY <1>0, GitGrows DEF RecoveryNext, RecoveryProgress
  <1>2. SamePlan(record') /\ Oids \subseteq Oids' /\ \A c \in Oids : git'[c] = git[c]
    BY <1>0, <1>1, UnchangedPlan, OidsGrow
  <1> DEFINE tree == checkout.tree \cup git[Target].tree
             goal == Target
             n == NextOid
  <1>3. tree \in SUBSET Nat /\ checkout.tree \subseteq tree /\ goal \in Nat /\ n \in Nat /\ n \notin Oids
    <2>1. git[Target].tree \in SUBSET Nat /\ checkout.tree \in SUBSET Nat
      BY <1>0, ObjectTypes DEF Checkouts
    <2> QED BY <2>1, <1>0 DEF NextOid, Oids
  <1>4. record.pub # NoPub => record.pub.oid \in Oids
    BY DEF RecInv, Named
  <1>5. CASE /\ git' = Append(git, CommitOf({checkout.head, Target}, tree))
             /\ checkout' = [checkout EXCEPT !.head = n, !.tree = tree] /\ Goes("merged")
    <2>1. n \in Oids'
      <3> DEFINE both == {checkout.head, Target}
      <3>1. both \in SUBSET Oids /\ git' = Append(git, CommitOf(both, tree))
        BY <1>0, <1>5
      <3> HIDE DEF both, tree
      <3> QED BY <1>0, <1>3, <3>1, Appended
    <2> HIDE DEF tree, n
    <2>2. /\ checkout' \in Checkouts /\ checkout'.there = checkout.there /\ checkout'.mark = checkout.mark
          /\ checkout'.pushed = checkout.pushed /\ checkout'.head = n /\ checkout'.merging = checkout.merging
      BY <1>0, <1>3, <1>5 DEF Checkouts
    <2>3. Reworked
      BY <1>0, <1>2, <1>3, <1>4, <2>1, <2>2 DEF Reworked
    <2>4. /\ inv' \in Invs /\ inv'.at = "merged" /\ inv'.facts = inv.facts /\ inv'.charged = inv.charged
          /\ inv'.before = inv.before
      BY <1>0, <1>5 DEF Goes, Invs, Ats, Holding
    <2> QED BY <1>0, <1>1, <1>2, <2>3, <2>4, WorkMoves
  <1>6. CASE /\ checkout' = [checkout EXCEPT !.tree = tree, !.merging = goal, !.conflict = TRUE]
             /\ inv' = [inv EXCEPT !.at = "integrated", !.why = TRUE]
    <2>0. goal \in Oids
      BY <1>0
    <2> HIDE DEF tree, goal
    <2>1. /\ checkout' \in Checkouts /\ checkout'.there = checkout.there /\ checkout'.mark = checkout.mark
          /\ checkout'.pushed = checkout.pushed /\ checkout'.head = checkout.head /\ checkout'.merging = goal
          /\ checkout'.tree = tree
      BY <1>0, <1>3, <1>6 DEF Checkouts
    <2>2. record.pub # NoPub /\ checkout.head = record.pub.oid => git'[record.pub.oid].tree \subseteq tree
      BY <1>2, <1>3, <1>4 DEF RecInv, Faithful
    <2>3. Reworked
      BY <1>0, <1>2, <2>0, <2>1, <2>2 DEF Reworked
    <2>4. /\ inv' \in Invs /\ inv'.at = "integrated" /\ inv'.facts = inv.facts /\ inv'.charged = inv.charged
          /\ inv'.before = inv.before
      BY <1>0, <1>6 DEF Invs, Ats, Holding
    <2> QED BY <1>0, <1>1, <1>2, <2>3, <2>4, WorkMoves
  <1> QED BY <1>5, <1>6 DEF Merges

LEMMA MergeRecordedKeeps == RecInv /\ MergeRecorded => RecInv'
  <1> SUFFICES ASSUME RecInv, MergeRecorded
               PROVE  RecInv'
    OBVIOUS
  <1> USE DEF RecInv
  <1>0. /\ RecTyped /\ inv.at = "merged" /\ inv \in Invs /\ record \in Records /\ NothingMoved /\ pr' = pr /\ Target \in Oids
        /\ Oids \subseteq Nat
    BY DEF RecTyped, MergeRecorded, outside, disk, NothingMoved, Named, Target, Oids
  <1> DEFINE goal == Target
             z == None
  <1>1. goal \in Nat /\ goal \in Oids /\ z \in Nat /\ record' = [record EXCEPT !.integrated = goal, !.merging = z]
    BY <1>0 DEF MergeRecorded, None
  <1> HIDE DEF goal, z
  <1>2. /\ record' \in Records /\ record'.attempts = record.attempts /\ record'.content = record.content
        /\ record'.pub = record.pub /\ record'.delta = record.delta /\ record'.history = record.history
        /\ record'.integrated = goal /\ record'.merging = z /\ record'.ready = record.ready
    BY <1>0, <1>1 DEF Records
  <1>3. /\ inv' \in Invs /\ inv'.at = "integrated" /\ inv'.facts = inv.facts /\ inv'.charged = inv.charged
        /\ inv'.before = inv.before
    BY <1>0 DEF MergeRecorded, Invs, Ats, Holding
  <1> USE DEF NothingMoved
  <1>4. RecTyped' /\ Graph'
    BY <1>0, <1>2, <1>3 DEF RecTyped, Graph, Oids
  <1>5. Named'
    BY <1>0, <1>1, <1>2, <1>3 DEF Named, Oids, Delta, z
  <1>6. Handed'
    BY <1>0, <1>2, <1>3 DEF Handed, Delta, Early, Holding, Late
  <1>7. Accounted'
    BY <1>0, <1>2, <1>3 DEF Accounted, Early
  <1>8. Pending'
    BY <1>0, <1>2, <1>3, EmptyPub DEF Pending, Late
  <1>9. Faithful'
    BY <1>0, <1>2, <1>3 DEF Faithful
  <1>10. Recorded' \subseteq Recorded \cup {Target}
    BY <1>2 DEF Recorded, Past, Delta, goal
  <1>11. Recalled'
    <2>1. wire # None => Target \in git[record.pub.expected].hist
      BY <1>0 DEF Recalled, Aimed, Holding, Target
    <2> QED BY <1>0, <1>2, <1>3, <1>10, <2>1 DEF Recalled, Aimed, Holding
  <1> QED BY <1>4, <1>5, <1>6, <1>7, <1>8, <1>9, <1>11

LEMMA BuildsDeltaKeeps == RecInv /\ BuildsDelta => RecInv'
  <1> SUFFICES ASSUME RecInv, BuildsDelta
               PROVE  RecInv'
    OBVIOUS
  <1> USE DEF RecInv
  <1>0. /\ RecTyped /\ inv.at = "build" /\ inv \in Invs /\ record \in Records /\ Target \in Oids /\ Oids \subseteq Nat
        /\ Delta \in Deltas /\ Delta.stage = "prepared" /\ checkout.mark < Delta.id /\ Delta # NoDelta
        /\ UNCHANGED <<git, remote, wire, ghost, checkout, tally, pr>>
    <2>1. inv.at = "build" /\ UNCHANGED <<git, remote, wire, ghost, checkout, tally, pr>>
      BY Zenon DEF BuildsDelta, outside
    <2>2. RecTyped /\ record \in Records /\ Delta \in Deltas /\ Delta.stage = "prepared" /\ checkout.mark < Delta.id
      BY <2>1 DEF RecTyped, Records, Handed, Delta
    <2>3. inv \in Invs /\ Target \in Oids /\ Oids \subseteq Nat
      BY <2>1, <2>2 DEF RecTyped, Named, Target, Oids
    <2> QED BY <2>1, <2>2, <2>3, EmptyDelta
  <1> DEFINE tree == git[Target].tree \cup Delta.patch
             goal == Target
             n == Delta.id
  <1>1. PICK clash \in BOOLEAN :
          /\ built' = [NoTree EXCEPT !.there = TRUE, !.head = goal, !.tree = tree, !.conflict = clash, !.mark = n]
          /\ record' = [record EXCEPT !.delta.stage = "ready", !.delta.applied = tree,
                                       !.delta.reason = clash \/ Delta.paid]
    BY DEF BuildsDelta
  <1>2. tree \in SUBSET Nat /\ goal \in Oids /\ goal \in Nat /\ n \in Nat /\ git[goal].tree \subseteq tree
    <2>1. git[Target].tree \in SUBSET Nat
      BY <1>0, ObjectTypes DEF RecTyped
    <2> QED BY <2>1, <1>0 DEF Deltas
  <1> DEFINE why == clash \/ Delta.paid
             d == [record.delta EXCEPT !.stage = "ready", !.applied = tree, !.reason = why]
  <1>3. why \in BOOLEAN
    BY <1>0 DEF Deltas
  <1>4. record' = [record EXCEPT !.delta = d]
    BY <1>1
  <1> HIDE DEF tree, goal, why
  <1>5. /\ d \in Deltas /\ d.id = n /\ d.stage = "ready" /\ d.expected = Delta.expected /\ d.target = Delta.target
        /\ d.source = Delta.source
    BY <1>0, <1>2, <1>3 DEF Deltas, Stages, Delta
  <1> HIDE DEF d
  <1>6. /\ record' \in Records /\ record'.attempts = record.attempts /\ record'.content = record.content
        /\ record'.pub = record.pub /\ record'.delta = d /\ record'.history = record.history
        /\ record'.integrated = record.integrated /\ record'.merging = record.merging /\ record'.ready = record.ready
        /\ record'.source = record.source
    BY <1>0, <1>4, <1>5 DEF Records
  <1>7. /\ inv' \in Invs /\ inv'.at = "move" /\ inv'.facts = inv.facts /\ inv'.charged = inv.charged
        /\ inv'.before = inv.before
    BY <1>0 DEF BuildsDelta, Invs, Ats
  <1>8. /\ built' \in Checkouts /\ built'.there /\ built'.head = goal /\ built'.tree = tree /\ built'.mark = n
        /\ built'.merging = None
    BY <1>1, <1>2 DEF Checkouts, NoTree, None
  <1>9. d # NoDelta
    BY <1>5, EmptyDelta
  <1>10. RecTyped' /\ Graph'
    BY <1>0, <1>6, <1>7, <1>8 DEF RecTyped, Graph, Oids
  <1>11. Named'
    BY <1>0, <1>2, <1>5, <1>6, <1>7, <1>8, <1>9 DEF Named, Oids, Delta
  <1>12. Handed'
    <2>1. checkout.mark \in Nat /\ checkout.there \in BOOLEAN /\ built'.there = TRUE
      BY <1>0, <1>8 DEF RecTyped, Checkouts
    <2> QED BY <1>0, <1>2, <1>5, <1>6, <1>7, <1>8, <2>1 DEF Handed, Delta, Early, Holding, Late, n
  <1>13. Accounted'
    BY <1>0, <1>6, <1>7 DEF Accounted, Early
  <1>14. Pending'
    BY <1>0, <1>6, <1>7, EmptyPub DEF Pending, Late
  <1>15. Faithful'
    BY <1>0, <1>2, <1>6, <1>7, <1>8 DEF Faithful
  <1>16. Recorded' = Recorded
    BY <1>0, <1>5, <1>6, <1>9 DEF Recorded, Past, Delta
  <1>17. Recalled'
    BY <1>0, <1>6, <1>7, <1>16 DEF Recalled, Aimed, Holding
  <1> QED BY <1>10, <1>11, <1>12, <1>13, <1>14, <1>15, <1>17

CommitPlan == IF checkout.merging = None THEN record ELSE [record EXCEPT !.merging = None]

LEMMA CommitPlanned ==
    ASSUME RecInv, GitGrew
    PROVE  SamePlan(CommitPlan) /\ CommitPlan.attempts = record.attempts
  <1>1. SamePlan(record)
    BY UnchangedPlan
  <1>2. CASE checkout.merging # None
    <2> DEFINE z == None
    <2>1. z \in Nat /\ z = None /\ CommitPlan = [record EXCEPT !.merging = z]
      BY <1>2 DEF CommitPlan, None
    <2>2. record \in Records
      BY DEF RecInv, RecTyped
    <2> HIDE DEF z
    <2>3. /\ CommitPlan \in Records /\ CommitPlan.attempts = record.attempts /\ CommitPlan.content = record.content
          /\ CommitPlan.pub = record.pub /\ CommitPlan.delta = record.delta /\ CommitPlan.history = record.history
          /\ CommitPlan.integrated = record.integrated /\ CommitPlan.merging = z /\ CommitPlan.ready = record.ready
      BY <2>1, <2>2 DEF Records
    <2> QED BY <1>1, <2>1, <2>3 DEF SamePlan
  <1> QED BY <1>1, <1>2 DEF CommitPlan

\* The exact commit that is to be pushed becomes the record's publication.
LEMMA IntentKeeps ==
    ASSUME RecInv, GitGrew, Reworked, OutsideSame, NEW j, SamePlan(j), j.attempts = record.attempts, inv.at = "commit",
           git' = CommittedGit, checkout' = Committed, Goes("publish"),
           ~Reintroduces(CommittedHead), record.pub # NoPub => record.pub.oid = CommittedHead,
           record' = [j EXCEPT !.state = "publication-pending",
                        !.pub = [oid |-> CommittedHead, expected |-> Target, tree |-> inv.checked,
                                 sent |-> record.pub # NoPub, prior |-> record.pub # NoPub]]
    PROVE  RecInv'
  <1> USE DEF RecInv, OutsideSame
  <1>0. /\ RecTyped /\ inv \in Invs /\ checkout.there /\ Target \in Oids /\ ~built.there /\ Oids \subseteq Nat
        /\ Oids' \subseteq Nat /\ None \notin Oids' /\ checkout.head \in Oids
    BY DEF RecTyped, Named, Handed, Holding, Early, Target, Oids, None
  <1>a. Oids \subseteq Oids' /\ \A c \in Oids : git'[c] = git[c]
    BY OidsGrow
  <1>b. /\ checkout'.head = CommittedHead /\ checkout'.tree = checkout.tree /\ CommittedHead \in Oids'
        /\ CommittedHead = checkout.head \/ CommittedHead \notin Oids
        /\ git'[CommittedHead].tree = checkout.tree /\ inv.checked \in SUBSET Nat /\ checkout.tree \in SUBSET Nat
    <2>1. CommittedHead = checkout.head \/ CommittedHead \notin Oids
      BY <1>0, CommitGrows
    <2>2. Committed.head = CommittedHead /\ Committed.tree = checkout.tree /\ CommittedHead \in Oids'
      BY <1>0, CommittedType
    <2>3. git'[CommittedHead].tree = checkout.tree
      BY <1>0, CommitGrows
    <2>4. inv.checked \in SUBSET Nat /\ checkout.tree \in SUBSET Nat
      BY <1>0 DEF RecTyped, Invs, Checkouts
    <2> QED BY <2>1, <2>2, <2>3, <2>4
  <1> DEFINE oid == CommittedHead
             goal == Target
             tree == inv.checked
             sent == record.pub # NoPub
             pub == [oid |-> oid, expected |-> goal, tree |-> tree, sent |-> sent, prior |-> sent]
  <1>1. record' = [j EXCEPT !.state = "publication-pending", !.pub = pub]
    OBVIOUS
  <1>2. /\ pub \in Pubs /\ pub.oid = oid /\ pub.expected = goal /\ pub.tree = tree /\ pub.sent = sent /\ pub.prior = sent
        /\ oid \in Oids' /\ goal \in Oids
    BY <1>0, <1>b DEF Pubs
  <1> HIDE DEF pub, oid, goal, tree, sent
  <1>3. /\ record' \in Records /\ PlanKept(j) /\ record'.content = j.content /\ record'.pub = pub
        /\ record'.attempts = j.attempts
    BY <1>1, <1>2 DEF Records, PlanKept, SamePlan, Outcomes
  <1>4. pub # NoPub
    BY <1>0, <1>2, EmptyPub
  <1>5. /\ inv' \in Invs /\ inv'.at = "publish" /\ inv'.facts = inv.facts /\ inv'.charged = inv.charged
        /\ inv'.before = inv.before
    BY <1>0 DEF Goes, Invs, Ats, Holding
  <1>6. RecTyped' /\ Graph'
    BY <1>3, <1>5 DEF RecTyped, GitGrew, Reworked
  <1>7. Named'
    BY <1>2, <1>3, <1>5, <1>a DEF Named, PlanKept, SamePlan, Reworked, Delta
  <1>8. Handed'
    BY <1>0, <1>3, <1>5 DEF Handed, PlanKept, SamePlan, Reworked, Delta, Early, Holding, Late
  <1>9. Accounted'
    BY <1>3, <1>5 DEF Accounted, SamePlan, Early
  <1>c. /\ sent <=> record.pub # NoPub
        /\ sent => record.pub.sent /\ record.pub.oid = oid
        /\ ~sent => record.pub = NoPub
        /\ ghost.confirmed = {}
    BY DEF Pending, oid, sent
  <1>10. Pending'
    <2>0. UNCHANGED <<ghost, wire>> /\ pub.oid # None /\ record'.pub = pub
      BY <1>0, <1>2, <1>3
    <2>1. CASE sent
      <3>1. pub.sent /\ pub.prior /\ pub.oid = record.pub.oid /\ record.pub.sent
        BY <2>1, <1>2, <1>c
      <3>2. ghost.landed \subseteq {pub.oid} /\ wire \in {None, pub.oid} /\ ghost.again = {}
        BY <3>1 DEF Pending
      <3> QED BY <2>0, <3>1, <3>2, <1>4, <1>5, <1>c DEF Pending, Late
    <2>2. CASE ~sent
      <3>1. ~pub.sent /\ ~pub.prior /\ record.pub = NoPub
        BY <2>2, <1>2, <1>c
      <3>2. ghost.landed = {} /\ wire = None /\ ghost.again = {}
        BY <3>1, EmptyPub DEF Pending
      <3> QED BY <2>0, <3>1, <3>2, <1>4, <1>5, <1>c DEF Pending, Late
    <2> QED BY <2>1, <2>2
  <1>11. Faithful'
    <2>1. git'[pub.oid].tree = checkout'.tree
      BY <1>2, <1>b DEF oid
    <2>2. ASSUME sent
          PROVE  git'[pub.oid].tree = tree
      <3>1. record.pub.oid \in Oids
        BY <2>2, <1>c DEF Named
      <3>2. checkout.head = record.pub.oid
        BY <2>2, <3>1, <1>b, <1>c DEF oid
      <3>3. git[record.pub.oid].tree \subseteq tree /\ tree \subseteq checkout.tree
        BY <2>2, <3>2, <1>c DEF Faithful, tree
      <3>4. git'[record.pub.oid].tree = git[record.pub.oid].tree
        BY <3>1, <1>a
      <3> QED BY <2>1, <2>2, <3>3, <3>4, <1>2, <1>b, <1>c
    <2> QED BY <1>0, <1>2, <1>3, <1>5, <2>1, <2>2 DEF Faithful
  <1>12. Recorded' = Recorded /\ Recorded \subseteq Oids
    <2>1. Recorded' = Recorded
      BY <1>3 DEF Recorded, Past, Delta, PlanKept, SamePlan
    <2> QED BY <2>1 DEF Recorded, Past, Named, NoDelta
  <1>13. Recorded \cap (git'[oid].hist \ git'[goal].hist) = {}
    <2>1. (git'[oid].hist \ git[goal].hist) \cap RemovedHistory = {}
      BY DEF Reintroduces, oid, goal
    <2>2. ASSUME NEW p \in Recorded, p \notin git[goal].hist
          PROVE  p \in RemovedHistory
      <3>1. p \in git[p].hist
        BY <1>12 DEF Graph
      <3>2. p \in UNION {git[q].hist : q \in Recorded}
        BY <3>1
      <3> QED BY <2>2, <3>2 DEF RemovedHistory, goal
    <2>3. git'[goal] = git[goal]
      BY <1>2, <1>a
    <2> QED BY <2>1, <2>2, <2>3
  <1>14. Recalled'
    <2>1. git'[remote] = git[remote]
      BY <1>a DEF Named
    <2> QED BY <1>2, <1>3, <1>5, <1>12, <1>13, <2>1 DEF Recalled, Aimed, Holding
  <1> QED BY <1>6, <1>7, <1>8, <1>9, <1>10, <1>11, <1>14

LEMMA CommitsKeeps == RecInv /\ Commits => RecInv'
  <1> SUFFICES ASSUME RecInv, Commits
               PROVE  RecInv'
    OBVIOUS
  <1>0. RecTyped /\ inv.at = "commit" /\ record \in Records /\ OutsideSame /\ checkout.there
    BY DEF RecInv, RecTyped, Commits, outside, OutsideSame, Handed, Holding
  <1>1. CASE ~Committable /\ Stops("eligible") /\ UNCHANGED <<git, checkout>>
    BY <1>0, <1>1, StopKeeps, PolicyType DEF NothingMoved, OutsideSame
  <1>2. CASE git' = CommittedGit /\ checkout' = Committed
    <2> DEFINE j == CommitPlan
    <2>1. GitGrew /\ Reworked
      BY <1>0, <1>2, CommittedReworks
    <2>2. SamePlan(j) /\ j.attempts = record.attempts
      BY <2>1, CommitPlanned
    <2>3. j.attempts \in 0..3 /\ (inv.charged => j.attempts >= 1) /\ j \in Records /\ {"eligible", "obsolete"} \subseteq Outcomes
      BY <2>2, PolicyType DEF RecInv, Accounted, SamePlan
    <2>4. \/ Settles([j EXCEPT !.rebuild = TRUE], "eligible")
          \/ record' = [j EXCEPT !.state = "eligible"] /\ inv' = NoInv
          \/ Settles(j, "obsolete")
          \/ /\ ~Reintroduces(CommittedHead) /\ (record.pub # NoPub => record.pub.oid = CommittedHead)
             /\ record' = [j EXCEPT !.state = "publication-pending",
                  !.pub = [oid |-> CommittedHead, expected |-> Target, tree |-> inv.checked,
                           sent |-> record.pub # NoPub, prior |-> record.pub # NoPub]]
             /\ Goes("publish")
          \/ ~Committable /\ Stops("eligible") /\ UNCHANGED <<git, checkout>>
      BY DEF Commits, CommitPlan
    <2> HIDE DEF j
    <2>5. CASE Settles([j EXCEPT !.rebuild = TRUE], "eligible")
      <3> DEFINE k == [j EXCEPT !.rebuild = TRUE]
      <3>1. /\ k \in Records /\ k.attempts = j.attempts /\ k.content = j.content /\ k.pub = j.pub /\ k.delta = j.delta
            /\ k.history = j.history /\ k.integrated = j.integrated /\ k.merging = j.merging /\ k.ready = j.ready
            /\ k.source = j.source
        BY <2>3 DEF Records
      <3>2. Settles(k, "eligible")
        BY <2>5
      <3> HIDE DEF k
      <3>3. SamePlan(k)
        BY <3>1, <2>2 DEF SamePlan
      <3>4. RoundEnds(k)
        BY <2>3, <3>1, <3>2, SettlesEnds
      <3> QED BY <1>0, <2>1, <3>3, <3>4, WorkEnds
    <2>6. CASE record' = [j EXCEPT !.state = "eligible"] /\ inv' = NoInv
      <3>1. RoundEnds(j)
        BY <2>3, <2>6 DEF Records, RoundEnds, PlanKept
      <3> QED BY <1>0, <2>1, <2>2, <3>1, WorkEnds
    <2>7. CASE Settles(j, "obsolete")
      <3>1. RoundEnds(j)
        BY <2>3, <2>7, SettlesEnds
      <3> QED BY <1>0, <2>1, <2>2, <3>1, WorkEnds
    <2> QED BY <1>0, <1>1, <1>2, <2>1, <2>2, <2>4, <2>5, <2>6, <2>7, IntentKeeps
  <1> QED BY <1>1, <1>2 DEF Commits

\* Another writer moved the branch: to an earlier commit, or to a new one.
LEMMA BranchMoves ==
    ASSUME RecInv, GitGrew, remote' \in Oids', NEW gone \in SUBSET Oids', ghost' = [ghost EXCEPT !.dropped = gone],
           gone \cap git'[remote'].hist = {}, \A x \in git'[remote'].hist : x \in git[remote].hist \/ x = NextOid,
           UNCHANGED <<pr, record, tally, checkout, built, inv, wire>>
    PROVE  RecInv'
  <1> USE DEF RecInv
  <1>0. ghost \in Ghosts /\ Oids' \subseteq Nat /\ Len(git) \in Nat
    BY DEF RecTyped, Oids
  <1>1. /\ ghost' \in Ghosts /\ ghost'.dropped = gone /\ ghost'.landed = ghost.landed /\ ghost'.again = ghost.again
        /\ ghost'.confirmed = ghost.confirmed /\ ghost'.known = ghost.known /\ ghost'.worked = ghost.worked
    <2>1. gone \in SUBSET Nat
      BY <1>0
    <2> QED BY <1>0, <2>1 DEF Ghosts
  <1>a. Oids \subseteq Oids' /\ \A c \in Oids : git'[c] = git[c]
    BY OidsGrow
  <1>b. record.pub # NoPub => record.pub.oid \in Oids /\ record.pub.expected \in Oids
    BY DEF Named
  <1>2. RecTyped' /\ Graph'
    BY <1>0, <1>1 DEF RecTyped, GitGrew
  <1>3. Named'
    BY <1>1, <1>a DEF Named, Delta
  <1>4. Handed'
    BY DEF Handed, Delta
  <1>5. Accounted'
    BY <1>1 DEF Accounted
  <1>6. Pending'
    BY <1>1 DEF Pending
  <1>7. Faithful'
    <2>0. built.there => built.head \in Oids
      BY DEF Named
    <2> QED BY <2>0, <1>a, <1>b, EmptyPub DEF Faithful
  <1>8. Recorded' = Recorded
    BY DEF Recorded, Past, Delta
  <1>9. Recalled'
    <2>0. wire # None => record.pub # NoPub
      BY EmptyPub DEF Pending
    <2>1. inv.at \in {"publish", "push"} => record.pub # NoPub
      BY EmptyPub DEF Pending, Late
    <2>2. inv.at \in {"admit", "acquire"} => NextOid > inv.facts.head
      BY <1>0 DEF Named, Oids, NextOid
    <2> QED BY <1>1, <1>8, <1>a, <1>b, <2>0, <2>1, <2>2 DEF Recalled
  <1> QED BY <1>2, <1>3, <1>4, <1>5, <1>6, <1>7, <1>9

LEMMA WritersKeep == RecInv /\ (OtherPushes \/ OtherRestores) => RecInv'
  <1> SUFFICES ASSUME RecInv, OtherPushes \/ OtherRestores
               PROVE  RecInv'
    OBVIOUS
  <1>0. /\ git \in Seq(Objects) /\ Graph /\ remote \in Oids /\ ghost.dropped \subseteq Oids /\ Len(git) \in Nat
        /\ git[remote].hist \subseteq Oids
    BY DEF RecInv, RecTyped, Named, Graph, Oids
  <1>1. GitGrew
    BY GitGrows DEF RecoveryNext, RecoveryUpsets
  <1>2. Oids \subseteq Oids' /\ \A c \in Oids : git'[c] = git[c]
    BY <1>1, OidsGrow DEF RecInv
  <1>3. CASE OtherPushes
    <2>1. PICK parent \in git[remote].hist, extra \in {{}, {Saved}} :
            git' = Append(git, CommitOf({parent}, git[parent].tree \cup {NextOid} \cup extra))
      BY <1>3 DEF OtherPushes
    <2> DEFINE gone == Drops(NextOid, git')
               tree == git[parent].tree \cup {NextOid} \cup extra
    <2>2. parent \in Oids /\ git[parent].hist \subseteq git[remote].hist
      BY <1>0 DEF Graph
    <2>3. tree \in SUBSET Nat
      <3>1. git[parent].tree \in SUBSET Nat /\ NextOid \in Nat /\ extra \in SUBSET Nat
        BY <1>0, <2>2, ObjectTypes DEF NextOid, Saved
      <3> QED BY <3>1
    <2> HIDE DEF tree
    <2>4. NextOid \in Oids' /\ git'[NextOid] = CommitOf({parent}, tree)
      <3> DEFINE ps == {parent}
      <3>1. ps \in SUBSET Oids /\ git' = Append(git, CommitOf(ps, tree))
        BY <2>1, <2>2 DEF tree
      <3> HIDE DEF ps
      <3>2. NextOid \in Oids' /\ git'[NextOid] = CommitOf(ps, tree)
        BY <1>0, <2>3, <3>1, Appended
      <3> QED BY <3>2 DEF ps
    <2>5. git'[NextOid].hist = git[parent].hist \cup {NextOid}
      BY <2>4 DEF CommitOf, NextOid
    <2>6. remote' = NextOid /\ ghost' = [ghost EXCEPT !.dropped = gone]
      BY <1>3 DEF OtherPushes
    <2>7. gone \in SUBSET Oids' /\ gone \cap git'[NextOid].hist = {}
      BY <1>0, <1>2 DEF Drops
    <2>8. UNCHANGED <<pr, record, tally, checkout, built, inv, wire>>
      BY <1>3 DEF OtherPushes
    <2> HIDE DEF gone
    <2>9. \A x \in git'[remote'].hist : x \in git[remote].hist \/ x = NextOid
      BY <2>2, <2>5, <2>6
    <2> QED BY <1>1, <2>4, <2>6, <2>7, <2>8, <2>9, BranchMoves
  <1>4. CASE OtherRestores
    <2>1. PICK old \in git[remote].hist : remote' = old /\ ghost' = [ghost EXCEPT !.dropped = Drops(old, git)]
      BY <1>4 DEF OtherRestores
    <2> DEFINE gone == Drops(old, git)
    <2>2. old \in Oids /\ git[old].hist \subseteq git[remote].hist
      BY <1>0 DEF Graph
    <2>3. git' = git /\ UNCHANGED <<pr, record, tally, checkout, built, inv, wire>>
      BY <1>4 DEF OtherRestores
    <2>4. gone \in SUBSET Oids' /\ gone \cap git'[remote'].hist = {} /\ ghost' = [ghost EXCEPT !.dropped = gone]
      BY <1>0, <1>2, <2>1, <2>3 DEF Drops
    <2> HIDE DEF gone
    <2> QED BY <1>1, <1>2, <2>1, <2>2, <2>3, <2>4, BranchMoves
  <1> QED BY <1>3, <1>4

LEMMA StraysKeeps == RecInv /\ Strays => RecInv'
  <1> SUFFICES ASSUME RecInv, Strays
               PROVE  RecInv'
    OBVIOUS
  <1> USE DEF RecInv
  <1>0. checkout \in Checkouts /\ UNCHANGED <<git, built, remote, pr, wire, ghost, record, tally, inv>>
    BY DEF RecTyped, Strays, outside
  <1> DEFINE tree == checkout.tree \cup {Stray}
  <1>1. tree \in SUBSET Nat /\ checkout.tree \subseteq tree /\ checkout' = [checkout EXCEPT !.tree = tree]
    BY <1>0 DEF Checkouts, Stray, Strays
  <1> HIDE DEF tree
  <1>2. /\ checkout' \in Checkouts /\ checkout'.there = checkout.there /\ checkout'.head = checkout.head
        /\ checkout'.merging = checkout.merging /\ checkout'.mark = checkout.mark /\ checkout'.pushed = checkout.pushed
        /\ checkout'.tree = tree
    BY <1>0, <1>1 DEF Checkouts
  <1>3. RecTyped' /\ Graph'
    BY <1>0, <1>2 DEF RecTyped, Graph, Oids
  <1>4. Named'
    BY <1>0, <1>2 DEF Named, Oids, Delta
  <1>5. Handed' /\ Accounted'
    BY <1>0, <1>2 DEF Handed, Delta, Accounted
  <1>6. Pending'
    BY <1>0, <1>2 DEF Pending
  <1>7. Faithful'
    BY <1>0, <1>1, <1>2 DEF Faithful
  <1>8. Recorded' = Recorded
    BY <1>0 DEF Recorded, Past, Delta
  <1>9. Recalled'
    BY <1>0, <1>8 DEF Recalled
  <1> QED BY <1>3, <1>4, <1>5, <1>6, <1>7, <1>9

\* A push that was not sent is forgotten, unless an earlier one of the same commit was.
LEMMA UnsentKeeps ==
    ASSUME RecInv, NothingMoved, pr' = pr, inv.at \in {"push", "refused"}, inv' = NoInv, record' \in Records, PlanKept(record),
           record'.content = record.content, record'.attempts \in 0..3,
           record'.pub = KeptPub([record.pub EXCEPT !.sent = record.pub.sent /\ record.pub.prior])
    PROVE  RecInv'
  <1> DEFINE sent == record.pub.sent /\ record.pub.prior
             pub == [record.pub EXCEPT !.sent = sent]
  <1>0. record.pub \in Pubs /\ record.pub.sent /\ record.pub # NoPub /\ record.pub.oid # None /\ pr \in {"open", "held", "closed"}
    BY EmptyPub DEF RecInv, RecTyped, Records, Pending, Late
  <1>1. sent \in BOOLEAN /\ record'.pub = KeptPub(pub)
    BY <1>0 DEF Pubs
  <1>a. inv'.at = "idle" /\ inv'.charged = FALSE /\ inv'.before = [tally |-> 0, content |-> 0] /\ inv' \in Invs
    BY DEF NoInv, NoFacts, None, Invs, Ats, Early, Views
  <1>2. CASE record.pub.prior
    <2>1. sent = record.pub.sent
      BY <1>0, <1>2 DEF Pubs
    <2> HIDE DEF sent
    <2>2. pub = record.pub
      BY <1>0, <1>1, <2>1 DEF Pubs
    <2> HIDE DEF pub
    <2>3. RoundEnds(record)
      BY <1>1, <2>2 DEF RoundEnds
    <2> QED BY <1>0, <2>3, EndsKeep
  <1>3. CASE ~record.pub.prior
    <2>1. sent = FALSE
      BY <1>3
    <2> HIDE DEF sent
    <2>2. ~pub.sent /\ pub.oid # None
      BY <1>0, <1>1, <2>1 DEF Pubs
    <2> HIDE DEF pub
    <2>3. record'.pub = NoPub
      BY <1>1, <2>2 DEF KeptPub
    <2>4. ghost.landed = {} /\ wire = None /\ ghost.confirmed = {}
      BY <1>3 DEF RecInv, Pending
    <2> USE DEF RecInv, NothingMoved
    <2>5. RecTyped' /\ Graph'
      BY <1>a DEF RecTyped, Graph, Oids
    <2>6. Named'
      BY <1>a, <2>3 DEF Named, PlanKept, Oids, Delta
    <2>7. Handed'
      BY <1>a DEF Handed, PlanKept, Delta, Early, Holding, Late
    <2>8. Accounted'
      BY <1>a DEF Accounted, Early
    <2>9. Pending'
      BY <1>a, <2>3, <2>4, EmptyPub DEF Pending, Late
    <2>10. Faithful'
      BY <1>a, <2>3, EmptyPub DEF Faithful
    <2>11. Recorded' = Recorded
      BY DEF Recorded, Past, Delta, PlanKept
    <2>12. Recalled'
      BY <1>a, <2>4, <2>11 DEF Recalled, Aimed, Holding
    <2> QED BY <2>5, <2>6, <2>7, <2>8, <2>9, <2>10, <2>12
  <1> QED BY <1>2, <1>3

LEMMA UnsentType ==
    ASSUME RecInv
    PROVE  /\ Unsent(record) \in Records
           /\ Unsent(record).pub = [record.pub EXCEPT !.sent = record.pub.sent /\ record.pub.prior]
           /\ Unsent(record).delta = record.delta /\ Unsent(record).history = record.history
           /\ Unsent(record).integrated = record.integrated /\ Unsent(record).merging = record.merging
           /\ Unsent(record).source = record.source /\ Unsent(record).ready = record.ready
           /\ Unsent(record).content = record.content /\ Unsent(record).attempts = record.attempts
  <1> DEFINE sent == record.pub.sent /\ record.pub.prior
             pub == [record.pub EXCEPT !.sent = sent]
  <1>0. record \in Records /\ record.pub \in Pubs
    BY DEF RecInv, RecTyped, Records
  <1>1. sent \in BOOLEAN
    BY <1>0 DEF Pubs
  <1>2. Unsent(record) = [record EXCEPT !.pub = pub]
    BY DEF Unsent
  <1> HIDE DEF sent
  <1>3. pub \in Pubs
    BY <1>0, <1>1 DEF Pubs
  <1> HIDE DEF pub
  <1>4. Unsent(record) \in Records /\ Unsent(record).pub = pub
    BY <1>0, <1>2, <1>3 DEF Records
  <1>5. /\ Unsent(record).delta = record.delta /\ Unsent(record).history = record.history
        /\ Unsent(record).integrated = record.integrated /\ Unsent(record).merging = record.merging
        /\ Unsent(record).source = record.source /\ Unsent(record).ready = record.ready
        /\ Unsent(record).content = record.content /\ Unsent(record).attempts = record.attempts
    BY <1>0, <1>2, <1>3 DEF Records
  <1> QED BY <1>4, <1>5 DEF pub, sent

LEMMA AnsweredKeeps == RecInv /\ (Sends \/ Answered) => RecInv'
  <1> SUFFICES ASSUME RecInv, Sends \/ Answered
               PROVE  RecInv'
    OBVIOUS
  <1>0. RecTyped /\ inv \in Invs /\ record \in Records /\ ghost \in Ghosts /\ checkout \in Checkouts /\ record.pub \in Pubs
    BY DEF RecInv, RecTyped, Records
  <1>1. CASE inv.at = "push" /\ wire' = record.pub.oid /\ Goes("sent") /\ UNCHANGED record
             /\ UNCHANGED <<remote, pr, ghost, tally, git, checkout, built>>
    <2> USE DEF RecInv
    <2>1. record.pub # NoPub /\ record.pub.oid \in Oids /\ record.pub.sent /\ Oids \subseteq Nat /\ ghost.confirmed = {}
      BY <1>1, EmptyPub DEF Pending, Late, Named, Oids
    <2>2. /\ inv' \in Invs /\ inv'.at = "sent" /\ inv'.facts = inv.facts /\ inv'.charged = inv.charged
          /\ inv'.before = inv.before
      BY <1>0, <1>1 DEF Goes, Invs, Ats, Late
    <2>3. UNCHANGED <<git, checkout, built, record, remote, pr, ghost, tally>>
      BY <1>1
    <2>4. RecTyped' /\ Graph'
      BY <1>1, <2>1, <2>2, <2>3 DEF RecTyped, Graph, Oids
    <2>5. Named'
      BY <1>1, <2>1, <2>2, <2>3 DEF Named, Oids, Delta
    <2>6. Handed'
      BY <1>1, <2>2, <2>3 DEF Handed, Delta, Early, Holding, Late
    <2>7. Accounted'
      BY <1>1, <2>2, <2>3 DEF Accounted, Early
    <2>8. Pending'
      BY <1>1, <2>1, <2>2, <2>3 DEF Pending, Late
    <2>9. Faithful'
      BY <1>1, <2>2, <2>3 DEF Faithful
    <2>10. Recorded' = Recorded
      BY <2>3 DEF Recorded, Past, Delta
    <2>11. Recalled'
      BY <1>1, <2>2, <2>3, <2>10 DEF Recalled, Aimed, Holding
    <2> QED BY <2>4, <2>5, <2>6, <2>7, <2>8, <2>9, <2>11
  <1>2. CASE inv.at = "push" /\ record' = [Unsent(record) EXCEPT !.state = "eligible", !.pub = KeptPub(@)]
             /\ inv' = NoInv /\ NothingMoved /\ pr' = pr
    <2> DEFINE u == Unsent(record)
               kept == KeptPub(u.pub)
    <2>1. u \in Records /\ u.pub = [record.pub EXCEPT !.sent = record.pub.sent /\ record.pub.prior]
          /\ u.delta = record.delta /\ u.history = record.history /\ u.integrated = record.integrated
          /\ u.merging = record.merging /\ u.source = record.source /\ u.ready = record.ready
          /\ u.content = record.content /\ u.attempts = record.attempts
      BY UnsentType
    <2>2. record' = [u EXCEPT !.state = "eligible", !.pub = kept]
      BY <1>2
    <2>3. kept \in Pubs /\ kept = KeptPub([record.pub EXCEPT !.sent = record.pub.sent /\ record.pub.prior])
      <3>1. u.pub \in Pubs
        BY <2>1 DEF Records
      <3> QED BY <3>1, <2>1, KeptPubType
    <2> HIDE DEF u, kept
    <2>4. /\ record' \in Records /\ PlanKept(record) /\ record'.content = record.content /\ record'.pub = kept
          /\ record'.attempts = record.attempts
      BY <2>1, <2>2, <2>3 DEF Records, PlanKept, Outcomes
    <2>5. record.attempts \in 0..3
      BY DEF RecInv, Accounted
    <2> QED BY <1>2, <2>3, <2>4, <2>5, UnsentKeeps
  <1>3. CASE inv.at = "refused" /\ Settles(Unsent(record), "eligible") /\ NothingMoved /\ pr' = pr
    <2> DEFINE u == Unsent(record)
    <2>1. u \in Records /\ u.pub = [record.pub EXCEPT !.sent = record.pub.sent /\ record.pub.prior]
          /\ u.delta = record.delta /\ u.history = record.history /\ u.integrated = record.integrated
          /\ u.merging = record.merging /\ u.source = record.source /\ u.ready = record.ready
          /\ u.content = record.content /\ u.attempts = record.attempts
      BY UnsentType
    <2>2. Settles(u, "eligible") /\ record.attempts \in 0..3 /\ (inv.charged => record.attempts >= 1)
      BY <1>3 DEF RecInv, Accounted
    <2> HIDE DEF u
    <2>3. RoundEnds(u) /\ record'.pub = KeptPub(u.pub)
      BY <2>1, <2>2, SettlesEnds, PolicyType
    <2>4. PlanKept(record) /\ record' \in Records /\ record'.content = record.content /\ record'.attempts \in 0..3 /\ inv' = NoInv
      BY <2>1, <2>3 DEF RoundEnds, PlanKept
    <2>5. record'.pub = KeptPub([record.pub EXCEPT !.sent = record.pub.sent /\ record.pub.prior])
      BY <2>1, <2>3
    <2> QED BY <1>3, <2>4, <2>5, UnsentKeeps
  <1>4. CASE /\ inv.at = "landed" /\ Goes("confirm") /\ checkout' = [checkout EXCEPT !.pushed = record.pub.oid]
             /\ ghost' = [ghost EXCEPT !.confirmed = @ \cup {record.pub.oid}] /\ UNCHANGED record
             /\ UNCHANGED <<remote, pr, wire, git, built, tally>>
    <2> USE DEF RecInv
    <2>1. ghost.confirmed = {} /\ wire = None /\ record.pub.sent
      BY <1>4 DEF Pending, Late
    <2> DEFINE oid == record.pub.oid
               sure == ghost.confirmed \cup {oid}
    <2>2. oid \in Nat /\ sure \in SUBSET Nat /\ sure = {oid}
      BY <1>0, <2>1 DEF Pubs
    <2>3. checkout' = [checkout EXCEPT !.pushed = oid] /\ ghost' = [ghost EXCEPT !.confirmed = sure]
      BY <1>4
    <2> HIDE DEF oid, sure
    <2>4. /\ checkout' \in Checkouts /\ checkout'.there = checkout.there /\ checkout'.head = checkout.head
          /\ checkout'.merging = checkout.merging /\ checkout'.mark = checkout.mark /\ checkout'.pushed = oid
          /\ checkout'.tree = checkout.tree
      BY <1>0, <2>2, <2>3 DEF Checkouts
    <2>5. /\ ghost' \in Ghosts /\ ghost'.dropped = ghost.dropped /\ ghost'.landed = ghost.landed
          /\ ghost'.again = ghost.again /\ ghost'.known = ghost.known /\ ghost'.worked = ghost.worked
          /\ ghost'.confirmed = {oid}
      BY <1>0, <2>2, <2>3 DEF Ghosts
    <2>6. /\ inv' \in Invs /\ inv'.at = "confirm" /\ inv'.facts = inv.facts /\ inv'.charged = inv.charged
          /\ inv'.before = inv.before
      BY <1>0, <1>4 DEF Goes, Invs, Ats, Late
    <2>7. RecTyped' /\ Graph'
      BY <1>4, <2>4, <2>5, <2>6 DEF RecTyped, Graph, Oids
    <2>8. Named'
      BY <1>4, <2>4, <2>5, <2>6 DEF Named, Oids, Delta
    <2>9. Handed'
      BY <1>4, <2>4, <2>6 DEF Handed, Delta, Early, Holding, Late
    <2>10. Accounted'
      BY <1>4, <2>5, <2>6 DEF Accounted, Early
    <2>11. Pending'
      BY <1>4, <2>1, <2>4, <2>5, <2>6 DEF Pending, Late, oid
    <2>12. Faithful'
      BY <1>4, <2>4, <2>6 DEF Faithful
    <2>13. Recorded' = Recorded
      BY <1>4 DEF Recorded, Past, Delta
    <2>14. Recalled'
      BY <1>4, <2>1, <2>5, <2>6, <2>13 DEF Recalled, Aimed, Holding
    <2> QED BY <2>7, <2>8, <2>9, <2>10, <2>11, <2>12, <2>14
  <1> QED BY <1>1, <1>2, <1>3, <1>4 DEF Sends, Answered, NothingMoved, disk

\* The remote applies the push on the expected head only: what it then puts back the record did not know of.
LEMMA LandsKeeps == RecInv /\ Lands => RecInv'
  <1> SUFFICES ASSUME RecInv, Lands
               PROVE  RecInv'
    OBVIOUS
  <1> USE DEF RecInv
  <1>0. /\ RecTyped /\ inv \in Invs /\ record \in Records /\ ghost \in Ghosts /\ git \in Seq(Objects)
        /\ UNCHANGED <<git, pr, record, tally, checkout, built>> /\ wire' = None /\ Oids \subseteq Nat
    BY DEF RecTyped, Lands, disk, Oids
  <1>1. /\ wire = record.pub.oid /\ record.pub.sent /\ record.pub # NoPub /\ wire \in Oids /\ ghost.confirmed = {}
        /\ record.pub.expected \in Oids
    BY EmptyPub DEF Pending, Lands, Named
  <1>2. Recorded' = Recorded
    BY <1>0 DEF Recorded, Past, Delta
  <1>3. /\ inv' \in Invs /\ inv'.facts = inv.facts /\ inv'.charged = inv.charged /\ inv'.before = inv.before
        /\ inv'.checked = inv.checked
        /\ \/ inv.at # "sent" /\ inv'.at = inv.at
           \/ inv.at = "sent" /\ inv'.at \in {"landed", "refused"}
    <2> DEFINE to == IF remote = record.pub.expected THEN "landed" ELSE "refused"
    <2>1. to \in {"landed", "refused"} /\ to \in Ats
      BY DEF Ats, Late
    <2>2. inv' = IF inv.at # "sent" THEN inv ELSE [inv EXCEPT !.at = to]
      BY DEF Lands
    <2> HIDE DEF to
    <2>3. CASE inv.at # "sent"
      BY <2>2, <2>3, <1>0
    <2>4. CASE inv.at = "sent"
      <3>1. inv' = [inv EXCEPT !.at = to]
        BY <2>2, <2>4
      <3> QED BY <3>1, <2>1, <2>4, <1>0 DEF Invs
    <2> QED BY <2>3, <2>4
  <1>4. Handed' /\ Faithful'
    <2>1. Handed'
      BY <1>0, <1>3 DEF Handed, Delta, Early, Holding, Late
    <2>2. Faithful'
      BY <1>0, <1>3 DEF Faithful
    <2> QED BY <2>1, <2>2
  <1>5. CASE remote = record.pub.expected
    <2> DEFINE landed == ghost.landed \cup {wire}
               again == ghost.again \cup ({wire} \cap ghost.confirmed)
               revived == ghost.revived \cup Revives
               known == ghost.known \cup (Revives \cap Recorded)
               dropped == ghost.dropped \ git[wire].hist
    <2>1. git[wire].hist \in SUBSET Nat
      BY <1>0, <1>1, ObjectTypes
    <2>2. Revives \subseteq Nat /\ Revives \cap Recorded = {}
      <3>1. Recorded \cap (git[wire].hist \ git[remote].hist) \subseteq {wire}
        BY <1>1, <1>5 DEF Recalled, Lands
      <3>2. ghost.dropped \cap git[remote].hist = {}
        BY DEF Recalled
      <3> QED BY <2>1, <3>1, <3>2 DEF Revives
    <2>3. /\ landed \in SUBSET Nat /\ again \in SUBSET Nat /\ revived \in SUBSET Nat /\ known \in SUBSET Nat
          /\ dropped \in SUBSET Nat
      BY <1>0, <1>1, <2>2 DEF Ghosts
    <2>4. again = {} /\ known = {} /\ landed = {wire} /\ dropped \subseteq Oids /\ dropped \cap git[wire].hist = {}
      BY <1>1, <2>2 DEF Pending, Recalled, Named
    <2>5. /\ remote' = wire
          /\ ghost' = [ghost EXCEPT !.landed = landed, !.again = again, !.revived = revived, !.known = known,
                                    !.dropped = dropped]
      BY <1>5 DEF Lands
    <2> HIDE DEF landed, again, revived, known, dropped
    <2>6. /\ ghost' \in Ghosts /\ ghost'.dropped = dropped /\ ghost'.landed = landed /\ ghost'.again = again
          /\ ghost'.known = known /\ ghost'.confirmed = ghost.confirmed /\ ghost'.worked = ghost.worked
      BY <1>0, <2>3, <2>5 DEF Ghosts
    <2>7. RecTyped' /\ Graph'
      BY <1>0, <1>1, <1>3, <2>5, <2>6 DEF RecTyped, Graph, Oids, None
    <2>8. Named'
      BY <1>0, <1>1, <1>3, <2>4, <2>5, <2>6 DEF Named, Oids, Delta
    <2>9. Accounted'
      BY <1>0, <1>3, <2>6 DEF Accounted, Early
    <2>10. Pending'
      <3>1. inv.at \in {"push", "refused"} => record.pub.prior
        BY <1>1 DEF Pending, Lands
      <3>2. inv'.at = "refused" => inv.at = "refused"
        <4>1. inv.at = "sent" => inv'.at = "landed"
          BY <1>0, <1>5 DEF Lands, Invs
        <4> QED BY <4>1, <1>3
      <3> QED BY <1>0, <1>1, <1>3, <2>4, <2>6, <3>1, <3>2 DEF Pending, Late
    <2>11. Recalled'
      BY <1>0, <1>2, <1>3, <2>4, <2>5, <2>6 DEF Recalled, Aimed, Holding
    <2> QED BY <1>4, <2>7, <2>8, <2>9, <2>10, <2>11
  <1>6. CASE remote # record.pub.expected
    <2>1. UNCHANGED <<remote, ghost>>
      BY <1>6 DEF Lands
    <2>2. RecTyped' /\ Graph'
      BY <1>0, <1>3, <2>1 DEF RecTyped, Graph, Oids, None
    <2>3. Named'
      BY <1>0, <1>3, <2>1 DEF Named, Oids, Delta
    <2>4. Accounted'
      BY <1>0, <1>3, <2>1 DEF Accounted, Early
    <2>5. Pending'
      <3>1. inv.at = "sent" => inv'.at = "refused"
        BY <1>0, <1>6 DEF Lands, Invs
      <3> QED BY <1>0, <1>1, <1>3, <2>1, <3>1 DEF Pending, Late
    <2>6. Recalled'
      BY <1>0, <1>2, <1>3, <2>1 DEF Recalled, Aimed, Holding
    <2> QED BY <1>4, <2>2, <2>3, <2>4, <2>5, <2>6
  <1> QED BY <1>5, <1>6

LEMMA RecoveryKeeps == RecoveryAssumption /\ RecInv /\ RecoveryNext => RecInv'
  <1> SUFFICES ASSUME RecoveryAssumption, RecInv, RecoveryNext
               PROVE  RecInv'
    OBVIOUS
  <1>1. CASE RecoveryProgress
    BY <1>1, LookKeeps, ReconcileKeeps, AdmitsKeeps, AcquiresKeeps, RestoresKeeps, DeltaMovesKeeps, DeltaAppliedKeeps,
       ChecksKeep, IntegratesKeeps, BuildsDeltaKeeps, MergesKeeps, MergeRecordedKeeps, PaysKeeps, ChargesKeeps,
       AgentWorksKeeps, VerifiesKeeps, CommitsKeeps, PublishesKeeps, AnsweredKeeps, LandsKeeps DEF RecoveryProgress
  <1>2. CASE RecoveryUpsets
    BY <1>2, WritersKeep, UpsetKeeps, StraysKeeps, RefundsKeep, NotLaunchedKeeps, AgentFailsKeeps DEF RecoveryUpsets
  <1> QED BY <1>1, <1>2 DEF RecoveryNext

LEMMA RecoveryStutters == RecInv /\ UNCHANGED recoveryvars => RecInv'
  <1> SUFFICES ASSUME RecInv, UNCHANGED recoveryvars
               PROVE  RecInv'
    OBVIOUS
  <1>1. RecTyped /\ inv.at \in Ats /\ UNCHANGED <<git, remote, pr, record, tally, checkout, built, inv, wire, ghost>>
    BY DEF recoveryvars, RecInv, RecTyped, Invs
  <1>2. Moves(inv.at)
    BY <1>1 DEF RecTyped, Moves, PlanKept
  <1> QED BY <1>1, <1>2, MovesKeep DEF RecTyped, Ways, NothingMoved

LEMMA RecoveryStarts == RecoveryAssumption /\ RecoveryInit => RecInv
  <1> SUFFICES ASSUME RecoveryAssumption, RecoveryInit
               PROVE  RecInv
    OBVIOUS
  <1> DEFINE first == [hist |-> {1}, tree |-> {1}]
             second == [hist |-> {1, 2}, tree |-> {1, 2}]
  <1>1. git = <<first, second>> /\ first \in Objects /\ second \in Objects
    BY DEF RecoveryInit, Objects
  <1>2. git \in Seq(Objects) /\ Len(git) = 2 /\ git[1] = first /\ git[2] = second
    <2> HIDE DEF first, second
    <2> QED BY <1>1
  <1>3. Oids = {1, 2}
    BY <1>2 DEF Oids
  <1>4. /\ remote = 2 /\ pr = "open" /\ tally = 0 /\ wire = None /\ checkout = NoTree /\ built = NoTree /\ inv = NoInv
        /\ record = [state |-> "retained", attempts |-> 0, seen |-> NoFacts, ready |-> FALSE,
                integrated |-> None, merging |-> None, source |-> None, before |-> 0,
                started |-> 0, onDelta |-> None, content |-> 0, refunds |-> 0,
                delta |-> NoDelta, history |-> {}, rebuild |-> FALSE, pub |-> NoPub]
        /\ ghost = [dropped |-> {}, landed |-> {}, again |-> {}, confirmed |-> {}, revived |-> {}, known |-> {}, worked |-> 0]
    BY DEF RecoveryInit, Head0
  <1>5. NoDelta \in Deltas /\ NoPub \in Pubs /\ NoFacts \in Views /\ NoTree \in Checkouts /\ NoInv \in Invs
    BY DEF NoDelta, Deltas, Stages, NoPub, Pubs, NoFacts, Views, NoTree, Checkouts, NoInv, Invs, Ats, Early, None
  <1>6. record \in Records /\ ghost \in Ghosts
    <2> HIDE DEF first, second
    <2>1. "retained" \in Outcomes /\ None \in Nat /\ 0 \in Int /\ 0 \in Nat
      BY DEF Outcomes, None
    <2>2. record \in Records
      BY <1>4, <1>5, <2>1 DEF Records
    <2>3. ghost \in Ghosts
      BY <1>4 DEF Ghosts
    <2> QED BY <2>2, <2>3
  <1>7. NoTree.there = FALSE /\ NoTree.head = None /\ NoTree.merging = None /\ NoTree.mark = None
    BY DEF NoTree
  <1>8. NoInv.at = "idle" /\ NoInv.charged = FALSE /\ NoInv.before = [tally |-> 0, content |-> 0]
    BY DEF NoInv
  <1>9. RecTyped
    BY <1>2, <1>4, <1>5, <1>6 DEF RecTyped, None
  <1>10. Graph
    BY <1>2, <1>3 DEF Graph
  <1> HIDE DEF first, second
  <1>11. /\ record.pub = NoPub /\ Delta = NoDelta /\ record.history = {} /\ record.integrated = None
         /\ record.merging = None /\ record.attempts = 0 /\ record.content = 0 /\ record.ready = FALSE
    BY <1>4 DEF Delta
  <1>12. /\ ghost.dropped = {} /\ ghost.landed = {} /\ ghost.again = {} /\ ghost.confirmed = {} /\ ghost.known = {}
         /\ ghost.worked = 0
    BY <1>4
  <1>13. Named
    BY <1>3, <1>4, <1>7, <1>8, <1>11, <1>12 DEF Named, Head0, None
  <1>14. Handed
    BY <1>4, <1>7, <1>8, <1>11, EmptyDelta DEF Handed, Early, Holding, Late, None
  <1>15. Accounted
    BY <1>4, <1>8, <1>11, <1>12 DEF Accounted, Early, RecoveryAssumption
  <1>16. Pending
    BY <1>4, <1>8, <1>11, <1>12, EmptyPub DEF Pending, Late
  <1>17. Faithful
    BY <1>4, <1>7, <1>8, <1>11, EmptyPub DEF Faithful
  <1>18. Recalled
    BY <1>4, <1>8, <1>12 DEF Recalled, Aimed, Holding
  <1> QED BY <1>9, <1>10, <1>13, <1>14, <1>15, <1>16, <1>17, <1>18 DEF RecInv

\* What the invariant says of what a record promises.
LEMMA RecInvMeans == RecoveryAssumption /\ RecInv => RetainedSafe
  <1> SUFFICES ASSUME RecoveryAssumption, RecInv
               PROVE  RetainedSafe
    OBVIOUS
  <1> USE DEF RecInv
  <1>0. /\ RecTyped /\ git \in Seq(Objects) /\ Len(git) \in Nat /\ record \in Records /\ inv \in Invs
        /\ checkout \in Checkouts /\ built \in Checkouts /\ Delta \in Deltas
    BY DEF RecTyped, Records, Delta
  <1>1. RecoveryTypeOK
    <2>1. remote \in 1..Len(git) /\ {checkout.head, checkout.merging, wire, record.integrated} \subseteq 0..Len(git)
      BY <1>0 DEF Named, Oids, None
    <2>2. record.state \in Outcomes /\ record.delta.stage \in Stages /\ inv.at \in Ats
      BY <1>0 DEF Records, Deltas, Invs
    <2>3. tally \in Nat /\ pr \in {"open", "held", "closed"} /\ record.attempts \in 0..3 /\ record.content \in 0..Allowance
      BY <1>0 DEF RecTyped, Accounted
    <2> QED BY <2>1, <2>2, <2>3 DEF RecoveryTypeOK, Outcomes, Stages, Ats, Early, Holding, Late
  <1>2. OnePublication
    <2>1. ghost.landed = {} \/ ghost.landed = {record.pub.oid}
      BY DEF Pending
    <2>2. Cardinality({}) = 0 /\ Cardinality({record.pub.oid}) = 1
      BY FS_EmptySet, FS_Singleton
    <2> QED BY <2>1, <2>2 DEF OnePublication
  <1>3. ConfirmedStaysRemoved /\ KnownStaysRemoved
    BY DEF ConfirmedStaysRemoved, KnownStaysRemoved, Pending, Recalled
  <1>4. LandsVerified
    BY DEF LandsVerified, Pending, Faithful
  <1>5. WorkIsAllowed
    BY DEF WorkIsAllowed, Accounted, RecoveryAssumption
  <1>6. HandoverFinishes
    <2>1. built.there \in BOOLEAN /\ checkout.there \in BOOLEAN
      BY <1>0 DEF Checkouts
    <2> QED BY <2>1 DEF HandoverFinishes, Handed
  <1> QED BY <1>1, <1>2, <1>3, <1>4, <1>5, <1>6 DEF RetainedSafe

\* For any number of other writers' pushes, kills, failures and lost answers: a retained change is published at
\* most once, as it was verified, no agent works beyond the allowance, a handover of the checkout can be finished,
\* and what the worker was told landed, or the record knows of, is not put back after another writer removed it
\* (repair_recovery.Recovery.run, repair_recovery.WorkerBackend, git-safe-push).
THEOREM RecoveryIsSafe == RecoveryAssumption => (RecoverySpec => []RetainedSafe)
  <1> SUFFICES ASSUME RecoveryAssumption
               PROVE  RecoverySpec => []RetainedSafe
    OBVIOUS
  <1>1. RecoveryInit => RecInv
    BY RecoveryStarts
  <1>2. RecInv /\ [RecoveryNext]_recoveryvars => RecInv'
    BY RecoveryKeeps, RecoveryStutters
  <1>3. RecInv => RetainedSafe
    BY RecInvMeans
  <1> QED BY <1>1, <1>2, <1>3, PTL DEF RecoverySpec
=============================================================================
