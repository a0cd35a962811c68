------------------------------- MODULE Budget -------------------------------
(***************************************************************************)
(* The local budget: budget.py over its append-only ledger.  Workers ask   *)
(* for paid sessions, sessions run and leave evidence of what they cost    *)
(* (a native receipt, a journal of priced responses, a lower bound, or     *)
(* nothing at all), and whoever finds that evidence -- the bridge that     *)
(* closes, the usage supervisor, the operator -- settles the session, in   *)
(* any order and any number of times.  Amounts are small integers.         *)
(*                                                                         *)
(* A provider reports cumulative totals: a resumed session's receipt       *)
(* includes what earlier sessions of the same provider session cost.  That *)
(* provider session is called a chain here and is named by the invocation  *)
(* that opened it.                                                         *)
(***************************************************************************)
EXTENDS Integers, Sequences, FiniteSets

CONSTANTS Unit,   \* what a session is thought to cost before any has
          Instances  \* the instances that are explored, one record of bounds each

None == -1

BudgetAssumption ==
    /\ Unit \in Nat \ {0}
    /\ \A s \in Instances :
          /\ s.costs \subseteq Nat /\ "ledger-repair" \notin s.workers
          /\ \A left \in s.journals : left.cost \in Nat \cup {None}
          /\ {s.funds, s.sessions, s.clock, s.manual, s.tears} \subseteq Nat
          /\ {s.resumes, s.orphans} \subseteq BOOLEAN

VARIABLES
    scope,  \* the bounds of this behaviour: the workers; the funds granted; what
            \* a session may cost and what a journal may say; admissions and repairs, hours, acts of
            \* the operator and torn writes; may a bridge die before its session is
            \* settled; is every session after the first a resumption of it, with
            \* the funds to be admitted?
    book,   \* what a replay of the ledger yields
    torn,   \* the last line of the ledger is incomplete
    queue,  \* waiting.json: the workers waiting for funds, by their tickets
    clock,  \* the wall clock of the host, in hours
    proc,   \* per invocation: its process and the evidence it left
    granted,  \* history: grants and adjustments so far
    earned,   \* history: the hours that have been credited
    strained, \* history: a session came to hold more than it was admitted for
    damaged,  \* history: a torn write nobody has audited yet
    byHand,   \* history: sessions the operator has put a cost on
    manual,   \* what the operator has done
    tears     \* torn writes so far

hist == <<granted, earned, strained, damaged, byHand>>
ledgervars == <<scope, book, torn, queue, clock, proc, hist, manual, tears>>

Greatest(S, floor) == IF S = {} THEN floor ELSE LET m == CHOOSE x \in S : \A y \in S : y <= x IN
                                                IF m > floor THEN m ELSE floor
Sum(f, S) ==
    LET upTo[k \in 0..Len(f)] == IF k = 0 THEN 0 ELSE upTo[k - 1] + IF k \in S THEN f[k] ELSE 0
    IN  upTo[Len(f)]

\* The elements of a finite set of numbers, in order.
InOrder(S) == CHOOSE s \in [1..Cardinality(S) -> S] : \A i, j \in 1..Cardinality(S) : i < j => s[i] < s[j]

NoEvidence == [cost |-> None, complete |-> FALSE]
NoReceipt == [kind |-> "none", total |-> None]

sessions == book.sessions
Ids == DOMAIN sessions
Settled(n) == sessions[n].status = "settled"
Estimated(n) == sessions[n].provenance = "estimate"
Marker(n) == sessions[n].worker = "ledger-repair"

-----------------------------------------------------------------------------
(* Replay: what one event of the ledger does to the state. *)

Accrue(b, e) == [b EXCEPT !.balance = @ + e.amount, !.watermark = e.watermark]
Grant(b, e) == [b EXCEPT !.balance = @ + e.delta]
Rate(b, e) == [b EXCEPT !.rate = e.amount]
Cool(b, e) == [b EXCEPT !.cooling = e.until]
Revised(session, e) ==
    [session EXCEPT !.cost = e.cost,
                    !.provenance = IF e.provenance = "kept" THEN @ ELSE e.provenance,
                    !.total = IF e.total = None THEN @ ELSE e.total]
Correct(b, e) ==
    [b EXCEPT !.balance = @ + e.delta, !.spent = @ - e.delta, !.sessions[e.id] = Revised(@, e)]
Admission(b, e) == [b EXCEPT !.sessions = Append(@, e.session)]
Settlement(b, e) ==
    [b EXCEPT !.balance = @ - e.cost, !.spent = @ + e.cost,
              !.sessions[e.id] = [@ EXCEPT !.status = "settled", !.cost = e.cost,
                                           !.provenance = e.provenance, !.total = e.total]]
Reserving(session, e) ==
    [session EXCEPT !.status = e.status,
                    !.reserve = IF e.reserve = None THEN @ ELSE e.reserve,
                    !.lower = IF e.reserve = None THEN @ ELSE e.lower,
                    !.tail = IF e.tail = None THEN @ ELSE e.tail]
Unresolved(b, e) == [b EXCEPT !.sessions[e.id] = Reserving(@, e)]
Replay(b, e) ==
    CASE e.type = "accrue" -> Accrue(b, e)
      [] e.type = "grant" -> Grant(b, e)
      [] e.type = "rate" -> Rate(b, e)
      [] e.type = "cooldown" -> Cool(b, e)
      [] e.type = "correction" -> Correct(b, e)
      [] e.type = "admit" -> Admission(b, e)
      [] e.type = "settle" -> Settlement(b, e)
      [] e.type = "unresolved" -> Unresolved(b, e)

\* What a replay of these events makes of b.
Replayed(b, events) ==
    LET upTo[k \in 0..Len(events)] == IF k = 0 THEN b ELSE Replay(upTo[k - 1], events[k])
    IN  upTo[Len(events)]

Corrected(n, delta, cost, provenance, total) ==
    [type |-> "correction", id |-> n, delta |-> delta, cost |-> cost,
     provenance |-> provenance, total |-> total]
SettledAt(n, cost, provenance, total) ==
    [type |-> "settle", id |-> n, cost |-> cost, provenance |-> provenance, total |-> total]
LeftOpen(n, status, reserve, lower, tail) ==
    [type |-> "unresolved", id |-> n, status |-> status, reserve |-> reserve,
     lower |-> lower, tail |-> tail]

\* An estimated prefix is taken back before the session is settled.
TakeBack(n) == IF sessions[n].cost > 0 THEN <<Corrected(n, sessions[n].cost, 0, "kept", None)>> ELSE << >>

Accrual == LET now == Greatest({book.watermark, clock}, 0) IN
           [type |-> "accrue", amount |-> (now - book.watermark) * book.rate, watermark |-> now]

Held(b, n) == b.sessions[n].cost
              + IF b.sessions[n].status = "settled" THEN 0
                ELSE IF b.sessions[n].reserve # None THEN b.sessions[n].reserve ELSE b.sessions[n].estimate

\* One transaction under budget.lock.  It is refused when the ledger ends in a
\* torn line, and the process may die in the middle of the write.
Transact(events) ==
    /\ ~torn
    /\ \/ /\ book' = Replayed(book, <<Accrual>> \o events)
          /\ earned' = earned \cup {h \in 1..scope.clock : book.rate > 0 /\ book.watermark < h /\ h <= clock}
          /\ strained' = (strained \/ \E n \in Ids : Held(book', n) > Held(book, n))
          /\ UNCHANGED <<torn, tears>>
       \/ /\ tears < scope.tears
          /\ torn' = TRUE /\ tears' = tears + 1
          /\ UNCHANGED <<book, earned, strained>>

-----------------------------------------------------------------------------
(* What a session is likely to cost, and what is left to start one. *)

Reserved(n) == IF Settled(n) THEN 0
               ELSE IF sessions[n].reserve # None THEN sessions[n].reserve ELSE sessions[n].estimate
Pending == Sum([n \in Ids |-> Reserved(n)], Ids)
Charged == Sum([n \in Ids |-> sessions[n].cost], Ids)

Percentile(ns, value) ==
    CHOOSE v \in {value[n] : n \in ns} :
        /\ 4 * Cardinality({n \in ns : value[n] <= v}) >= 3 * Cardinality(ns)
        /\ \A u \in {value[n] : n \in ns} :
               u < v => 4 * Cardinality({n \in ns : value[n] <= u}) < 3 * Cardinality(ns)

Priced == {n \in Ids : Settled(n) /\ ~Marker(n) /\ sessions[n].cost > 0}
Holding == {n \in Ids : ~Settled(n) /\ ~Marker(n) /\ sessions[n].reserve > 0}
Estimate(includePending) ==
    IF Priced # {} THEN Percentile(Priced, [n \in Ids |-> sessions[n].cost])
    ELSE IF includePending /\ Holding # {} THEN Percentile(Holding, [n \in Ids |-> sessions[n].reserve])
    ELSE Greatest({sessions[n].cost : n \in {m \in Ids : Settled(m)}}, Unit)
Calibrated == Priced # {} \/ Holding # {}

-----------------------------------------------------------------------------
(* Admission. *)

\* A session whose bridge is gone is not running a calibration for anybody.
Orphans == {n \in Ids : sessions[n].status = "active" /\ ~proc[n].bridge}
OrphanEvents == LET ns == InOrder(Orphans) IN
                [k \in DOMAIN ns |-> LeftOpen(ns[k], "unresolved", None, None, None)]
Live == {n \in Ids : sessions[n].status = "active"} \ Orphans
Resuming(chain) == {n \in Ids : ~Settled(n) /\ sessions[n].resume /\ sessions[n].chain = chain}

\* The first ticket that waits for funds, or behind one that does, is another's.
Behind(w) ==
    \E k \in DOMAIN queue :
        /\ queue[k].reason \in {"funding", "behind"} /\ queue[k].worker # w
        /\ \A j \in 1..(k - 1) : queue[j].reason \notin {"funding", "behind"}

RefusalByBalance(w, chain) ==  \* Mutant: reserves are not taken off the balance.
    IF \E n \in Ids : Marker(n) /\ ~Settled(n) THEN "repair"
    ELSE IF chain # 0 /\ Resuming(chain) # {} THEN "resuming"
    ELSE IF book.cooling > clock THEN "cooldown"
    ELSE IF book.balance + Accrual.amount < Estimate(TRUE) THEN "funding"
    ELSE IF Behind(w) THEN "behind"
    ELSE ""
\* Why worker w may not start a session now; "" when it may.  The first reason counts.
Refusal(w, chain) ==
    LET free == book.balance + Accrual.amount - Pending IN
    IF \E n \in Ids : Marker(n) /\ ~Settled(n) THEN "repair"
    ELSE IF chain # 0 /\ Resuming(chain) # {} THEN "resuming"
    ELSE IF book.cooling > clock THEN "cooldown"
    ELSE IF ~Calibrated /\ Live # {} THEN "calibration"
    ELSE IF free <= 0 \/ free < Estimate(TRUE) THEN "funding"
    ELSE IF Behind(w) THEN "behind"
    ELSE ""

\* A ticket keeps its place while it is refreshed, whatever it waits for.
Queued(w, reason) ==
    IF \E k \in DOMAIN queue : queue[k].worker = w
    THEN [k \in DOMAIN queue |-> IF queue[k].worker = w THEN [worker |-> w, reason |-> reason] ELSE queue[k]]
    ELSE Append(queue, [worker |-> w, reason |-> reason])
Dequeued(w) == SelectSeq(queue, LAMBDA ticket : ticket.worker # w)

Fresh(w, chain) ==
    [worker |-> w, chain |-> IF chain = 0 THEN Len(sessions) + 1 ELSE chain, resume |-> chain # 0,
     status |-> "active", estimate |-> Estimate(TRUE), cost |-> 0, provenance |-> "none",
     total |-> None, reserve |-> None, lower |-> None, tail |-> None]
NewProcess == [live |-> TRUE, bridge |-> TRUE, spent |-> 0, receipt |-> NoReceipt, journal |-> NoEvidence]
Inert == [live |-> FALSE, bridge |-> FALSE, spent |-> 0, receipt |-> NoReceipt, journal |-> NoEvidence]
-----------------------------------------------------------------------------
(* Settlement. *)

\* The sessions of one chain whose cumulative total is on record, in ledger order.
OnRecord(chain) == {n \in Ids : sessions[n].chain = chain /\ sessions[n].total # None}
Before(n) == {m \in OnRecord(sessions[n].chain) : m < n}
After(n) == {m \in OnRecord(sessions[n].chain) : m > n /\ Settled(m)}
Baseline(n) == Greatest({sessions[m].total : m \in Before(n)}, 0)
Exact(n) == Greatest({sessions[m].total : m \in {k \in Before(n) : ~Estimated(k)}}, 0)
Inflated(n) == {m \in Before(n) : Estimated(m) /\ sessions[m].total > Exact(n)}

\* Estimates that exceed a later native total share what that total leaves them.
Share(n, total, m) ==
    LET costs == [k \in Ids |-> sessions[k].cost]
        others == Inflated(n) \ {Greatest(Inflated(n), 0)}
        portion(k) == IF Sum(costs, Inflated(n)) = 0 THEN 0
                   ELSE ((total - Exact(n)) * costs[k]) \div Sum(costs, Inflated(n))
    IN  IF m \in others THEN portion(m)
        ELSE total - Exact(n) - Sum([k \in Ids |-> IF k \in others THEN portion(k) ELSE 0], others)
Clamped(n, total) == total < Baseline(n) /\ total >= Exact(n) /\ Inflated(n) # {}
ClampEvents(n, total) ==
    LET ms == IF Clamped(n, total) THEN InOrder(Inflated(n)) ELSE << >>
        share == [m \in Ids |-> IF m \in Inflated(n) THEN Share(n, total, m) ELSE 0]
    IN  [k \in DOMAIN ms |->
            Corrected(ms[k], sessions[ms[k]].cost - share[ms[k]], share[ms[k]], "kept",
                      Exact(n) + Sum(share, {m \in Inflated(n) : m <= ms[k]}))]

\* A native receipt that corrects an estimate moves what came after it: later
\* estimates keep their cost, and the first later receipt keeps its total.
NextExact(n) == {m \in After(n) : ~Estimated(m) /\ \A k \in After(n) : ~Estimated(k) => m <= k}
Rebased(n) == {m \in After(n) : Estimated(m) /\ \A k \in NextExact(n) : m < k}
RebaseForgotten(n, delta) == << >> \* Mutant: the later receipts of the provider session are left as they are.
RebaseEvents(n, delta) ==
    LET ms == InOrder(Rebased(n)) IN
    [k \in DOMAIN ms |-> Corrected(ms[k], 0, sessions[ms[k]].cost, "kept", sessions[ms[k]].total + delta)]
    \o [k \in 1..Cardinality(NextExact(n)) |->
            LET m == CHOOSE x \in NextExact(n) : TRUE
            IN  Corrected(m, delta, sessions[m].cost - delta, "kept", None)]
Conflicting(n, delta) == \E m \in NextExact(n) : sessions[m].cost < delta

FinalEvents(n, total) ==
    LET cost == IF Clamped(n, total) THEN 0 ELSE total - Baseline(n)
        delta == cost - sessions[n].cost
    IN  IF Settled(n)
        THEN ClampEvents(n, total) \o <<Corrected(n, -delta, cost, "native", total)>> \o RebaseEvents(n, delta)
        ELSE ClampEvents(n, total) \o TakeBack(n) \o <<SettledAt(n, cost, "native", total)>>

\* A lower bound never lowers a reserve, and leaves an estimate on top of it.
UncertainTail(n, known) == Greatest({sessions[n].estimate, Estimate(FALSE), known}, 0)
PrefixReserve(n, known) ==
    Greatest({sessions[n].reserve, Greatest({known - sessions[n].cost}, 0)
                                   + IF sessions[n].provenance = "prefix" /\ sessions[n].tail # None
                                     THEN sessions[n].tail ELSE UncertainTail(n, known)}, 0)
PrefixEvents(n, lower) ==
    LET known == lower - Baseline(n) IN
    IF sessions[n].status = "provisional" /\ sessions[n].lower = known /\ sessions[n].reserve = PrefixReserve(n, known)
    THEN << >>
    ELSE <<LeftOpen(n, "provisional", PrefixReserve(n, known), known, None)>>

Abandoned(n) == <<LeftOpen(n, "unresolved", None, None, None)>>
-----------------------------------------------------------------------------
(* The operations.  Every one is a transaction of its own. *)

\* What the history keeps of a step that grants nothing and repairs nothing.
Ordinary == granted' = granted /\ byHand' = byHand /\ damaged' = (damaged \/ torn')

\* Worker w asks for a session, a fresh one (chain 0) or to resume a chain
\* whose total is on record.  (Budget.admit)
Admit(w, chain) ==
    /\ Len(sessions) < scope.sessions
    /\ chain # 0 => OnRecord(chain) # {}
    /\ LET reason == Refusal(w, chain) IN
       IF reason = ""
       THEN /\ Transact(OrphanEvents \o <<[type |-> "admit", session |-> Fresh(w, chain)]>>)
            /\ IF torn' THEN UNCHANGED <<proc, queue>>
               ELSE proc' = Append(proc, NewProcess) /\ queue' = Dequeued(w)
       ELSE /\ queue' = Queued(w, reason) /\ UNCHANGED proc
            /\ IF queue' # queue \/ Orphans # {} THEN Transact(OrphanEvents)
               ELSE ~torn /\ UNCHANGED <<book, torn, earned, strained, tears>>
    /\ Ordinary /\ UNCHANGED <<clock, manual>>

\* Before a stage starts its bridge a worker that would be refused waits in the
\* queue, and nothing is written to the ledger.  (ClaudeAPIContext.start)
Preflight(w) ==
    /\ ~torn /\ Refusal(w, 0) # "" /\ queue' = Queued(w, Refusal(w, 0)) /\ queue' # queue
    /\ UNCHANGED <<book, torn, clock, proc, hist, manual, tears>>

\* A waiter that has not been seen for two minutes loses its ticket.
TicketLapses(w) ==
    /\ Dequeued(w) # queue /\ queue' = Dequeued(w)
    /\ UNCHANGED <<book, torn, clock, proc, hist, manual, tears>>

\* What the chain has cost so far, by what its processes really spent.
Cumulative(n) == Sum([m \in Ids |-> proc[m].spent], {m \in Ids : m < n /\ sessions[m].chain = sessions[n].chain})

\* A result line before the process is over: a lower bound of what it costs.
Checkpoint(n) ==
    /\ proc[n].live /\ proc[n].receipt.kind = "none"
    /\ proc' = [proc EXCEPT ![n].receipt = [kind |-> "prefix", total |-> Cumulative(n)]]
    /\ UNCHANGED <<book, torn, queue, clock, hist, manual, tears>>

\* The process is over.  It leaves a receipt of its total, or was never
\* started, or leaves what was on disk when it was killed.
Exit(n, spent, receipt, left) ==
    /\ proc[n].live
    /\ CASE receipt = "final" -> TRUE
         [] receipt = "free" -> spent = 0 /\ left = NoEvidence /\ proc[n].receipt.kind = "none"
         [] receipt = "killed" -> TRUE
    /\ left.cost # None => spent > 0
    /\ proc' = [proc EXCEPT ![n] =
            [live |-> FALSE, bridge |-> @.bridge, spent |-> spent, journal |-> left,
             receipt |-> CASE receipt = "final" -> [kind |-> "final", total |-> Cumulative(n) + spent]
                           [] receipt = "free" -> [kind |-> "free", total |-> 0]
                           [] receipt = "killed" -> @.receipt]]
    /\ UNCHANGED <<book, torn, queue, clock, hist, manual, tears>>

BridgeCloses(n) ==
    /\ scope.orphans /\ proc[n].bridge /\ ~Settled(n)
    /\ proc' = [proc EXCEPT ![n].bridge = FALSE]
    /\ UNCHANGED <<book, torn, queue, clock, hist, manual, tears>>

Evidently(events) == /\ Transact(events) /\ Ordinary
                     /\ UNCHANGED <<queue, clock, proc, manual>>

\* A receipt is settled, by the bridge, the supervisor or a recovery, at any
\* time after it was written and as often as they like.  (settle_receipt)
SettleFinal(n) ==
    /\ proc[n].receipt.kind = "final" /\ ~proc[n].live
    /\ Settled(n) => Estimated(n)
    /\ LET total == proc[n].receipt.total IN
       IF total >= Baseline(n) \/ Clamped(n, total)
       THEN /\ Settled(n) => ~Conflicting(n, (IF Clamped(n, total) THEN 0 ELSE total - Baseline(n)) - sessions[n].cost)
            /\ Evidently(FinalEvents(n, total))
       ELSE ~Settled(n) /\ Evidently(Abandoned(n))
SettleFree(n) ==
    /\ proc[n].receipt.kind = "free" /\ ~proc[n].live
    /\ ~Settled(n) /\ sessions[n].cost = 0
    /\ Evidently(<<SettledAt(n, 0, "native", None)>>)
SettlePrefix(n) ==
    /\ proc[n].receipt.kind = "prefix" /\ ~Settled(n)
    /\ IF proc[n].receipt.total >= Baseline(n)
       THEN PrefixEvents(n, proc[n].receipt.total) # << >> /\ Evidently(PrefixEvents(n, proc[n].receipt.total))
       ELSE Evidently(Abandoned(n))

\* The journal of a stopped session is charged as an estimate when it is
\* complete; otherwise its prefix is charged and a tail is reserved.
RecoverUsage(n) ==
    /\ ~Settled(n) /\ ~proc[n].live /\ proc[n].journal.cost # None
    /\ LET cost == Greatest({proc[n].journal.cost, sessions[n].lower}, 0)
           tail == IF sessions[n].provenance = "prefix" /\ sessions[n].cost = cost /\ sessions[n].tail # None
                   THEN sessions[n].tail ELSE UncertainTail(n, cost)
       IN  IF proc[n].journal.complete
           THEN Evidently(TakeBack(n) \o <<SettledAt(n, cost, "estimate", Baseline(n) + cost)>>)
           ELSE /\ ~(sessions[n].cost = cost /\ sessions[n].reserve = tail /\ sessions[n].status = "provisional")
                /\ Evidently(<<Corrected(n, sessions[n].cost - cost, cost, "prefix", None),
                               LeftOpen(n, "provisional", tail, Greatest({sessions[n].lower}, 0), tail)>>)

\* Nothing was found: the session stays on the books with its reserve.
SettleUnknown(n) ==
    /\ sessions[n].status = "active" /\ ~Marker(n) /\ ~proc[n].live
    /\ Evidently(Abandoned(n))

Cooldown(n) ==
    /\ proc[n].live /\ book.cooling <= clock /\ clock < scope.clock
    /\ Evidently(<<[type |-> "cooldown", until |-> clock + 1]>>)

-----------------------------------------------------------------------------
(* The operator and the clock. *)

Operator == manual < scope.manual /\ manual' = manual + 1 /\ UNCHANGED <<queue, clock>>

ConfigureGrant ==
    /\ Operator /\ Transact(<<[type |-> "grant", delta |-> Unit]>>)
    /\ granted' = granted + IF torn' THEN 0 ELSE Unit
    /\ damaged' = (damaged \/ torn') /\ UNCHANGED <<proc, byHand>>
ConfigureRate(rate) ==
    /\ Operator /\ rate # book.rate /\ Transact(<<[type |-> "rate", amount |-> rate]>>)
    /\ Ordinary /\ UNCHANGED proc

\* The operator puts a cost on a session nothing is running for.
Reconcile(n, cost) ==
    /\ Operator
    /\ Settled(n) \/ (~proc[n].live /\ ~proc[n].bridge)
    /\ Transact(IF Settled(n) THEN <<Corrected(n, sessions[n].cost - cost, cost, "kept", None)>>
                ELSE TakeBack(n) \o <<SettledAt(n, cost, "native", None)>>)
    /\ byHand' = IF torn' THEN byHand ELSE byHand \cup {n}
    /\ damaged' = (torn' \/ (damaged /\ ~Marker(n))) /\ UNCHANGED <<granted, proc>>

\* The operator has everything that stopped settled at an estimate that is no
\* less than what is known: what was saved at the launch, or, with three
\* comparable sessions, what sessions like it have cost.  (recover)
Comparable(n) == IF Cardinality(Priced \ {n}) >= 3 THEN scope.costs ELSE {sessions[n].estimate}
RecoverStopped(n, estimate) ==
    /\ Operator
    /\ ~Settled(n) /\ ~proc[n].live /\ ~proc[n].bridge /\ ~Marker(n)
    /\ proc[n].receipt.kind \notin {"final", "free"}
    /\ LET floor == Greatest({sessions[n].cost, sessions[n].lower, proc[n].journal.cost}, 0)
           cost == IF proc[n].journal.complete THEN floor ELSE Greatest({floor, estimate}, 0)
           named == sessions[n].resume \/ proc[n].journal.cost # None \/ sessions[n].lower # None
       IN  Transact(TakeBack(n) \o <<SettledAt(n, cost, "estimate", IF named THEN Baseline(n) + cost ELSE None)>>)
    /\ Ordinary /\ UNCHANGED proc

\* A torn last line is archived and replaced by a session that stops every
\* admission until the operator has reconciled it.
RepairMarker == [Fresh("ledger-repair", 0) EXCEPT !.status = "unresolved", !.estimate = 0]
RepairUnmarked ==
    /\ torn /\ torn' = FALSE
    /\ UNCHANGED <<book, proc, queue, clock, hist, manual, tears>> \* Mutant: the torn suffix is dropped and forgotten.
Repair ==
    /\ torn /\ torn' = FALSE
    /\ book' = Replayed(book, <<Accrual, [type |-> "admit", session |-> RepairMarker]>>)
    /\ earned' = earned \cup {h \in 1..scope.clock : book.rate > 0 /\ book.watermark < h /\ h <= clock}
    /\ proc' = Append(proc, Inert)
    /\ UNCHANGED <<queue, clock, granted, strained, damaged, byHand, manual, tears>>

ClockStep(hour) ==
    /\ hour # clock /\ clock' = hour
    /\ UNCHANGED <<book, torn, queue, proc, hist, manual, tears>>

-----------------------------------------------------------------------------
BudgetInit ==
    /\ scope \in Instances
    /\ book = [balance |-> scope.funds, spent |-> 0, rate |-> 0, watermark |-> 0, cooling |-> 0, sessions |-> << >>]
    /\ torn = FALSE /\ queue = << >> /\ clock = 0 /\ proc = << >>
    /\ granted = book.balance /\ earned = {} /\ strained = FALSE /\ damaged = FALSE /\ byHand = {}
    /\ manual = 0 /\ tears = 0

Chains == IF scope.resumes /\ sessions # << >> THEN {1} ELSE 0..Len(sessions)
BudgetNext ==
    /\ UNCHANGED scope
    /\ \/ \E w \in scope.workers : TicketLapses(w) \/ Preflight(w) \/ \E chain \in Chains : Admit(w, chain)
       \/ \E n \in Ids : \/ Checkpoint(n) \/ BridgeCloses(n) \/ Cooldown(n)
                          \/ SettleFinal(n) \/ SettleFree(n) \/ SettlePrefix(n)
                          \/ RecoverUsage(n) \/ SettleUnknown(n)
                          \/ \E cost \in scope.costs : Reconcile(n, cost)
                          \/ \E estimate \in Comparable(n) : RecoverStopped(n, estimate)
                          \/ \E spent \in scope.costs, receipt \in {"final", "free", "killed"},
                                left \in scope.journals : Exit(n, spent, receipt, left)
       \/ ConfigureGrant \/ (\E rate \in 0..1 : ConfigureRate(rate)) \/ Repair
       \/ \E hour \in 0..scope.clock : ClockStep(hour)

BudgetSpec == BudgetInit /\ [][BudgetNext]_ledgervars

-----------------------------------------------------------------------------
(* Properties. *)

\* The types of the variables; a session holds a reserve exactly until it is
\* settled, and the books list the processes that were started.
BudgetTypeOK ==
    /\ book.rate \in 0..1 /\ book.watermark \in 0..scope.clock /\ torn \in BOOLEAN
    /\ Len(proc) = Len(sessions) /\ clock \in 0..scope.clock
    /\ \A n \in Ids : /\ sessions[n].status \in {"active", "unresolved", "provisional", "settled"}
                      /\ sessions[n].cost >= 0 /\ sessions[n].chain \in 1..n
                      /\ ~Settled(n) /\ ~Marker(n) => Reserved(n) >= sessions[n].estimate

\* The balance is what was granted and accrued less what every session is
\* charged, whatever prefixes, estimates, receipts and corrections it went
\* through, and no hour is credited twice.  (replay, accrue, settle_receipt)
BooksBalance ==
    /\ book.spent = Charged
    /\ book.balance + book.spent - granted = Cardinality(earned)

\* Funds are promised once: while no session came to hold more than it was
\* admitted for, and the operator has put a cost on none, the balance covers
\* everything that is held back.  (admit)
NeverOverlaunched == ~strained /\ byHand = {} => book.balance >= Pending

\* A session is never settled while it may still spend.  (settle_receipt,
\* recover_usage, reconcile)
SettledHasStopped == \A n \in Ids : Settled(n) => ~proc[n].live

\* When the newest native total of a chain is on the books and nothing before
\* it is open, the sessions up to it are charged exactly that total, however
\* late and in whatever order receipts and estimates came.
ChainExact ==
    \A n \in Ids :
        LET chain == {m \in Ids : sessions[m].chain = sessions[n].chain /\ m <= n} IN
        Settled(n) /\ sessions[n].provenance = "native" /\ sessions[n].total # None
        /\ chain \cap byHand = {} /\ (\A m \in chain : Settled(m))
        => Sum([m \in Ids |-> sessions[m].cost], chain) = sessions[n].total

\* An estimate gives way to a receipt, and a receipt to nothing but another
\* session's operator: a native total is never changed.
ReceiptsStand ==
    \A n \in Ids : sessions[n].provenance = "native" /\ sessions[n].total # None
        => sessions'[n].total = sessions[n].total

\* After a torn write nobody is admitted before the loss was audited.
TornStopsAdmission ==
    \A n \in DOMAIN sessions' \ Ids : damaged => sessions'[n].worker = "ledger-repair"
=============================================================================
