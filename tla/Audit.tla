-------------------------------- MODULE Audit --------------------------------
(***************************************************************************)
(* The security audit (tauceti_worker/security_audit.py, audit_recovery.py, *)
(* audit_progress.py): workers inspect the next commits of the main branch *)
(* in one retained conversation, judge the whole batch, and only then move *)
(* the remote cursor.                                                      *)
(*                                                                         *)
(* A commit is its number.  A conversation is what its native history,     *)
(* reader receipt and last transcript tell apart; a recovery attempt holds *)
(* a copy of it, so there is one per worker.                               *)
(***************************************************************************)
EXTENDS Naturals, FiniteSets

CONSTANTS Auditors,    \* workers with an audit state of their own
          LastCommit,  \* the commits of main are 1..LastCommit
          MaxBatch,    \* commits that fit a batch
          Quiet,       \* commits that touch no library file
          Oversized,   \* commits that cannot be read into a batch
          Pages,       \* pages of a batch
          MaxFaults,   \* bound: kills, provider faults, lost answers of GitHub
          MaxAdmin     \* bound: continuations an administrator asks for

AuditAssumption == /\ LastCommit \in Nat \ {0} /\ MaxBatch \in Nat \ {0}
                   /\ Pages \in Nat \ {0} /\ MaxFaults \in Nat /\ MaxAdmin \in Nat
                   /\ Quiet \subseteq 1..LastCommit /\ Oversized \subseteq 1..LastCommit

VARIABLES main,      \* commits on the main branch
          cursor,    \* the remote cursor
          block,     \* blocked.json of each worker
          session,   \* its retained conversation
          refusals,  \* the batches of its ledger with a verdict that is no pass
          cooling,   \* whether its recovery budget holds it back
          job,       \* what its process is doing
          human,     \* an attestation under way
          upsets,    \* faults, and requests of the administrator
          accused,   \* history: where a conversation of this worker found fault
          launches   \* history: recoveries launched in the present cooldown

avars == <<main, cursor, block, session, refusals, cooling, job, human, upsets, accused, launches>>

NoBlock == [kind |-> "none", from |-> 0, to |-> 0]
NoSession == [native |-> FALSE, concern |-> FALSE, empty |-> FALSE, last |-> "none",
              token |-> FALSE, read |-> 0, out |-> "none"]
AtRest == [step |-> "idle", from |-> 0, to |-> 0, try |-> 1, by |-> "round",
           got |-> "none", verdict |-> "none"]

Finals == {"none", "pass", "unfinished", "empty", "concern"}

AuditTypeOK ==
  /\ main \in 1..LastCommit /\ cursor \in 0..LastCommit
  /\ block \in [Auditors -> [kind: {"none", "interrupted", "timeout", "failed", "manual"},
                             from: 0..LastCommit, to: 0..LastCommit]]
  /\ session \in [Auditors -> [native: BOOLEAN, concern: BOOLEAN, empty: BOOLEAN, last: Finals,
                               token: BOOLEAN, read: 0..Pages,
                               out: {"none", "answer", "stale", "service", "turn"}]]
  /\ refusals \in [Auditors -> SUBSET ((0..LastCommit) \X (1..LastCommit))]
  /\ cooling \in [Auditors -> BOOLEAN]
  /\ job \in [Auditors -> [step: {"idle", "reserved", "planned", "asking", "said", "back", "judged",
                                  "recorded", "checked", "patched"},
                           from: 0..LastCommit, to: 0..LastCommit, try: 1..3, by: {"round", "recovery", "admin"},
                           got: Finals \cup {"service", "turn", "timeout"},
                           verdict: {"none", "pass", "concern"}]]
  /\ human \in [step: {"idle", "attesting"}, from: 0..LastCommit, to: 0..LastCommit]
  /\ upsets \in [faults: 0..MaxFaults, admin: 0..MaxAdmin]
  /\ accused \in [Auditors -> SUBSET (0..LastCommit)]
  /\ launches \in [Auditors -> 0..2]

AuditInit ==
  /\ main \in 1..LastCommit /\ cursor = 0
  /\ block = [w \in Auditors |-> NoBlock] /\ session = [w \in Auditors |-> NoSession]
  /\ refusals = [w \in Auditors |-> {}] /\ cooling = [w \in Auditors |-> FALSE]
  /\ job = [w \in Auditors |-> AtRest]
  /\ human = [step |-> "idle", from |-> 0, to |-> 0]
  /\ upsets = [faults |-> 0, admin |-> 0]
  /\ accused = [w \in Auditors |-> {}] /\ launches = [w \in Auditors |-> 0]

Faulty == /\ upsets.faults < MaxFaults
          /\ upsets' = [upsets EXCEPT !.faults = @ + 1]

-----------------------------------------------------------------------------
\* What a retained conversation allows.

\* A pass stands with the complete receipt and the token of its last page.
Whole(s) == s.last = "pass" /\ s.read = Pages /\ s.token

CompletedPass(s) == s.out = "answer" /\ Whole(s)

\* Every final of the history is harmless; an empty incomplete only while the same
\* launch repairs it.
SafeHistory(s, allowEmpty) == ~s.concern /\ (allowEmpty \/ ~s.empty)

\* Everything was delivered and nothing but the form of the answer is wrong.
MechanicalOutput(s, allowEmpty) ==
  /\ s.out = "answer" /\ s.read = Pages /\ SafeHistory(s, allowEmpty)
  /\ s.last \in {"pass", "unfinished", "empty"} /\ ~Whole(s)

\* The turn ended, with no judgment or with a pass, before the pages did.
Continuable(s) ==
  /\ SafeHistory(s, FALSE)
  /\ \/ s.out = "turn"
     \/ /\ s.out = "answer" /\ (s.read = 0 \/ s.token)
        /\ \/ s.last = "unfinished"
           \/ s.last = "pass" /\ s.read < Pages

ServiceError(s) == s.out = "service" /\ SafeHistory(s, TRUE)

\* Ownership, history and ledger of a retained attempt.
KeepsSource(w) ==
  /\ block[w].kind # "manual"
  /\ session[w].native /\ SafeHistory(session[w], FALSE)
  /\ <<block[w].from, block[w].to>> \notin refusals[w]

Recoverable(w) ==
  /\ KeepsSource(w)
  /\ \/ CompletedPass(session[w]) \/ MechanicalOutput(session[w], FALSE)
     \/ ServiceError(session[w]) \/ Continuable(session[w])
     \/ block[w].kind \in {"interrupted", "timeout"}

-----------------------------------------------------------------------------
\* A round of the audit.

Blocked(w) == block[w].kind # "none" /\ block[w].from = cursor

\* The longest readable prefix that fits.
BatchEnd ==
  CHOOSE t \in cursor..main :
    /\ t <= cursor + MaxBatch /\ (cursor + 1)..t \cap Oversized = {}
    /\ \/ t = main \/ t = cursor + MaxBatch \/ t + 1 \in Oversized

\* No block at the cursor: the next batch is formed, or it is a matter for a human.
PlanBatch(w) ==
  /\ job[w].step = "idle" /\ ~Blocked(w) /\ cursor < main
  /\ IF BatchEnd = cursor
     THEN /\ block' = [block EXCEPT ![w] = [kind |-> "manual", from |-> cursor, to |-> 0]]
          /\ UNCHANGED job
     ELSE /\ job' = [job EXCEPT ![w] =
                [AtRest EXCEPT !.from = cursor, !.to = BatchEnd,
                   !.step = IF (cursor + 1)..BatchEnd \subseteq Quiet THEN "judged" ELSE "planned",
                   !.verdict = IF (cursor + 1)..BatchEnd \subseteq Quiet THEN "pass" ELSE "none"]]
          /\ UNCHANGED block
  /\ UNCHANGED <<main, cursor, session, refusals, cooling, human, upsets, accused, launches>>

\* The budget of this conversation, as it is saved before a launch.
Reserved(w) == [cooling EXCEPT ![w] = TRUE]

\* A finished answer needs no other request; anything else waits for its cooldown,
\* and the budget is on disk before anything is launched.
Recover(w) ==
  /\ job[w].step = "idle" /\ Blocked(w) /\ Recoverable(w)
  /\ IF CompletedPass(session[w])
     THEN /\ job' = [job EXCEPT ![w] = [AtRest EXCEPT !.step = "judged", !.from = block[w].from,
                                          !.to = block[w].to, !.verdict = "pass"]]
          /\ UNCHANGED cooling
     ELSE /\ ~cooling[w]
          /\ cooling' = Reserved(w)
          /\ job' = [job EXCEPT ![w] = [AtRest EXCEPT !.step = "reserved", !.from = block[w].from,
                                          !.to = block[w].to, !.by = "recovery"]]
  /\ UNCHANGED <<main, cursor, block, session, refusals, human, upsets, accused, launches>>

\* The cursor is read again, and the attempt journaled before its launch.
Journal(w) ==
  /\ job[w].step = "reserved"
  /\ IF cursor = job[w].from
     THEN /\ job' = [job EXCEPT ![w].step = "planned"]
          /\ block' = [block EXCEPT ![w].kind = "interrupted"]
          /\ session' = [session EXCEPT ![w].out = "none"]
     ELSE /\ job' = [job EXCEPT ![w] = AtRest]
          /\ UNCHANGED <<block, session>>
  /\ UNCHANGED <<main, cursor, refusals, cooling, human, upsets, accused, launches>>

\* Mutant: the block is written when the inspection has failed, not before it runs.
UnblockedLaunch(w) == block[w]

LaunchBlock(w) == [kind |-> "interrupted", from |-> job[w].from, to |-> job[w].to]

\* run_client: the execution record and the block are on disk when a request starts.
\* A fresh inspection has a new conversation and a budget of its own; an attempt has no transcript yet.
LaunchClient(w) ==
  LET fresh == job[w].by = "round" /\ job[w].try = 1 IN
  /\ job[w].step = "planned"
  /\ block' = [block EXCEPT ![w] = LaunchBlock(w)]
  /\ session' = [session EXCEPT ![w] =
                    IF fresh THEN NoSession ELSE IF job[w].try = 1 THEN [@ EXCEPT !.out = "none"] ELSE @]
  /\ cooling' = [cooling EXCEPT ![w] = IF fresh THEN FALSE ELSE @]
  /\ launches' = [launches EXCEPT ![w] =
                    IF fresh THEN 0
                    ELSE IF job[w].by = "recovery" /\ job[w].try = 1 /\ @ < 2 THEN @ + 1 ELSE @]
  /\ job' = [job EXCEPT ![w].step = "asking"]
  /\ UNCHANGED <<main, cursor, refusals, human, upsets, accused>>

\* One turn of the model.  It reads pages in order; it ends with a judgment, without
\* one, or not at all.  Turns that neither read on nor conclude are bounded.
ModelTurn(w) ==
  LET s == session[w] IN
  /\ job[w].step = "asking"
  /\ \E read \in session[w].read..Pages, got \in {"pass", "unfinished", "empty", "concern",
                                                  "turn", "service", "timeout"},
        token \in BOOLEAN, recants \in BOOLEAN :
       /\ recants => got \in {"pass", "timeout"}
       /\ got \in {"turn", "service", "timeout"} => ~token
       /\ IF \/ got \in {"empty", "turn", "service", "timeout"}
             \/ ~token /\ got \in {"pass", "unfinished"}
             \/ got \in {"pass", "unfinished"} /\ read < Pages /\ read = session[w].read
             \/ got = "unfinished" /\ read = Pages
          THEN Faulty ELSE UNCHANGED upsets
       /\ session' = [session EXCEPT ![w] = [s EXCEPT
            !.native = TRUE, !.read = read,
            !.concern = s.concern \/ got = "concern" \/ recants,
            !.empty = s.empty \/ got = "empty",
            !.last = IF got \in Finals THEN got ELSE IF recants THEN "concern" ELSE s.last,
            !.token = IF got \in Finals THEN token ELSE s.token,
            !.out = IF s.out = "answer" /\ (got \in Finals \/ recants) THEN "stale" ELSE s.out]]
       /\ accused' = [accused EXCEPT ![w] =
                        IF got = "concern" \/ recants THEN @ \cup {job[w].from} ELSE @]
       /\ job' = [job EXCEPT ![w].step = "said", ![w].got = got]
  /\ UNCHANGED <<main, cursor, block, refusals, cooling, human, launches>>

-----------------------------------------------------------------------------
\* How an attempt ends.

Fails(w, kind) ==
  /\ block' = [block EXCEPT ![w] = [kind |-> kind, from |-> job[w].from, to |-> job[w].to]]
  /\ job' = [job EXCEPT ![w] = AtRest]

\* The client exits and its transcript is kept; a request past its time is killed, which the block tells
\* of unless an administrator asked for it.
ClientExits(w) ==
  /\ job[w].step = "said"
  /\ session' = [session EXCEPT ![w].out =
        IF job[w].got = "timeout" THEN "none"
        ELSE IF job[w].got \in Finals THEN "answer" ELSE job[w].got]
  /\ IF job[w].got = "timeout" THEN Fails(w, IF job[w].by = "admin" THEN "failed" ELSE "timeout")
     ELSE job' = [job EXCEPT ![w].step = "back"] /\ UNCHANGED block
  /\ UNCHANGED <<main, cursor, refusals, cooling, human, upsets, accused, launches>>

\* What an answer comes to.  A pass after a concern is not a pass.
VerdictOf(s) ==
  IF s.out = "answer" /\ (s.last = "concern" \/ (s.last = "pass" /\ s.concern)) THEN "concern"
  ELSE IF CompletedPass(s) THEN "pass" ELSE "none"

\* At most three requests in the same conversation, then the answer counts as it is.
AsksAgain(w) ==
  /\ job[w].try < 3
  /\ \/ MechanicalOutput(session[w], TRUE) \/ Continuable(session[w])
     \/ ServiceError(session[w])

Judge(w) ==
  LET s == session[w] IN
  /\ job[w].step = "back"
  /\ \/ /\ AsksAgain(w)
        /\ job' = [job EXCEPT ![w].step = "planned", ![w].try = @ + 1]
        /\ UNCHANGED block
     \/ /\ ~AsksAgain(w)
        /\ IF VerdictOf(s) = "none" THEN Fails(w, "failed")
           ELSE /\ job' = [job EXCEPT ![w].step = "judged", ![w].verdict = VerdictOf(s)]
                /\ UNCHANGED block
  /\ UNCHANGED <<main, cursor, session, refusals, cooling, human, upsets, accused, launches>>

\* The verdict is in the ledger before anything follows from it.
RecordVerdict(w) ==
  /\ job[w].step = "judged"
  /\ refusals' = IF job[w].verdict = "pass" THEN refusals
                 ELSE [refusals EXCEPT ![w] = @ \cup {<<job[w].from, job[w].to>>}]
  /\ job' = [job EXCEPT ![w].step = "recorded"]
  /\ UNCHANGED <<main, cursor, block, session, cooling, human, upsets, accused, launches>>

BlockOnConcern(w) ==
  /\ job[w].step = "recorded" /\ job[w].verdict = "concern"
  /\ Fails(w, "failed")
  /\ UNCHANGED <<main, cursor, session, refusals, cooling, human, upsets, accused, launches>>

-----------------------------------------------------------------------------
\* The cursor moves only forward, and only from where the batch began.

\* A round keeps the block of its launch, a recovery writes a new one.
NoProgress(w) ==
  IF job[w].by # "round" THEN Fails(w, "failed")
  ELSE job' = [job EXCEPT ![w] = AtRest] /\ UNCHANGED block

CheckCursor(w) ==
  /\ job[w].step = "recorded" /\ job[w].verdict = "pass"
  /\ IF cursor = job[w].from THEN job' = [job EXCEPT ![w].step = "checked"] /\ UNCHANGED block
     ELSE NoProgress(w)
  /\ UNCHANGED <<main, cursor, session, refusals, cooling, human, upsets, accused, launches>>

\* The request takes effect only as a fast-forward; its answer may be lost.
PatchCursor(w) ==
  /\ job[w].step = "checked"
  /\ \/ /\ cursor <= job[w].to /\ cursor' = job[w].to
        /\ \/ job' = [job EXCEPT ![w].step = "patched"] /\ UNCHANGED <<block, upsets>>
           \/ Faulty /\ NoProgress(w)
     \/ cursor > job[w].to /\ NoProgress(w) /\ UNCHANGED <<cursor, upsets>>
     \/ Faulty /\ NoProgress(w) /\ UNCHANGED cursor
  /\ UNCHANGED <<main, session, refusals, cooling, human, accused, launches>>

ConfirmCursor(w) ==
  /\ job[w].step = "patched"
  /\ IF cursor = job[w].to
     THEN /\ block' = [block EXCEPT ![w] = NoBlock]
          /\ job' = [job EXCEPT ![w] = AtRest]
     ELSE NoProgress(w)
  /\ UNCHANGED <<main, cursor, session, refusals, cooling, human, upsets, accused, launches>>

-----------------------------------------------------------------------------
\* Around the rounds.

AuditorKilled(w) ==
  /\ job[w].step # "idle" /\ Faulty
  /\ job' = [job EXCEPT ![w] = AtRest]
  /\ UNCHANGED <<main, cursor, block, session, refusals, cooling, human, accused, launches>>

CooldownEnds(w) ==
  /\ cooling[w] /\ job[w].step = "idle"
  /\ cooling' = [cooling EXCEPT ![w] = FALSE]
  /\ launches' = [launches EXCEPT ![w] = 0]
  /\ UNCHANGED <<main, cursor, block, session, refusals, job, human, upsets, accused>>

\* An administrator continues a conversation that failed in service or in form, whatever its budget, which
\* stays as it is.
AdminResumes(w) ==
  LET s == session[w] IN
  /\ job[w].step = "idle" /\ Blocked(w) /\ block[w].kind = "failed" /\ s.native
  /\ <<block[w].from, block[w].to>> \notin refusals[w]
  /\ \/ s.out = "service" /\ s.last = "none"
     \/ s.out = "answer" /\ s.last = "empty" /\ ~s.concern /\ s.read = Pages /\ s.token
  /\ upsets.admin < MaxAdmin /\ upsets' = [upsets EXCEPT !.admin = @ + 1]
  /\ job' = [job EXCEPT ![w] = [AtRest EXCEPT !.step = "planned", !.from = block[w].from,
                                  !.to = block[w].to, !.by = "admin"]]
  /\ UNCHANGED <<main, cursor, block, session, refusals, cooling, human, accused, launches>>

\* A human signs off the commits up to one of main.
AttestBegins ==
  /\ human.step = "idle"
  /\ \E t \in (cursor + 1)..main : human' = [step |-> "attesting", from |-> cursor, to |-> t]
  /\ UNCHANGED <<main, cursor, block, session, refusals, cooling, job, upsets, accused, launches>>

AttestAdvances ==
  /\ human.step = "attesting"
  /\ cursor' = IF cursor <= human.to THEN human.to ELSE cursor
  /\ human' = [human EXCEPT !.step = "idle"]
  /\ UNCHANGED <<main, block, session, refusals, cooling, job, upsets, accused, launches>>

CommitLands ==
  /\ main < LastCommit /\ main' = main + 1
  /\ UNCHANGED <<cursor, block, session, refusals, cooling, job, human, upsets, accused, launches>>

AuditStep(w) ==
  \/ PlanBatch(w) \/ Recover(w) \/ Journal(w) \/ LaunchClient(w) \/ ModelTurn(w) \/ ClientExits(w)
  \/ Judge(w) \/ RecordVerdict(w) \/ BlockOnConcern(w) \/ CheckCursor(w) \/ PatchCursor(w)
  \/ ConfirmCursor(w)

AuditNext ==
  \/ \E w \in Auditors : AuditStep(w) \/ AuditorKilled(w) \/ CooldownEnds(w) \/ AdminResumes(w)
  \/ AttestBegins \/ AttestAdvances \/ CommitLands

AuditSpec == AuditInit /\ [][AuditNext]_avars

\* Rounds come and go on, and cooldowns end; nobody has to attest or to resume.
AuditFairness == \A w \in Auditors : WF_avars(AuditStep(w)) /\ WF_avars(CooldownEnds(w))

AuditFairSpec == AuditSpec /\ AuditFairness

-----------------------------------------------------------------------------
\* A worker in whose conversation a fault was found does not, from that cursor, pass
\* the batch: not in a later turn, not after a kill at any point, not by a fresh
\* inspection (audit_recovery.py:1, security_audit.py:1206-1221).
FindingBinds ==
  \A w \in Auditors :
    job[w].step \in {"recorded", "checked", "patched"} /\ job[w].verdict = "pass"
      => job[w].from \notin accused[w]

\* The cursor only moves forward, over commits that a human attested, or over a whole
\* batch that one conversation read to its last page and passed
\* (security_audit.py:1241-1283).
PassedIsRead ==
  cursor' # cursor =>
    /\ cursor' > cursor
    /\ \/ human.step = "attesting" /\ human.from <= cursor /\ cursor' = human.to
       \/ \E w \in Auditors :
            /\ job[w].step = "checked" /\ job[w].from <= cursor /\ cursor' = job[w].to
            /\ \/ Whole(session[w]) /\ ~session[w].concern
               \/ (job[w].from + 1)..job[w].to \subseteq Quiet

\* However often a worker is killed and started again, one recovery is launched in a
\* cooldown (audit_recovery.py:413-417).
BudgetStands == \A w \in Auditors : launches[w] <= 1

JudgmentSafe == AuditTypeOK /\ FindingBinds /\ BudgetStands

\* A human has to look: a commit does not fit, the history has a concern or an empty
\* judgment that three requests did not mend, the token of a read page is wrong, the
\* client left no conversation, or what an administrator asked for took too long.
Held(w) ==
  /\ Blocked(w)
  /\ \/ block[w].kind = "manual" \/ ~session[w].native
     \/ session[w].concern \/ session[w].empty
     \/ session[w].read \in 1..(Pages - 1) /\ ~session[w].token
     \/ block[w].kind = "failed" /\ session[w].out = "none"

\* The audit catches up with main, or a worker is held for a human
\* (audit_recovery.py:413, security_audit.py:1342-1348).
CaughtUp == cursor = main \/ \E w \in Auditors : Held(w)
=============================================================================
