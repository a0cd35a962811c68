------------------------------- MODULE SafePush ------------------------------
(***************************************************************************)
(* The push arbiter, scripts/git-safe-push, and what is concluded from the *)
(* local refs it leaves behind (repair_recovery.reconcile_handoff).        *)
(*                                                                         *)
(* A round owns a source that recovery handed to it.  Its agent commits    *)
(* and runs git-safe-push any number of times; other writers move the      *)
(* branch; a push may be lost, or take effect after its client has given   *)
(* up.  When the round is over its checkout is captured (work_recovery.    *)
(* guard) and the handoff is settled: published, kept as evidence only, or *)
(* given back to automatic recovery, which would publish it once more.     *)
(***************************************************************************)
EXTENDS Naturals, Sequences

CONSTANTS Base,        \* the branch head that was checked out
          Commits,     \* the commits made after it, by anyone
          MaxAttempts, \* bound: invocations of git-safe-push
          MaxForeign,  \* bound: moves of the branch by other writers
          NoopPushes,  \* may git-safe-push run with nothing new to push?
          RefFaults    \* may a local `git update-ref` fail?

ASSUME SafePushAssumption ==
    /\ Commits \subseteq Nat
    /\ Base \in Nat \ Commits
    /\ MaxAttempts \in Nat
    /\ MaxForeign \in Nat
    /\ NoopPushes \in BOOLEAN
    /\ RefFaults \in BOOLEAN

VARIABLES
    branch,   \* head of the remote branch
    history,  \* every head it has had
    foreign,  \* how often another writer moved it
    wire,     \* attempts that may still take effect
    landed,   \* attempts that took effect
    head,     \* HEAD of the checkout
    expect,   \* TAUCETI_PUSH_EXPECT
    known,    \* commits reachable from remote-tracking or published refs
    attempts, \* the attempt tags: the oid pushed and the head expected
    pc,       \* the step the running git-safe-push is at
    refs,     \* its local refs; 0 when absent
    receipt,  \* the durable outcome of the receiving round
    round,    \* is the round working, over, its checkout replaced?
    verdict   \* what became of the handed-off source

remote == <<branch, history, foreign, wire, landed>>
checkout == <<head, expect, known>>
vars == <<remote, checkout, attempts, pc, refs, receipt, round, verdict>>

All == Commits \cup {Base}
Ids == 1..MaxAttempts
Attempt == [oid : All, expect : All]
Steps == {"idle", "intent", "attempt", "push", "changed", "mark", "clear", "rejected", "withdraw"}
Refs == [pending : 0..MaxAttempts,   \* pending-push/<scope>/<branch>
         attempt : 0..MaxAttempts,   \* push-attempt-scope/<scope>/<branch>
         rejected : 0..MaxAttempts,  \* push-rejected-scope/<scope>/<branch>
         scoped : BOOLEAN,           \* published/scope/<scope>/<branch> exists
         pushed : BOOLEAN]           \* published/push/<branch> was written
NoReceipt == [known |-> FALSE, published |-> FALSE, pending |-> FALSE, source |-> FALSE]
Receipts == [known : BOOLEAN,        \* the outcome was captured
             published : BOOLEAN,    \* it names a published head
             pending : BOOLEAN,      \* it names a pending publication
             source : BOOLEAN]       \* it names a checkpoint of unpublished source
Verdicts == {"none", "published", "forensic", "transferred", "returned"}

\* The types of the variables, and the order of the evidence: nothing is sent
\* before its intent and its attempt are on record, and nothing is settled
\* before the outcome of the round is durable.  (git-safe-push, reconcile_handoff)
TypeOK ==
    /\ branch \in All /\ history \subseteq All /\ foreign \in 0..MaxForeign
    /\ wire \subseteq Ids /\ landed \subseteq Ids
    /\ head \in All /\ expect \in All /\ known \subseteq All
    /\ attempts \in Seq(Attempt) /\ Len(attempts) <= MaxAttempts
    /\ pc \in Steps /\ refs \in Refs /\ receipt \in Receipts
    /\ round \in {"working", "over", "replaced"} /\ verdict \in Verdicts
    /\ \A n \in wire \cup landed : refs.attempt >= n
    /\ pc = "push" => refs.pending > 0 /\ refs.attempt = Len(attempts)
    /\ verdict \notin {"none", "published"} => receipt.known

Init ==
    /\ branch = Base /\ history = {Base} /\ foreign = 0
    /\ wire = {} /\ landed = {}
    /\ head = Base /\ expect = Base /\ known = {Base}
    /\ attempts = <<>>
    /\ pc = "idle"
    /\ refs = [pending |-> 0, attempt |-> 0, rejected |-> 0, scoped |-> FALSE, pushed |-> FALSE]
    /\ receipt = NoReceipt
    /\ round = "working"
    /\ verdict = "none"

------------------------------------------------------------------------------
(* The remote *)

\* The least commit that nobody has made yet.
New == {c \in Commits : /\ c \notin history \cup known \cup {head}
                        /\ \A n \in DOMAIN attempts : attempts[n].oid # c
                        /\ \A d \in Commits : d < c => \/ d \in history \cup known \cup {head}
                                                       \/ \E n \in DOMAIN attempts : attempts[n].oid = d}

MoveBranch(c) ==
    /\ branch' = c
    /\ history' = history \cup {c}

\* --force-with-lease: the branch must still be at the expected head.
\* Mutant: a plain --force.
ForcePush(a) == TRUE
Accepts(a) == branch = a.expect

\* Another writer pushes a commit of its own, or puts an earlier head back.
Foreign ==
    /\ foreign < MaxForeign
    /\ \E c \in New \cup (history \ {branch}) : MoveBranch(c)
    /\ foreign' = foreign + 1
    /\ UNCHANGED <<wire, landed, checkout, attempts, pc, refs, receipt, round, verdict>>

\* A push whose client is gone reaches the server after all, or never does.
WireArrives(n) ==
    /\ n \in wire
    /\ wire' = wire \ {n}
    /\ \/ /\ Accepts(attempts[n])
          /\ MoveBranch(attempts[n].oid)
          /\ landed' = landed \cup {n}
       \/ UNCHANGED <<branch, history, landed>>
    /\ UNCHANGED <<foreign, checkout, attempts, pc, refs, receipt, round, verdict>>

------------------------------------------------------------------------------
(* The agent, between two invocations *)

AgentFree == round = "working" /\ pc = "idle"

\* It commits, or resets to the head it was given.
Commit ==
    /\ AgentFree
    /\ head' \in New \cup {expect}
    /\ UNCHANGED <<remote, expect, known, attempts, pc, refs, receipt, round, verdict>>

\* "re-integrate before another CAS push": it fetches the branch and goes on
\* from there.
Reintegrate ==
    /\ AgentFree
    /\ head' = branch
    /\ expect' = branch
    /\ known' = known \cup {branch}
    /\ UNCHANGED <<remote, attempts, pc, refs, receipt, round, verdict>>

------------------------------------------------------------------------------
(* git-safe-push, one local or remote effect at a time *)

This == Len(attempts)
GoTo(step) == pc' = step /\ UNCHANGED <<remote, head, expect, attempts, receipt, round, verdict>>

\* The lease check passed (a refusal, exit 77, changes nothing); the attempt
\* has an identity of its own.
Begin ==
    /\ AgentFree
    /\ Len(attempts) < MaxAttempts
    /\ NoopPushes \/ head # expect
    /\ attempts' = Append(attempts, [oid |-> head, expect |-> expect])
    /\ pc' = "intent"
    /\ UNCHANGED <<remote, checkout, refs, receipt, round, verdict>>

\* The earliest unacknowledged attempt stays pending.
\* Mutants: each attempt replaces the one before it; the test is inverted.
LatestPending(pending) == This
InvertedPending(pending) == IF pending = 0 THEN 0 ELSE This
EarliestPending(pending) == IF pending = 0 THEN This ELSE pending

KeepIntent ==
    /\ pc = "intent"
    /\ \/ refs' = [refs EXCEPT !.pending = EarliestPending(@)] /\ GoTo("attempt")
       \/ RefFaults /\ UNCHANGED refs /\ GoTo("idle")
    /\ UNCHANGED known

\* A definitive refusal withdraws this invocation's intent, never an older one.
\* Mutant: it withdraws whatever is pending.
WithdrawAny(pending) == 0
Withdrawn(pending) == IF pending = This THEN 0 ELSE pending

\* infra_die, exit 80: nothing was sent.
KeepAttempt ==
    /\ pc = "attempt"
    /\ \/ refs' = [refs EXCEPT !.attempt = This] /\ GoTo("push")
       \/ RefFaults /\ refs' = [refs EXCEPT !.pending = Withdrawn(@)] /\ GoTo("idle")
       \/ RefFaults /\ UNCHANGED refs /\ GoTo("idle")
    /\ UNCHANGED known

Answer(step) == pc' = step /\ UNCHANGED <<foreign, checkout, attempts, refs, receipt, round, verdict>>

\* The push is accepted; git says so.
PushAccepted ==
    /\ pc = "push"
    /\ attempts[This].oid # branch
    /\ Accepts(attempts[This])
    /\ MoveBranch(attempts[This].oid)
    /\ landed' = landed \cup {This}
    /\ UNCHANGED wire
    /\ Answer("changed")

\* git finds the branch at this very commit: "=", whatever was expected.
PushUpToDate ==
    /\ pc = "push"
    /\ attempts[This].oid = branch
    /\ UNCHANGED <<branch, history, landed, wire>>
    /\ Answer("mark")

\* "[rejected]" (the lease is stale, exit 78) or "[remote rejected]" (79).
PushRejected ==
    /\ pc = "push"
    /\ attempts[This].oid # branch
    /\ UNCHANGED <<branch, history, landed, wire>>
    /\ Answer("rejected")

\* No answer, exit 1: it did not arrive, or has not arrived yet.
PushUncertain ==
    /\ pc = "push"
    /\ wire' = wire \cup {This}
    /\ UNCHANGED <<branch, history, landed>>
    /\ Answer("idle")

\* The published refs, then the pending one; a failed write keeps the rest.
MarkScope ==
    /\ pc = "changed"
    /\ \/ /\ refs' = [refs EXCEPT !.scoped = TRUE]
          /\ known' = known \cup {attempts[This].oid}
          /\ GoTo("mark")
       \/ RefFaults /\ UNCHANGED <<refs, known>> /\ GoTo("idle")

MarkPush ==
    /\ pc = "mark"
    /\ \/ /\ refs' = [refs EXCEPT !.pushed = TRUE]
          /\ known' = known \cup {attempts[This].oid}
          /\ GoTo("clear")
       \/ RefFaults /\ UNCHANGED <<refs, known>> /\ GoTo("idle")

ClearPending ==
    /\ pc = "clear"
    /\ \/ refs' = [refs EXCEPT !.pending = 0]
       \/ RefFaults /\ UNCHANGED refs
    /\ UNCHANGED known
    /\ GoTo("idle")

MarkRejected ==
    /\ pc = "rejected"
    /\ \/ refs' = [refs EXCEPT !.rejected = This]
       \/ RefFaults /\ UNCHANGED refs
    /\ UNCHANGED known
    /\ GoTo("withdraw")

WithdrawIntent ==
    /\ pc = "withdraw"
    /\ \/ refs' = [refs EXCEPT !.pending = Withdrawn(@)]
       \/ RefFaults /\ UNCHANGED refs
    /\ UNCHANGED known
    /\ GoTo("idle")

Script ==
    \/ KeepIntent \/ KeepAttempt
    \/ PushAccepted \/ PushUpToDate \/ PushRejected \/ PushUncertain
    \/ MarkScope \/ MarkPush \/ ClearPending \/ MarkRejected \/ WithdrawIntent

------------------------------------------------------------------------------
(* The end of the round, its receipt, and the handoff *)

\* The agent ends, is cancelled or killed, at any step of the script; a push
\* in progress is on its own.  complete_handoffs may get to run.
EndRound ==
    /\ round = "working"
    /\ round' = "over"
    /\ pc' = "idle"
    /\ wire' \in {wire} \cup (IF pc = "push" THEN {wire \cup {This}} ELSE {})
    /\ verdict' \in {verdict} \cup (IF refs.scoped THEN {"published"} ELSE {})
    /\ UNCHANGED <<branch, history, foreign, landed, checkout, attempts, refs, receipt>>

\* push_intent: a pending push of the very head it expected is no publication.
Publishes(n) == n > 0 /\ attempts[n].oid # attempts[n].expect

\* work_recovery.guard and _handoff_source_receipts, in this process or in the
\* next one, on the checkout or on its retained copy.
\* Mutant: only the checkout that is still in place is captured.
CaptureInPlace == round = "over"
CanCapture == round # "working"

Capture ==
    /\ CanCapture
    /\ ~receipt.known
    /\ receipt' = [known |-> TRUE, published |-> refs.scoped,
                   pending |-> Publishes(refs.pending), source |-> head \notin known]
    /\ UNCHANGED <<remote, checkout, attempts, pc, refs, round, verdict>>

\* The checkout is moved aside; a fresh clone has none of its refs.
ReplaceCheckout ==
    /\ round = "over"
    /\ round' = "replaced"
    /\ UNCHANGED <<remote, checkout, attempts, pc, refs, receipt, verdict>>

\* No attempt of this round is unaccounted for: none was made, the last one was
\* rejected and none is pending, or the last one had nothing to push.
NothingSent ==
    \/ refs.attempt = 0 /\ refs.pending = 0
    \/ refs.attempt > 0 /\ refs.rejected = refs.attempt /\ refs.pending = 0
    \/ /\ refs.attempt > 0 /\ ~Publishes(refs.attempt)
       /\ refs.pending \in {0, refs.attempt}

\* ls-remote: the branch is at the last attempt's commit; it has not moved and
\* nothing was attempted; or nothing can be ruled out.
\* Mutant: a branch that moved is taken for the attempt.
FromRemoteMoved == IF branch # Base THEN "published" ELSE "returned"
FromRemote ==
    IF refs.attempt > 0 /\ branch = attempts[refs.attempt].oid THEN "published"
    ELSE IF refs.attempt = 0 /\ branch = Base THEN "returned"
    ELSE "forensic"

\* reconcile_handoff, in its order.  A failed ls-remote is retried later.
Settled ==
    IF (round = "over" /\ refs.scoped) \/ receipt.published THEN "published"
    ELSE IF receipt.source THEN IF receipt.pending THEN "forensic" ELSE "transferred"
    ELSE IF receipt.pending THEN "forensic"
    ELSE IF round = "replaced" \/ NothingSent THEN "returned"
    ELSE FromRemote

Reconcile ==
    /\ round # "working"
    /\ verdict = "none"
    /\ receipt.known \/ (round = "over" /\ refs.scoped)
    /\ verdict' = Settled
    /\ UNCHANGED <<remote, checkout, attempts, pc, refs, receipt, round>>

Next ==
    \/ Foreign
    \/ \E n \in wire : WireArrives(n)
    \/ Commit \/ Reintegrate \/ Begin \/ Script
    \/ EndRound \/ Capture \/ ReplaceCheckout \/ Reconcile

Spec == Init /\ [][Next]_vars

\* A round ends by its deadline; every later round of the worker runs recovery
\* first, which captures an unacknowledged handoff and reconciles it.
FairSpec == Spec /\ WF_vars(EndRound) /\ WF_vars(Capture) /\ WF_vars(Reconcile)

------------------------------------------------------------------------------
(* Properties *)

\* The pushes of something new that took effect or still may.
Sent == {n \in landed \cup wire : Publishes(n)}

\* "we NEVER silently overwrite another agent's work": whatever is still on the
\* wire, the branch moves away from a head that the worker has not seen only
\* when another writer moves it.  (git-safe-push, --force-with-lease)
OverwritesOnlyKnown ==
    [][branch' # branch /\ foreign' = foreign => branch \in known]_vars

\* A source is settled as published only if a push of the round took effect:
\* no marker, receipt or ls-remote is taken for one that never did.
\* (git-safe-push published refs, reconcile_handoff)
PublishedLanded == verdict = "published" => landed # {}

\* "A later rejection cannot prove that an earlier transport failure was never
\* accepted": a source goes back to automatic recovery only if no push of the
\* round took effect or still may.  (git-safe-push PENDING, reconcile_handoff)
\* The model violates it: see the README's findings.
ReturnedUnsent ==
    verdict = "returned" => Sent = {}

\* The same as long as git never answered that the branch was there already:
\* in whatever order pushes are lost, delayed, refused and repeated, and
\* wherever the script is killed.
ReturnedUnsentUnlessUpToDate ==
    verdict = "returned" /\ ~refs.pushed => Sent = {}

\* A checkpoint of the round that recovery will publish by itself holds source
\* that no push of the round can publish as well.  (reconcile_handoff, guard)
TransferredUnsent ==
    verdict = "transferred" => \A n \in Sent : attempts[n].oid # head

\* Every handoff of a round that is over is settled.  (recover, reconcile_handoff)
HandoffSettles == (round # "working") ~> (verdict # "none")
==============================================================================
