------------------------------- MODULE Outbox --------------------------------
(***************************************************************************)
(* The durable publication outbox, github_outbox.py, around the gh proxy   *)
(* github_transport.execute.                                               *)
(*                                                                         *)
(* Every write to GitHub is first a private intent.  Its caller marks the  *)
(* intent as sending, runs gh and classifies the answer; an intent that is *)
(* not settled stays behind, and the next round drains it: a rejected one  *)
(* is sent again, an uncertain one is first compared with GitHub.  Between *)
(* any two steps the caller, or the round that drains, may be killed.      *)
(***************************************************************************)
EXTENDS Naturals, FiniteSets

CONSTANTS Intents,    \* publications, numbered in the order they are made
          Kind,       \* what each of them is
          Target,     \* the pull request it concerns
          NoTarget,   \* target() cannot tell
          Mine,       \* intents of the worker that drains; others share the scope
          Late,       \* may a request take effect after its client is gone?
          MaxFaults   \* bound: refusals, lost answers, kills, failed reads, repeats

Kinds == {"comment",  \* creates something a listing shows (comment, issue, PR)
          "edit",     \* PATCH of one shared comment
          "close",    \* gh pr close --comment: two writes
          "resolve",  \* resolveReviewThread, a best-effort follow-up
          "fork",     \* gh repo fork
          "opaque"}   \* any other mutation

ASSUME OutboxAssumption ==
    /\ Intents \subseteq Nat \ {0}
    /\ IsFiniteSet(Intents)
    /\ Kind \in [Intents -> Kinds]
    /\ DOMAIN Target = Intents
    /\ Mine \subseteq Intents
    /\ Late \in BOOLEAN
    /\ MaxFaults \in Nat

VARIABLES
    status,   \* of the intent file; "new" before, and how it went after
    wait,     \* retry_at lies in the future
    fork,     \* fork intents: retries spent, absence first seen, age of `updated`
    caller,   \* the gh proxy process that makes the publication
    answer,   \* the request a process waits for, and what it will see
    wire,     \* requests still on their way when their process was gone
    applied,  \* how often the publication took effect
    body,     \* the edit the shared comment shows
    pr,       \* the pull request of the close: closed, changed since?
    drain,    \* the pass over the retained intents
    faults,   \* spent so far
    history   \* late: read as absent with a request still on the wire;
              \* forced: retried by the operator; replays: by a pass, less refusals

github == <<answer, wire, applied, body>>
outboxvars == <<status, wait, fork, caller, github, pr, drain, faults, history>>

Statuses == {"new", "prepared", "rejected", "sending", "ambiguous",
             "published", "superseded", "failed"}
NoDrain == [step |-> "off", at |-> 0, todo |-> {}, blocked |-> {}, raised |-> {}, moved |-> FALSE]

\* Who waits for the request of an intent.
Resending(i) == drain.step = "answer" /\ drain.at = i
Waiting(i) == caller[i] = "waiting" \/ Resending(i)

Retained(i) == status[i] \in {"prepared", "rejected", "sending", "ambiguous"}

Drains == [step : {"off", "look", "send", "answer"}, at : Intents \cup {0}, todo : SUBSET Mine,
           blocked : SUBSET {Target[i] : i \in Intents}, raised : SUBSET Mine, moved : BOOLEAN]
Forks == [retries : 0..1, absent : {"no", "recent", "old"}, fresh : BOOLEAN]

IntentTypes ==
    /\ status \in [Intents -> Statuses]
    /\ wait \in [Intents -> BOOLEAN]
    /\ fork \in [Intents -> Forks]

GithubTypes ==
    /\ answer \in [Intents -> {"none", "pending", "lost", "ok", "rejected", "denied", "partial"}]
    /\ wire \in [Intents -> Nat] /\ applied \in [Intents -> Nat]
    /\ body \in Intents \cup {0}
    /\ pr \in [closed : BOOLEAN, moved : BOOLEAN]

Types ==
    /\ IntentTypes /\ GithubTypes
    /\ caller \in [Intents -> {"none", "ready", "waiting"}]
    /\ drain \in Drains
    /\ faults \in 0..MaxFaults
    /\ history \in [late : SUBSET Intents, forced : SUBSET Intents, replays : [Intents -> Nat]]

\* The types, and who may be doing what: the process that sends holds an intent
\* marked as sending, and a pass waits only on an intent of its own.
\* (github_outbox.sending, drain)
OutboxTypeOK ==
    /\ Types
    /\ \A i \in Intents :
        /\ Waiting(i) => status[i] = "sending"
        /\ answer[i] # "none" <=> Waiting(i)
        /\ caller[i] # "none" /\ i \in Mine => drain.step = "off"
        /\ Kind[i] # "fork" => fork[i].retries = 0
    /\ drain.step # "off" => drain.at \in drain.todo

OutboxInit ==
    /\ status = [i \in Intents |-> "new"]
    /\ wait = [i \in Intents |-> FALSE]
    /\ fork = [i \in Intents |-> [retries |-> 0, absent |-> "no", fresh |-> FALSE]]
    /\ caller = [i \in Intents |-> "none"]
    /\ wire = [i \in Intents |-> 0]
    /\ answer = [i \in Intents |-> "none"]
    /\ applied = [i \in Intents |-> 0]
    /\ body = 0
    /\ pr = [closed |-> FALSE, moved |-> FALSE]
    /\ drain = NoDrain
    /\ faults = 0
    /\ history = [late |-> {}, forced |-> {}, replays |-> [i \in Intents |-> 0]]

Fault == faults < MaxFaults /\ faults' = faults + 1

\* The intent's lock file is held by the pass while it sends.
Locked(i) == drain.step \in {"send", "answer"} /\ drain.at = i

------------------------------------------------------------------------------
(* GitHub *)

Applies(i) ==
    /\ applied' = [applied EXCEPT ![i] = @ + 1]
    /\ body' = IF Kind[i] = "edit" THEN i ELSE body
    /\ pr' = IF Kind[i] = "close" THEN [pr EXCEPT !.closed = TRUE] ELSE pr

\* A request is handled, refused for now or for good, or lost on its way.  Of
\* the two writes of a close, the second one can fail alone.
Serve(i) ==
    LET Reply(r) == answer' = [answer EXCEPT ![i] = r] IN
    /\ answer[i] = "pending"
    /\ \/ Applies(i) /\ Reply("ok") /\ UNCHANGED <<faults, history>>
       \/ /\ Kind[i] = "close"
          /\ applied' = [applied EXCEPT ![i] = @ + 1]
          /\ Reply("partial") /\ Fault
          /\ UNCHANGED <<body, pr, history>>
       \/ /\ Reply("rejected") /\ Fault
          /\ history' = IF Resending(i) THEN [history EXCEPT !.replays[i] = @ - 1] ELSE history
          /\ UNCHANGED <<applied, body, pr>>
       \/ /\ \E r \in {"denied", "lost"} : Reply(r)
          /\ Fault
          /\ UNCHANGED <<applied, body, pr, history>>
    /\ UNCHANGED <<status, wait, fork, caller, wire, drain>>

\* A request whose process is gone takes effect after all, or never does.
Arrives(i) ==
    /\ wire[i] > 0
    /\ wire' = [wire EXCEPT ![i] = @ - 1]
    /\ Applies(i) \/ UNCHANGED <<applied, body, pr>>
    /\ UNCHANGED <<status, wait, fork, caller, answer, drain, faults, history>>

\* The author pushes to the pull request of a close, or someone puts a hold on it.
PullRequestMoves ==
    /\ \E i \in Intents : Kind[i] = "close"
    /\ ~pr.moved
    /\ pr' = [pr EXCEPT !.moved = TRUE]
    /\ UNCHANGED <<status, wait, fork, caller, github, drain, faults, history>>

\* Time passes: the retry times come; `longer`, more than five minutes go by.
Later ==
    \E longer \in BOOLEAN :
        /\ wait' = [i \in Intents |-> FALSE]
        /\ fork' = IF longer
                   THEN [i \in Intents |->
                           [fork[i] EXCEPT !.fresh = FALSE,
                                           !.absent = IF @ = "recent" THEN "old" ELSE @]]
                   ELSE fork
        /\ UNCHANGED <<status, caller, github, pr, drain, faults, history>>

------------------------------------------------------------------------------
(* The classification of an answer, for the caller and for the pass *)

\* Mutant: an answer that never came is taken for a success.
LostIsPublished(reply) == IF reply \in {"rejected", "blocked"} THEN "rejected" ELSE "published"

\* The command failed and nothing proves a permanent refusal: it was refused
\* for now, blocked before the request, or who knows.
Uncertain(reply) == IF reply \in {"rejected", "blocked"} THEN "rejected" ELSE "ambiguous"

\* _finish_locked.  A fork that succeeded is still to be verified.
Classified(i, reply) ==
    CASE reply = "ok" -> IF Kind[i] = "fork" THEN "ambiguous" ELSE "published"
      [] reply = "denied" -> "failed"
      [] OTHER -> Uncertain(reply)

\* A refused fork gets its replay back; refused credentials wait.
Finish(i, reply) ==
    /\ status' = [status EXCEPT ![i] = Classified(i, reply)]
    /\ \E auth \in BOOLEAN :
        /\ auth => reply = "rejected"
        /\ wait' = [wait EXCEPT ![i] = /\ Classified(i, reply) \in {"rejected", "ambiguous"}
                                       /\ @ \/ auth \/ reply = "ok"]
    /\ fork' = [fork EXCEPT ![i].fresh = TRUE,
                            ![i].retries = IF Uncertain(reply) = "rejected" THEN 0 ELSE @]

Request(i) == answer' = [answer EXCEPT ![i] = "pending"]
Received(i) == answer[i] \in {"ok", "rejected", "denied", "partial"}

\* A process stops waiting for its request, which may still be on its way.
Leaves(i) ==
    /\ answer[i] = "pending" => Late
    /\ wire' = IF answer[i] = "pending" THEN [wire EXCEPT ![i] = @ + 1] ELSE wire
    /\ answer' = [answer EXCEPT ![i] = "none"]

\* It is no fault to give up when no answer can come any more.
GivesUp(i) ==
    /\ Leaves(i)
    /\ IF answer[i] = "lost" THEN UNCHANGED faults ELSE Fault

------------------------------------------------------------------------------
(* The caller: github_transport.execute *)

CallerFree(i) == i \in Mine => drain.step = "off"
Moves(i, from, to) == caller[i] = from /\ CallerFree(i) /\ caller' = [caller EXCEPT ![i] = to]

\* Mutant: only a publication known to be settled is held back.
MaySendAgain(i) == Retained(i)
\* may_send, and again in sending under the lock.
MaySend(i) == status[i] \in {"prepared", "rejected"}

\* prepare: the intent is written before anything is sent.  A newer body of a
\* comment deletes the edits that were not sent, whoever retained them.
Prepare(i) ==
    /\ status[i] = "new"
    /\ \A j \in Intents : j < i => status[j] # "new"
    /\ Moves(i, "none", "ready")
    /\ LET old == {j \in Intents \ {i} : Kind[j] = "edit" /\ Kind[i] = "edit" /\ MaySend(j)}
       IN  /\ \A j \in Intents : Kind[j] = "edit" /\ Kind[i] = "edit" => ~Locked(j)
           /\ status' = [j \in Intents |-> IF j = i THEN "prepared"
                                           ELSE IF j \in old THEN "superseded" ELSE status[j]]
    /\ fork' = [fork EXCEPT ![i].fresh = TRUE]
    /\ UNCHANGED <<wait, github, pr, drain, faults, history>>

\* The agent repeats the command: the same semantic key finds the same intent.
Repeat(i) ==
    /\ Retained(i) /\ status[i] # "sending"
    /\ Moves(i, "none", "ready")
    /\ Fault
    /\ UNCHANGED <<status, wait, fork, github, pr, drain, history>>

\* The intent is pending, or a newer edit deleted it: nothing is sent.
Refuse(i) ==
    /\ ~MaySend(i)
    /\ Moves(i, "ready", "none")
    /\ UNCHANGED <<status, wait, fork, github, pr, drain, faults, history>>

\* A cooldown or an exhausted quota stops it before the request.
Blocked(i) ==
    /\ MaySend(i)
    /\ Moves(i, "ready", "none")
    /\ Fault
    /\ Finish(i, "blocked")
    /\ UNCHANGED <<github, pr, drain, history>>

Send(i) ==
    /\ MaySend(i)
    /\ Moves(i, "ready", "waiting")
    /\ status' = [status EXCEPT ![i] = "sending"]
    /\ fork' = [fork EXCEPT ![i].fresh = TRUE]
    /\ Request(i)
    /\ UNCHANGED <<wait, wire, applied, body, pr, drain, faults, history>>

Answered(i) ==
    /\ Received(i)
    /\ Moves(i, "waiting", "none")
    /\ Finish(i, answer[i])
    /\ answer' = [answer EXCEPT ![i] = "none"]
    /\ UNCHANGED <<wire, applied, body, pr, drain, faults, history>>

\* gh fails and no record tells how.
AnswerLost(i) ==
    /\ Moves(i, "waiting", "none")
    /\ GivesUp(i)
    /\ Finish(i, "none")
    /\ UNCHANGED <<applied, body, pr, drain, history>>

\* The round is killed, or the call times out: the intent stays as it is.
CallerDies(i) ==
    /\ caller[i] # "none"
    /\ caller' = [caller EXCEPT ![i] = "none"]
    /\ Leaves(i)
    /\ Fault
    /\ UNCHANGED <<status, wait, fork, applied, body, pr, drain, history>>

------------------------------------------------------------------------------
(* The pass over the retained intents: drain *)

\* Mutant: nothing is known of an edit.
EditUnknown(i) == IF Kind[i] \in {"comment", "resolve"}
                  THEN IF applied[i] > 0 THEN "applied" ELSE "absent" ELSE "unknown"

\* reconcile: what a read of GitHub says of an intent.  "unknown" is also what
\* a read that fails says.
Seen(i) ==
    CASE Kind[i] = "comment" -> IF applied[i] > 0 THEN "applied" ELSE "absent"
      [] Kind[i] = "edit" -> "absent"
      [] Kind[i] = "close" -> IF pr.closed THEN "applied" ELSE IF pr.moved THEN "obsolete" ELSE "absent"
      [] Kind[i] = "resolve" -> IF applied[i] > 0 THEN "applied" ELSE "absent"
      [] Kind[i] = "fork" -> IF applied[i] > 0 THEN "applied"
                             ELSE IF fork[i].absent = "old" /\ ~fork[i].fresh /\ fork[i].retries < 1
                             THEN "absent" ELSE "unknown"
      [] OTHER -> "unknown"

\* Only these are compared with GitHub; the others are sent again as they are.
Reconciled(i) == ~MaySend(i) \/ Kind[i] \in {"resolve", "fork"}

\* The pass goes on with the oldest intent left, or is over.
GoOn(todo, blocked, raised) ==
    IF todo = {} THEN NoDrain
    ELSE [step |-> "look", at |-> CHOOSE i \in todo : \A j \in todo : i <= j,
          todo |-> todo, blocked |-> blocked, raised |-> raised, moved |-> FALSE]

Rest == drain.todo \ {drain.at}
Continue == drain' = GoOn(Rest, drain.blocked, drain.raised)
\* Mutant: an intent that stays behind does not hold back the later ones.
Overtake == Continue
ContinueBehind == drain' = GoOn(Rest, drain.blocked \cup {Target[drain.at]}, drain.raised)

\* A round drains before it starts an agent.
DrainStart ==
    /\ drain.step = "off"
    /\ \A i \in Mine : caller[i] = "none"
    /\ \E i \in Mine : Retained(i)
    /\ drain' = GoOn({i \in Mine : Retained(i)}, {}, {})
    /\ UNCHANGED <<status, wait, fork, caller, github, pr, faults, history>>

At(step) == drain.step = step /\ UNCHANGED <<caller, applied, body, pr>>

\* Another worker's newer edit deleted it, its time has not come, or an older
\* publication to the same target is still there.
Skip ==
    /\ At("look")
    /\ \/ ~Retained(drain.at) /\ Continue
       \/ Retained(drain.at) /\ wait[drain.at] /\ ContinueBehind
       \/ /\ Retained(drain.at) /\ ~wait[drain.at]
          /\ Target[drain.at] \in drain.blocked \ {NoTarget}
          /\ Continue
    /\ UNCHANGED <<status, wait, fork, wire, answer, faults, history>>

Looks(i) ==
    /\ At("look")
    /\ i = drain.at
    /\ Retained(i) /\ ~wait[i]
    /\ Target[i] \notin drain.blocked \ {NoTarget}

\* GitHub shows the effect, or will never accept it; or the checkout that the
\* command ran in is gone.
Settle(i) ==
    /\ Looks(i)
    /\ \/ /\ Reconciled(i) /\ Seen(i) = "applied"
          /\ status' = [status EXCEPT ![i] = "published"]
       \/ /\ \/ Reconciled(i) /\ (Seen(i) = "obsolete" \/ (Kind[i] = "resolve" /\ Seen(i) # "applied"))
             \/ Reconciled(i) => Seen(i) = "absent"
          /\ status' = [status EXCEPT ![i] = "failed"]
    /\ Continue
    /\ UNCHANGED <<wait, fork, wire, answer, faults, history>>

\* Nothing is known of it; it stays.  A best-effort follow-up holds nothing up.
Keep(i) ==
    /\ Looks(i)
    /\ Reconciled(i)
    /\ \/ /\ Seen(i) = "unknown"
          /\ fork' = IF Kind[i] = "fork" /\ fork[i].absent = "no"
                     THEN [fork EXCEPT ![i].absent = "recent"] ELSE fork
          /\ UNCHANGED faults
       \/ Kind[i] # "edit" /\ Fault /\ UNCHANGED fork
    /\ IF Kind[i] = "resolve"
       THEN Continue /\ UNCHANGED wait
       ELSE ContinueBehind /\ wait' = [wait EXCEPT ![i] = TRUE]
    /\ UNCHANGED <<status, wire, answer, history>>

\* GitHub does not show it, or it was refused before: it may be sent again.
Allow(i) ==
    /\ Looks(i)
    /\ Reconciled(i) => Seen(i) = "absent"
    /\ drain' = [drain EXCEPT !.step = "send", !.moved = pr.moved]
    /\ history' = IF wire[i] > 0 THEN [history EXCEPT !.late = @ \cup {i}] ELSE history
    /\ UNCHANGED <<status, wait, fork, wire, answer, faults>>

\* Mutant: the retry is not recorded before the request.
SpendsNothing(i) == fork
Spends(i) == IF Kind[i] = "fork" THEN [fork EXCEPT ![i].retries = 1] ELSE fork

Resend(i) ==
    /\ At("send")
    /\ i = drain.at
    /\ status' = [status EXCEPT ![i] = "sending"]
    /\ fork' = Spends(i)
    /\ Request(i)
    /\ drain' = [drain EXCEPT !.step = "answer"]
    /\ history' = [history EXCEPT !.replays[i] = @ + 1]
    /\ UNCHANGED <<wait, wire, faults>>

\* The transport raises before the request: the intent is uncertain, and the
\* pass goes on without holding its target back.
ResendRaises(i) ==
    /\ At("send")
    /\ i = drain.at
    /\ status' = [status EXCEPT ![i] = "ambiguous"]
    /\ fork' = Spends(i)
    /\ drain' = GoOn(Rest, drain.blocked, drain.raised \cup {i})
    /\ Fault
    /\ UNCHANGED <<wait, wire, answer, history>>

ResendFinished(i, reply) ==
    /\ At("answer")
    /\ i = drain.at
    /\ Finish(i, reply)
    /\ IF Classified(i, reply) \in {"rejected", "ambiguous"} /\ Kind[i] # "resolve"
       THEN ContinueBehind ELSE Continue
    /\ UNCHANGED history

ResendAnswered(i) ==
    /\ Received(i)
    /\ ResendFinished(i, answer[i])
    /\ answer' = [answer EXCEPT ![i] = "none"]
    /\ UNCHANGED <<wire, faults>>

ResendLost(i) == ResendFinished(i, "none") /\ GivesUp(i)

\* The round is killed.
DrainDies ==
    /\ drain.step # "off"
    /\ IF drain.step = "answer" THEN Leaves(drain.at) ELSE UNCHANGED <<wire, answer>>
    /\ drain' = NoDrain
    /\ Fault
    /\ UNCHANGED <<status, wait, fork, caller, applied, body, pr, history>>

------------------------------------------------------------------------------
(* python -m tauceti_worker.github_outbox abandon | retry *)

Abandon(i) ==
    /\ Retained(i) /\ caller[i] = "none" /\ ~Locked(i)
    /\ status' = [status EXCEPT ![i] = "failed"]
    /\ UNCHANGED <<wait, fork, caller, github, pr, drain, faults, history>>

\* --acknowledge-duplicate-risk
ForceRetry(i) ==
    /\ Retained(i) /\ caller[i] = "none" /\ ~Locked(i)
    /\ Fault
    /\ status' = [status EXCEPT ![i] = "rejected"]
    /\ wait' = [wait EXCEPT ![i] = FALSE]
    /\ history' = [history EXCEPT !.forced = @ \cup {i}]
    /\ UNCHANGED <<fork, caller, github, pr, drain>>

------------------------------------------------------------------------------
CallerStep(i) == Refuse(i) \/ Send(i) \/ Answered(i) \/ AnswerLost(i)
DrainStep(i) == Settle(i) \/ Keep(i) \/ Allow(i) \/ Resend(i) \/ ResendRaises(i)
                \/ ResendAnswered(i) \/ ResendLost(i)

OutboxNext ==
    \/ \E i \in Intents :
        \/ Prepare(i) \/ Repeat(i) \/ Blocked(i) \/ CallerStep(i) \/ CallerDies(i)
        \/ Serve(i) \/ Arrives(i)
        \/ DrainStep(i)
        \/ Abandon(i) \/ ForceRetry(i)
    \/ DrainStart \/ Skip \/ DrainDies
    \/ PullRequestMoves \/ Later

OutboxSpec == OutboxInit /\ [][OutboxNext]_outboxvars

\* Requests are answered, callers run, and time passes.  Rounds of a worker
\* follow one another (loop.cmd_loop) and each one drains first.
OutboxFairSpec ==
    /\ OutboxSpec
    /\ \A i \in Intents : WF_outboxvars(CallerStep(i)) /\ WF_outboxvars(Serve(i)) /\ WF_outboxvars(DrainStep(i))
    /\ WF_outboxvars(DrainStart) /\ WF_outboxvars(Skip) /\ WF_outboxvars(Later)

------------------------------------------------------------------------------
(* Properties *)

\* An intent is settled as published only when its effect is on GitHub, however
\* often it was lost, refused or sent again: no paid result is dropped.
\* (github_outbox._finish_locked, reconcile, drain)
PublishedIsApplied ==
    \A i \in Intents : status[i] = "published" =>
        applied[i] > 0 \/ (Kind[i] = "close" /\ pr.closed)

\* A publication that creates something takes effect once, across kills, lost
\* answers, repeated commands and drains.  The exceptions: a request that was
\* still on its way when GitHub was asked about it, and an operator's retry.
\* An opaque one has no such excuse for lateness: it is never sent blindly.
\* (github_outbox.may_send, reconcile, drain)
AppliedOnce ==
    \A i \in Intents \ history.forced :
        Kind[i] = "opaque" \/ (Kind[i] = "comment" /\ i \notin history.late) => applied[i] <= 1

\* At most one replay of a fork is not known to be refused, across kills.
\* (github_outbox.reconcile, drain)
ForkReplayedOnce ==
    \A i \in Intents \ history.forced : Kind[i] = "fork" => history.replays[i] <= 1

Replays(i) == drain.step = "send" /\ drain'.step = "answer" /\ drain.at = i

\* A pass publishes to a pull request in the order the publications were made:
\* it overtakes only what it let go as best effort, or what the transport
\* raised on.  (github_outbox.drain)
DrainKeepsOrder ==
    [][\A i, j \in Mine :
        /\ Replays(i) /\ j < i
        /\ Target[j] = Target[i] /\ Target[i] # NoTarget
        => ~Retained(j) \/ Kind[j] = "resolve" \/ j \in drain.raised]_outboxvars

\* "A newer body supersedes an unsent/rejected edit ... replaying it later would
\* overwrite the new scoreboard": no replay puts an older body over a newer one.
\* (github_outbox.supersede_comment_patches)  The model violates it: see the README's findings.
NewestBodyStays == [][\A i \in Mine : Replays(i) /\ Kind[i] = "edit" => body <= i]_outboxvars

\* "Open compound close/comment intents still require head and actor evidence
\* before any replay": a close is not replayed once the pull request was seen to
\* have moved.  (github_outbox.drain, reconcile)  The model violates it as well.
CloseNeedsEvidence == [][\A i \in Mine : Replays(i) /\ Kind[i] = "close" => ~drain.moved]_outboxvars

\* Nobody can ever tell what became of an opaque mutation without an answer: the
\* pass keeps it, and with it every later publication to its target.
HeldBack(i) ==
    \E j \in Mine : /\ j < i /\ Retained(j) /\ Kind[j] = "opaque"
                    /\ Target[j] = Target[i] /\ Target[i] # NoTarget

\* The rounds that drain settle every comment and every edit for good, save one:
\* what is behind an opaque mutation of uncertain outcome on the same target waits
\* until an operator removes that one.  (github_outbox.drain, reconcile)
Settles ==
    \A i \in Mine : Kind[i] \in {"comment", "edit"} => <>[](Retained(i) => HeldBack(i))
==============================================================================
