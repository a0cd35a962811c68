------------------------------- MODULE Rounds -------------------------------
(***************************************************************************)
(* The driver loop of one worker (loop.cmd_loop) and the rounds it starts  *)
(* one after the other (work_units.run_round): how a round picks a pull    *)
(* request, charges an attempt, claims the branch, launches the agent and  *)
(* settles, and how long the loop then sleeps.  Anybody may push or claim; *)
(* the provider, GitHub and the round itself may fail at any step.         *)
(*                                                                         *)
(* Time is coarse: a nap is shorter or longer than the five minutes        *)
(* between two recovery probes.  A round takes any time at all.            *)
(***************************************************************************)
EXTENDS Naturals, FiniteSets

CONSTANTS Prs, Kinds,    \* pull requests; what they may be candidates of
          MaxHead,       \* bound: heads of a pull request
          HeadTries,     \* MAX_FIX_ATTEMPTS, MAX_BUMP_ATTEMPTS: at one head
          PrTries,       \* MAX_BUMP_PR_ATTEMPTS, MAX_REBASE_ATTEMPTS, MAX_REVIEW_ERRORS: of one pull request
          MaxRefunds,    \* MAX_INFRA_REFUNDS
          MaxBurst       \* bound: rounds counted without a nap

RoundsAssumption ==
    /\ Kinds \subseteq [Prs -> {"fix", "bump", "rebase", "review"}]
    /\ {MaxHead, HeadTries, PrTries, MaxRefunds, MaxBurst} \subseteq Nat \ {0}

VARIABLES
    kind,    \* the stage each pull request is a candidate of
    pull,    \* head and state of each pull request on GitHub
    spent,   \* the counters: Counters, by key
    refunds, \* the infra-... counters
    due,     \* repair_recovery.due: a retained source waits for recovery
    drv,     \* the loop
    rnd,     \* the round that runs
    burnt    \* history: launches that failed for reasons of their own, by key

rvars == <<kind, pull, spent, refunds, due, drv, rnd, burnt>>

Heads == 1..MaxHead
KeySet == Prs \X (0..MaxHead)
NoPr == <<>>
\* The counters an attempt is charged to: of the head, of the pull request, or both.
Keys(p, h) == CASE kind[p] = "fix" -> {<<p, h>>}
                [] kind[p] = "bump" -> {<<p, h>>, <<p, 0>>}
                [] OTHER -> {<<p, 0>>}
Limit(k) == IF k[2] = 0 THEN PrTries ELSE HeadTries
Spent(p, h) == \E k \in Keys(p, h) : spent[k] >= Limit(k)
Branchy(p) == kind[p] # "review"

NoRound == [pc |-> "none", recovery |-> FALSE, cands |-> {}, at |-> NoPr, before |-> [k \in KeySet |-> 0],
            held |-> NoPr, beats |-> {}, collided |-> FALSE]

RoundsTypeOK ==
    /\ pull \in [Prs -> [head : Heads, open : BOOLEAN]]
    /\ kind \in Kinds
    /\ \A k \in KeySet : {spent[k], burnt[k]} \subseteq 0..(Limit(k) + 1) /\ refunds \in [Prs -> 0..(MaxRefunds + 1)]
    /\ due \in BOOLEAN
    /\ drv \in [pc : {"look", "round"}, collisions : 0..2, wait : BOOLEAN, burst : 0..MaxBurst]
    /\ rnd.pc \in {"none", "survey", "pick", "offered", "close", "charged", "claimed", "agent", "landed", "engine"}
    /\ rnd.cands \subseteq (Prs \X Heads) /\ rnd.at \in {NoPr} \cup (Prs \X Heads)
    /\ rnd.beats \subseteq Prs /\ rnd.held \in {NoPr} \cup Prs

RoundsInit ==
    /\ pull = [p \in Prs |-> [head |-> 1, open |-> TRUE]]
    /\ kind \in Kinds
    /\ spent = [k \in KeySet |-> 0] /\ refunds = [p \in Prs |-> 0] /\ burnt = [k \in KeySet |-> 0]
    /\ due \in BOOLEAN
    /\ drv = [pc |-> "look", collisions |-> 0, wait |-> FALSE, burst |-> 0]
    /\ rnd = NoRound

AtMost(n, top) == IF n > top THEN top ELSE n
Adding(f, keys) == [k \in KeySet |-> IF k \in keys THEN AtMost(f[k] + 1, Limit(k) + 1) ELSE f[k]]
Less(n) == IF n > 0 THEN n - 1 ELSE 0
Taking(f, keys) == [k \in KeySet |-> IF k \in keys THEN Less(f[k]) ELSE f[k]]
-----------------------------------------------------------------------------
(* The world. *)

Push(p) ==
    /\ pull[p].open /\ pull[p].head < MaxHead /\ pull' = [pull EXCEPT ![p].head = @ + 1]
    /\ UNCHANGED <<kind, spent, refunds, due, drv, rnd, burnt>>
-----------------------------------------------------------------------------
(* The loop. *)

Nap(d, long) == [d EXCEPT !.pc = "look", !.burst = 0, !.wait = @ /\ ~long]
NoNap(d) == [d EXCEPT !.pc = "look"]

RecoveryTurn == due /\ ~drv.wait
Started(recovery) ==
    /\ drv' = [drv EXCEPT !.pc = "round", !.burst = AtMost(@ + 1, MaxBurst)]
    /\ rnd' = [NoRound EXCEPT !.pc = "survey", !.recovery = recovery]
    /\ due' = FALSE /\ UNCHANGED <<kind, pull, spent, refunds, burnt>>

\* Capacity, money, quota or GitHub's budget is wanting: sleep and look again.
Gate ==
    /\ drv.pc = "look" /\ \E long \in BOOLEAN : drv' = Nap(drv, long)
    /\ due' \in BOOLEAN /\ UNCHANGED <<kind, pull, spent, refunds, rnd, burnt>>
StartRound == drv.pc = "look" /\ ~RecoveryTurn /\ Started(FALSE)
StartRecovery == drv.pc = "look" /\ RecoveryTurn /\ Started(TRUE)

\* The probe is put off from the end of a recovery round on.
Probed(d) == IF rnd.recovery THEN [d EXCEPT !.wait = TRUE] ELSE d

Collision(d) == [d EXCEPT !.collisions = AtMost(@ + 1, 2)]
CollisionNap(d) == IF d.collisions = 1 THEN NoNap(d) ELSE Nap(d, FALSE)
Idle(d) == NoNap(d)
Calm(d) == [d EXCEPT !.collisions = 0]

\* What the loop does with the answer of a round.
Settled(rc, d) ==
    CASE rc = "idle" -> {Idle(d)}
      [] rc = "collision" -> {CollisionNap(Collision(d))}
      [] rc \in {"done", "admission", "documentation"} -> {Nap(Calm(d), FALSE)}
      [] OTHER -> {Nap(Calm(d), long) : long \in BOOLEAN}  \* a GitHub pause, or the growing back-off

\* While a round ran the next probe may have come up.
Over(rc) ==
    /\ \E wait \in {drv.wait, FALSE} : drv' \in Settled(rc, Probed([drv EXCEPT !.wait = wait]))
    /\ rnd' = NoRound /\ due' \in BOOLEAN
\* How a round that raised reports it: a GitHub pause seen since its start outranks most reasons.
Answers(rc) == IF rc \in {"noprogress", "die", "collision"} THEN {rc, "github"} ELSE {rc}
Raise(rc) == \E answer \in Answers(rc) : Over(answer)
-----------------------------------------------------------------------------
(* One round: survey, then one candidate after the other. *)

Step == rnd.pc # "none" /\ UNCHANGED kind
Within == Step /\ UNCHANGED <<due, drv>>  \* the round goes on
Counted == UNCHANGED <<spent, refunds, burnt>>

\* An authored head whose attempts are spent stays a candidate: it is to be closed.
Candidates == {<<p, pull[p].head>> : p \in {q \in Prs : pull[q].open /\ (~Spent(q, pull[q].head) \/ kind[q] = "fix")}}
Survey ==
    /\ Within /\ rnd.pc = "survey" /\ ~rnd.recovery
    /\ rnd' = [rnd EXCEPT !.pc = "pick", !.cands = Candidates] /\ UNCHANGED pull /\ Counted
SurveyFails ==
    /\ Step /\ rnd.pc = "survey" /\ ~rnd.recovery
    /\ \E rc \in {"github", "noprogress", "die"} : Over(rc)
    /\ UNCHANGED pull /\ Counted
\* A recovery round recovered something, or nothing was ready.
Recovers ==
    /\ Step /\ rnd.recovery /\ \E rc \in {"done", "idle"} : Over(rc)
    /\ UNCHANGED pull /\ Counted

Declined(r) == [r EXCEPT !.pc = "pick", !.at = NoPr, !.before = NoRound.before]
Collided(r) == [Declined(r) EXCEPT !.collided = TRUE]
Unclaimed(r) == [r EXCEPT !.held = NoPr, !.beats = @ \ {r.held}]
Holding(r) == [r EXCEPT !.held = r.at[1], !.beats = @ \cup {r.at[1]}]

Offer(c) ==
    /\ Within /\ rnd.pc = "pick" /\ c \in rnd.cands
    /\ rnd' = [rnd EXCEPT !.pc = "offered", !.at = c, !.cands = @ \ {c}] /\ UNCHANGED pull /\ Counted
\* A look at the claims shows that a peer has this one.
PeerSeen(c) ==
    /\ Within /\ rnd.pc = "pick" /\ c \in rnd.cands /\ Branchy(c[1])
    /\ rnd' = [rnd EXCEPT !.cands = @ \ {c}, !.collided = TRUE] /\ UNCHANGED pull /\ Counted
Exhausted ==
    /\ Step /\ rnd.pc = "pick" /\ rnd.cands = {} /\ Raise(IF rnd.collided THEN "collision" ELSE "noprogress")
    /\ UNCHANGED pull /\ Counted
\* What is left is authoring, which has no counter and no claim.
Author ==
    /\ Step /\ rnd.pc = "pick" /\ rnd.cands = {}
    /\ \E rc \in {"done", "noprogress", "admission", "documentation", "failed"} : Raise(rc)
    /\ UNCHANGED pull /\ Counted

\* Dispatch: a publication or a recovery is pending, or the candidate is stale on a fresh read;
\* a quota, the agent's binary or capacity is wanting.
DispatchDeclines ==
    /\ Within /\ rnd.pc = "offered" /\ rnd' = Declined(rnd) /\ UNCHANGED pull /\ Counted
DispatchRaises ==
    /\ Step /\ rnd.pc = "offered" /\ \E rc \in {"github", "noprogress", "admission"} : Raise(rc)
    /\ UNCHANGED pull /\ Counted
Live(c) == pull[c[1]].open /\ pull[c[1]].head = c[2]
Actionable(c) == kind[c[1]] = "bump" \/ Live(c)
Launchable(c) == Actionable(c) /\ (kind[c[1]] = "fix" => ~Spent(c[1], c[2]))
\* The attempt is charged before anything else; a review when its engine has failed.
Charge ==
    /\ Within /\ rnd.pc = "offered" /\ Launchable(rnd.at)
    /\ IF Branchy(rnd.at[1])
       THEN /\ spent' = Adding(spent, Keys(rnd.at[1], rnd.at[2]))
            /\ rnd' = [rnd EXCEPT !.pc = "charged", !.before = spent]
       ELSE UNCHANGED spent /\ rnd' = [rnd EXCEPT !.pc = "engine"]
    /\ UNCHANGED <<pull, refunds, burnt>>
\* The attempts at an authored head are spent: it is closed, under its claim, after one more look.
ToClose ==
    /\ Within /\ rnd.pc = "offered" /\ kind[rnd.at[1]] = "fix" /\ Spent(rnd.at[1], rnd.at[2])
    /\ rnd' \in {Collided(rnd), [Holding(rnd) EXCEPT !.pc = "close"]}
    /\ UNCHANGED pull /\ Counted
CloseSpent ==
    /\ Step /\ rnd.pc = "close"
    /\ \/ Live(rnd.at) /\ pull' = [pull EXCEPT ![rnd.at[1]].open = FALSE] /\ Over("done")
       \/ Live(rnd.at) /\ Raise("noprogress") /\ UNCHANGED pull
       \/ rnd' = Declined(Unclaimed(rnd)) /\ UNCHANGED <<pull, due, drv>>
    /\ Counted
-----------------------------------------------------------------------------
(* An attempt at a branch: claim, prepare, launch. *)

AtKeys == Keys(rnd.at[1], rnd.at[2])
Uncharged == spent' = Taking(spent, AtKeys) /\ UNCHANGED <<refunds, burnt>>
\* What the attempt was charged is given back, whoever gave back some of it before.
Restored(f) == [k \in KeySet |-> IF k \in AtKeys THEN AtMost(f[k], rnd.before[k]) ELSE f[k]]

ClaimTaken ==
    /\ Within /\ rnd.pc = "charged" /\ Uncharged /\ rnd' = Collided(rnd) /\ UNCHANGED pull
\* The heartbeat of an earlier claim of this round goes on.
ClaimWon ==
    /\ Within /\ rnd.pc = "charged" /\ rnd' = [Holding(rnd) EXCEPT !.pc = "claimed"] /\ UNCHANGED pull /\ Counted
\* The claim can be neither read nor written: the work goes on without it.
ClaimErrs ==
    /\ Within /\ rnd.pc = "charged" /\ rnd' = [rnd EXCEPT !.pc = "claimed"] /\ UNCHANGED pull /\ Counted

\* decline_repair: another head was checked out, or no handoff is possible.
DeclineRepair ==
    /\ Within /\ rnd.pc = "claimed" /\ Uncharged /\ UNCHANGED pull
    /\ rnd' = Declined(IF rnd.held = rnd.at[1] THEN Unclaimed(rnd) ELSE rnd)
\* The request of the merge queue is gone: declined with the claim in hand.
BatchWithdrawn ==
    /\ Within /\ rnd.pc = "claimed" /\ kind[rnd.at[1]] = "bump" /\ Uncharged /\ rnd' = Declined(rnd) /\ UNCHANGED pull
CheckoutFails ==
    /\ Step /\ rnd.pc = "claimed"
    /\ \E blocked \in BOOLEAN :
         /\ spent' = (IF blocked THEN Restored(spent) ELSE spent)
         /\ Over(IF blocked THEN "github" ELSE "failed")
    /\ UNCHANGED <<pull, refunds, burnt>>
\* Admission is refused, or the build cache is not to be had, before anything ran.
LaunchRefused ==
    /\ Step /\ rnd.pc = "claimed" /\ spent' = Restored(spent)
    /\ \E rc \in {"admission", "noprogress"} : Raise(rc)
    /\ UNCHANGED <<pull, refunds, burnt>>
LaunchAgent ==
    /\ Within /\ rnd.pc = "claimed" /\ rnd' = [rnd EXCEPT !.pc = "agent"] /\ burnt' = Adding(burnt, AtKeys)
    /\ UNCHANGED <<pull, spent, refunds>>

\* The agent did its work; what it did will be looked for on GitHub.
AgentDone ==
    /\ Within /\ rnd.pc = "agent" /\ rnd' = [rnd EXCEPT !.pc = "landed"] /\ UNCHANGED pull /\ Counted
Landed ==
    /\ Step /\ rnd.pc = "landed" /\ Over("done") /\ UNCHANGED pull /\ Counted
NothingLanded ==
    /\ Step /\ rnd.pc = "landed" /\ Live(rnd.at) /\ Raise("noprogress") /\ UNCHANGED pull /\ Counted
\* Nothing landed and nothing is left in the checkout: on to another candidate, with the claim in hand.
NothingChanged ==
    /\ Within /\ rnd.pc = "landed" /\ Live(rnd.at) /\ rnd' = Declined(rnd) /\ UNCHANGED pull /\ Counted

MayRefund(p) == refunds[p] < MaxRefunds
\* The agent failed.  An outage of the provider is given back so many times, a pause of GitHub always.
AgentFails ==
    /\ Step /\ rnd.pc = "agent"
    /\ \E outage, blocked \in BOOLEAN :
         LET p == rnd.at[1]
             back == outage /\ MayRefund(p)
             left == IF back THEN Taking(spent, AtKeys) ELSE spent
         IN /\ refunds' = (IF outage THEN [refunds EXCEPT ![p] = AtMost(@ + 1, MaxRefunds)] ELSE refunds)
            /\ spent' = (IF blocked THEN Restored(left) ELSE left)
            /\ burnt' = (IF blocked \/ (outage /\ refunds[p] < MaxRefunds) THEN Taking(burnt, AtKeys) ELSE burnt)
            /\ Over(IF blocked THEN "github" ELSE IF back THEN "noprogress" ELSE "failed")
    /\ UNCHANGED pull
-----------------------------------------------------------------------------
(* A review. *)

Cleared(f) == [k \in KeySet |-> IF k \in AtKeys THEN 0 ELSE f[k]]
\* Published; a verdict that is as it was is no work, and another candidate is looked for.
ReviewPosted ==
    /\ Step /\ rnd.pc = "engine" /\ spent' = Cleared(spent) /\ burnt' = Cleared(burnt)
    /\ Over("done") \/ (rnd' = Declined(rnd) /\ UNCHANGED <<due, drv>>)
    /\ UNCHANGED <<pull, refunds>>
ReviewElsewhere ==
    /\ Within /\ rnd.pc = "engine" /\ rnd' = Declined(rnd) /\ UNCHANGED pull /\ Counted
\* GitHub or the provider stopped the engine.
ReviewStopped ==
    /\ Step /\ rnd.pc = "engine" /\ Raise("noprogress") /\ UNCHANGED pull /\ Counted
ReviewFails ==
    /\ Step /\ rnd.pc = "engine" /\ Over("failed")
    /\ spent' = Adding(spent, AtKeys) /\ burnt' = Adding(burnt, AtKeys) /\ UNCHANGED <<pull, refunds>>
-----------------------------------------------------------------------------
\* The time limit of a round, or a crash: its heartbeats die with it.
RoundDies == Step /\ Over("failed") /\ UNCHANGED pull /\ Counted

Attempt ==
    \/ ClaimTaken \/ ClaimWon \/ ClaimErrs \/ DeclineRepair \/ BatchWithdrawn \/ CheckoutFails \/ LaunchRefused
    \/ LaunchAgent \/ AgentDone \/ Landed \/ NothingLanded \/ NothingChanged \/ AgentFails
    \/ ReviewPosted \/ ReviewElsewhere \/ ReviewStopped \/ ReviewFails
RoundStep ==
    \/ Survey \/ SurveyFails \/ Recovers \/ Exhausted \/ Author
    \/ \E c \in Prs \X Heads : Offer(c) \/ PeerSeen(c)
    \/ DispatchDeclines \/ DispatchRaises \/ Charge \/ ToClose \/ CloseSpent \/ Attempt
RoundsNext == (\E p \in Prs : Push(p)) \/ Gate \/ StartRound \/ StartRecovery \/ RoundStep \/ RoundDies

\* A round ends, the loop goes on, and a gate that opens again and again is found open;
\* recovery is not cut short for ever.
RoundsFair == WF_rvars(RoundStep) /\ SF_rvars(StartRound) /\ WF_rvars(StartRecovery) /\ SF_rvars(Recovers)
RoundsSpec == RoundsInit /\ [][RoundsNext]_rvars
RoundsFairSpec == RoundsSpec /\ RoundsFair
-----------------------------------------------------------------------------
\* At no head, and at no pull request with a limit of its own, does the agent fail more often than the
\* limit allows, but for outages: whatever is declined, refunded, refused or killed in between
\* (do_fix and the others, _refund_infra_failure, _run_github_stage).
AttemptsBounded == \A k \in KeySet : burnt[k] <= Limit(k)

\* The loop never starts more than four rounds without a sleep: reselecting after a collision and
\* after an idle recovery does not become a spin (cmd_loop).
NoSpin == drv.burst <= 4

BoundsKept == RoundsTypeOK /\ AttemptsBounded /\ NoSpin

\* A retained source that never becomes ready does not keep the worker from other work: ordinary
\* rounds are started again and again (cmd_loop, recovery_probe_at).
AtWork == drv.pc = "round" /\ ~rnd.recovery
=============================================================================
