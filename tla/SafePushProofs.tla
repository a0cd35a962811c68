---------------------------- MODULE SafePushProofs ---------------------------
(***************************************************************************)
(* Proofs about SafePush, for any commits, attempts and foreign writers.   *)
(***************************************************************************)
EXTENDS SafePush, TLAPS

------------------------------------------------------------------------------
(* Type correctness.  It needs the order of the steps: what is pending and    *)
(* what was attempted never runs ahead of the attempts, and a receipt is made *)
(* only when the round is over.                                               *)

Order ==
    /\ refs.attempt <= This /\ refs.pending <= This
    /\ pc # "idle" => This > 0 /\ round = "working"
    /\ pc \in {"attempt", "push"} => refs.pending > 0
    /\ receipt.known => round # "working"
    /\ ~receipt.known => receipt = NoReceipt

Ordered == TypeOK /\ Order

LEMMA OrderedInit == Init => Ordered
  BY SafePushAssumption
     DEF Init, Ordered, Order, TypeOK, All, Ids, Attempt, Steps, Refs, NoReceipt, Receipts,
         Verdicts, This

\* An attempt on record names commits.  (git-safe-push ATTEMPT)
LEMMA AttemptType ==
    ASSUME Ordered, NEW n \in 1..This
    PROVE  attempts[n] \in Attempt
  BY DEF Ordered, TypeOK, This

\* A push that took effect, or may, is on record.
LEMMA OnRecord ==
    ASSUME Ordered, NEW n \in wire \cup landed
    PROVE  n \in 1..This
  BY SafePushAssumption DEF Ordered, Order, TypeOK, Ids, Refs, This

\* A commit that a writer makes is a commit.  (git push)
LEMMA NewType == New \subseteq Commits
  BY DEF New

\* What the outside does to the branch keeps the types.
LEMMA OrderedRemote ==
    ASSUME Ordered, Foreign \/ \E n \in wire : WireArrives(n)
    PROVE  Ordered'
  <1> USE SafePushAssumption DEF Ordered, Order, TypeOK, All, Ids, Attempt, Refs, This, checkout, MoveBranch
  <1>1. CASE Foreign
    BY <1>1, NewType DEF Foreign
  <1>2. ASSUME NEW n \in wire, WireArrives(n)
        PROVE  Ordered'
    <2>1. attempts[n] \in Attempt
      BY AttemptType, OnRecord
    <2> QED
      BY ZenonT(60), <1>2, <2>1 DEF WireArrives
  <1> QED
    BY <1>1, <1>2

\* So does what the agent does between two pushes, and the start of a push.
LEMMA OrderedAgent ==
    ASSUME Ordered, Commit \/ Reintegrate \/ Begin
    PROVE  Ordered'
  <1> USE SafePushAssumption DEF Ordered, Order, TypeOK, All, Ids, Attempt, Refs, This, remote, checkout, AgentFree
  <1>1. CASE Commit
    BY <1>1, NewType DEF Commit
  <1>2. CASE Reintegrate
    BY <1>2 DEF Reintegrate
  <1>3. CASE Begin
    <2>1. /\ attempts' \in Seq(Attempt)
          /\ Len(attempts') = Len(attempts) + 1
      BY <1>3 DEF Begin
    <2> QED
      BY <1>3, <2>1 DEF Begin, Steps
  <1> QED
    BY <1>1, <1>2, <1>3

\* So does every step of the script.
LEMMA OrderedScript ==
    ASSUME Ordered, Script
    PROVE  Ordered'
  <1> USE SafePushAssumption
      DEF Ordered, Order, TypeOK, All, Ids, This, remote, checkout, GoTo, Answer, Steps, Refs
  <1>0. ASSUME pc # "idle"
        PROVE  /\ This \in Ids
               /\ attempts[This] \in Attempt
    BY <1>0, AttemptType
  <1>1. CASE KeepIntent
    BY <1>1 DEF KeepIntent, EarliestPending
  <1>2. CASE KeepAttempt
    BY <1>2 DEF KeepAttempt, Withdrawn
  <1>3. CASE PushAccepted
    <2>1. refs.attempt = This /\ This \in Ids /\ attempts[This].oid \in All
      BY <1>0, <1>3 DEF PushAccepted, Attempt
    <2>2. \A n \in wire' \cup landed' : n \in Ids /\ refs.attempt >= n
      BY <1>3, <2>1 DEF PushAccepted
    <2> QED
      BY <1>3, <2>1, <2>2 DEF PushAccepted, MoveBranch
  <1>4. CASE PushUpToDate
    BY <1>4 DEF PushUpToDate
  <1>5. CASE PushRejected
    BY <1>5 DEF PushRejected
  <1>6. CASE PushUncertain
    <2>1. refs.attempt = This /\ This \in Ids
      BY <1>0, <1>6 DEF PushUncertain
    <2>2. \A n \in wire' \cup landed' : n \in Ids /\ refs.attempt >= n
      BY <1>6, <2>1 DEF PushUncertain
    <2> QED
      BY <1>6, <2>1, <2>2 DEF PushUncertain
  <1>7. CASE MarkScope
    BY <1>0, <1>7 DEF MarkScope, Attempt
  <1>8. CASE MarkPush
    BY <1>0, <1>8 DEF MarkPush, Attempt
  <1>9. CASE ClearPending
    BY SMTT(30), <1>9 DEF ClearPending
  <1>10. CASE MarkRejected
    BY <1>10 DEF MarkRejected
  <1>11. CASE WithdrawIntent
    BY <1>11 DEF WithdrawIntent, Withdrawn
  <1> QED
    BY <1>1, <1>2, <1>3, <1>4, <1>5, <1>6, <1>7, <1>8, <1>9, <1>10, <1>11 DEF Script

\* So do the end of the round, its receipt and the settlement.
LEMMA OrderedEnd ==
    ASSUME Ordered, EndRound \/ Capture \/ ReplaceCheckout \/ Reconcile
    PROVE  Ordered'
  <1> USE SafePushAssumption DEF Ordered, Order, TypeOK, This, remote, checkout
  <1>1. CASE EndRound
    BY <1>1 DEF EndRound, Ids, Steps, Verdicts
  <1>2. CASE Capture
    BY <1>2 DEF Capture, CanCapture, Receipts, Refs, Publishes
  <1>3. CASE ReplaceCheckout
    BY <1>3 DEF ReplaceCheckout
  <1>4. CASE Reconcile
    <2>1. Settled \in Verdicts \ {"none"}
      BY DEF Settled, FromRemote, Verdicts
    <2>2. receipt.known \/ Settled = "published"
      BY <1>4 DEF Reconcile, Settled
    <2> QED
      BY <1>4, <2>1, <2>2 DEF Reconcile
  <1> QED
    BY <1>1, <1>2, <1>3, <1>4

LEMMA OrderedStep == Ordered /\ [Next]_vars => Ordered'
  <1>1. Ordered /\ UNCHANGED vars => Ordered'
    BY DEF Ordered, Order, TypeOK, This, vars, remote, checkout
  <1> QED
    BY <1>1, OrderedRemote, OrderedAgent, OrderedScript, OrderedEnd DEF Next

\* Every reachable state has the types, nothing is sent before its intent and
\* its attempt are on record, and nothing but a publication is settled before
\* the outcome of the round is durable.  (git-safe-push, reconcile_handoff)
THEOREM TypeCorrect == Spec => []TypeOK
  <1>1. Ordered => TypeOK
    BY DEF Ordered
  <1> QED
    BY <1>1, OrderedInit, OrderedStep, PTL DEF Spec

------------------------------------------------------------------------------
(* No foreign work is overwritten: what a push expects is a head that was     *)
(* fetched.                                                                   *)

ExpectsKnown ==
    /\ expect \in known
    /\ \A n \in 1..This : attempts[n].expect \in known

\* A push begins with one attempt more.
LEMMA BeginAppends ==
    ASSUME Ordered, Begin
    PROVE  /\ attempts'[This'] = [oid |-> head, expect |-> expect]
           /\ \A n \in 1..This' : n = This' \/ (n \in 1..This /\ attempts'[n] = attempts[n])
           /\ \A n \in 1..This : n \in 1..This' /\ n # This'
  BY DEF Ordered, TypeOK, This, Begin

LEMMA ExpectsInit == Init => ExpectsKnown
  BY DEF Init, ExpectsKnown, This

\* Only the start of a push adds an attempt, with the head that the agent was
\* given last; nothing that is known is forgotten.
LEMMA ExpectsStep ==
    ASSUME Ordered, ExpectsKnown, [Next]_vars
    PROVE  ExpectsKnown'
  <1>1. CASE Begin
    <2>1. expect' = expect /\ known' = known
      BY <1>1 DEF Begin, checkout
    <2>2. \A n \in 1..This' : attempts'[n].expect \in known
      BY <1>1, BeginAppends DEF ExpectsKnown
    <2> QED
      BY <2>1, <2>2 DEF ExpectsKnown
  <1>2. CASE Reintegrate
    BY <1>2 DEF Reintegrate, ExpectsKnown, This
  <1>3. CASE UNCHANGED <<expect, attempts>> /\ known \subseteq known'
    BY <1>3 DEF ExpectsKnown, This
  <1>4. CASE Script
    BY <1>3, <1>4
       DEF Script, GoTo, Answer, checkout, KeepIntent, KeepAttempt, PushAccepted, PushUpToDate, PushRejected,
           PushUncertain, MarkScope, MarkPush, ClearPending, MarkRejected, WithdrawIntent
  <1>5. CASE \/ Foreign \/ Commit
             \/ \E n \in wire : WireArrives(n)
             \/ EndRound \/ Capture \/ ReplaceCheckout \/ Reconcile
             \/ UNCHANGED vars
    BY <1>3, <1>5
       DEF Foreign, Commit, WireArrives, EndRound, Capture, ReplaceCheckout, Reconcile, vars, checkout
  <1> QED
    BY <1>1, <1>2, <1>4, <1>5 DEF Next

\* A branch that this worker moves was at a head that it had fetched.
LEMMA OverwritesStep ==
    ASSUME Ordered, ExpectsKnown, [Next]_vars, branch' # branch, foreign' = foreign
    PROVE  branch \in known
  <1>1. CASE Foreign
    BY <1>1 DEF Foreign, Ordered, TypeOK
  <1>2. ASSUME NEW n \in wire, WireArrives(n)
        PROVE  branch \in known
    BY <1>2, OnRecord DEF WireArrives, Accepts, ExpectsKnown
  <1>3. CASE PushAccepted
    BY <1>3 DEF PushAccepted, Accepts, ExpectsKnown, Ordered, Order, TypeOK, This
  <1>4. CASE Script /\ ~PushAccepted
    BY <1>4
       DEF Script, GoTo, Answer, remote, KeepIntent, KeepAttempt, PushUpToDate, PushRejected, PushUncertain,
           MarkScope, MarkPush, ClearPending, MarkRejected, WithdrawIntent
  <1>5. CASE \/ Commit \/ Reintegrate \/ Begin
             \/ EndRound \/ Capture \/ ReplaceCheckout \/ Reconcile
             \/ UNCHANGED vars
    BY <1>5 DEF Commit, Reintegrate, Begin, EndRound, Capture, ReplaceCheckout, Reconcile, vars, remote
  <1> QED
    BY <1>1, <1>2, <1>3, <1>4, <1>5 DEF Next

\* "We NEVER silently overwrite another agent's work": for any number of pushes,
\* late ones too, the worker moves the branch only away from a head it has
\* fetched or made.  (git-safe-push, --force-with-lease)
THEOREM OverwritesNothingUnseen == Spec => OverwritesOnlyKnown
  <1>1. Ordered /\ ExpectsKnown /\ [Next]_vars
        => Ordered' /\ ExpectsKnown' /\ [branch' # branch /\ foreign' = foreign => branch \in known]_vars
    BY OrderedStep, ExpectsStep, OverwritesStep
  <1> QED
    BY <1>1, OrderedInit, ExpectsInit, PTL DEF Spec, OverwritesOnlyKnown

------------------------------------------------------------------------------
(* A publication that is concluded took place, when every push has something  *)
(* new to push (NoopPushes = FALSE).  What is concluded from ls-remote needs  *)
(* that no commit of the round shows up in the branch by itself.              *)

LandedOnly ==
    /\ branch \in history
    /\ (refs.scoped \/ pc = "changed" \/ receipt.published) => landed # {}
    /\ verdict = "published" => landed # {}
    /\ landed = {} => /\ head = expect \/ head \notin history
                      /\ \A n \in 1..This : attempts[n].oid \notin history

LEMMA LandedInit == Init => LandedOnly
  BY DEF Init, LandedOnly, NoReceipt, This

\* What the round has made is not yet in the branch when it is pushed.
LEMMA LandedWriters ==
    ASSUME Ordered, LandedOnly, NoopPushes = FALSE,
           \/ Foreign \/ Commit \/ Reintegrate \/ Begin
           \/ \E n \in wire : WireArrives(n)
    PROVE  LandedOnly'
  <1> USE DEF LandedOnly
  <1>1. CASE Foreign
    BY <1>1 DEF Foreign, New, MoveBranch, checkout, This, Ordered, TypeOK
  <1>2. CASE Commit
    BY <1>2 DEF Commit, New, remote, This
  <1>3. CASE Reintegrate
    BY <1>3 DEF Reintegrate, remote, This
  <1>4. CASE Begin
    <2>1. UNCHANGED <<branch, history, landed, head, expect, refs, receipt, verdict>> /\ pc' = "intent"
      BY <1>4 DEF Begin, remote, checkout
    <2>2. head # expect
      BY <1>4 DEF Begin
    <2>3. landed = {} => \A n \in 1..This' : attempts'[n].oid \notin history
      BY <1>4, <2>2, BeginAppends
    <2> QED
      BY <2>1, <2>3
  <1>5. ASSUME NEW n \in wire, WireArrives(n)
        PROVE  LandedOnly'
    BY <1>5 DEF WireArrives, MoveBranch, checkout, This
  <1> QED
    BY <1>1, <1>2, <1>3, <1>4, <1>5

LEMMA LandedScript ==
    ASSUME Ordered, LandedOnly, Script
    PROVE  LandedOnly'
  <1> USE DEF LandedOnly, GoTo, Answer, remote, checkout, This, Ordered, TypeOK, Refs
  <1>1. CASE PushAccepted
    BY <1>1 DEF PushAccepted, MoveBranch
  <1>2. CASE KeepIntent \/ KeepAttempt
    BY <1>2 DEF KeepIntent, KeepAttempt
  <1>3. CASE PushUpToDate \/ PushRejected \/ PushUncertain
    BY <1>3 DEF PushUpToDate, PushRejected, PushUncertain
  <1>4. CASE MarkScope \/ MarkPush
    BY <1>4 DEF MarkScope, MarkPush
  <1>5. CASE ClearPending \/ MarkRejected \/ WithdrawIntent
    BY <1>5 DEF ClearPending, MarkRejected, WithdrawIntent
  <1> QED
    BY <1>1, <1>2, <1>3, <1>4, <1>5 DEF Script

\* The last attempt is found in the branch only if some attempt took effect.
LEMMA LandedEnd ==
    ASSUME Ordered, LandedOnly, EndRound \/ Capture \/ ReplaceCheckout \/ Reconcile
    PROVE  LandedOnly'
  <1> USE DEF LandedOnly, remote, checkout, This
  <1>1. CASE EndRound
    BY <1>1 DEF EndRound
  <1>2. CASE Capture
    BY <1>2 DEF Capture
  <1>3. CASE ReplaceCheckout
    BY <1>3 DEF ReplaceCheckout
  <1>4. CASE Reconcile
    <2>1. refs.attempt > 0 => refs.attempt \in 1..This
      BY DEF Ordered, Order, TypeOK, Refs
    <2>2. FromRemote = "published" => landed # {}
      BY <2>1 DEF FromRemote
    <2>3. Settled = "published" => landed # {}
      BY <2>2 DEF Settled
    <2> QED
      BY <1>4, <2>3 DEF Reconcile
  <1> QED
    BY <1>1, <1>2, <1>3, <1>4

LEMMA LandedStep ==
    ASSUME Ordered, LandedOnly, NoopPushes = FALSE, [Next]_vars
    PROVE  LandedOnly'
  <1>1. CASE UNCHANGED vars
    BY <1>1 DEF LandedOnly, vars, remote, checkout, This
  <1> QED
    BY <1>1, LandedWriters, LandedScript, LandedEnd DEF Next

\* A source is settled as published only if a push of the round took effect,
\* whatever was lost, refused, killed or repeated.  (reconcile_handoff)
THEOREM PublishedOnlyIfLanded == NoopPushes = FALSE => (Spec => []PublishedLanded)
  <1> SUFFICES ASSUME NoopPushes = FALSE
               PROVE  Spec => []PublishedLanded
    OBVIOUS
  <1>1. Ordered /\ LandedOnly /\ [Next]_vars => Ordered' /\ LandedOnly'
    BY OrderedStep, LandedStep
  <1>2. LandedOnly => PublishedLanded
    BY DEF LandedOnly, PublishedLanded
  <1> QED
    BY <1>1, <1>2, OrderedInit, LandedInit, PTL DEF Spec

------------------------------------------------------------------------------
(* Source that recovery will publish by itself was not sent, under the same   *)
(* assumption.  What was sent and is still the head of the checkout is known  *)
(* to be published, or an attempt is pending.                                 *)

Unsettled == landed \cup wire
Unsent(c) == \A n \in Unsettled : attempts[n].oid # c
KnownOrUnsent == head \in known \/ Unsent(head)

Accounted ==
    /\ \A n \in 1..This : attempts[n].oid # attempts[n].expect
    /\ pc # "idle" => attempts[This].oid = head
    /\ pc \in {"intent", "attempt", "push", "rejected", "withdraw"} =>
          /\ This \notin Unsettled
          /\ refs.pending \in {0, This} => KnownOrUnsent
    /\ pc = "intent" => refs.pending # This
    /\ pc = "clear" => head \in known
    /\ refs.pending = 0 => KnownOrUnsent
    /\ receipt.source /\ ~receipt.pending => Unsent(head)
    /\ verdict = "transferred" => receipt.source /\ ~receipt.pending

LEMMA AccountedInit == Init => Accounted
  BY DEF Init, Accounted, NoReceipt, This, Unsettled, Unsent, KnownOrUnsent

\* Other writers, and pushes that arrive late, change nothing of it.
LEMMA AccountedRemote ==
    ASSUME Accounted, Foreign \/ \E n \in wire : WireArrives(n)
    PROVE  Accounted'
  <1>1. UNCHANGED <<head, expect, known, attempts, pc, refs, receipt, verdict>> /\ Unsettled' \subseteq Unsettled
    BY DEF Foreign, WireArrives, checkout, Unsettled
  <1> QED
    BY <1>1 DEF Accounted, KnownOrUnsent, Unsent, This

\* A new head was never sent, a fetched one is known.
LEMMA AccountedAgent ==
    ASSUME Ordered, ExpectsKnown, Accounted, Commit \/ Reintegrate
    PROVE  Accounted'
  <1>1. /\ UNCHANGED <<landed, wire, attempts, pc, refs, receipt, verdict>>
        /\ pc = "idle" /\ receipt = NoReceipt
    BY DEF Commit, Reintegrate, AgentFree, remote, Ordered, Order
  <1>2. Unsettled' = Unsettled /\ \A n \in Unsettled : n \in DOMAIN attempts
    BY <1>1, OnRecord DEF Unsettled, Ordered, TypeOK, This
  <1>3. CASE Commit
    <2>1. known' = known /\ (head' = expect \/ head' \in New)
      BY <1>3 DEF Commit
    <2>2. ASSUME head' = expect
          PROVE  KnownOrUnsent'
      BY <2>1, <2>2 DEF ExpectsKnown, KnownOrUnsent
    <2>3. ASSUME head' \in New
          PROVE  KnownOrUnsent'
      <3>1. \A n \in DOMAIN attempts : attempts[n].oid # head'
        BY <2>3 DEF New
      <3> QED
        BY <1>1, <1>2, <3>1 DEF KnownOrUnsent, Unsent
    <2>4. KnownOrUnsent'
      BY <2>1, <2>2, <2>3
    <2> QED
      BY <1>1, <1>2, <2>4 DEF Accounted, NoReceipt, This
  <1>4. CASE Reintegrate
    <2>1. KnownOrUnsent'
      BY <1>4 DEF Reintegrate, KnownOrUnsent
    <2> QED
      BY <1>1, <1>2, <2>1 DEF Accounted, NoReceipt, This
  <1> QED
    BY <1>3, <1>4

\* A push begins with an attempt that is on nobody's record.
LEMMA AccountedBegin ==
    ASSUME Ordered, Accounted, NoopPushes = FALSE, Begin
    PROVE  Accounted'
  <1>1. /\ UNCHANGED <<landed, wire, head, expect, known, refs, receipt, verdict>>
        /\ pc' = "intent" /\ head # expect /\ receipt = NoReceipt
    BY DEF Begin, AgentFree, remote, checkout, Ordered, Order
  <1>2. Unsettled' = Unsettled /\ \A n \in Unsettled : n \in 1..This
    BY <1>1, OnRecord DEF Unsettled
  <1>3. attempts'[This'].oid = head /\ attempts'[This'].expect = expect
    BY BeginAppends
  <1>4. \A n \in Unsettled : n # This' /\ attempts'[n] = attempts[n]
    BY <1>2, BeginAppends
  <1>5. \A n \in 1..This' : attempts'[n].oid # attempts'[n].expect
    BY <1>1, <1>3, BeginAppends DEF Accounted
  <1>6. KnownOrUnsent => KnownOrUnsent'
    BY <1>1, <1>2, <1>4 DEF KnownOrUnsent, Unsent
  <1>7. refs.pending # This'
    BY DEF Begin, Ordered, Order, TypeOK, This, Refs
  <1> QED
    BY <1>1, <1>2, <1>3, <1>4, <1>5, <1>6, <1>7 DEF Accounted, NoReceipt

\* A step of the script gives an intent up only when what it stands for is known
\* to be published or was not sent.
LEMMA AccountedScript ==
    ASSUME Ordered, Accounted, Script
    PROVE  Accounted'
  <1>1. /\ UNCHANGED <<head, expect, attempts, receipt, verdict>>
        /\ pc # "idle" /\ receipt = NoReceipt /\ This' = This
        /\ known \subseteq known'
    BY DEF Script, GoTo, Answer, checkout, Ordered, Order, This, KeepIntent, KeepAttempt, PushAccepted, PushUpToDate,
           PushRejected, PushUncertain, MarkScope, MarkPush, ClearPending, MarkRejected, WithdrawIntent
  <1>2. refs.pending \in Nat /\ This \in Nat /\ This > 0
    BY DEF Ordered, Order, TypeOK, Refs, This, Script, KeepIntent, KeepAttempt, PushAccepted, PushUpToDate,
           PushRejected, PushUncertain, MarkScope, MarkPush, ClearPending, MarkRejected, WithdrawIntent
  <1>3. Unsettled' \subseteq Unsettled /\ KnownOrUnsent => KnownOrUnsent'
    BY <1>1 DEF KnownOrUnsent, Unsent
  <1> USE DEF Accounted, NoReceipt
  <1>4. CASE PushAccepted \/ PushUncertain
    BY <1>1, <1>4 DEF PushAccepted, PushUncertain, Answer, Ordered, Order
  <1>5. CASE Script /\ ~PushAccepted /\ ~PushUncertain
    <2>1. Unsettled' = Unsettled
      BY <1>5 DEF Script, GoTo, Answer, remote, Unsettled, KeepIntent, KeepAttempt, PushUpToDate, PushRejected,
                  MarkScope, MarkPush, ClearPending, MarkRejected, WithdrawIntent
    <2>2. CASE KeepIntent
      BY <1>1, <1>2, <1>3, <2>1, <2>2 DEF KeepIntent, EarliestPending, GoTo, Ordered, TypeOK, Refs
    <2>3. CASE KeepAttempt
      BY <1>1, <1>2, <1>3, <2>1, <2>3 DEF KeepAttempt, Withdrawn, GoTo, Ordered, TypeOK, Refs
    <2>4. CASE PushUpToDate \/ PushRejected
      BY <1>1, <1>2, <1>3, <2>1, <2>4 DEF PushUpToDate, PushRejected, Answer
    <2>5. CASE MarkScope
      BY <1>1, <1>2, <1>3, <2>1, <2>5 DEF MarkScope, GoTo, Ordered, TypeOK, Refs
    <2>6. CASE MarkPush
      BY <1>1, <1>2, <1>3, <2>1, <2>6 DEF MarkPush, GoTo, Ordered, TypeOK, Refs
    <2>7. CASE ClearPending
      BY <1>1, <1>2, <1>3, <2>1, <2>7 DEF ClearPending, GoTo, Ordered, TypeOK, Refs, KnownOrUnsent
    <2>8. CASE MarkRejected
      BY <1>1, <1>2, <1>3, <2>1, <2>8 DEF MarkRejected, GoTo, Ordered, TypeOK, Refs
    <2>9. CASE WithdrawIntent
      BY <1>1, <1>2, <1>3, <2>1, <2>9 DEF WithdrawIntent, Withdrawn, GoTo, Ordered, TypeOK, Refs
    <2> QED
      BY <1>5, <2>2, <2>3, <2>4, <2>5, <2>6, <2>7, <2>8, <2>9 DEF Script
  <1> QED
    BY <1>4, <1>5

\* The receipt repeats what the refs say; the verdict follows it.
LEMMA AccountedEnd ==
    ASSUME Ordered, Accounted, EndRound \/ Capture \/ ReplaceCheckout \/ Reconcile
    PROVE  Accounted'
  <1>1. UNCHANGED <<landed, head, known, attempts, refs>> /\ This' = This
    BY DEF EndRound, Capture, ReplaceCheckout, Reconcile, remote, checkout, This
  <1>2. CASE EndRound
    <2>1. receipt' = NoReceipt /\ pc' = "idle" /\ (verdict' = "transferred" => verdict = "transferred")
      BY <1>2 DEF EndRound, Ordered, Order
    <2>2. verdict' # "transferred"
      BY <1>2, <2>1 DEF EndRound, Ordered, TypeOK, Order, NoReceipt
    <2>3. refs.pending = 0 => Unsettled' = Unsettled
      BY <1>1, <1>2 DEF EndRound, Unsettled, Ordered, Order, TypeOK
    <2>4. refs.pending = 0 => KnownOrUnsent'
      BY <1>1, <2>3 DEF KnownOrUnsent, Unsent, Accounted
    <2> QED
      BY <1>1, <2>1, <2>2, <2>4 DEF Accounted, NoReceipt
  <1>3. CASE ~EndRound
    <2>1. Unsettled' = Unsettled /\ pc' = pc
      BY <1>3 DEF Capture, ReplaceCheckout, Reconcile, remote, Unsettled
    <2>2. Unsent(head)' = Unsent(head) /\ KnownOrUnsent' = KnownOrUnsent
      BY <1>1, <2>1 DEF KnownOrUnsent, Unsent
    <2>3. CASE Capture
      <3>1. refs.pending > 0 => Publishes(refs.pending)
        BY DEF Publishes, Accounted, Ordered, Order, TypeOK, Refs
      <3>2. verdict # "transferred"
        BY <2>3 DEF Capture, Ordered, TypeOK
      <3>3. receipt'.source /\ ~receipt'.pending => Unsent(head)
        <4>1. receipt'.source = (head \notin known) /\ receipt'.pending = Publishes(refs.pending)
          BY <2>3 DEF Capture
        <4>2. refs.pending = 0 \/ Publishes(refs.pending)
          BY <3>1 DEF Ordered, TypeOK, Refs
        <4>3. refs.pending = 0 /\ head \notin known => Unsent(head)
          BY DEF Accounted, KnownOrUnsent
        <4> QED
          BY <4>1, <4>2, <4>3
      <3> QED
        BY <1>1, <2>1, <2>2, <2>3, <3>2, <3>3 DEF Capture, Accounted
    <2>4. CASE ReplaceCheckout
      BY <1>1, <2>1, <2>2, <2>4 DEF ReplaceCheckout, Accounted
    <2>5. CASE Reconcile
      <3>1. Settled = "transferred" => receipt.source /\ ~receipt.pending
        BY DEF Settled, FromRemote
      <3> QED
        BY <1>1, <2>1, <2>2, <2>5, <3>1 DEF Reconcile, Accounted
    <2> QED
      BY <1>3, <2>3, <2>4, <2>5
  <1> QED
    BY <1>2, <1>3

LEMMA AccountedStep ==
    ASSUME Ordered, ExpectsKnown, Accounted, NoopPushes = FALSE, [Next]_vars
    PROVE  Accounted'
  <1>1. CASE UNCHANGED vars
    BY <1>1 DEF Accounted, KnownOrUnsent, Unsent, Unsettled, vars, remote, checkout, This
  <1> QED
    BY <1>1, AccountedRemote, AccountedAgent, AccountedBegin, AccountedScript, AccountedEnd DEF Next

\* A checkpoint that recovery will publish by itself holds source that no push of
\* the round has published or still may.  (reconcile_handoff, guard)
THEOREM TransferredOnlyUnsent == NoopPushes = FALSE => (Spec => []TransferredUnsent)
  <1> SUFFICES ASSUME NoopPushes = FALSE
               PROVE  Spec => []TransferredUnsent
    OBVIOUS
  <1>1. Ordered /\ ExpectsKnown /\ Accounted /\ [Next]_vars => Ordered' /\ ExpectsKnown' /\ Accounted'
    BY OrderedStep, ExpectsStep, AccountedStep
  <1>2. Accounted => TransferredUnsent
    BY DEF Accounted, Unsent, Unsettled, TransferredUnsent, Sent
  <1> QED
    BY <1>1, <1>2, OrderedInit, ExpectsInit, AccountedInit, PTL DEF Spec

------------------------------------------------------------------------------
(* Source that goes back to automatic recovery was not sent, under the same   *)
(* assumption and as long as git never answered "up to date": until then, an  *)
(* intent is given up only by the very push that made it.                     *)

Remembered ==
    /\ pc \in {"intent", "attempt", "push", "rejected", "withdraw"} /\ refs.pending \in {0, This} /\ ~refs.pushed
          => Unsettled = {}
    /\ refs.pending = 0 /\ ~refs.pushed => Unsettled = {}
    /\ pc = "clear" => refs.pushed
    /\ receipt.known /\ ~receipt.pending => refs.pending = 0
    /\ verdict = "returned" => receipt.known /\ ~receipt.pending

LEMMA RememberedInit == Init => Remembered
  BY DEF Init, Remembered, NoReceipt, Unsettled

\* Nobody but the script and the end of the round changes the evidence.
LEMMA RememberedOutside ==
    ASSUME Ordered, Remembered,
           \/ Foreign \/ Commit \/ Reintegrate \/ Begin
           \/ \E n \in wire : WireArrives(n)
    PROVE  Remembered'
  <1>1. CASE Begin
    <2>1. /\ UNCHANGED <<landed, wire, refs, receipt, verdict>>
          /\ pc' = "intent" /\ refs.pending # This'
      BY <1>1 DEF Begin, remote, Ordered, Order, TypeOK, This, Refs
    <2> QED
      BY <2>1 DEF Remembered, Unsettled
  <1>2. CASE ~Begin
    <2>1. UNCHANGED <<attempts, pc, refs, receipt, verdict>> /\ (Unsettled = {} => Unsettled' = {})
      BY <1>2 DEF Foreign, Commit, Reintegrate, WireArrives, remote, checkout, Unsettled
    <2> QED
      BY <2>1 DEF Remembered, This
  <1> QED
    BY <1>1, <1>2

LEMMA RememberedScript ==
    ASSUME Ordered, Remembered, Script
    PROVE  Remembered'
  <1>1. UNCHANGED <<attempts, receipt, verdict>> /\ receipt = NoReceipt /\ This' = This
    BY DEF Script, GoTo, Answer, Ordered, Order, This, KeepIntent, KeepAttempt, PushAccepted, PushUpToDate,
           PushRejected, PushUncertain, MarkScope, MarkPush, ClearPending, MarkRejected, WithdrawIntent
  <1>2. refs.pending \in Nat /\ This \in Nat /\ This > 0
    BY DEF Ordered, Order, TypeOK, Refs, This, Script, KeepIntent, KeepAttempt, PushAccepted, PushUpToDate,
           PushRejected, PushUncertain, MarkScope, MarkPush, ClearPending, MarkRejected, WithdrawIntent
  <1> USE DEF Remembered, NoReceipt
  <1>3. CASE PushAccepted \/ PushUncertain
    BY <1>1, <1>3 DEF PushAccepted, PushUncertain, Answer, Ordered, Order
  <1>4. CASE Script /\ ~PushAccepted /\ ~PushUncertain
    <2>1. Unsettled' = Unsettled
      BY <1>4 DEF Script, GoTo, Answer, remote, Unsettled, KeepIntent, KeepAttempt, PushUpToDate, PushRejected,
                  MarkScope, MarkPush, ClearPending, MarkRejected, WithdrawIntent
    <2>2. CASE KeepIntent
      BY <1>1, <1>2, <2>1, <2>2 DEF KeepIntent, EarliestPending, GoTo, Ordered, TypeOK, Refs
    <2>3. CASE KeepAttempt
      BY <1>1, <1>2, <2>1, <2>3 DEF KeepAttempt, Withdrawn, GoTo, Ordered, TypeOK, Refs
    <2>4. CASE PushUpToDate \/ PushRejected
      BY <1>1, <1>2, <2>1, <2>4 DEF PushUpToDate, PushRejected, Answer
    <2>5. CASE MarkScope
      BY <1>1, <1>2, <2>1, <2>5 DEF MarkScope, GoTo, Ordered, TypeOK, Refs
    <2>6. CASE MarkPush
      BY <1>1, <1>2, <2>1, <2>6 DEF MarkPush, GoTo, Ordered, TypeOK, Refs
    <2>7. CASE ClearPending
      BY <1>1, <1>2, <2>1, <2>7 DEF ClearPending, GoTo, Ordered, TypeOK, Refs
    <2>8. CASE MarkRejected
      BY <1>1, <1>2, <2>1, <2>8 DEF MarkRejected, GoTo, Ordered, TypeOK, Refs
    <2>9. CASE WithdrawIntent
      BY <1>1, <1>2, <2>1, <2>9 DEF WithdrawIntent, Withdrawn, GoTo, Ordered, TypeOK, Refs
    <2> QED
      BY <1>4, <2>2, <2>3, <2>4, <2>5, <2>6, <2>7, <2>8, <2>9 DEF Script
  <1> QED
    BY <1>3, <1>4

LEMMA RememberedEnd ==
    ASSUME Ordered, Accounted, Remembered, EndRound \/ Capture \/ ReplaceCheckout \/ Reconcile
    PROVE  Remembered'
  <1>1. UNCHANGED <<landed, attempts, refs>> /\ This' = This
    BY DEF EndRound, Capture, ReplaceCheckout, Reconcile, remote, checkout, This
  <1>2. CASE EndRound
    <2>1. receipt' = NoReceipt /\ pc' = "idle" /\ verdict' # "returned"
      BY <1>2 DEF EndRound, Ordered, Order, TypeOK, NoReceipt
    <2>2. refs.pending = 0 => Unsettled' = Unsettled
      BY <1>1, <1>2 DEF EndRound, Unsettled, Ordered, Order, TypeOK
    <2> QED
      BY <1>1, <2>1, <2>2 DEF Remembered, NoReceipt
  <1>3. CASE ~EndRound
    <2>1. Unsettled' = Unsettled /\ pc' = pc
      BY <1>3 DEF Capture, ReplaceCheckout, Reconcile, remote, Unsettled
    <2>2. CASE Capture
      <3>1. receipt'.pending = Publishes(refs.pending) /\ verdict' = verdict /\ verdict # "returned"
        BY <2>2 DEF Capture, Ordered, TypeOK
      <3>2. refs.pending = 0 \/ Publishes(refs.pending)
        BY DEF Publishes, Accounted, Ordered, Order, TypeOK, Refs
      <3> QED
        BY <1>1, <2>1, <3>1, <3>2 DEF Remembered
    <2>3. CASE ReplaceCheckout
      BY <1>1, <2>1, <2>3 DEF ReplaceCheckout, Remembered
    <2>4. CASE Reconcile
      <3>1. Settled = "returned" => receipt.known /\ ~receipt.pending
        BY <2>4 DEF Reconcile, Settled, FromRemote
      <3> QED
        BY <1>1, <2>1, <2>4, <3>1 DEF Reconcile, Remembered
    <2> QED
      BY <1>3, <2>2, <2>3, <2>4
  <1> QED
    BY <1>2, <1>3

LEMMA RememberedStep ==
    ASSUME Ordered, Accounted, Remembered, [Next]_vars
    PROVE  Remembered'
  <1>1. CASE UNCHANGED vars
    BY <1>1 DEF Remembered, Unsettled, vars, remote, This
  <1> QED
    BY <1>1, RememberedOutside, RememberedScript, RememberedEnd DEF Next

\* A source that goes back to automatic recovery was published by no push of the
\* round, and cannot be any more, unless git called the branch up to date.
\* (git-safe-push PENDING, reconcile_handoff)
THEOREM ReturnedOnlyUnsent == NoopPushes = FALSE => (Spec => []ReturnedUnsentUnlessUpToDate)
  <1> SUFFICES ASSUME NoopPushes = FALSE
               PROVE  Spec => []ReturnedUnsentUnlessUpToDate
    OBVIOUS
  <1>1. Ordered /\ ExpectsKnown /\ Accounted /\ Remembered /\ [Next]_vars
        => Ordered' /\ ExpectsKnown' /\ Accounted' /\ Remembered'
    BY OrderedStep, ExpectsStep, AccountedStep, RememberedStep
  <1>2. Remembered => ReturnedUnsentUnlessUpToDate
    BY DEF Remembered, Unsettled, ReturnedUnsentUnlessUpToDate, Sent
  <1> QED
    BY <1>1, <1>2, OrderedInit, ExpectsInit, AccountedInit, RememberedInit, PTL DEF Spec
==============================================================================
