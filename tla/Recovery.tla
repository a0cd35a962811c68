------------------------------- MODULE Recovery -------------------------------
(***************************************************************************)
(* The automatic consumer of one retained source record                    *)
(* (repair_recovery.py: recover, Recovery.run, WorkerBackend).  A round     *)
(* died or failed with unpublished work; invocations of this worker bring  *)
(* that work onto the current head of the pull request (an ancestor needs  *)
(* nothing, a moved head is merged, a rewritten head gets the saved delta  *)
(* on a new checkout), let an agent repair what is not mechanical, verify  *)
(* it and push it through the branch's compare-and-swap.  Other writers    *)
(* move, rewrite, restore, hold and close the branch at any step, and the  *)
(* worker can die at any step.                                             *)
(*                                                                         *)
(* A commit is its number; git knows its ancestors and its tree, and a     *)
(* tree is the set of changes in it.  Change 0 is the saved work.          *)
(***************************************************************************)
EXTENDS Naturals, Sequences, FiniteSets

CONSTANTS Allowance,      \* the workflow's budget of source repairs
          MaxRefunds,     \* MAX_INFRA_REFUNDS
          MaxWrites,      \* bound: moves of the branch by other writers
          MaxUpsets       \* bound: kills, failures, refusals, lost answers

RecoveryAssumption == Allowance \in Nat \ {0} /\ MaxRefunds \in Nat

Saved == 0                \* the change the record retains
Base == 1                 \* the commit the branch forks from
Head0 == 2                \* m.expected_remote_head
Stray == 99               \* a change nobody verified

VARIABLES git,            \* the commits: [hist, tree]
          remote,         \* the branch
          pr,             \* the pull request: open, held or closed
          record,         \* recovery.json
          tally,          \* the workflow's own attempt counter
          checkout,       \* record/checkout
          built,          \* the directory of a delta being handed over
          inv,            \* the invocation: its step and what it holds in memory
          wire,           \* a push the remote may still apply
          ghost,          \* what ever happened to the branch
          spentBounds     \* writes and upsets so far

recoveryvars == <<git, remote, pr, record, tally, checkout, built, inv, wire,
                  ghost, spentBounds>>
outside == <<remote, pr, wire, ghost>>
disk == <<git, checkout, built>>

None == 0
NoDelta == [id |-> None, stage |-> "none", expected |-> None, target |-> None,
            source |-> None, patch |-> {}, applied |-> {}, reason |-> FALSE, paid |-> FALSE]
NoPub == [oid |-> None, expected |-> None, tree |-> {}, sent |-> FALSE, prior |-> FALSE]
NoTree == [there |-> FALSE, head |-> None, tree |-> {}, merging |-> None,
           conflict |-> FALSE, mark |-> None, pushed |-> None]
NoFacts == [head |-> None, pr |-> "open"]
NoInv == [at |-> "idle", facts |-> NoFacts, why |-> FALSE, tried |-> FALSE, fresh |-> FALSE,
          owned |-> FALSE, charged |-> FALSE, checked |-> {}, before |-> [tally |-> 0, content |-> 0]]
Terminal == {"published", "obsolete"}

RecoveryTypeOK ==
  /\ remote \in 1..Len(git) /\ pr \in {"open", "held", "closed"}
  /\ record.state \in {"retained", "eligible", "resuming", "verified", "publication-pending",
                        "published", "obsolete", "blocked"}
  /\ record.attempts \in 0..3 /\ record.content \in 0..Allowance /\ tally \in Nat
  /\ record.delta.stage \in {"none", "prepared", "ready", "applied"}
  /\ {checkout.head, checkout.merging, wire, record.integrated} \subseteq 0..Len(git)
  /\ inv.at \in {"idle", "reconcile", "admit", "acquire", "restore", "journal", "move",
                 "applied", "source", "integrate", "build", "merge", "merged", "integrated", "pay",
                 "charge", "launch", "agent", "given up", "verify", "verified", "prepare", "commit",
                 "publish", "push", "sent", "landed", "refused", "confirm"}

RecoveryInit ==
  /\ git = << [hist |-> {1}, tree |-> {1}], [hist |-> {1, 2}, tree |-> {1, 2}] >>
  /\ remote = Head0 /\ pr = "open" /\ tally = 0 /\ wire = None
  /\ record = [state |-> "retained", attempts |-> 0, seen |-> NoFacts, ready |-> FALSE,
               integrated |-> None, merging |-> None, source |-> None, before |-> 0,
               started |-> 0, onDelta |-> None, content |-> 0, refunds |-> 0,
               delta |-> NoDelta, history |-> {}, rebuild |-> FALSE, pub |-> NoPub]
  /\ checkout = NoTree /\ built = NoTree /\ inv = NoInv
  /\ ghost = [dropped |-> {}, landed |-> {}, again |-> {}, confirmed |-> {},
              revived |-> {}, known |-> {}, worked |-> 0]
  /\ spentBounds = [writes |-> 0, upsets |-> 0]

-----------------------------------------------------------------------------
(* Git.                                                                     *)

Ancestor(old, new) == old \in git[new].hist
CommitOf(parents, tree) ==
  [hist |-> (UNION {git[p].hist : p \in parents}) \cup {Len(git) + 1}, tree |-> tree]
NextOid == Len(git) + 1
Dirty == checkout.tree # git[checkout.head].tree \/ checkout.merging # None
Unfinished == checkout.conflict \/ checkout.merging # None

\* source_tree: an unfinished operation has none
IsTreeOf(oid) == ~Unfinished /\ checkout.tree = git[oid].tree

\* commit_source: the checkout's edits, and an owned merge, become a commit
OwnedMerge == checkout.merging # None /\ checkout.merging = record.merging
Committable == ~checkout.conflict /\ (checkout.merging = None \/ OwnedMerge)
Parents == {checkout.head} \cup ({checkout.merging} \ {None})
CommittedGit == IF Dirty THEN Append(git, CommitOf(Parents, checkout.tree)) ELSE git
CommittedHead == IF Dirty THEN NextOid ELSE checkout.head
Committed == [checkout EXCEPT !.head = CommittedHead, !.merging = None]

-----------------------------------------------------------------------------
(* Other writers, and the ways the worker fails.                            *)

Facts == [head |-> remote, pr |-> pr]
Write == /\ spentBounds.writes < MaxWrites
         /\ spentBounds' = [spentBounds EXCEPT !.writes = @ + 1]
Disturbs == /\ spentBounds.upsets < MaxUpsets
            /\ spentBounds' = [spentBounds EXCEPT !.upsets = @ + 1]

Drops(new, hist) == (ghost.dropped \cup git[remote].hist) \ hist[new].hist

\* another writer pushes a commit: on the head, on an earlier commit, or the saved work itself
OtherPushes ==
  /\ Write
  /\ \E parent \in git[remote].hist : \E extra \in {{}, {Saved}} :
       /\ extra # {} => parent = remote
       /\ git' = Append(git, CommitOf({parent}, git[parent].tree \cup {NextOid} \cup extra))
       /\ remote' = NextOid
       /\ ghost' = [ghost EXCEPT !.dropped = Drops(NextOid, git')]
  /\ UNCHANGED <<pr, record, tally, checkout, built, inv, wire>>

\* another writer puts the branch back to an earlier commit
OtherRestores ==
  /\ Write
  /\ \E old \in git[remote].hist \ {remote, Base} :
       /\ remote' = old
       /\ ghost' = [ghost EXCEPT !.dropped = Drops(old, git)]
  /\ UNCHANGED <<git, pr, record, tally, checkout, built, inv, wire>>

OtherDecides ==
  /\ Write /\ pr' \in {"open", "held", "closed"} \ {pr}
  /\ UNCHANGED <<git, remote, record, tally, checkout, built, inv, wire, ghost>>

\* the round is killed: memory and the claim are gone
Killed ==
  /\ Disturbs /\ inv.at # "idle" /\ inv' = NoInv
  /\ UNCHANGED <<git, remote, pr, record, tally, checkout, built, wire, ghost>>

\* discard_unstarted_publication
KeptPub(pub) == IF pub.oid # None /\ ~pub.sent THEN NoPub ELSE pub

\* except Wait, Obsolete, Block, ContentFailure: a charged attempt is given back
Settles(j, state) ==
  /\ record' = [j EXCEPT !.state = state, !.pub = KeptPub(@),
                         !.attempts = IF inv.charged THEN @ - 1 ELSE @]
  /\ inv' = NoInv
Stops(state) == Settles(record, state)

\* except Exception: the attempt stays charged, up to three
FailsRound ==
  /\ record' = [record EXCEPT !.state = "eligible", !.pub = KeptPub(@),
                              !.attempts = IF inv.charged \/ @ = 3 THEN @ ELSE @ + 1]
  /\ inv' = NoInv

\* a command, a request or a clone fails
Trips ==
  /\ Disturbs /\ inv.at \notin {"idle", "push", "sent", "landed", "refused"} /\ FailsRound
  /\ UNCHANGED <<outside, tally, disk>>

\* the claim's lease is lost while the invocation runs
ClaimLost ==
  /\ Disturbs /\ inv.owned /\ inv' = [inv EXCEPT !.owned = FALSE]
  /\ UNCHANGED <<outside, record, tally, disk>>

\* a process the agent left behind edits the verified checkout
Strays ==
  /\ Disturbs /\ inv.at \in {"verified", "prepare", "commit", "publish"}
  /\ checkout' = [checkout EXCEPT !.tree = @ \cup {Stray}]
  /\ UNCHANGED <<git, built, outside, record, tally, inv>>

-----------------------------------------------------------------------------
(* Admission: what the remote already shows, the policy, the claim.         *)

Goes(at) == inv' = [inv EXCEPT !.at = at]

Look ==
  /\ inv.at = "idle" /\ record.state \notin Terminal
  /\ inv' = [NoInv EXCEPT !.at = "reconcile", !.facts = Facts]
  /\ record' = [record EXCEPT !.pub = KeptPub(@)]
  /\ UNCHANGED <<outside, tally, disk, spentBounds>>

\* reconcile: the branch itself, read with ls-remote
Published(pub) == \/ remote = pub.oid
                  \/ checkout.there /\ Ancestor(pub.oid, remote)
Superseded(pub) == \/ checkout.pushed = pub.oid
                   \/ remote # pub.expected /\ inv.facts.pr = "open"

Reconcile ==
  /\ inv.at = "reconcile"
  /\ \/ record.pub = NoPub /\ Goes("admit") /\ UNCHANGED record
     \/ /\ record.pub # NoPub
        /\ \/ /\ Published(record.pub) /\ inv' = NoInv
              /\ record' = [record EXCEPT !.state = "published"]
           \/ ~Published(record.pub) /\ Superseded(record.pub) /\ Stops("obsolete")
           \/ /\ ~Published(record.pub) /\ ~Superseded(record.pub)
              /\ Goes("admit") /\ UNCHANGED record
  /\ UNCHANGED <<outside, tally, disk, spentBounds>>

\* policy: a closed target is archived, a held one waits for a person
Policy(facts) == CASE facts.pr = "closed" -> "obsolete"
                   [] facts.pr = "held" -> "blocked"
                   [] OTHER -> "open"

\* changed facts start the attempts over; three failures wait for the scheduled recheck
Seen == IF record.seen = inv.facts THEN record
        ELSE [record EXCEPT !.seen = inv.facts, !.attempts = 0, !.state = "eligible"]

Admits ==
  /\ inv.at = "admit"
  /\ \/ Policy(inv.facts) # "open" /\ Settles(Seen, Policy(inv.facts))
     \/ /\ Policy(inv.facts) = "open" /\ Goes("acquire")
        /\ record' = [Seen EXCEPT !.attempts = IF @ = 3 THEN 0 ELSE @]
  /\ UNCHANGED <<outside, tally, disk, spentBounds>>

\* the claim is taken, and the facts must still be those the claim was for
Acquires ==
  /\ inv.at = "acquire"
  /\ \/ Disturbs /\ Stops("eligible")
     \/ /\ Facts # inv.facts /\ UNCHANGED spentBounds
        /\ Stops(IF Policy(Facts) = "open" THEN "eligible" ELSE Policy(Facts))
     \/ /\ Facts = inv.facts /\ UNCHANGED spentBounds
        /\ inv' = [inv EXCEPT !.at = "restore", !.owned = TRUE, !.charged = TRUE]
        /\ record' = [record EXCEPT !.state = "resuming", !.attempts = @ + 1]
  /\ UNCHANGED <<outside, tally, disk>>

-----------------------------------------------------------------------------
(* The private checkout.                                                    *)

\* restore: a new clone is renamed into place before the journal says it is ready
Restores ==
  /\ inv.at = "restore"
  /\ \/ record.delta.stage = "ready" /\ Goes("move") /\ UNCHANGED checkout
     \/ /\ record.delta.stage # "ready" /\ record.ready
        /\ Goes("source") /\ UNCHANGED checkout
     \/ /\ record.delta.stage # "ready" /\ ~record.ready /\ Goes("journal")
        /\ checkout' = [NoTree EXCEPT !.there = TRUE, !.head = Head0,
                                      !.tree = git[Head0].tree \cup {Saved}]
  /\ UNCHANGED <<outside, record, tally, git, built, spentBounds>>

RestoreRecorded ==
  /\ inv.at = "journal" /\ Goes("source")
  /\ record' = [record EXCEPT !.ready = TRUE]
  /\ UNCHANGED <<outside, tally, disk, spentBounds>>

\* Mutant: the marker of the built checkout is not looked at
DeltaMovesAgain ==
  /\ inv.at = "move"
  /\ \/ /\ checkout.there /\ built.there
        /\ checkout' = NoTree /\ UNCHANGED <<built, inv>>
     \/ /\ ~checkout.there
        /\ checkout' = built /\ built' = NoTree /\ Goes("applied")
     \/ checkout.there /\ ~built.there /\ checkout' = NoTree /\ UNCHANGED <<built, inv>>
  /\ UNCHANGED <<outside, record, tally, git, spentBounds>>

\* finish_delta_checkout: two renames and a journal write, each of which may be the last
DeltaMoves ==
  /\ inv.at = "move"
  /\ \/ /\ checkout.there /\ checkout.mark # record.delta.id
        /\ checkout' = NoTree /\ UNCHANGED <<built, inv>>
     \/ /\ ~checkout.there
        /\ checkout' = built /\ built' = NoTree /\ UNCHANGED inv
     \/ /\ checkout.there /\ checkout.mark = record.delta.id
        /\ Goes("applied") /\ UNCHANGED <<checkout, built>>
  /\ UNCHANGED <<outside, record, tally, git, spentBounds>>

\* the transaction is applied; the invocation that built it knows whether it needs the agent
DeltaApplied ==
  /\ inv.at = "applied"
  /\ record' = [record EXCEPT !.delta.stage = "applied", !.ready = TRUE,
                              !.integrated = record.delta.target]
  /\ IF inv.fresh
       THEN inv' = [inv EXCEPT !.at = "integrated", !.why = record.delta.reason]
       ELSE Goes("source")
  /\ UNCHANGED <<outside, tally, disk, spentBounds>>

\* an uncertain publication can only replay its exact original commit
ChecksSource ==
  /\ inv.at = "source"
  /\ \/ /\ record.pub # NoPub
        /\ checkout.head # record.pub.oid \/ ~IsTreeOf(record.pub.oid)
        /\ Stops("obsolete")
     \/ /\ record.pub # NoPub => checkout.head = record.pub.oid /\ IsTreeOf(record.pub.oid)
        /\ Goes("integrate") /\ UNCHANGED record
  /\ UNCHANGED <<outside, tally, disk, spentBounds>>

-----------------------------------------------------------------------------
(* integration_reason: the first case that applies.                         *)

Target == inv.facts.head
Expected == IF record.integrated # None THEN record.integrated ELSE Head0
Delta == record.delta

FrozenDelta == /\ Delta # NoDelta
               /\ \/ record.rebuild
                  \/ (Delta.reason \/ Delta.stage = "prepared") /\ Delta.target # Target
PreparedDelta == Delta.stage = "prepared" /\ Delta.target = Target
OpenDelta == Delta.stage = "applied" /\ Delta.target = Target /\ Delta.reason
DeltaResolved == /\ record.onDelta = Delta.id /\ ~Unfinished
                 /\ checkout.tree # git[Target].tree
MovedMerge == OwnedMerge /\ record.merging # Target
Rewritten == /\ ~Ancestor(Expected, Target)
             /\ ~(Ancestor(Target, checkout.head) /\ ~Ancestor(Expected, checkout.head))

\* prepared: the transaction is durable before anything is built
Prepares(delta, history) ==
  /\ record' = [record EXCEPT !.delta = delta, !.history = history,
                              !.rebuild = FALSE, !.merging = None]
  /\ Goes("build")
NewDelta(expected, source, patch, force) ==
  [NoDelta EXCEPT !.id = Delta.id + 1, !.stage = "prepared", !.expected = expected,
                  !.target = Target, !.source = source, !.patch = patch, !.paid = force]
Past == record.history \cup (IF Delta = NoDelta THEN {} ELSE {Delta.expected, Delta.target})
PaidProgress == \/ Delta.paid \/ record.rebuild
                \/ /\ record.onDelta = Delta.id /\ Delta.stage = "applied"
                   /\ checkout.tree # Delta.applied

RebuildsDelta ==
  /\ FrozenDelta
  /\ Prepares(NewDelta(Delta.expected, Delta.source, Delta.patch, PaidProgress), Past)
  /\ UNCHANGED <<git, checkout>>

ResumesDelta == /\ ~FrozenDelta /\ PreparedDelta /\ Goes("build")
                /\ UNCHANGED <<git, checkout, record>>

AsksForDelta ==
  /\ ~FrozenDelta /\ ~PreparedDelta /\ OpenDelta
  /\ inv' = [inv EXCEPT !.at = "integrated", !.why = ~DeltaResolved]
  /\ UNCHANGED <<git, checkout, record>>

NoDeltaCase == ~FrozenDelta /\ ~PreparedDelta /\ ~OpenDelta

AsksForMerge ==
  /\ NoDeltaCase /\ OwnedMerge /\ ~MovedMerge
  /\ inv' = [inv EXCEPT !.at = "integrated", !.why = checkout.conflict]
  /\ UNCHANGED <<git, checkout, record>>

\* an owned merge of a head that is gone is not committed: its source is
LeavesMerge ==
  /\ NoDeltaCase /\ MovedMerge
  /\ Prepares(NewDelta(Expected, record.source,
                       git[record.source].tree \ git[Expected].tree,
                       record.started # 0 /\ record.started # record.before), Past)
  /\ UNCHANGED <<git, checkout>>

Interrupted ==
  /\ NoDeltaCase /\ ~OwnedMerge /\ Unfinished
  /\ inv' = [inv EXCEPT !.at = "integrated", !.why = TRUE]
  /\ UNCHANGED <<git, checkout, record>>

\* a rewritten head gets the saved delta on its new lineage
CutsDelta ==
  /\ NoDeltaCase /\ ~Unfinished /\ Rewritten
  /\ git' = CommittedGit /\ checkout' = Committed
  /\ Prepares(NewDelta(Expected, CommittedHead, checkout.tree \ git[Expected].tree, FALSE), Past)

UpToDate ==
  /\ NoDeltaCase /\ ~Unfinished /\ ~Rewritten /\ Ancestor(Target, checkout.head)
  /\ inv' = [inv EXCEPT !.at = "integrated", !.why = FALSE]
  /\ UNCHANGED <<git, checkout, record>>

\* a moved head is merged: the journal owns the merge before Git starts it
OwnsMerge ==
  /\ NoDeltaCase /\ ~Unfinished /\ ~Rewritten /\ ~Ancestor(Target, checkout.head)
  /\ git' = CommittedGit /\ checkout' = Committed
  /\ IF checkout.tree \cup git[Target].tree = git[Target].tree
       THEN Stops("obsolete")
       ELSE /\ Goes("merge")
            /\ record' = [record EXCEPT !.merging = Target, !.source = CommittedHead,
                                        !.before = record.started]

Integrates ==
  /\ inv.at = "integrate"
  /\ \/ RebuildsDelta \/ ResumesDelta \/ AsksForDelta \/ AsksForMerge \/ LeavesMerge
     \/ Interrupted \/ CutsDelta \/ UpToDate \/ OwnsMerge
  /\ UNCHANGED <<outside, tally, built, spentBounds>>

\* reintegrate_delta: the patch on the new target in a directory of its own, then ready
BuildsDelta ==
  /\ inv.at = "build"
  /\ \E clash \in BOOLEAN :
       LET tree == git[Target].tree \cup Delta.patch IN
       /\ clash => Delta.patch # {}
       /\ built' = [NoTree EXCEPT !.there = TRUE, !.head = Target, !.tree = tree,
                                  !.conflict = clash, !.mark = Delta.id]
       /\ record' = [record EXCEPT !.delta.stage = "ready", !.delta.applied = tree,
                                   !.delta.reason = clash \/ Delta.paid]
  /\ inv' = [inv EXCEPT !.at = "move", !.fresh = TRUE]
  /\ UNCHANGED <<outside, tally, git, checkout, spentBounds>>

\* git merge: clean and committed, or left open for the agent
Merges ==
  /\ inv.at = "merge"
  /\ LET tree == checkout.tree \cup git[Target].tree IN
     \/ /\ git' = Append(git, CommitOf({checkout.head, Target}, tree))
        /\ checkout' = [checkout EXCEPT !.head = NextOid, !.tree = tree]
        /\ Goes("merged")
     \/ /\ checkout' = [checkout EXCEPT !.tree = tree, !.merging = Target, !.conflict = TRUE]
        /\ inv' = [inv EXCEPT !.at = "integrated", !.why = TRUE] /\ UNCHANGED git
  /\ UNCHANGED <<outside, record, tally, built, spentBounds>>

MergeRecorded ==
  /\ inv.at = "merged" /\ inv' = [inv EXCEPT !.at = "integrated", !.why = FALSE]
  /\ record' = [record EXCEPT !.integrated = Target, !.merging = None]
  /\ UNCHANGED <<outside, tally, disk, spentBounds>>

\* what the integration leaves: nothing, something to verify, or work for the agent
Integrated ==
  /\ inv.at = "integrated"
  /\ \/ record.pub # NoPub /\ inv.why /\ Stops("obsolete")
     \/ ~inv.why /\ IsTreeOf(Target) /\ Stops("obsolete")
     \/ /\ record.pub = NoPub /\ inv.why /\ Goes("pay") /\ UNCHANGED record
     \/ ~inv.why /\ ~IsTreeOf(Target) /\ Goes("verify") /\ UNCHANGED record
  /\ UNCHANGED <<outside, tally, disk, spentBounds>>

-----------------------------------------------------------------------------
(* continue_source: an agent repairs the checkout within the allowance.     *)

MayPay == record.content < Allowance /\ tally < Allowance

\* continuation_admission, then the claim and the facts once more
Pays ==
  /\ inv.at = "pay"
  /\ \/ ~MayPay /\ Stops("eligible") /\ UNCHANGED tally
     \/ /\ MayPay /\ (Facts # inv.facts \/ ~inv.owned) /\ UNCHANGED tally
        /\ Stops(IF Policy(Facts) = "open" THEN "eligible" ELSE Policy(Facts))
     \/ /\ MayPay /\ Facts = inv.facts /\ inv.owned
        /\ tally' = tally + 1 /\ UNCHANGED record
        /\ inv' = [inv EXCEPT !.at = "charge", !.tried = TRUE,
                     !.before = [tally |-> tally, content |-> record.content]]
  /\ UNCHANGED <<outside, disk, spentBounds>>

\* charged before the launch
Charges ==
  /\ inv.at = "charge" /\ Goes("launch")
  /\ record' = [record EXCEPT !.content = @ + 1, !.started = tally, !.onDelta = Delta.id]
  /\ UNCHANGED <<outside, tally, disk, spentBounds>>

Launches ==
  /\ inv.at = "launch" /\ Goes("agent")
  /\ ghost' = [ghost EXCEPT !.worked = @ + 1]
  /\ UNCHANGED <<remote, pr, wire, record, tally, disk, spentBounds>>

\* refund_content
Refunded(j) == [j EXCEPT !.content = inv.before.content, !.started = 0]
RefundedTally == IF inv.before.tally < tally THEN inv.before.tally ELSE tally

\* nothing was launched: no build cache, a failure that keeps the attempt; no admission,
\* a wait that gives it back; or a budget error, a wait without a refund
NotLaunched ==
  /\ inv.at = "launch" /\ Disturbs
  /\ \/ /\ tally' = RefundedTally /\ inv' = NoInv
        /\ \E back \in {0, 1} :
             record' = [Refunded(record) EXCEPT !.state = "eligible", !.pub = KeptPub(@),
                                                !.attempts = @ - back]
     \/ Stops("eligible") /\ UNCHANGED tally
  /\ UNCHANGED <<outside, disk>>

\* what an agent may leave: edits, its own commit, an import of the pinned history
Pinned == Past \cup ({Delta.source} \ {None})
Resolutions ==
  {[checkout EXCEPT !.conflict = FALSE], checkout,
   [checkout EXCEPT !.conflict = FALSE, !.tree = git[Target].tree]}
AgentEdits == UNCHANGED git /\ checkout' \in Resolutions
AgentCommits == /\ Dirty /\ checkout.tree # git[Target].tree
                /\ git' = CommittedGit
                /\ checkout' = [Committed EXCEPT !.conflict = FALSE]
AgentImports == \E past \in Pinned \ git[checkout.head].hist :
  /\ git' = Append(git, CommitOf(Parents \cup {past}, checkout.tree))
  /\ checkout' = [checkout EXCEPT !.head = NextOid, !.merging = None, !.conflict = FALSE]

\* an integration that left the target's own tree is given up; a source that failed
\* verification is verified again whatever the agent made of it
AgentWorks ==
  /\ inv.at = "agent" /\ inv.owned
  /\ AgentEdits \/ AgentCommits \/ AgentImports
  /\ LET left == checkout'.conflict \/ checkout'.merging # None IN
     \/ /\ Delta # NoDelta /\ left
        /\ Settles([record EXCEPT !.delta.reason = TRUE], "eligible")
     \/ /\ Delta # NoDelta => ~left
        /\ record' = [record EXCEPT !.delta.reason = FALSE]
        /\ IF inv.why /\ ~left /\ checkout'.tree = git'[Target].tree
             THEN Goes("given up") ELSE Goes("verify")
  /\ UNCHANGED <<outside, tally, built, spentBounds>>

\* "no-applicable-source-delta"
GivesUp == /\ inv.at = "given up" /\ Stops("obsolete")
           /\ UNCHANGED <<outside, tally, disk, spentBounds>>

\* the agent failed or was cancelled by the lost claim: its work stays charged
AgentFails ==
  /\ inv.at = "agent" /\ (Disturbs \/ (~inv.owned /\ UNCHANGED spentBounds))
  /\ checkout' \in Resolutions /\ Stops("eligible")
  /\ UNCHANGED <<outside, tally, git, built>>

\* the provider failed before structured work: refunded, a bounded number of times
ProviderFails ==
  /\ inv.at = "agent" /\ Disturbs /\ record.refunds < MaxRefunds
  /\ tally' = RefundedTally /\ inv' = NoInv
  /\ record' = [Refunded(record) EXCEPT !.refunds = @ + 1, !.state = "eligible",
                                        !.pub = KeptPub(@)]
  /\ ghost' = [ghost EXCEPT !.worked = @ - 1]
  /\ UNCHANGED <<remote, pr, wire, disk>>

-----------------------------------------------------------------------------
(* Verification, the exact commit, the push.                                *)

\* a failed source gets one continuation; an unfinished one never verifies, and the
\* exact commit of an uncertain publication fails the second time only by an upset
Verifies ==
  /\ inv.at = "verify"
  /\ \/ /\ ~checkout.conflict
        /\ inv' = [inv EXCEPT !.at = "verified", !.checked = checkout.tree]
        /\ record' = [record EXCEPT !.state = "verified"] /\ UNCHANGED spentBounds
     \/ record.pub # NoPub /\ Disturbs /\ Stops("eligible")
     \/ record.pub = NoPub /\ inv.tried /\ Stops("eligible") /\ UNCHANGED spentBounds
     \/ /\ record.pub = NoPub /\ ~inv.tried /\ Goes("pay")
        /\ UNCHANGED <<record, spentBounds>>
  /\ UNCHANGED <<outside, tally, disk>>

Unchanged(at) ==
  \/ Facts = inv.facts /\ inv.owned /\ Goes(at) /\ UNCHANGED record
  \/ /\ Facts # inv.facts \/ ~inv.owned
     /\ Stops(IF Policy(Facts) = "open" THEN "eligible" ELSE Policy(Facts))

Verified == /\ inv.at = "verified" /\ Unchanged("prepare")
            /\ UNCHANGED <<outside, tally, disk, spentBounds>>

\* prepare: the inputs are still the verified ones
Fingerprint == checkout.tree
Prepared ==
  /\ inv.at = "prepare"
  /\ IF Fingerprint = inv.checked THEN Goes("commit") /\ UNCHANGED record ELSE FailsRound
  /\ UNCHANGED <<outside, tally, disk, spentBounds>>

\* what the record knows of the branch's past must not come back
Recorded == Past \cup {Head0} \cup ({record.integrated} \ {None})
RemovedHistory == (UNION {git[p].hist : p \in Recorded}) \ git[Target].hist
Reintroduces(oid) == (git'[oid].hist \ git[Target].hist) \cap RemovedHistory # {}

Commits ==
  /\ inv.at = "commit"
  /\ \/ ~Committable /\ Stops("eligible") /\ UNCHANGED <<git, checkout>>
     \/ /\ Committable /\ git' = CommittedGit /\ checkout' = Committed
        /\ LET oid == CommittedHead
               j == IF checkout.merging = None THEN record ELSE [record EXCEPT !.merging = None]
           IN
           \/ Reintroduces(oid) /\ Settles([j EXCEPT !.rebuild = TRUE], "eligible")
           \/ /\ ~Reintroduces(oid) /\ Target \notin git'[oid].hist
              /\ record' = [j EXCEPT !.state = "eligible"] /\ inv' = NoInv
           \/ /\ ~Reintroduces(oid) /\ Target \in git'[oid].hist
              /\ record.pub # NoPub /\ record.pub.oid # oid /\ Settles(j, "obsolete")
           \/ /\ ~Reintroduces(oid) /\ Target \in git'[oid].hist
              /\ record.pub # NoPub => record.pub.oid = oid
              /\ record' = [j EXCEPT !.state = "publication-pending",
                                     !.pub = [oid |-> oid, expected |-> Target, tree |-> inv.checked,
                                              sent |-> record.pub # NoPub, prior |-> record.pub # NoPub]]
              /\ Goes("publish")
  /\ UNCHANGED <<outside, tally, built, spentBounds>>

\* publish: everything once more, and the intent durable before the push
Publishes ==
  /\ inv.at = "publish"
  /\ \/ (Facts # inv.facts \/ ~inv.owned) /\ Unchanged("push")
     \/ /\ Facts = inv.facts /\ inv.owned
        /\ Dirty \/ checkout.head # record.pub.oid \/ Fingerprint # record.pub.tree
        /\ FailsRound
     \/ /\ Facts = inv.facts /\ inv.owned /\ ~Dirty
        /\ checkout.head = record.pub.oid /\ Fingerprint = record.pub.tree
        /\ record' = [record EXCEPT !.pub.sent = TRUE] /\ Goes("push")
  /\ UNCHANGED <<outside, tally, disk, spentBounds>>

Unsent(j) == [j EXCEPT !.pub.sent = @ /\ j.pub.prior]

\* the push is on its way, or git-safe-push could not send it
Sends ==
  /\ inv.at = "push"
  /\ \/ wire' = record.pub.oid /\ Goes("sent") /\ UNCHANGED <<record, spentBounds>>
     \/ /\ Disturbs /\ UNCHANGED wire
        /\ record' = [Unsent(record) EXCEPT !.state = "eligible", !.pub = KeptPub(@)]
        /\ inv' = NoInv
  /\ UNCHANGED <<remote, pr, ghost, tally, disk>>

\* what other writers removed and the push puts back
Revives == git[wire].hist \cap (ghost.dropped \ {wire})

\* the remote applies it on exactly the expected head
Lands ==
  /\ wire # None /\ wire' = None
  /\ IF remote = record.pub.expected
       THEN /\ remote' = wire
            /\ ghost' = [ghost EXCEPT
                 !.landed = @ \cup {wire},
                 !.again = @ \cup ({wire} \cap ghost.confirmed),
                 !.revived = @ \cup Revives,
                 !.known = @ \cup (Revives \cap Recorded),
                 !.dropped = @ \ git[wire].hist]
       ELSE UNCHANGED <<remote, ghost>>
  /\ inv' = IF inv.at # "sent" THEN inv
            ELSE [inv EXCEPT !.at = IF remote = record.pub.expected THEN "landed" ELSE "refused"]
  /\ UNCHANGED <<pr, record, tally, disk, spentBounds>>

\* git-safe-push marks what it was told had landed; a refusal was never sent
Answered ==
  /\ \/ /\ inv.at = "landed" /\ Goes("confirm")
        /\ checkout' = [checkout EXCEPT !.pushed = record.pub.oid]
        /\ ghost' = [ghost EXCEPT !.confirmed = @ \cup {record.pub.oid}]
        /\ UNCHANGED record
     \/ /\ inv.at = "refused"
        /\ Settles(Unsent(record), "eligible") /\ UNCHANGED <<checkout, ghost>>
  /\ UNCHANGED <<remote, pr, wire, git, built, tally, spentBounds>>

\* the answer is lost: the outcome stays uncertain
AnswerLost ==
  /\ inv.at \in {"sent", "landed", "refused"} /\ Disturbs
  /\ record' = [record EXCEPT !.state = "eligible"] /\ inv' = NoInv
  /\ UNCHANGED <<outside, tally, disk>>

\* the same reconciliation confirms it
Confirms ==
  /\ inv.at = "confirm"
  /\ \/ /\ Published(record.pub) /\ inv' = NoInv
        /\ record' = [record EXCEPT !.state = "published"]
     \/ ~Published(record.pub) /\ Stops("obsolete")
  /\ UNCHANGED <<outside, tally, disk, spentBounds>>

-----------------------------------------------------------------------------
RecoveryProgress ==
  Look \/ Reconcile \/ Admits \/ Acquires \/ Restores \/ RestoreRecorded \/ DeltaMoves
  \/ DeltaApplied \/ ChecksSource \/ Integrates \/ BuildsDelta \/ Merges \/ MergeRecorded
  \/ Integrated \/ Pays \/ Charges \/ Launches \/ AgentWorks \/ GivesUp \/ Verifies
  \/ Verified \/ Prepared \/ Commits \/ Publishes \/ Sends \/ Lands \/ Answered \/ Confirms

RecoveryUpsets ==
  OtherPushes \/ OtherRestores \/ OtherDecides \/ Killed \/ Trips \/ ClaimLost \/ Strays
  \/ NotLaunched \/ AgentFails \/ ProviderFails \/ AnswerLost

RecoveryNext == RecoveryProgress \/ RecoveryUpsets

RecoverySpec == RecoveryInit /\ [][RecoveryNext]_recoveryvars

\* the loop starts a round when the last one ended; a push that was sent is decided
RecoveryFairSpec == RecoverySpec /\ WF_recoveryvars(RecoveryProgress) /\ WF_recoveryvars(Lands)

-----------------------------------------------------------------------------
(* Properties.                                                              *)

(* However often the consumer dies, one record puts at most one commit on   *)
(* the branch: an uncertain push can only be replayed as that exact commit. *)
OnePublication == Cardinality(ghost.landed) <= 1

(* A push the worker was told had landed, and another writer then removed,  *)
(* is not put back.                                                         *)
ConfirmedStaysRemoved == ghost.again = {}

(* What lands is what was verified, to the last change, whatever a process  *)
(* left behind by the agent does to the checkout meanwhile.                 *)
LandsVerified ==
  \A oid \in ghost.landed : git[oid].tree = record.pub.tree

(* No crash, refund or retry lets an agent do more structured work for a    *)
(* record than the original workflow's allowance.                           *)
WorkIsAllowed == ghost.worked <= Allowance

(* A handover of the checkout that died between its renames never leaves    *)
(* two sources to choose from: the invocation after it can finish it.       *)
HandoverFinishes ==
  Delta.stage = "ready" => (built.there # (checkout.there /\ checkout.mark = Delta.id))

(* What another writer removed and the record knows of is not put back with *)
(* the recovered work, however late the push is applied and whatever the    *)
(* record has come to know since it was sent.                               *)
KnownStaysRemoved == ghost.known = {}

(* All that a record promises while it is retained.                         *)
RetainedSafe ==
  /\ RecoveryTypeOK /\ OnePublication /\ ConfirmedStaysRemoved /\ LandsVerified /\ WorkIsAllowed
  /\ HandoverFinishes /\ KnownStaysRemoved

(* The stronger claim, for any commit a writer removed: the model violates  *)
(* it (the README's findings).                                              *)
RemovedStaysRemoved == ghost.revived = {}

(* Once the writers and the failures stop, the record is published or       *)
(* archived, held for a person, or out of its allowance.                    *)
Over == record.state \in Terminal \/ pr # "open" \/ tally >= Allowance
=============================================================================
