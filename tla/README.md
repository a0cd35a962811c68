# A verification project for TauCetiWorker

TauCetiWorker runs a fleet of workers, on hosts that share nothing but GitHub, that review,
repair and extend the Tau Ceti Lean library. A worker runs *rounds*: it surveys GitHub, selects one
unit of work, claims it, starts a coding agent in a checkout, and publishes what the agent made. Rounds
are killed, restarted and repeated; answers of GitHub are lost; several workers and a whole process tree
per round act at once. This directory holds TLA+ models of the parts where that is hard, TLC
configurations that check them on small instances, and proofs that TLAPS checks for every instance.

All paths below are relative to `src/`; a Python module `x` is `tauceti_worker/x.py`.

## The system

### Components

| component | state it keeps | operations | what makes it correct |
|---|---|---|---|
| Cooperative claims: `scripts/claim.sh`, `claim.py`, `round.py` | one git ref per claim, naming a lease commit (owner, expiry) | acquire, renew, release, gc; heartbeat child; watcher thread | one live owner; a lost claim cancels its round; a dead holder blocks nobody |
| Push arbiter: `scripts/git-safe-push` | local refs: pending, attempted, rejected, published pushes | one compare-and-swap push with durable evidence around it | never overwrites unseen work; evidence never lies |
| Source handoffs: `work_recovery.py`, `repair_recovery.py`, `recovery_index.py` | receipts of a round's source, retained checkouts and bundles, repair journal | capture, replace, reconcile, replay | paid work is neither lost nor published twice; every handoff is settled |
| Publication outbox: `github_outbox.py` | private intent files, per mutation: prepared, sending, rejected, ambiguous | prepare, send, classify, reconcile, drain, supersede, abandon, retry | nothing published twice, nothing dropped, order kept per target |
| GitHub transport and caches: `github_transport.py`, `github.py`, `github_state.py` | shared read cache with generations, cooldowns, circuit breaker | admission, request, invalidation | a read that overlaps a write never fills the cache |
| Overlap scanner: `overlaps.py`, `overlap_state.py` | shared lease ref, shared cursor ref, retained result, receipts | scan, publish, advance, fix | the cursor never passes an unpublished finding; few duplicates |
| Overlap caches, shared Mathlib: `overlap_support.py`, `shared_mathlib.py`, `shared_repositories.py` | snapshots under key locks and pins | lease, publish, collect | no snapshot goes while it is read |
| Round and loop: `round.py`, `loop.py`, `processes.py` | round lock, back-off counters, process groups | start, cancel, sweep, pace | rounds end; workers neither spin nor sleep for ever |
| Selection and agents: `work_units.py`, `agents.py`, `survey.py`, `review_state.py` | a survey of GitHub | cascade of choices | acts only through the parts above |
| Budget: `budget.py`, `budget_*.py` | append-only ledger | admit, settle, repair | the balance less reserves is never overdrawn |
| Usage supervisor: `usage_lifecycle.py`, `usage_supervisor.py`, `usage_accounting.py`, `claude_api.py` | permits and invocation records | gate, permit, stop, recover | no agent executes without a durable permit |
| OAuth rotation: `oauth.py` | credential file, mirror, markers | refresh under a lock | a single-use token is spent once and never lost silently |
| Quota: `quota.py` | usage windows, cooldown file | pace, bootstrap | one request at a time opens a window; no launch on an old reading |
| Worker manager: `worker_manager.py` | wanted set, runner processes | reconcile, start, stop | a wanted worker runs once |
| Verification: `verification*.py` | jobs and receipts | resume, verify | a receipt is for the very tree |
| Security audit: `security_audit.py`, `audit_*.py` | confirmed cursor and blocks | inspect, confirm | the cursor passes nothing unread |
| Progress publication: `progress_publication.py` | prepared reports | prepare, resume | prose is paid for once |
| Caches and storage: `build_caches.py`, `storage.py`, `retention.py`, ... | disposable files under locks | use, evict | nothing in use is evicted |
| Fleet capacity and events, activity, costs, display, CLI, configuration | reports | read, render | no other part relies on them |
| State service: `services/github-state` | a server that mirrors GitHub | reads | clients fall back to GitHub |

### Interactions

A *round* takes a claim by running `claim.sh`, and starts a heartbeat child that runs `claim.sh renew`
and a watcher thread that cancels the agent when the claim is lost. The *agent* commits and runs
`git-safe-push`, which pushes under the lease on the branch, and calls a `gh` proxy, which writes every
mutation into the *outbox* before it is sent. What a round leaves behind (refs, intents, checkouts) is read
by the *next* round of the same worker: it drains the outbox, captures and settles handed-off source, and
only then selects work. The *overlap scanner* is a special round with a stricter lease of its own, whose
issues go through the same outbox. Workers meet only on GitHub: at claim refs, branches, the cursor ref,
issues and pull requests.

### What is hard

- *Read, then push.* Every compare-and-swap on a ref is a read and, later, a push. Other workers, the
  heartbeat of the same worker, commands orphaned by a kill, and `gc` run in between.
- *Lost answers.* A push or a request takes effect and its answer does not arrive, or takes effect long after its
  client is gone. Recovery must tell the cases apart by what it left on disk.
- *Kills.* A round may be killed between any two effects. There is always a next round that trusts what it finds.
- *Leases that run out* under a holder that does not know yet.
- *Ordering:* cleanups, drains and evidence have an order that the code relies on.
- *Everything must be settled in the end,* or source that was paid for is stuck.

`PROJECT.json` lists these hazards one by one with their lines, and the properties that cover them.

## The modules

| module | role |
|---|---|
| `LeaseRegister` | abstract: what a lease promises |
| `ClaimRef` | `claim.sh` and the claim part of `round.py`; implements `LeaseRegister` |
| `SafePush` | `git-safe-push` and the settlement of a handoff |
| `Outbox` | `github_outbox.py` and the mutation path of the proxy |
| `OverlapScan` | `overlaps.do_scan`, `publish` and `overlap_state`; its lease implements `LeaseRegister` |
| `Budget` | the ledger of `budget.py`: admission, settlement, torn lines |
| `LaunchPermit` | shim, gate, bridge and supervisor of one paid invocation |
| `Workers` | the manager, its wrappers and their loops |
| `Rounds` | the driver loop and the attempts of its rounds |
| `Report` | the progress report: due, written, published, set aside |
| `Recovery` | the journal of a retained change: `repair_recovery.py` |
| `Credentials` | OAuth rotation by the daemon and the pacers |
| `Quota`, `Pace` | readings and the request that opens a window; the pace line |
| `Gateway`, `ReadCache`, `Throttle` | the client of the mirror; cached reads and generations; cooldowns and probes |
| `Pool` | shared Mathlib builds under file locks |
| `Audit` | the security audit and its recovery |
| `VerifyJobs` | durable verification jobs, their helpers and the collector |
| `MCParts` | the fifteen modules from `Budget` on, in one instance for TLC |
| `MCClaimRef`, `MCSafePush`, `MCOutbox`, `MCOverlapScan`, `MCWorkers`, `MCQuota` | the small instances of single modules |
| `GithubProofs` | the theorems about `ClaimRef` and `Outbox` |
| `SafePushProofs`, `OverlapScanProofs` | the theorems about the module each is named for |
| `SessionsProofs` | the theorems about `LaunchPermit`, `Audit`, `Report` and `Recovery` |
| `HostProofs` | the theorems about `Credentials`, `Pool`, `Rounds` and `Workers` |
| `SharedProofs` | the theorems about `Gateway`, `Throttle`, `ReadCache` and `Quota` |
| `LedgerProofs` | the theorems about `VerifyJobs` and `Budget` |
| `PartsProofs` | those of the last four modules as theorems of `MCParts` |

Definitions that start with a comment `Mutant:` are plausible bugs in a guard or an update beside them. No
action uses them. Each property is known to fail when one of them takes the place of the definition
it stands beside; `PROJECT.json` names the pairs.

### LeaseRegister

An owner and the ticks left of its lease. `Grant(w)`: an absent, expired or own lease is written by `w`.
`Free(w)`: the owner deletes it, or anyone deletes an expired one. `Tick`: time passes. A live lease changes
hands only by its owner's own release.

### ClaimRef

*State.* `ref` is the claim ref with the lease its commit carries. `round`, `held`, `lost` are the round and
`Claims.held`, `Claims.lost`; `beat` is the heartbeat child. `mainCmd`, `beatCmd`, `orphans` and `sweep` are
`claim.sh` commands between their read and their push, with the oid they read: in the round, in the
heartbeat, left over from a killed round, and `gc`. `granted` is a history variable: the ticks left of the last
lease write whose success the worker saw.

*Actions.* Each command is a read and a push: `AcquireRead` / `AcquireWon`, `AcquireStale`, `AcquireError`;
`BeatRead` / `BeatWon`, `BeatFailed`; `ReleaseRead` / `ReleasePush`; `GcRead` / `GcPush`; `OrphanPush`.
`WatchLost` is the watcher thread, `FinishWork` the end of the agent, `Crash` and `Restart` a SIGKILL and the
next round. `Views` is what a read may return: the truth, "no ref" when ls-remote fails (`ListFaults`; the
script cannot tell the two apart), or a lease it could not fetch (`FetchFaults`). A push may fail, or land and
report failure (`PushFaults`).

*Abstraction.* Expiry times are ticks left, so clocks agree. Commit ids are drawn fresh and recycled when nothing
refers to them: they are content addressed and carry a nonce in the code.

### SafePush

*State.* `branch` and its `history`; `wire`, pushes whose client is gone and which may still take effect; `landed`,
those that took effect (a history variable); the checkout (`head`, `expect` which is TAUCETI_PUSH_EXPECT, `known`,
what is reachable from the refs it has); `attempts`, the attempt tags; `refs`, the local evidence; `receipt`, the
durable outcome that `work_recovery.guard` captures; `round` and `verdict`.

*Actions.* One per effect of the script: `Begin`, `KeepIntent`, `KeepAttempt`, the four answers of
a push, `MarkScope`, `MarkPush`, `ClearPending`, `MarkRejected`, `WithdrawIntent`. Any local ref write may
fail (`RefFaults`); `EndRound` may come at any step. Then `Capture`, `ReplaceCheckout`, `Reconcile`, whose
decision is `Settled`, in the order of `reconcile_handoff`. `Foreign` is every other writer of the branch.

*Abstraction.* One branch and one handoff. A refused lease check (exit 77) changes nothing and is a
stutter. The scope of the refs is fresh for each round.

### Outbox

*State.* `status`, `wait` (retry_at in the future) and `fork` (retries, age of absence) are the intent file.
`caller` is the proxy that makes the publication, `answer` the request in flight, `wire` requests whose
process is gone. `applied`, `body`, `pr` are GitHub. `drain` is the pass of the next round: where it is, what
is left, which targets are blocked. `history` records what a property needs to excuse.

*Actions.* `Prepare` (with supersession of older edits), `Repeat`, `Refuse`, `Blocked`, `Send`, `Answered`,
`AnswerLost`, `CallerDies`; `DrainStart`, `Skip`, `Settle`, `Keep`, `Allow`, `Resend`, `ResendRaises`,
`ResendAnswered`, `ResendLost`, `DrainDies`; the operator's `Abandon` and `ForceRetry`; on the side of GitHub
`Serve`, `Arrives`, `PullRequestMoves`; and `Later`. `Seen` is `reconcile`, by kind of mutation.

*Abstraction.* One caller per intent at a time. Matching of texts behind `reconcile` is taken to be right: a read
tells whether the effect is there at that moment. Legacy, malformed and read-only entries are left out.

### OverlapScan

*State.* `ref` is the strict lease, `cursor` the shared cursor, `pin` the Mathlib pin; `issues`, `hidden`
and `late` are GitHub: issues per account and finding, those whose label was taken off, and requests under
way. Per scanner: `pc`, `session` (the owner written into the lease, one per scan), `cmd`, `beat`, `beatCmd`,
`lost` (Lease.lost), `scan` (the batch, and what is left to publish), and `disk`, which survives a kill: the
retained result, receipts, outbox intents. `excuse` is a history variable: the findings whose request was
refused for now, interrupted or never answered, or whose scanner was overtaken: another took the lease over while it was
between `require` and the answer (`Overtakes`).

*Actions.* Lease: `AcquireRead`, `AcquireWon`, `AcquireFailed`, `BeatRead`, `BeatPush`, `ReleaseRead`,
`ReleasePush`. Scan: `ReadCursor` (which reuses a retained result made for just this cursor and pin),
`Investigated`, `AgentStops`, `Inventory`, `Confirm`, `RequireToPost`, `Post`, `Reply`, `RequireToAdvance`,
`Advance`. Environment: `Crash`, `Drain` (the outbox, drained without the lease), `Arrives`, `Unlabel`,
`PinMoves`, `Tick`.

*Abstraction.* Commits are positions in the history; a finding is one commit. The model that examines commits is
deterministic: what it finds is a constant. Each worker has an account of its own. The one-off `initialize` and the
repair phase `do_fix` are left out; so are listings that lag behind GitHub.

### MCParts

The modules from `Budget` on have no state in common: they meet in files and on GitHub only where one of them
abstracts the other. A behaviour of `MCParts` is a behaviour of one of them, which `part` chooses at the start. `Next` is
the disjunction of their next-state relations, each conjoined with its value of `part`; the parts share the variables
`v1` to `v17`, and what a part does not use is 0 and stays 0. So one run asks the questions of all of them, and each is
checked as by itself. `Deep` tells the bounds of the safety run from the smaller ones of the liveness run. `Weak(k)` and
`Strong(k)` collect the fair actions: only one part moves, so the k-th action of every part is the k-th disjunct.

### Budget

*State.* `book` is what a replay of the ledger yields; `torn`, its last line is incomplete; `queue` the tickets of waiting
workers; `proc` the processes of the sessions. *Actions.* `Preflight`, `Admit`, `TicketLapses`; evidence (`Checkpoint`,
`Cooldown`, `BridgeCloses`); settlement from a final receipt, a free one, a prefix, an estimate, or nothing
(`SettleFinal`, `SettleFree`, `SettlePrefix`, `RecoverUsage`, `RecoverStopped`, `SettleUnknown`); the operator's
`Reconcile` and audits; torn appends. *Abstraction.* Amounts are small integers, and a provider session is named by the
invocation that opened it. `scope` chooses among three instances: three sessions of one provider session with every kind
of journal evidence; two workers that compete for funds while an hour passes; an operator who acts while a write is torn.

### LaunchPermit

*State.* The step of the shim, the gate and what became of it, the bridge, the files each leaves, the journal, the row of
the ledger, the lifecycle record and the pass of the supervisor. *Actions.* One per effect of each process, the death of
each, a journal that fails and a record that is lost. *Abstraction.* One invocation, of one paid request. In a container
the host sees no process, so liveness is unknown until an exact proof of the end is on disk.

### Workers

*State.* `workers.toml`, the command under way, the status file, the manager with its memory, the wrappers with their
loops. *Actions.* Edits, enable, disable, remove, restart; the steps of a reconciliation; those of a wrapper
and of its loop; kills, shutdown, an unreadable file. *Abstraction.* One worker; a back-off is over when `DelayOver` says so.
The manager is taken to act within the 15 seconds a calm look at a runner promises. The model shows two things
no property states: the manager forgets the definition of a running wrapper when a stale look unlinks the status file
after a removal and a new addition, and a shutdown that stops the workers misses a wrapper that was just launched.

### Rounds

*State.* Pull requests, the attempt counters and refunds, the loop (its naps and bursts), the round. *Actions.* `Push`, the
steps of a round from the choice to settlement, its death, `StartRound`, `StartRecovery`. *Abstraction.* A nap is shorter
or longer than the five minutes between recovery probes. Reading the code for it showed: `work_units.py:1582-1586` and
`:1217-1225` return without giving the branch claim back, though the comment at 1565 says that a claim is released; it runs
out by itself. A review round that is killed by its timeout is never charged.

### Report

*State.* GitHub, the account, the desk with the prepared report and its receipt, the shelf of reports set aside, the gates
that `progress_due` reads, the cached verdict, a dashboard that surveys beside the worker, the round. *Actions.* Every write of
a file is one. *Abstraction.* `tauceti-progress` by what it may answer; a delay ends when the world says so.

### Recovery

*State.* Commits, the branch, the pull request, the journal, the retained checkout, the delta being handed over, the
invocation, a push the remote may still apply. *Actions.* `RecoveryProgress` is the next step of the consumer:
prepare, charge, launch, verify, publish, settle, archive; `Lands` applies a push; upsets are kills, foreign writes, and
changes of the pull request. *Abstraction.* A patch adds files; the ordinary publication of a round is `SafePush`'s. The index
lock, snapshots and a checkout that vanishes are left out. `ConfirmedStaysRemoved` and `KnownStaysRemoved` are what
holds of another writer's removal: no push puts back a commit whose removal the worker heard of, or one that the record names when
the push is applied. That *every* removal stands (`RemovedStaysRemoved`) is not so, see below.

### Credentials

*State.* The tokens the server accepts, the credential file, the two markers and their ages, the lock, each rotator's
step, the worker's copy. *Actions.* A daemon and pacers rotate under the lock: look, lock, look again, ask, hear, store,
mark; a reply may be full, undated, without a token, or lost; a kill under the lock; a login. *Abstraction.* A token is
its serial number, time is ages. A login that races a rotation is overwritten by it, and a lost reply, or a death between
exchange and write, leaves a spent token until the next login: the code admits both, and the properties excuse them.

### Quota and Pace

`Quota` has the provider's window, the cached reading, the shared cooldown, the bootstrap ledger and the askers; one window is
modelled, its sibling has headroom. Launches go by a reading; a window that is idle is opened by one reserved request. `Pace`
has no processes: an operator's curve, the usage, the moment, and time that passes: `WakesWhenFree` compares the
computed waiting time with the line itself. Only Claude is modelled. The comment at `quota.py:59-60` says that a window that
comes back active clears its record at once; there is no such code.

### Gateway, ReadCache and Throttle

`Gateway` has the circuit file, the clients and the mirror: an open circuit is probed by one client whose lease is renewed with
each page; pages are of one revision or the answer is thrown away. `ReadCache` has the generation files of three keys, the
entries, readers that read a generation file by file, and writers that replace the files before and after their request. The
second look at the generation before an answer is stored is one step: identifiers never come back, so looking at them one
by one sees no more. A writer killed between its invalidations leaves an entry to age out. `Throttle` has
the shared record of rejections, the reading of the primary budget and the senders: a rejection sets a cooldown, and after
it one request probes. A sleeper that does not wait for the content pace does not look at the cooldown again
(`github_transport.py:707`).

### Pool

*State.* One snapshot, the shared and the exclusive lease, the publisher's lock, each round's step in `view()`, the
checkouts with the upper layer, marker and backup. *Actions.* The steps of `view()`, among them extraction, publication and the
move of a private build; collection, sweeping, kills, power failure, tampering. *Abstraction.* `flock` is converted by
dropping and retaking it. The agent of a killed round is taken to be gone before its checkout is used again; it may
still read.

### Audit

*State.* Main and the remote cursor, per worker its block, retained conversation, refused batches and recovery job, and an
attestation by a human. *Actions.* Choose a batch, read pages, judge, advance; recover a conversation; attest.
*Abstraction.* A commit is its number; what the model finds is a free choice. A finding is bound to worker and cursor.
A worker killed after its block is written and before its conversation exists stays held until an administrator acts. So does
one whose continuation by an administrator took too long: `resume_incomplete` records it without the kind of failure that
the recovery looks for (`security_audit.py:1435-1584`), and it leaves the recovery's budget as it is.

### VerifyJobs

*State.* The versions of the checkout and of the copies, job records, builds and evidence, the removal journal, three locks,
the agent's run, the supervisor, the collector. *Actions.* Verify, interrupt, continue in a copy, collect, and
the death of each process. *Abstraction.* Two phases; an edit is new content. `resume_pending` acts on a record it read before it
took the locks, which the model has.

## The runs

Every run ends within three minutes with two workers of TLC. Those that disable the deadlock check are of systems that
stop: a settled handoff, an empty outbox, a used-up bound.

| run | what it asks |
|---|---|
| `ClaimRef_safe` | `TypeOK`, `LeaseExclusive`, `CommandsSound`, `RefinesRegister` with two workers, failed reads, lost pushes, kills of both, one orphan |
| `ClaimRef_live` | `TakeoverNoticed`, `DeadHolderNeverBlocks`: one worker is killed, the other keeps trying |
| `ClaimRef_steal` | finding: with failed fetches a live lease is taken (`HeldByAnotherRefused`) |
| `SafePush_safe` | `TypeOK`, `PublishedLanded`, `TransferredUnsent`, `OverwritesOnlyKnown`, `HandoffSettles` |
| `Outbox_order` | `PublishedIsApplied`, `AppliedOnce`, `DrainKeepsOrder` on four publications about one pull request |
| `Outbox_live` | `ForkReplayedOnce`, `Settles`: an opaque mutation, a comment behind it on one pull request, an edit and a fork elsewhere |
| `OverlapScan_safe` | `TypeOK`, `CursorCovered`, `DuplicatesExcused`, `RefinesRegister`, with leases that run out anywhere |
| `OverlapScan_live` | `CatchesUp`, `NotReopened` with labels taken off issues, `CursorForward` over two batches |
| `Parts_safe` | the safety of the fifteen parts, one invariant for each or for a few: `SpendingSafe`, `LaunchSafe`, `FiguresExact`, `PacingSafe`, `WorkSafe`, `ReportsSafe`, `CredentialsSafe`, `ReadsSafe`, `PoolSafe`, `AuditSafe`, `VerifySafe`, `RecoverySafe`; `LedgerSteps` and `StepsSafe`, what a step may not do |
| `Parts_live` | `WorkGoesOn`, `NothingStaysShut`, `EndsForGood`: what is wanted happens again and again, and what is not wanted ends |
| `Workers_enable` | finding: a request to enable a worker again is dropped (`EnableRuns`) |
| `Quota_period` | finding: a window is asked for twice in one period (`OncePerPeriod`) |

### Bounds, and why they are enough

- *ClaimRef:* two workers, since every bad interleaving is between a command of one worker and the lease of another, or
  of an earlier round of the same one; TTL 2, so that a lease can be renewed before, at and after its last tick; one
  orphan. Eight commit ids are never all in use.
- *SafePush:* three commits, three attempts, one foreign move: an earlier attempt to remember, a current one, and
  one that repeats either; a foreign head in between. Without a handful of unused commits `New` would be empty too early.
- *Outbox:* two faults (three would only lose the answer once more): one to make an intent uncertain, one to disturb its
  recovery. Each kind of mutation is in one of the runs, on one target where order matters. Four intents: an edit that a
  newer edit of the same comment supersedes would be a fifth, and is in no run; the proofs allow any number of them.
- *OverlapScan, safe:* two scanners, a pin that moves from 0 to 1, one finding, two faults, a lease of one tick: every
  renewal races its expiry. Scanners are symmetric. *Live:* two batches of one commit, the finding in the second, two faults.
  No symmetry there, since it is not sound for liveness.
- *Parts, safe:* 4.1 million states. Two workers wherever they compete (`Pair`), and alike, so that they are symmetric; one
  where only its own deaths matter. One fault or two: one to leave something half done, one to disturb what
  picks it up. Three tokens: a stored one, its replacement, and one more after it was lost. Three pages and two revisions: a
  listing whose middle changes. Two windows of a report, two attempts, one wait. `Pool`: one kill or power
  failure, two rounds of each worker. `Audit`: two faults and one continuation by an administrator,
  which needs one of them. `Workers`: two wrappers, alike. `VerifyJobs`: two jobs, two upsets. `Pace`: a curve of up to four points, every usage
  and moment. `Quota`: a window of three ticks, an outcome believed for two. `Throttle` and `ReadCache`: two senders, two
  readers, one writer; what they say of more is proved.
- *Parts, live:* smaller bounds, since liveness needs the whole graph: about 228,000 states. `VerifyJobs` has a single job there, and one
  upset more. No symmetry. `Budget`, `Pace`, `Pool`, `ReadCache` and `Throttle` state no liveness there, and no administrator
  continues an audit.
- Session and commit ids are recycled when no variable holds them, so they bound nothing.

### Fairness, and why the code justifies it

- *ClaimRef:* weak fairness of each round's `claim.sh` steps (commands end, or are timed out), of the heartbeat (it waits with a
  timeout) and of time. `FinishWork` is fair only once `lost` is set: the watcher cancels the agent. A
  killed worker need not come back; nobody has to run `gc`.
- *SafePush:* a round ends by its deadline; the next round of the worker captures and reconciles before it selects work.
- *Outbox:* callers run to an answer or a timeout, GitHub answers or loses a request, the loop goes on and every round
  drains first, time passes.
- *OverlapScan:* steps of a scanner are strongly fair, since `require` waits for a mutex that the heartbeat takes again and
  again but lets go of between renewals. `Timely` (live run only) says that a renewal started in time ends before the lease
  does: without it two scanners may starve each other for ever, and so they may in the code. Faults are bounded, so a
  worker sees quiet times again.
- *Parts:* each process that runs goes on (weak fairness of its steps), the clock runs, services restart what they run:
  the manager, the supervisor, the daemon. Strong fairness where a lock or a gate is open again and again: a
  command of the operator gets the manager's lock in the end, a rotator the credential lock, a reader the
  probe of an open circuit, and the supervisor of verifications finds a quiet moment. For recoveries of `Rounds` it is an
  assumption: rounds that recover and time out for ever would starve ordinary work, in the code too. `Ceases` says that the
  worker is not killed for ever at the end of a report, and that the token endpoint is not down for ever.
  Nobody has to log in, to edit, to attest, to collect, or to push.

## What the runs show

Safety holds in the presence of every fault that the modules name, with the exceptions below. The first three have runs of
their own, each with one property that a comment or a document of the repository states:

1. `claim.sh:97`: acquire takes over a live lease if its commit cannot be fetched, because an unreadable expiry counts as expired.
2. `worker_manager.py:1081`: a worker that ended well is enabled again while the manager still has the disabled
   definition in hand, or has not seen its last wrapper go: the request is dropped, and the worker stays stopped. `docs/workers.md:180`
   says that an explicit re-enable still works.
3. `quota.py:2141`: a record of a request is believed for an hour, or for seven minutes if it was left in progress, while
   periods are of five hours and a week: another request in the same period follows a crash or a late window.
   `docs/quota.md:103-106` says at most one, even after a crash.

The next ones were met with TLC as well. Their formulas stay in the modules, with a remark that the model violates them,
and no run checks them:

4. `git-safe-push:96` (`ReturnedUnsent` of `SafePush`): the answer of a push is lost, the push is repeated, git says "up to
   date", and the pending intent, the only evidence, is deleted. The handoff is given back for automatic replay.
   `ReturnedUnsentUnlessUpToDate` is what does hold, and is proved.
5. `git-safe-push:80` (`TransferredUnsent` with `NoopPushes = TRUE`): the earliest attempt stays pending. If it pushed nothing
   new, a later real attempt of unknown outcome is invisible, and its source is checkpointed for automatic publication.
   `NoopPushes = FALSE` leaves such attempts out, and the property holds.
6. `github_outbox.py:122` (`NewestBodyStays` of `Outbox`): an edit whose outcome is unknown is not superseded by a newer
   edit, and is replayed over it.
7. `github_outbox.py:722` (`CloseNeedsEvidence` of `Outbox`): a refused closure is replayed as it is, though the pull request
   may have moved.
8. `verification_storage.py:665` (`ReuseIsWhole` of `VerifyJobs`): after four upsets a run reuses evidence of a build that
   was taken away.
9. `repair_recovery.py` (`RemovedStaysRemoved` of `Recovery`): an uncertain push is replayed as the very commit when the head
   is what it was, so that a change which landed and was taken back before anybody confirmed it lands again.

Smaller divergences: between `require` and the request of `overlaps.py:262` nothing looks at the lease, so that a lease taken
over just then may lead to two issues although no request was interrupted, the case the documentation names; an opaque mutation of
uncertain outcome keeps every later comment on its target waiting until an operator removes it (`github_outbox.py:738`); `cmd_renew` reports a lost claim when `ls-remote` fails once (`claim.sh:111`), which costs a round and
no safety; and an issue that lost its label may be opened again by *another* scanner, which has no receipt of it
(`overlaps.py:242`), while `NotReopened` holds for the scanner that has.

## What is proved

Proofs hold for every value of the constants that satisfies the assumption its module names.

`GithubProofs` on `ClaimRef`, for any workers, commit ids, lease length and number of orphans, from `ClaimAssumption`:

- `TypeCorrect`: `Spec => []TypeOK`. `TypeOK` is inductive by itself: besides the types it says which variable is
  unused in which phase of a round (`Phases`).
- `LeaseSafe`, `InFlightSafe`: `FetchFaults = FALSE => (Spec => []LeaseExclusive)`, and the same of `CommandsSound`.
- `RegisterRefined`: `FetchFaults = FALSE => (Spec => RefinesRegister)`.

`FetchFaults = FALSE` says that a lease commit that exists can be read. The run `ClaimRef_steal` shows what happens
without it. Failed `ls-remote`s and lost pushes are allowed.

*The argument.* `LeaseExclusive` (a round that holds a claim with a live granted lease owns the ref) is not inductive: a
delayed push of another worker could take the ref in the next step. `LeaseInv` adds two parts. `CommandsSound`: a command
in flight that would still succeed, because the ref is where it read it, may take the ref: the lease there is its own or
has run out; and one left over by an earlier round no longer matches a lease granted to the present one.
`GrantsSound`: only a round that works under its claim has a granted lease, and its heartbeat never writes a shorter
one. Each push draws an id nobody refers to (`FreshIsUnused`), so after any push every other command in flight has
failed: that is why it is inductive. One lemma per group of actions shows it is kept: `LeaseRound`, `LeaseOrphan`,
`LeaseGc`, `LeaseTick`. The refinement follows: a push by a command that may take the ref is a `Grant` (`WriteIsGrant`)
or a `Free` (`DeleteIsFree`), time is `Tick`, and every other action leaves the register alone.

`SafePushProofs`, for any commits, number of pushes and of foreign moves, from `SafePushAssumption`:

- `TypeCorrect`: `Spec => []TypeOK`. It needs `Order`: what is pending or attempted never runs ahead of the attempts, and
  a receipt is made only after the round.
- `OverwritesNothingUnseen`: `Spec => OverwritesOnlyKnown`. Its invariant, `ExpectsKnown`: what any attempt expects, on the wire
  too, is a head that was fetched or made here.
- `PublishedOnlyIfLanded`: `NoopPushes = FALSE => (Spec => []PublishedLanded)`. The conclusion from `ls-remote` needs
  `LandedOnly`: as long as no push took effect, nothing that was attempted is in the history of the branch.
- `TransferredOnlyUnsent`: `NoopPushes = FALSE => (Spec => []TransferredUnsent)`. Its invariant, `Accounted`: what was sent
  and is still the head of the checkout is known to be published, or an intent is pending; and in the middle of the
  script the same holds should this invocation's own intent be withdrawn.
- `ReturnedOnlyUnsent`: `NoopPushes = FALSE => (Spec => []ReturnedUnsentUnlessUpToDate)`, by `Remembered`: until git
  says "up to date", an intent is given up only by the push that made it.

`NoopPushes = FALSE` says that `git-safe-push` runs only with something new; `TransferredUnsent` fails without it (finding 5).
Foreign writers, late pushes, failed ref writes and kills at any step are allowed.

`GithubProofs` on `Outbox`, for any finite set of intents, kinds and targets and any number of faults, from `OutboxAssumption`:

- `OutboxTypes`: the types, with `Counted`: a request of the pass that is under way was counted as a replay.
- `PublishedApplied`, with `AnsweredIsApplied`: who hears of a success finds the effect.
- `AppliedAtMostOnce`, by `OnceAt`: an intent has had one effect, or one request that may still have it, and while it may
  be sent it has had neither, apart from the two excuses in `history` that the code admits.
- `ForkAtMostOnce`, by `ForkAt`: a retry is on disk before its request, and taken back only when that was refused.
- `OrderIsKept`: `Spec => DrainKeepsOrder`, by `OrderInv`: what a pass has behind it and is retained holds back its target.
  So whatever callers, other workers and the operator do meanwhile, the pass sends nothing out of order.

`OverlapScanProofs`, for any scanners, commits, findings, lease and batch lengths, from `OverlapAssumption`:

- `TypeCorrect`: the types, and which variable holds what at which step of a scan (`Phases`).
- `RegisterRefined`: `Spec => RefinesRegister`, by `LeaseInv`: a write in flight that still finds the ref as it was read may
  take it, with ids nobody else holds. The argument is that of `ClaimRef`; the lease here is strict and needs no hypothesis.
- `CursorNeverAhead`: `Spec => []CursorCovered`, by `BatchCovered`: what a batch has still to publish, and what
  has an issue, is all there is to find in it. The push of the cursor fails if somebody moved it, and a retained batch is of its cursor.
- `CursorNeverBack`: `Spec => CursorForward`, by `Onward`: a batch never ends before it begins, and the push asks that the cursor
  be where it begins. So a scanner that lost its lease before its push undoes nothing.
- `DuplicatesAreExcused`: `Unlabels = FALSE => (Spec => []DuplicatesExcused)`, by `Once`: what is uncertain is excused
  (`Uncertain`), who sends a request owns the ref, be its lease run out, or was overtaken (`Sending`), and the owner has seen every issue
  of what it has left to do (`Unopened`). A label that is taken off hides an issue from other scanners, hence the hypothesis.
- `ReceiptsHold`: `Spec => NotReopened`, by `ReceiptInv`: a receipt settles its intent, and is confirmed, not asked for. It
  speaks of the scanner that holds the receipt only.

`SessionsProofs`:

- `LaunchIsSafe`, for any number of deaths of the supervisor, on the host and in a container: a paid invocation runs only
  while recorded, none is free that spent, none is charged while it runs. `LaunchInv` adds what the files tell of the
  gate (`Told`), who a permit is for (`Permits`), and that who is charged has ended or is barred (`Charged`).
- `AuditIsSafe` and `PassedWasRead`, for any workers, commits, batches, pages, faults and continuations that satisfy
  `AuditAssumption`. That a finding binds rests on `Remembered`: as long as the cursor is where fault was found, that worker
  has a block there and a history that tells of it, so it neither passes nor begins anew. This needs `Journaled` (the block
  is on disk while a request runs) and `Spans` (a batch begins at or before the cursor, so a finding is never ahead of
  it). `PassedWhole` is what a pass that is acted on rests on; `Rationed` ties the launches to the cooldown on disk. The
  end of a batch is a `CHOOSE`: `LastReadable` shows that it exists, by the least element of a set of numbers, which the
  library's well-founded induction gives without an operator parameter (`LeastElement`). Workers meet only in the cursor and
  main, which grow: `Elsewhere` says that this leaves a worker sound that does not move.
- `ReportIsSafe`, for any windows, actors, writings and attempts: `PublishedWhole`, `PaidOnce` and `NothingDropped`. What lies
  under a receipt is of one writing about its window (`Filed`), and while the two bodies are being exchanged the fence keeps
  everybody from taking them for a report. `Placed` says what each step of the round may rely on: from the planning to the
  writing no copy of the window's report has been set aside, so none is written again, and the steps that take the receipt
  away come after the report was published or set aside (`Kept`).
- `RecoveryIsSafe`, for any allowance, refunds, foreign writes and upsets that satisfy `RecoveryAssumption`: `RetainedSafe`, the seven
  parts that `RecoverySafe` checks. `RecInv` has eight. Commits are only added, and each is of the history of
  its descendants (`Graph`); what the record, the checkout, the branch and a push on its way name is among them (`Named`).
  `Handed` says where the two checkouts are between any two renames of a handover, and `Accounted` that the content budget
  and the tally are ahead of the work an agent did by what the invocation still has to do or to give back.
  `OnePublication` rests on `Pending`: at each step the record tells what may be on its way, and an intent whose outcome is
  not known is replaced by nothing but itself. `LandsVerified` rests on `Faithful`: from the commit on, its tree is what was
  verified, although a stray process may change the checkout until the very push. `KnownStaysRemoved` rests on
  `Recalled`: of what a push on its way would put on the branch the record names nothing but its own commit, since
  a record that learns a new head while the push is out learns one the push is already based on, or one that makes it fail.

`HostProofs`:

- `CredentialIsSafe`, for any pacers, lifetimes and intervals that satisfy `CredAssumption`. `CredInv` adds
  that the stored token is accepted, or its replacement is in the hands of the one that has the lock, or was lost
  (`StoredAccepted`); that a marker and the pair it marks age together (`MarkedTogether`); and that a pair has lived as
  long as it has less to live (`LivesDown`), which gives the bound of half a life.
- `SharingIsSafe` and `LowerIsKept`, for any workers, rounds and strikes. `PoolInv` adds that only a modification makes what is
  published look damaged (`Honest`); that a directory of differences is marked from before its first file until after its
  last (`DeltasMarked`); that who publishes has the publisher's lock and then the exclusive lease, and found the entry absent
  (`Publishers`); and that who attaches or reads has a shared lease, a stray agent too (`Leases`).
- `RoundsAreBounded`, for any pull requests, heads and limits. That failures stay below the limit rests on three conjuncts of
  `RoundsInv`: each failure is among what was charged and not given back (`FailuresCharged`), an attempt is offered only
  while its counters have room (`OffersAllowed`), and what the attempt at hand was charged is known until it is settled
  (`ChargeAtHand`), so that a failed checkout or a pause gives back that and nothing else. `BurstCounted` bounds the rounds since the
  last sleep by what the driver has seen of them: a first collision, or a probe for recoverable work.
- `WorkersAreManaged`, for any slots, definitions, run policies and numbers of commands and faults. One wrapper has the lock
  (`OneWrapper`), and one loop the slot (`OneHolder`), which outlives its wrapper. That a change of the read policy cuts no
  round short needs `CalmKept`: after a look that found the loop between rounds, no round has begun when the manager acts on it.
- `CleanExitIsFinal`: `MaxFaults <= 1 => (Spec => [][CleanExitFinal]_vars)`, by `EndTold`: that a loop ended well is told by the status
  file (`StatusTells`), or, once the one fault has happened, by the wrapper the manager still waits for (`WrapperTells`), or by
  what it remembers of that (`OutcomeTells`); before any fault every wrapper is waited for (`Awaited`). The hypothesis is
  the meaning of the property: a failed write of the status and the death of the manager together leave no record, and then
  the worker is started again.

`SharedProofs`:

- `GatewayIsSafe`, for any clients, threshold, pages and revisions. A prober reads, is the one in the circuit file,
  and its lease outlasts the page it waits for (`ProbesLeased`, by `Patience < Lease`); so no second client finds the probe free.
- `ThrottleIsSafe`, for any senders, delays, window and number of rejections. While a probe is under way some reservation or
  cooldown outlasts it (`ProbeBlocks`): a rejection takes the reservation away, and its delay is longer than a request
  may take. Waits and exhaustion that somebody was told are bounded by what is on disk (`WaitStands`, `ZeroStands`).
- `CacheIsCurrent`, without any assumption: for any readers, writers and numbers of reads and writes. What was fetched under a
  generation and lacks an acknowledged write is of an earlier generation, or a writer has still a file of the key to replace
  (`Dated`); a reader reads a generation file by file, so its own may be newer than any that existed as a whole, and never newer than
  the files now (`Assembled`). `ScopesReach` is the lemma about the commands: each replaces a file of every key it changes.
- `PacerIsSafe`, for any askers, length of the window, ages and time-outs that satisfy `QuotaAssumption`. A reading that may still be
  served is of the window that is open, and dates it (`Current`); what an asker was told is of this moment (`Informed`). Who is about
  to open a window has an unfinished row of the ledger that is as old as its request (`RowHeld`), and a row that young is not
  taken over, so that no two askers open one window at a time (`OneOpens`).

`LedgerProofs`:

- `CopiesAreSafe`, for any jobs, helpers, edits, faults and evictions that satisfy `VerifyAssumption`. `VerifyInv` says for each
  process which lock it holds at which step (`HelperHolds`, `AgentHolds`, `SupHolds`, `GcHolds`), that a run works in a copy
  only under that copy's storage lock and on a build that no removal left in pieces (`RunHolds`), and what the two records of a
  job may say at once (`Filed`): a copy is named by its own job alone, and a terminal record that names one is never hidden by
  a pending one that does not. The last is why the supervisor may act on a record it read before it took its locks.
- `SettledStopped` and `LedgerIsSafe`, for any workers, funds, costs, chains, acts of the operator and torn writes that satisfy
  `BudgetAssumption`: no session is settled while it may still spend, a native total on the books is never changed, and
  after a torn write nobody is admitted before the loss was audited. A transaction writes a list of events, so the argument goes
  along the list. An event is fair to the books the list is written against (`Fair`) when it settles at most the one
  session that the operation settles, which is open there, changes no native total that is on them, and reopens nothing;
  `FairStep` says what such an event leaves as it was, and `FairReplay` the same of a list of them, by induction on its
  length (`Counting`, which follows from the least element of a set of numbers). What is left for each operation is that the events it writes are fair, among them the shares that
  `ClampEvents` deals out and the later totals that `RebaseEvents` moves, in the order of the ledger (`Enumerated`).
  `LedgerInv` is the invariant: what is settled has stopped, a marker has no process, and after a torn write nobody has
  audited either the line is still torn, and nothing is written, or a marker is open, and `Refusal` says so (`RefusedByMarker`).
- `BooksAreSound`: `BooksBalance` and `NeverOverlaunched`, from the same assumption. `BooksInv` says what the replayed books are in
  every state, not only after an admission: what is spent is the sum of the charges, the balance is what was granted and
  earned less that, and until some session came to hold more than it was admitted for, what the sessions hold, charged or
  reserved, is at most what was granted and earned. A list of events changes the sum of charges by what the
  events say, one session at a time; admission is the one step that adds to what is held, and it looks at the balance first.

`PartsProofs` lifts the last four modules to the composite specification: `LaunchHolds`, `AuditHolds`, `ReportsHold`, `RecoveryHolds`,
`CredentialsHold`, `PoolHolds`, `WorkHolds`, `SpendingHolds`, `ReadsHold`, `VerifyHolds`, `PacingHolds` are `Spec => []P` for the
very invariants that `Parts_safe` checks (`LaunchSafe`, `AuditSafe`, `ReportsSafe`, `RecoverySafe`, `CredentialsSafe`, `PoolSafe`, `WorkSafe`,
`SpendingSafe`, `ReadsSafe`, `VerifySafe`, `PacingSafe`), `StepsHold` is `Spec => StepsSafe`, what a step of four of the parts may not do, and
`LedgerHolds` is `Spec => LedgerSteps`, what a transaction may not do to the books. Each step of the composite is a step of the part or leaves its variables alone; constants get their values from `MCParts`, and the assumptions
of the modules, which TLC evaluates as `PartsAssumption`, are proved of them.

Proving changed the models. `ReceiptRow` of `LaunchPermit` and `Refusal` of `Budget` had `CASE` arms that overlapped: TLC
takes the first, the logic does not say which. `Budget` replays its events by a recursive function, not by a fold, and
lists sessions in ledger order by `InOrder`, both of which the induction can follow. `Extract` of `Pool` kept the publisher's lock in one of its failures, and
`Audit` let an administrator's continuation spend the recovery's budget. They follow the code now. `Workers` says
that no slot is numbered 0, which stands for no wrapper, and that a first definition exists. `KnownStaysRemoved` of `Recovery`
compared what was put back with what the record knows *now*; the proof showed which moment is meant, the one at which the push
is applied: a round that comes later records the head it finds, that commit included.

*Out of the prover's reach.* Liveness and `ENABLED` are left to TLC. No module has a `RECURSIVE` operator, so that each can
be proved about; the inductions on numbers and on the length of a list are derived from the library's well-founded induction
without an operator parameter.

*Only model-checked so far:* `FiguresExact`, and all liveness. `ChainExact` of `Budget` says what the totals of a provider session
come to, over shares that are rounded by a division the SMT solver does not decide; the line of `Pace` multiplies and divides
variables.

## What is not modelled

The parts that the table of components marks as reports, rendering, parsing and arithmetic have no behaviour that another
part relies on. The text of prompts and the judgement of the models are outside. Lean and `lake` are taken as
given. Parts that deserve a module and have none yet are in the plan.

Of the parts that have a module, this is left out:

- `ClaimRef`: a `renew` or `release` that outlives its killed round and has not yet read the ref (`claim.sh:111`, `:121`): what is
  left over has read. A heartbeat that ends with another code than 3, or by an exception (`round.py:303`).
- `SafePush`: pushes that create a branch (no `TAUCETI_PUSH_EXPECT`); of the settlement, forensic handoffs, an invalid
  checkpoint pointer, sources that wait for a receipt (`repair_recovery.py:1941`, `:2013`, `:2030`), and checkpoints of a dirty tree.
- `Outbox`: two callers with one intent; legacy entries.
- `OverlapScan`: a pin that was read up to two minutes ago (`overlaps.py:88`), a history that is no range (`overlaps.py:441`), the
  cursor before `initialize`. That an issue is confirmed and that its receipt is written (`overlaps.py:279-280`) is one step.
- `Budget`: `--set-grant` (`budget.py:375`). `LaunchPermit`: invocations without a budget or only on record, and those whose
  reserve has an unknown stamp (`usage_supervisor.py:334`).
- `Rounds`: automatic bumps, whose attempts are not counted (`work_units.py:905`), repairs of foreign pull requests, a head
  repository that is gone (`work_units.py:1537`), and the kinds of work that have no counter of their own in the model.
- `Report`: `SameInputs` compares the window only; the code compares plan and facts too (`work_units.py:2439`).
- `Recovery`: in the liveness run nothing is killed and no answer is lost; those are in the safety run and in the proof.
- `Credentials`: `marked` is set when the marker is written in the tick of the exchange; of a marker that is written later
  `FreshPairSpared` says nothing. A reply with an unknown expiry that is refused (`oauth.py:342`).
- `Gateway`: the lock of the circuit file that times out (`github_state.py:328`), and the path without a circuit. `Throttle`: a
  request is answered within the lease of its probe, though `github_transport.py:742` sets no timeout; the length a rejection
  asks for (`Retry-After`) is one of the delays.
- `Pool`: `Undo`, `MoveAside` and `Detach` are one step each, so that a crash between their renames is not explored. Of
  the causes that stop sharing, only a modified snapshot is there (not `shared_mathlib.py:395`, `:501`, `:843`).
- `Audit`: small batches that need no pages (`security_audit.py:1243`) and the reviewer of another provider (`:1188`) are the one
  conversation with pages. `VerifyJobs`: helpers in the foreground (`verification_jobs.py:658`), the round's lock (`:566`), and the
  early preservation in a container (`:308`).

## The plan

Every module of the first plan exists. What is left, in order of importance:

1. `Budget`: a proof of `ChainExact`, with what the shares of a settlement add up to.
2. `BranchWork`: one branch with `ClaimRef`'s register and `SafePush`'s pushes: what the claim adds to the lease on the
   branch, and that losing the claim never loses commits.
3. Two proxies with one intent in `Outbox` (`github_outbox.py:380`), the second window of `Quota`, the Codex provider.
