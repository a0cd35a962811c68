------------------------------ MODULE MCParts ------------------------------
(***************************************************************************)
(* The parts of a worker's host that keep no state in common, in one       *)
(* instance: a behaviour is a behaviour of one of them, chosen at the      *)
(* start.  Each is the specification of its module; since only one is      *)
(* looked at in a behaviour they share one row of variables, of which a    *)
(* part leaves unused what it does not need.  With Deep the bounds are     *)
(* those of the safety properties; without, smaller ones, for liveness.    *)
(***************************************************************************)
EXTENDS Integers, TLC

CONSTANTS Deep,      \* BOOLEAN
          a, b, one, \* workers, processes, pull requests: a and b are alike
          j1, j2,    \* jobs of a verification, alike
          w1, w2,    \* windows of a report
          Nothing    \* no job

Bound(deep, shallow) == IF Deep THEN deep ELSE shallow
Pair == {a, b}
Alike == Permutations(Pair) \cup Permutations({j1, j2})

\* The ledger: three sessions of one provider session with every kind of evidence; two workers
\* that compete for funds while hours pass; an operator who acts while writes are torn.
Journal(cost, complete) == [cost |-> cost, complete |-> complete]
Resumes == [workers |-> {one}, funds |-> 20, costs |-> {1, 2}, sessions |-> 3, clock |-> 0, manual |-> 0,
            tears |-> 0, journals |-> {Journal(-1, FALSE), Journal(1, TRUE), Journal(1, FALSE)},
            resumes |-> TRUE, orphans |-> FALSE]
Competes == [workers |-> Pair, funds |-> 1, costs |-> {1}, sessions |-> 2, clock |-> 1, manual |-> 1,
             tears |-> 0, journals |-> {Journal(-1, FALSE)}, resumes |-> FALSE, orphans |-> FALSE]
Tears == [workers |-> {one}, funds |-> 2, costs |-> {0, 1}, sessions |-> 2, clock |-> 0, manual |-> 1,
          tears |-> 1, journals |-> {Journal(-1, FALSE)},
          resumes |-> FALSE, orphans |-> TRUE]

VARIABLES part, v1, v2, v3, v4, v5, v6, v7, v8, v9, v10, v11, v12, v13, v14, v15, v16, v17

row == <<part, v1, v2, v3, v4, v5, v6, v7, v8, v9, v10, v11, v12, v13, v14, v15, v16, v17>>
\* What is left of the row for a part of a few variables, and that it is not used.
from15 == <<v15, v16, v17>>
from14 == <<v14, v15, v16, v17>>
from12 == <<v12, v13, v14, v15, v16, v17>>
from11 == <<v11, v12, v13, v14, v15, v16, v17>>
from10 == <<v10, v11, v12, v13, v14, v15, v16, v17>>
from9 == <<v9, v10, v11, v12, v13, v14, v15, v16, v17>>
from8 == <<v8, v9, v10, v11, v12, v13, v14, v15, v16, v17>>
from7 == <<v7, v8, v9, v10, v11, v12, v13, v14, v15, v16, v17>>
from5 == <<v5, v6, v7, v8, v9, v10, v11, v12, v13, v14, v15, v16, v17>>
Off15 == v15 = 0 /\ v16 = 0 /\ v17 = 0
Off14 == v14 = 0 /\ Off15
Off12 == v12 = 0 /\ v13 = 0 /\ Off14
Off11 == v11 = 0 /\ Off12
Off10 == v10 = 0 /\ Off11
Off9 == v9 = 0 /\ Off10
Off8 == v8 = 0 /\ Off9
Off7 == v7 = 0 /\ Off8
Off5 == v5 = 0 /\ v6 = 0 /\ Off7

Sessions == INSTANCE SessionsProofs WITH
    MaxCrashes <- 1, Remotes <- Bound(BOOLEAN, {FALSE}),
    external <- v1, shim <- v2, gate <- v3, spent <- v4, bridge <- v5, file <- v6, journal <- v7, row <- v8,
    life <- v9, sup <- v10, crashes <- v11,
    Auditors <- {one}, LastCommit <- 3, MaxBatch <- 2, Quiet <- {2}, Oversized <- {3}, Pages <- Bound(2, 1),
    MaxFaults <- Bound(2, 1), MaxAdmin <- Bound(1, 0),
    main <- v1, cursor <- v2, block <- v3, session <- v4, refusals <- v5, cooling <- v6, job <- v7, human <- v8,
    upsets <- v9, accused <- v10, launches <- v11,
    Actors <- Bound({"me", "other"}, {"me"}), Windows <- {w1, w2}, Reported <- {w2}, MaxWritings <- Bound(2, 1),
    MaxAttempts <- Bound(2, 1), MaxWaits <- 1, MaxErrors <- 1, MaxPlans <- Bound(2, 1),
    github <- v1, account <- v2, desk <- v3, shelf <- v4, gates <- v5, verdict <- v6, watcher <- v7, sheet <- v8,
    prose <- v9,
    Allowance <- 1, MaxRefunds <- 1, MaxWrites <- 2, MaxUpsets <- Bound(1, 0),
    git <- v1, remote <- v2, pr <- v3, record <- v4, tally <- v5, checkout <- v6, built <- v7, inv <- v8, wire <- v9,
    ghost <- v10, spentBounds <- v11
Host == INSTANCE HostProofs WITH
    Daemon <- "daemon", Pacers <- {one}, Lives <- {3}, Skew <- 2, MinInterval <- 1, AttemptInterval <- 2,
    MaxIssued <- Bound(3, 2), MaxUpsets <- 1,
    unspent <- v1, issued <- v2, cred <- v3, marks <- v4, flock <- v5, rotation <- v6, homecopy <- v7,
    orphaned <- v8, upsets <- v9, staffed <- v10,
    Users <- Pair, MaxStrikes <- 1, MaxRounds <- 2,
    entry <- v1, leased <- v2, exclusive <- v3, publisher <- v4, at <- v5, want <- v6, seat <- v7, staged <- v8,
    litter <- v9, strays <- v10, stopped <- v11, tampered <- v12, rounds <- v13, upset <- v14,
    Prs <- {one}, Kinds <- [{one} -> {"fix", "bump", "rebase", "review"}], MaxHead <- Bound(2, 1), HeadTries <- 2,
    PrTries <- 2, MaxRefunds <- 1, MaxBurst <- 5,
    kind <- v1, pull <- v2, spent <- v3, refunds <- v4, due <- v5, drv <- v6, rnd <- v7, burnt <- v8,
    Slots <- Pair, Gens <- 1..3, Soft <- {{1, 2}}, MaxActs <- Bound(2, 1), MaxFaults <- 1, MaxCount <- 1,
    Policies <- {"always", "on-failure", "never"},
    policy <- v1, config <- v2, cli <- v3, file <- v4, ripe <- v5, mgr <- v6, runner <- v7, edits <- v8, faults <- v9,
    ended <- v10, cut <- v11
Shared == INSTANCE SharedProofs WITH
    Clients <- Pair, Patience <- 1, Lease <- 2, Backoff <- 3, Threshold <- 2, MaxPages <- Bound(3, 2),
    MaxRevision <- Bound(2, 1), MaxOutages <- Bound(2, 1),
    circuit <- v1, limit <- v2, coverage <- v3, client <- v4, stored <- v5, service <- v6, outages <- v7,
    Readers <- Pair, Writers <- {one}, MaxWrites <- 1, MaxReads <- 1,
    holds <- v1, number <- v2, entry <- v3, reader <- v4, writer <- v5, acked <- v6,
    Senders <- Pair, Patience2 <- 1, ProbeLease <- 2, FirstDelay <- 2, Window <- 3, MaxRejections <- 2,
    secondary <- v1, bucket <- v2, sender <- v3, budget <- v4, rejections <- v5, told <- v6,
    Askers <- IF Deep THEN Pair ELSE {one}, Length <- 3, CacheTTL <- 2, BootTimeout <- 1, StaleAfter <- 2,
    RetryAfter <- 2, MaxFaults <- 1,
    window <- v1, period <- v2, cached <- v3, cooling <- v4, ledger <- v5, asker <- v6, faults <- v7, requests <- v8
Ledger == INSTANCE LedgerProofs WITH
    Nothing <- Nothing, Jobs <- IF Deep THEN {j1, j2} ELSE {j1}, Helpers <- Pair, MaxFresh <- 1, MaxEdits <- 1,
    MaxUpsets <- Bound(2, 3), MaxGens <- Bound(1, 2),
    version <- v1, copy <- v2, builds <- v3, marker <- v4, pend <- v5, done <- v6, index <- v7, evidence <- v8,
    gen <- v9, journal <- v10, jlock <- v11, slock <- v12, run <- v13, sup <- v14, child <- v15, gc <- v16,
    bound <- v17,
    Unit <- 1, Instances <- {s \in {Resumes, Competes, Tears} : Deep},
    scope <- v1, book <- v2, torn <- v3, queue <- v4, clock <- v5, proc <- v6, granted <- v7, earned <- v8,
    strained <- v9, damaged <- v10, byHand <- v11, manual <- v12, tears <- v13
Pace == INSTANCE Pace WITH
    Grid <- 3, Points <- 3, MaxBudget <- 3, Ease <- 2,
    curve <- v1, used <- v2, elapsed <- v3, record <- v4

ASSUME PartsAssumption ==
    /\ Deep \in BOOLEAN
    /\ Sessions!LaunchAssumption /\ Ledger!BudgetAssumption /\ Host!WorkersAssumption
    /\ Host!RoundsAssumption /\ Sessions!ReportAssumption /\ Host!CredAssumption /\ Host!PoolAssumption
    /\ Shared!GatewayAssumption /\ Shared!ThrottleAssumption /\ Shared!QuotaAssumption
    /\ Sessions!AuditAssumption /\ Ledger!VerifyAssumption /\ Sessions!RecoveryAssumption

-----------------------------------------------------------------------------
(* One part at a time. *)

InLaunchPermit(step) == part = "LaunchPermit" /\ step /\ UNCHANGED <<part, from12>>
InBudget(step) == part = "Budget" /\ step /\ UNCHANGED <<part, from14>>
InWorkers(step) == part = "Workers" /\ step /\ UNCHANGED <<part, from12>>
InRounds(step) == part = "Rounds" /\ step /\ UNCHANGED <<part, from9>>
InReport(step) == part = "Report" /\ step /\ UNCHANGED <<part, from10>>
InCredentials(step) == part = "Credentials" /\ step /\ UNCHANGED <<part, from11>>
InGateway(step) == part = "Gateway" /\ step /\ UNCHANGED <<part, from8>>
InReadCache(step) == part = "ReadCache" /\ step /\ UNCHANGED <<part, from7>>
InThrottle(step) == part = "Throttle" /\ step /\ UNCHANGED <<part, from7>>
InQuota(step) == part = "Quota" /\ step /\ UNCHANGED <<part, from9>>
InPace(step) == part = "Pace" /\ step /\ UNCHANGED <<part, from5>>
InPool(step) == part = "Pool" /\ step /\ UNCHANGED <<part, from15>>
InAudit(step) == part = "Audit" /\ step /\ UNCHANGED <<part, from12>>
InVerifyJobs(step) == part = "VerifyJobs" /\ step /\ UNCHANGED part
InRecovery(step) == part = "Recovery" /\ step /\ UNCHANGED <<part, from12>>

Init ==
    \/ part = "LaunchPermit" /\ Sessions!Init /\ Off12
    \/ part = "Workers" /\ Host!Init /\ Off12
    \/ part = "Rounds" /\ Host!RoundsInit /\ Off9
    \/ part = "Report" /\ Sessions!ReportInit /\ Off10
    \/ part = "Credentials" /\ Host!CredInit /\ Off11
    \/ part = "Gateway" /\ Shared!GatewayInit /\ Off8
    \/ part = "Quota" /\ Shared!QuotaInit /\ Off9
    \/ part = "Audit" /\ Sessions!AuditInit /\ Off12
    \/ part = "VerifyJobs" /\ Ledger!VerifyInit
    \/ part = "Recovery" /\ Sessions!RecoveryInit /\ Off12
    \/ /\ Deep
       /\ \/ part = "Budget" /\ Ledger!BudgetInit /\ Off14
          \/ part = "ReadCache" /\ Shared!CacheInit /\ Off7
          \/ part = "Throttle" /\ Shared!ThrottleInit /\ Off7
          \/ part = "Pace" /\ Pace!PaceInit /\ Off5
          \/ part = "Pool" /\ Host!PoolInit /\ Off15
Next ==
    \/ InLaunchPermit(Sessions!Next)
    \/ InBudget(Ledger!BudgetNext)
    \/ InWorkers(Host!Next)
    \/ InRounds(Host!RoundsNext)
    \/ InReport(Sessions!ReportNext)
    \/ InCredentials(Host!CredNext)
    \/ InGateway(Shared!GatewayNext)
    \/ InReadCache(Shared!CacheNext)
    \/ InThrottle(Shared!ThrottleNext)
    \/ InQuota(Shared!QuotaNext)
    \/ InPace(Pace!PaceTick)
    \/ InPool(Host!PoolNext)
    \/ InAudit(Sessions!AuditNext)
    \/ InVerifyJobs(Ledger!VerifyNext)
    \/ InRecovery(Sessions!RecoveryNext)
Spec == Init /\ [][Next]_row

-----------------------------------------------------------------------------
(* The fairness of the modules: the k-th step each part is weakly, or        *)
(* strongly, fair to.  (Only one part moves in a behaviour, so that fairness *)
(* to the disjunction is fairness to its own.)                               *)

Weak(k) ==
    \/ InLaunchPermit(CASE k = 1 -> Sessions!SupervisorNext
                        [] k = 2 -> Sessions!ShimNext
                        [] k = 3 -> Sessions!Announce
                        [] k = 4 -> Sessions!NoExec
                        [] k = 5 -> \E how \in {"over", "failed"} : Sessions!NativeExits(how)
                        [] k = 6 -> Sessions!Register \/ Sessions!ShimDies
                        [] OTHER -> FALSE)
    \/ InWorkers(CASE k = 1 -> Host!ManagerStep
                   [] k = 2 -> Host!DelayOver
                   [] k = 3 -> Host!Repair
                   [] k = 4 -> Host!RunnerStep(a)
                   [] k = 5 -> Host!RunnerStep(b)
                   [] k = 6 -> Host!LoopStep(a)
                   [] k = 7 -> Host!LoopStep(b)
                   [] OTHER -> FALSE)
    \/ InRounds(CASE k = 1 -> Host!RoundStep
                  [] k = 2 -> Host!StartRecovery
                  [] OTHER -> FALSE)
    \/ k = 1 /\ InReport(Sessions!ReportRound \/ Sessions!LookPrepared \/ Sessions!RetryComes)
    \/ InCredentials(CASE k = 1 -> Host!CredTick
                       [] k = 2 -> Host!Exchange(one) \/ Host!Silent(one)
                       [] k = 3 -> Host!StoreReply(one)
                       [] k = 4 -> Host!MarkSuccess(one)
                       [] k = 5 -> Host!Exchange("daemon") \/ Host!Silent("daemon")
                       [] k = 6 -> Host!StoreReply("daemon")
                       [] k = 7 -> Host!MarkSuccess("daemon")
                       [] k = 8 -> Host!PacerRenews(one)
                       [] OTHER -> FALSE)
    \/ InGateway(CASE k = 1 -> Shared!GatewayTick
                   [] k = 2 -> Shared!ComesBack
                   [] k = 3 -> Shared!Depart(a)
                   [] k = 4 -> Shared!Depart(b)
                   [] k = 5 -> Shared!Retry(a) \/ Shared!GiveUpRead(a)
                   [] k = 6 -> Shared!Retry(b) \/ Shared!GiveUpRead(b)
                   [] OTHER -> FALSE)
    \/ InQuota(CASE k = 1 -> Shared!QuotaTick
                 [] k = 2 -> Shared!Poll(one)
                 [] k = 3 -> Shared!EndpointAnswers(one) \/ Shared!EndpointRefuses(one)
                 [] k = 4 -> Shared!Told(one)
                 [] k = 5 -> Shared!Refused(one)
                 [] k = 6 -> Shared!Launch(one)
                 [] k = 7 -> Shared!ReserveBootstrap(one)
                 [] k = 8 -> Shared!Request(one)
                 [] k = 9 -> Shared!Outcome(one)
                 [] k = 10 -> Shared!SettleBootstrap(one))
    \/ InAudit(CASE k = 1 -> Sessions!AuditStep(one)
                 [] k = 2 -> Sessions!CooldownEnds(one)
                 [] OTHER -> FALSE)
    \/ InVerifyJobs(CASE k = 1 -> Ledger!RunStep(a)
                      [] k = 2 -> Ledger!RunStep(b)
                      [] k = 3 -> Ledger!RunStep("agent")
                      [] k = 4 -> Ledger!SupStep
                      [] k = 5 -> Ledger!GcStep
                      [] k = 6 -> Ledger!Tidied(j1)
                      [] OTHER -> FALSE)
    \/ InRecovery(CASE k = 1 -> Sessions!RecoveryProgress
                    [] k = 2 -> Sessions!Lands
                    [] OTHER -> FALSE)

Strong(k) ==
    \/ k = 1 /\ InWorkers(Host!CommandStep)
    \/ InRounds(CASE k = 1 -> Host!StartRound
                  [] k = 2 -> Host!Recovers)
    \/ InReport(CASE k = 1 -> Sessions!BeginRetained \/ Sessions!BeginPark
                  [] k = 2 -> Sessions!Park)
    \/ InCredentials(CASE k = 1 -> Host!Mirror(one)
                       [] k = 2 -> Host!TurnBack(one) \/ Host!TakeLock(one))
    \/ InGateway(CASE k = 1 -> \E c \in Pair : Shared!Begin(c)
                   [] k = 2 -> \E c \in Pair : Shared!LastPage(c) \/ Shared!NotModified(c))
    \/ InVerifyJobs(CASE k = 1 -> Ledger!Look(j1)
                      [] k = 2 -> Ledger!Removing(j1) /\ Ledger!Collect(j1))

\* What does not go on for ever.
Ceases == \/ part = "Report" /\ Sessions!EndingDies
          \/ part = "Credentials" /\ Host!Down

Fairness ==
    /\ \A k \in 1..10 : WF_row(Weak(k))
    /\ \A k \in 1..2 : SF_row(Strong(k))
    /\ <>[][~Ceases]_row
FairSpec == Spec /\ Fairness

-----------------------------------------------------------------------------
(* Properties: those of the modules, where they are stated one by one.       *)

\* Spending: the books balance, no hour is credited twice, nobody is admitted without the funds that
\* the sessions before him leave, nobody is settled while he runs (budget.py, budget_recovery.py).
SpendingSafe ==
    part = "Budget" => /\ Ledger!BudgetTypeOK /\ Ledger!BooksBalance /\ Ledger!NeverOverlaunched
                       /\ Ledger!SettledHasStopped

\* Figures: what the sessions of one provider session are charged comes to its newest native total, and a
\* window is used up to its line, and waited for no longer than until the line is free again (budget.py,
\* quota.py).
FiguresExact ==
    /\ part = "Budget" => Ledger!ChainExact
    /\ part = "Pace" => Pace!PaceTypeOK /\ Pace!WakesWhenFree /\ Pace!PlateauExact /\ Pace!OnlyStatedIdle

\* Known receipts stand, and after a torn write nobody is admitted before the loss was audited.
LedgerSteps == [][part = "Budget" => Ledger!ReceiptsStand /\ Ledger!TornStopsAdmission]_row

\* Launching: nothing paid runs unrecorded, nothing is free that was paid, nothing is charged while it
\* runs (usage_lifecycle.py, usage_supervisor.py).
LaunchSafe == part = "LaunchPermit" => Sessions!LaunchSafe

\* Pacing: a round is launched on the window its reading is of, and one request opens a window at a time
\* (quota.py).
PacingSafe == part = "Quota" => Shared!QuotaTypeOK /\ Shared!LaunchesOnItsWindow /\ Shared!OneBootstrap

\* Work: one loop of a worker at a time, and no paid round is cut short for a change that may wait;
\* attempts are bounded, and the loop does not spin (worker_manager.py, loop.py, work_units.py).
WorkSafe ==
    /\ part = "Workers" => Host!ManagedSafe
    /\ part = "Rounds" => Host!BoundsKept

\* Reports: what is published is one text about one window (progress_publication.py).
ReportsSafe == part = "Report" => Sessions!ReportTypeOK /\ Sessions!PublishedWhole

\* Credentials: no refresh token is spent twice, and no fresh pair is replaced (oauth.py).
CredentialsSafe == part = "Credentials" => Host!CredSafe

\* Reads of GitHub: one process probes the mirror, a listing is of one revision, a read that follows a
\* write sees it, one process probes a limit, and what GitHub rejected stays rejected for its time
\* (github_state.py, overlap_support.py, github_transport.py).
ReadsSafe ==
    /\ part = "Gateway" => Shared!GatewaySafe
    /\ part = "ReadCache" => Shared!CacheSafe
    /\ part = "Throttle" => Shared!ThrottleSafe

\* Shared Mathlib: no interleaving looks like damage, a delta is never used without what it is a delta
\* of, and nobody is in the way of an upgrade for good (shared_mathlib.py).
PoolSafe == part = "Pool" => Host!SharingSafe

\* Audit: who found fault does not pass the same commits later, and one recovery is launched in a
\* cooldown (security_audit.py, audit_recovery.py).
AuditSafe == part = "Audit" => Sessions!JudgmentSafe

\* Verification: no run on what is left of a copy, one helper of a job, no copy thrown away that is in
\* use (verification_jobs.py, verification_storage.py).
VerifySafe == part = "VerifyJobs" => Ledger!CopiesSafe

\* Recovery: a change lands once, verified, and what another writer removed stays removed as far as the
\* record knows (repair_recovery.py).
RecoverySafe == part = "Recovery" => Sessions!RetainedSafe

\* What a step may not do: replace what a reader has attached, pass the cursor over what nobody read, pay
\* for a report twice or drop one, start a worker again that came to its own good end.
StepsSafe ==
    [][/\ part = "Pool" => Host!LowerStays
       /\ part = "Audit" => Sessions!PassedIsRead
       /\ part = "Report" => Sessions!PaidOnce /\ Sessions!NothingDropped
       /\ part = "Workers" => Host!CleanExitFinal]_row

In(name, P) == part = name => P

\* Work goes on: while it is wanted a worker works again and again, ordinary rounds are started while a
\* retained source waits, a prepared report does not occupy the worker, and an invocation of the host is
\* not left active, nor its receipt uncharged (worker_manager.py, loop.py, progress_publication.py,
\* usage_supervisor.py).
WorkGoesOn ==
    []<>(/\ In("Workers", Host!Wanted => Host!Works)
         /\ In("Rounds", Host!AtWork)
         /\ In("Report", ~Sessions!Occupied)
         /\ In("LaunchPermit", ~Sessions!ActiveHere)
         /\ In("LaunchPermit", Sessions!ReceiptFound => Sessions!Settled /\ Sessions!Native))

\* Nothing stays shut: an expired token is renewed and the copy is of the current one, a window is opened,
\* a circuit closes, an audit comes to the head of main or is held for a human, and the job of a
\* verification ends (oauth.py, quota.py, github_state.py, audit_recovery.py, verification_jobs.py).
NothingStaysShut ==
    []<>(/\ In("Credentials", ~Host!Expired /\ Host!Mirrored)
         /\ In("Quota", Shared!Open)
         /\ In("Gateway", ~Shared!Opened)
         /\ In("Audit", Sessions!CaughtUp)
         /\ In("VerifyJobs", Ledger!NotPending(j1)))

\* A worker that nobody wants stops for good, and the recovery of a retained change comes to an end: it is
\* published, archived, held or out of its allowance (worker_manager.py, repair_recovery.py).
EndsForGood ==
    <>[](/\ In("Workers", Host!Unwanted => Host!Stopped)
         /\ In("Recovery", Sessions!Over))
=============================================================================
