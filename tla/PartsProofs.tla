----------------------------- MODULE PartsProofs -----------------------------
(***************************************************************************)
(* What is proved of a part by itself holds of the parts together, which   *)
(* keep no state in common.                                                *)
(***************************************************************************)
EXTENDS MCParts, TLAPS

\* A step of the parts is a step of the one that moves.
LEMMA OnePart == ASSUME [Next]_row PROVE part' = part
  BY DEF Next, row, InLaunchPermit, InBudget, InWorkers, InRounds, InReport, InCredentials, InGateway, InReadCache,
     InThrottle, InQuota, InPace, InPool, InAudit, InVerifyJobs, InRecovery

LEMMA LaunchMoves ==
    ASSUME part = "LaunchPermit", [Next]_row
    PROVE  [Sessions!Next]_(Sessions!vars)
  BY DEF Next, row, InLaunchPermit, InBudget, InWorkers, InRounds, InReport, InCredentials, InGateway, InReadCache,
     InThrottle, InQuota, InPace, InPool, InAudit, InVerifyJobs, InRecovery, Sessions!vars, Sessions!world

LEMMA CredentialsMove ==
    ASSUME part = "Credentials", [Next]_row
    PROVE  [Host!CredNext]_(Host!cvars)
  BY DEF Next, row, InLaunchPermit, InBudget, InWorkers, InRounds, InReport, InCredentials, InGateway, InReadCache,
     InThrottle, InQuota, InPace, InPool, InAudit, InVerifyJobs, InRecovery, Host!cvars

LEMMA SharingMoves ==
    ASSUME part = "Pool", [Next]_row
    PROVE  [Host!PoolNext]_(Host!poolvars)
  BY DEF Next, row, InLaunchPermit, InBudget, InWorkers, InRounds, InReport, InCredentials, InGateway, InReadCache,
     InThrottle, InQuota, InPace, InPool, InAudit, InVerifyJobs, InRecovery, Host!poolvars

LEMMA AuditMoves ==
    ASSUME part = "Audit", [Next]_row
    PROVE  [Sessions!AuditNext]_(Sessions!avars)
  BY DEF Next, row, InLaunchPermit, InBudget, InWorkers, InRounds, InReport, InCredentials, InGateway, InReadCache,
     InThrottle, InQuota, InPace, InPool, InAudit, InVerifyJobs, InRecovery, Sessions!avars

LEMMA WorkersMove ==
    ASSUME part = "Workers", [Next]_row
    PROVE  [Host!Next]_(Host!vars)
  BY DEF Next, row, InLaunchPermit, InBudget, InWorkers, InRounds, InReport, InCredentials, InGateway, InReadCache,
     InThrottle, InQuota, InPace, InPool, InAudit, InVerifyJobs, InRecovery, Host!vars

LEMMA RoundsMove ==
    ASSUME part = "Rounds", [Next]_row
    PROVE  [Host!RoundsNext]_(Host!rvars)
  BY DEF Next, row, InLaunchPermit, InBudget, InWorkers, InRounds, InReport, InCredentials, InGateway, InReadCache,
     InThrottle, InQuota, InPace, InPool, InAudit, InVerifyJobs, InRecovery, Host!rvars

LEMMA GatewayMoves ==
    ASSUME part = "Gateway", [Next]_row
    PROVE  [Shared!GatewayNext]_(Shared!gwvars)
  BY DEF Next, row, InLaunchPermit, InBudget, InWorkers, InRounds, InReport, InCredentials, InGateway, InReadCache,
     InThrottle, InQuota, InPace, InPool, InAudit, InVerifyJobs, InRecovery, Shared!gwvars

LEMMA ReadCacheMoves ==
    ASSUME part = "ReadCache", [Next]_row
    PROVE  [Shared!CacheNext]_(Shared!rcvars)
  BY DEF Next, row, InLaunchPermit, InBudget, InWorkers, InRounds, InReport, InCredentials, InGateway, InReadCache,
     InThrottle, InQuota, InPace, InPool, InAudit, InVerifyJobs, InRecovery, Shared!rcvars

LEMMA VerifyMoves ==
    ASSUME part = "VerifyJobs", [Next]_row
    PROVE  [Ledger!VerifyNext]_(Ledger!verifyvars)
  BY DEF Next, row, InLaunchPermit, InBudget, InWorkers, InRounds, InReport, InCredentials, InGateway, InReadCache,
     InThrottle, InQuota, InPace, InPool, InAudit, InVerifyJobs, InRecovery, Ledger!verifyvars

LEMMA QuotaMoves ==
    ASSUME part = "Quota", [Next]_row
    PROVE  [Shared!QuotaNext]_(Shared!qvars)
  BY DEF Next, row, InLaunchPermit, InBudget, InWorkers, InRounds, InReport, InCredentials, InGateway, InReadCache,
     InThrottle, InQuota, InPace, InPool, InAudit, InVerifyJobs, InRecovery, Shared!qvars

LEMMA ReportMoves ==
    ASSUME part = "Report", [Next]_row
    PROVE  [Sessions!ReportNext]_(Sessions!pvars)
  BY DEF Next, row, InLaunchPermit, InBudget, InWorkers, InRounds, InReport, InCredentials, InGateway, InReadCache,
     InThrottle, InQuota, InPace, InPool, InAudit, InVerifyJobs, InRecovery, Sessions!pvars

LEMMA RecoveryMoves ==
    ASSUME part = "Recovery", [Next]_row
    PROVE  [Sessions!RecoveryNext]_(Sessions!recoveryvars)
  BY DEF Next, row, InLaunchPermit, InBudget, InWorkers, InRounds, InReport, InCredentials, InGateway, InReadCache,
     InThrottle, InQuota, InPace, InPool, InAudit, InVerifyJobs, InRecovery, Sessions!recoveryvars

LEMMA BudgetMoves ==
    ASSUME part = "Budget", [Next]_row
    PROVE  [Ledger!BudgetNext]_(Ledger!ledgervars)
  BY DEF Next, row, InLaunchPermit, InBudget, InWorkers, InRounds, InReport, InCredentials, InGateway, InReadCache,
     InThrottle, InQuota, InPace, InPool, InAudit, InVerifyJobs, InRecovery, Ledger!ledgervars, Ledger!hist

LEMMA ThrottleMoves ==
    ASSUME part = "Throttle", [Next]_row
    PROVE  [Shared!ThrottleNext]_(Shared!thvars)
  BY DEF Next, row, InLaunchPermit, InBudget, InWorkers, InRounds, InReport, InCredentials, InGateway, InReadCache,
     InThrottle, InQuota, InPace, InPool, InAudit, InVerifyJobs, InRecovery, Shared!thvars

\* Of the parts, the invocation is launched, settled and charged as it should.
\* (usage_lifecycle.py, usage_supervisor.py)
THEOREM LaunchHolds == Spec => []LaunchSafe
  <1> DEFINE Inv == part = "LaunchPermit" => Sessions!LaunchInv /\ Sessions!Bounds
  <1>1. Init => Inv
    <2>1. Init /\ part = "LaunchPermit" => Sessions!Init
      BY DEF Init
    <2>2. Sessions!LaunchAssumption
      BY PartsAssumption
    <2> QED
      BY <2>1, <2>2, Sessions!LaunchStarts
  <1>2. Inv /\ [Next]_row => Inv'
    <2>1. SUFFICES ASSUME Inv, [Next]_row, part' = "LaunchPermit"
                   PROVE  Sessions!LaunchInv' /\ Sessions!Bounds'
      OBVIOUS
    <2>2. part = "LaunchPermit"
      BY <2>1, OnePart
    <2>3. Sessions!LaunchAssumption
      BY PartsAssumption
    <2> QED
      BY <2>1, <2>2, <2>3, LaunchMoves, Sessions!LaunchGoesOn
  <1>3. Inv => LaunchSafe
    BY PartsAssumption, Sessions!LaunchInvSafe DEF LaunchSafe
  <1> HIDE DEF Inv
  <1> QED
    BY <1>1, <1>2, <1>3, PTL DEF Spec

\* Of the parts, no rotator of the credential sends a spent refresh token again or replaces a fresh pair.
\* (oauth.refresh_if_due)
THEOREM CredentialsHold == Spec => []CredentialsSafe
  <1> DEFINE Inv == part = "Credentials" => Host!CredInv
  <1>0. Host!CredAssumption
    BY PartsAssumption
  <1>1. Init => Inv
    <2>1. Init /\ part = "Credentials" => Host!CredInit
      BY DEF Init
    <2> QED
      BY <1>0, <2>1, Host!CredStarts
  <1>2. Inv /\ [Next]_row => Inv'
    <2>1. SUFFICES ASSUME Inv, [Next]_row, part' = "Credentials"
                   PROVE  Host!CredInv'
      OBVIOUS
    <2>2. part = "Credentials"
      BY <2>1, OnePart
    <2> QED
      BY <1>0, <2>1, <2>2, CredentialsMove, Host!CredGoesOn
  <1>3. Inv => CredentialsSafe
    BY Host!CredInvSafe DEF CredentialsSafe
  <1> HIDE DEF Inv
  <1> QED
    BY <1>1, <1>2, <1>3, PTL DEF Spec

\* Of the parts, sharing a snapshot raises no false alarm, uses no bare delta and obstructs no upgrade.
\* (shared_mathlib.view)
THEOREM PoolHolds == Spec => []PoolSafe
  <1> DEFINE Inv == part = "Pool" => Host!PoolInv
  <1>0. Host!PoolAssumption
    BY PartsAssumption
  <1>1. Init => Inv
    <2>1. Init /\ part = "Pool" => Host!PoolInit
      BY DEF Init
    <2> QED
      BY <1>0, <2>1, Host!PoolStarts
  <1>2. Inv /\ [Next]_row => Inv'
    <2>1. SUFFICES ASSUME Inv, [Next]_row, part' = "Pool"
                   PROVE  Host!PoolInv'
      OBVIOUS
    <2>2. part = "Pool"
      BY <2>1, OnePart
    <2> QED
      BY <1>0, <2>1, <2>2, SharingMoves, Host!PoolGoesOn
  <1>3. Inv => PoolSafe
    BY Host!PoolInvSafe DEF PoolSafe
  <1> HIDE DEF Inv
  <1> QED
    BY <1>1, <1>2, <1>3, PTL DEF Spec

\* Of the parts, no worker of an audit passes what it found fault with, and one recovery is launched in a
\* cooldown.  (security_audit.py, audit_recovery.py)
THEOREM AuditHolds == Spec => []AuditSafe
  <1> DEFINE Inv == part = "Audit" => Sessions!AuditInv
  <1>0. Sessions!AuditAssumption
    BY PartsAssumption
  <1>1. Init => Inv
    <2>1. Init /\ part = "Audit" => Sessions!AuditInit
      BY DEF Init
    <2> QED
      BY <1>0, <2>1, Sessions!AuditStarts
  <1>2. Inv /\ [Next]_row => Inv'
    <2>1. SUFFICES ASSUME Inv, [Next]_row, part' = "Audit"
                   PROVE  Sessions!AuditInv'
      OBVIOUS
    <2>2. part = "Audit"
      BY <2>1, OnePart
    <2> QED
      BY <1>0, <2>1, <2>2, AuditMoves, Sessions!AuditGoesOn
  <1>3. Inv => AuditSafe
    BY Sessions!AuditInvSafe DEF AuditSafe
  <1> HIDE DEF Inv
  <1> QED
    BY <1>1, <1>2, <1>3, PTL DEF Spec

\* Of the parts, no attempt is made beyond its limit and no worker spins, one loop at most works for a
\* worker, and a change of the read policy costs no round.
\* (work_units.run_round, loop.cmd_loop, worker_manager.run_manager, cmd_managed_runner)
THEOREM WorkHolds == Spec => []WorkSafe
  <1> DEFINE Inv == /\ part = "Rounds" => Host!RoundsInv
                    /\ part = "Workers" => Host!WorkersInv
  <1>0. Host!RoundsAssumption /\ Host!WorkersAssumption
    BY PartsAssumption
  <1>1. Init => Inv
    <2>1. /\ Init /\ part = "Rounds" => Host!RoundsInit
          /\ Init /\ part = "Workers" => Host!Init
      BY DEF Init
    <2> QED
      BY <1>0, <2>1, Host!RoundsBegin, Host!WorkersStart
  <1>2. Inv /\ [Next]_row => Inv'
    <2>1. SUFFICES ASSUME Inv, [Next]_row PROVE Inv'
      OBVIOUS
    <2>2. part' = part
      BY <2>1, OnePart
    <2>3. part = "Rounds" => Host!RoundsInv'
      BY <1>0, <2>1, RoundsMove, Host!RoundsGoOn
    <2>4. part = "Workers" => Host!WorkersInv'
      BY <1>0, <2>1, WorkersMove, Host!WorkersGoOn
    <2> QED
      BY <2>2, <2>3, <2>4
  <1>3. Inv => WorkSafe
    <2>1. Host!RoundsInv => Host!BoundsKept
      BY <1>0, Host!RoundsInvSafe
    <2>2. Host!WorkersInv => Host!ManagedSafe
      BY <1>0, Host!WorkersInvSafe
    <2> QED
      BY <2>1, <2>2 DEF WorkSafe
  <1> HIDE DEF Inv
  <1> QED
    BY <1>1, <1>2, <1>3, PTL DEF Spec

\* Of the parts, a read passes one prober, sees the writes that were acknowledged before it, and waits
\* where another was told to wait.  (github_state.py, overlap_support.py, github_transport.py)
THEOREM ReadsHold == Spec => []ReadsSafe
  <1> DEFINE Inv == /\ part = "Gateway" => Shared!GatewayInv
                    /\ part = "ReadCache" => Shared!CacheInv
                    /\ part = "Throttle" => Shared!ThrottleInv
  <1>0. Shared!GatewayAssumption /\ Shared!ThrottleAssumption
    BY PartsAssumption
  <1>1. Init => Inv
    <2>1. /\ Init /\ part = "Gateway" => Shared!GatewayInit
          /\ Init /\ part = "ReadCache" => Shared!CacheInit
          /\ Init /\ part = "Throttle" => Shared!ThrottleInit
      BY DEF Init
    <2> QED
      BY <1>0, <2>1, Shared!GatewayStarts, Shared!CacheStarts, Shared!ThrottleStarts
  <1>2. Inv /\ [Next]_row => Inv'
    <2>1. SUFFICES ASSUME Inv, [Next]_row PROVE Inv'
      OBVIOUS
    <2>2. part' = part
      BY <2>1, OnePart
    <2>3. part = "Gateway" => Shared!GatewayInv'
      BY <1>0, <2>1, GatewayMoves, Shared!GatewayGoesOn
    <2>4. part = "ReadCache" => Shared!CacheInv'
      BY <2>1, ReadCacheMoves, Shared!CacheGoesOn
    <2>5. part = "Throttle" => Shared!ThrottleInv'
      BY <1>0, <2>1, ThrottleMoves, Shared!ThrottleGoesOn
    <2> QED
      BY <2>2, <2>3, <2>4, <2>5
  <1>3. Inv => ReadsSafe
    BY <1>0, Shared!GatewayInvSafe, Shared!CacheInvSafe, Shared!ThrottleInvSafe DEF ReadsSafe
  <1> HIDE DEF Inv
  <1> QED
    BY <1>1, <1>2, <1>3, PTL DEF Spec

\* Of the parts, no run of a verification works in a copy that is taken away, and a job has one helper.
\* (verification_jobs.py, verification_storage.py)
THEOREM VerifyHolds == Spec => []VerifySafe
  <1> DEFINE Inv == part = "VerifyJobs" => Ledger!VerifyInv
  <1>0. Ledger!VerifyAssumption
    BY PartsAssumption
  <1>1. Init => Inv
    <2>1. Init /\ part = "VerifyJobs" => Ledger!VerifyInit
      BY DEF Init
    <2> QED
      BY <1>0, <2>1, Ledger!VerifyBegins
  <1>2. Inv /\ [Next]_row => Inv'
    <2>1. SUFFICES ASSUME Inv, [Next]_row, part' = "VerifyJobs"
                   PROVE  Ledger!VerifyInv'
      OBVIOUS
    <2>2. part = "VerifyJobs"
      BY <2>1, OnePart
    <2> QED
      BY <1>0, <2>1, <2>2, VerifyMoves, Ledger!VerifySteps, Ledger!VerifyStutters
  <1>3. Inv => VerifySafe
    BY <1>0, Ledger!VerifyMeans DEF VerifySafe
  <1> HIDE DEF Inv
  <1> QED
    BY <1>1, <1>2, <1>3, PTL DEF Spec

\* Of the parts, a round of the pacer is launched on the window its reading is of, and one request opens
\* a window at a time.  (quota.py)
THEOREM PacingHolds == Spec => []PacingSafe
  <1> DEFINE Inv == part = "Quota" => Shared!QuotaInv
  <1>0. Shared!QuotaAssumption
    BY PartsAssumption
  <1>1. Init => Inv
    <2>1. Init /\ part = "Quota" => Shared!QuotaInit
      BY DEF Init
    <2> QED
      BY <1>0, <2>1, Shared!PacerStarts
  <1>2. Inv /\ [Next]_row => Inv'
    <2>1. SUFFICES ASSUME Inv, [Next]_row, part' = "Quota"
                   PROVE  Shared!QuotaInv'
      OBVIOUS
    <2>2. part = "Quota"
      BY <2>1, OnePart
    <2> QED
      BY <1>0, <2>1, <2>2, QuotaMoves, Shared!PacerGoesOn
  <1>3. Inv => PacingSafe
    BY <1>0, Shared!PacerMeans DEF PacingSafe
  <1> HIDE DEF Inv
  <1> QED
    BY <1>1, <1>2, <1>3, PTL DEF Spec

\* Of the parts, both bodies of a report that is published are of one writing about its window.
\* (progress_publication.py)
THEOREM ReportsHold == Spec => []ReportsSafe
  <1> DEFINE Inv == part = "Report" => Sessions!ReportInv
  <1>0. Sessions!ReportAssumption
    BY PartsAssumption
  <1>1. Init => Inv
    <2>1. Init /\ part = "Report" => Sessions!ReportInit
      BY DEF Init
    <2> QED
      BY <1>0, <2>1, Sessions!ReportStarts
  <1>2. Inv /\ [Next]_row => Inv'
    <2>1. SUFFICES ASSUME Inv, [Next]_row, part' = "Report"
                   PROVE  Sessions!ReportInv'
      OBVIOUS
    <2>2. part = "Report"
      BY <2>1, OnePart
    <2> QED
      BY <1>0, <2>1, <2>2, ReportMoves, Sessions!ReportGoesOn
  <1>3. Inv => ReportsSafe
    BY <1>0, Sessions!ReportMeans DEF ReportsSafe
  <1> HIDE DEF Inv
  <1> QED
    BY <1>1, <1>2, <1>3, PTL DEF Spec

\* Of the parts, a retained change lands once and as it was verified, and what another writer removed stays
\* removed as far as the record knows. (repair_recovery.py)
THEOREM RecoveryHolds == Spec => []RecoverySafe
  <1> DEFINE Inv == part = "Recovery" => Sessions!RecInv
  <1>0. Sessions!RecoveryAssumption
    BY PartsAssumption
  <1>1. Init => Inv
    <2>1. Init /\ part = "Recovery" => Sessions!RecoveryInit
      BY DEF Init
    <2> QED
      BY <1>0, <2>1, Sessions!RecoveryStarts
  <1>2. Inv /\ [Next]_row => Inv'
    <2>1. SUFFICES ASSUME Inv, [Next]_row, part' = "Recovery"
                   PROVE  Sessions!RecInv'
      OBVIOUS
    <2>2. part = "Recovery"
      BY <2>1, OnePart
    <2> QED
      BY <1>0, <2>1, <2>2, RecoveryMoves, Sessions!RecoveryKeeps, Sessions!RecoveryStutters
  <1>3. Inv => RecoverySafe
    BY <1>0, Sessions!RecInvMeans DEF RecoverySafe
  <1> HIDE DEF Inv
  <1> QED
    BY <1>1, <1>2, <1>3, PTL DEF Spec

\* Of the parts, no step replaces what a reader has attached, passes the cursor over what nobody read, pays
\* for a report twice or drops one, or starts a worker again that came to its own good end.
\* (shared_mathlib.py, security_audit.py, progress_publication.py, worker_manager.py)
THEOREM StepsHold == Spec => StepsSafe
  <1> DEFINE Inv == /\ part = "Pool" => Host!PoolInv
                    /\ part = "Audit" => Sessions!AuditInv
                    /\ part = "Report" => Sessions!ReportInv
                    /\ part = "Workers" => Host!WorkersInv /\ Host!EndTold
             Step == /\ part = "Pool" => Host!LowerStays
                     /\ part = "Audit" => Sessions!PassedIsRead
                     /\ part = "Report" => Sessions!PaidOnce /\ Sessions!NothingDropped
                     /\ part = "Workers" => Host!CleanExitFinal
  <1>0. Host!PoolAssumption /\ Sessions!AuditAssumption /\ Sessions!ReportAssumption /\ Host!WorkersAssumption
    BY PartsAssumption
  <1>1. Init => Inv
    <2>1. /\ Init /\ part = "Pool" => Host!PoolInit
          /\ Init /\ part = "Audit" => Sessions!AuditInit
          /\ Init /\ part = "Report" => Sessions!ReportInit
          /\ Init /\ part = "Workers" => Host!Init
      BY DEF Init
    <2> QED
      BY <1>0, <2>1, Host!PoolStarts, Sessions!AuditStarts, Sessions!ReportStarts, Host!WorkersStart,
         Host!EndTellsFirst
  <1>2. Inv /\ [Next]_row => Inv'
    <2>1. SUFFICES ASSUME Inv, [Next]_row PROVE Inv'
      OBVIOUS
    <2>2. part' = part
      BY <2>1, OnePart
    <2>3. part = "Pool" => Host!PoolInv'
      BY <1>0, <2>1, SharingMoves, Host!PoolGoesOn
    <2>4. part = "Audit" => Sessions!AuditInv'
      BY <1>0, <2>1, AuditMoves, Sessions!AuditGoesOn
    <2>5. part = "Report" => Sessions!ReportInv'
      BY <1>0, <2>1, ReportMoves, Sessions!ReportGoesOn
    <2>6. part = "Workers" => Host!WorkersInv' /\ Host!EndTold'
      BY <1>0, <2>1, WorkersMove, Host!WorkersGoOn, Host!EndStaysTold
    <2> QED
      BY <2>2, <2>3, <2>4, <2>5, <2>6
  <1>3. Inv /\ [Next]_row => Step
    <2>1. SUFFICES ASSUME Inv, [Next]_row PROVE Step
      OBVIOUS
    <2>2. part = "Pool" => Host!LowerStays
      BY <1>0, <2>1, SharingMoves, Host!ReadersKeepLower
    <2>3. part = "Audit" => Sessions!PassedIsRead
      BY <1>0, <2>1, AuditMoves, Sessions!AuditPasses
    <2>4. part = "Report" => Sessions!PaidOnce /\ Sessions!NothingDropped
      BY <1>0, <2>1, ReportMoves, Sessions!PaysOnce, Sessions!DropsNothing
    <2>5. part = "Workers" => Host!CleanExitFinal
      BY <1>0, <2>1, WorkersMove, Host!ToldIsFinal
    <2> QED
      BY <2>2, <2>3, <2>4, <2>5
  <1>4. StepsSafe <=> [][Step]_row
    BY DEF StepsSafe
  <1> HIDE DEF Inv, Step
  <1> QED
    BY <1>1, <1>2, <1>3, <1>4, PTL DEF Spec

\* Of the parts, the ledger charges what it says it charges, and promises its funds once, to sessions that
\* are settled when they have stopped.  (Budget.replay, Budget.accrue, Budget.admit, Budget.settle_receipt)
THEOREM SpendingHolds == Spec => []SpendingSafe
  <1> DEFINE Inv == part = "Budget" => Ledger!LedgerInv /\ Ledger!BooksInv
  <1>0. Ledger!BudgetAssumption
    BY PartsAssumption
  <1>1. Init => Inv
    <2>1. Init /\ part = "Budget" => Ledger!BudgetInit
      BY DEF Init
    <2> QED
      BY <1>0, <2>1, Ledger!LedgerStart, Ledger!BooksStart
  <1>2. Inv /\ [Next]_row => Inv'
    <2>1. SUFFICES ASSUME Inv, [Next]_row, part' = "Budget"
                   PROVE  Ledger!LedgerInv' /\ Ledger!BooksInv'
      OBVIOUS
    <2>2. part = "Budget"
      BY <2>1, OnePart
    <2> QED
      BY <1>0, <2>1, <2>2, BudgetMoves, Ledger!BooksGoOn
  <1>3. Inv => SpendingSafe
    BY <1>0, Ledger!BooksSafe DEF SpendingSafe
  <1> HIDE DEF Inv
  <1> QED
    BY <1>1, <1>2, <1>3, PTL DEF Spec

\* Of the parts, the ledger keeps its receipts, and admits nobody between a torn write and its audit.
\* (Budget.settle_receipt, Budget.repair, Budget.admit)
THEOREM LedgerHolds == Spec => LedgerSteps
  <1> DEFINE Inv == part = "Budget" => Ledger!LedgerInv
             Step == part = "Budget" => Ledger!ReceiptsStand /\ Ledger!TornStopsAdmission
  <1>0. Ledger!BudgetAssumption
    BY PartsAssumption
  <1>1. Init => Inv
    <2>1. Init /\ part = "Budget" => Ledger!BudgetInit
      BY DEF Init
    <2> QED
      BY <2>1, Ledger!LedgerStart
  <1>2. Inv /\ [Next]_row => Inv'
    <2>1. SUFFICES ASSUME Inv, [Next]_row, part' = "Budget"
                   PROVE  Ledger!LedgerInv'
      OBVIOUS
    <2>2. part = "Budget"
      BY <2>1, OnePart
    <2> QED
      BY <1>0, <2>1, <2>2, BudgetMoves, Ledger!LedgerKept
  <1>3. Inv /\ [Next]_row => Step
    BY <1>0, BudgetMoves, Ledger!LedgerKept DEF Ledger!LedgerStep
  <1> HIDE DEF Inv, Step
  <1>4. Spec => [][Step]_row
    BY <1>1, <1>2, <1>3, PTL DEF Spec
  <1> QED
    BY <1>4 DEF LedgerSteps, Step
==============================================================================
