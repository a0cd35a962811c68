SPECIFICATION Spec
CONSTANTS
    Deep = TRUE
    a = a
    b = b
    one = one
    j1 = j1
    j2 = j2
    w1 = w1
    w2 = w2
    Nothing = Nothing
INVARIANTS
    SpendingSafe
    FiguresExact
    LaunchSafe
    PacingSafe
    WorkSafe
    ReportsSafe
    CredentialsSafe
    ReadsSafe
    PoolSafe
    AuditSafe
    VerifySafe
    RecoverySafe
PROPERTIES
    LedgerSteps
    StepsSafe
SYMMETRY Alike
CHECK_DEADLOCK FALSE
