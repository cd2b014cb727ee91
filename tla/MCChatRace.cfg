\* Two requests race over two accounts and one LastBody while an
\* administrator keeps re-enabling accounts.
CONSTANTS
    a1 = a1
    a2 = a2
    r1 = r1
    r2 = r2
    balancer = balancer
    keeper = keeper
    Accounts = {a1, a2}
    Credits = {0}
    Reasons <- MCReasons
    ErrReason <- MCErrReason
    Durations <- MCDurations
    ErrThreshold = 1
    DiskFaults = FALSE
    MaxTime = 1
    Requests = {r1, r2}
    Balancers = {}
    Keepers = {}
    AdminActions = {"enable"}
    Restarts = FALSE
    Replies <- MCFewReplies
    MaxRotate = 2
    HardCooldown = 3
    SoftCooldown = 1
    ErrCooldown = 2
    ManualCooldown = 2
    Stats = FALSE
    MaxFrames = 1
SPECIFICATION Spec
INVARIANTS
    RotationBounded
    PaymentRequiredIsHard
PROPERTIES
    FailureIsPenalised
    EveryRequestAnswered
