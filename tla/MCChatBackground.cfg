\* One request among balance refresh, keepalive, admin, restarts and the clock.
CONSTANTS
    a1 = a1
    a2 = a2
    r1 = r1
    r2 = r2
    balancer = balancer
    keeper = keeper
    Accounts = {a1}
    Credits = {0, 1}
    Reasons <- MCReasons
    ErrReason <- MCErrReason
    Durations <- MCDurations
    ErrThreshold = 2
    DiskFaults = FALSE
    MaxTime = 2
    Requests = {r1}
    Balancers = {balancer}
    Keepers = {keeper}
    AdminActions = {"enable", "disable", "cooldown", "login"}
    Restarts = TRUE
    Replies <- MCReplies
    MaxRotate = 2
    HardCooldown = 3
    SoftCooldown = 1
    ErrCooldown = 2
    ManualCooldown = 2
    Stats = TRUE
    MaxFrames = 2
SPECIFICATION Spec
INVARIANTS
    AttemptCountedOnce
PROPERTY
    PoolSpec
