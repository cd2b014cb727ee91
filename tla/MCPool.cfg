\* Two interchangeable accounts, two balances, two cooldown lengths.
CONSTANTS
    a1 = a1
    a2 = a2
    Accounts <- MCAccounts
    Credits <- MCCredits
    Reasons <- MCReasons
    ErrReason <- MCErrReason
    Durations <- MCDurations
    ErrThreshold = 2
    DiskFaults = TRUE
    MaxTime = 2
SPECIFICATION PoolSpec
SYMMETRY Symmetry
INVARIANTS
    TypeOK
    ReasonsConsistent
    FileMatchesMemory
    CooldownBounded
PROPERTY
    ReturnsOnlyByRule
