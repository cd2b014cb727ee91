\* Two check-ins of an account, on two days.
CONSTANTS
    u1 = u1
    r1 = r1
    r2 = r2
    Record <- SomeRecords
    MaxRecords = 1
    DiskFaults = FALSE
    Accounts = {u1}
    Runs = {r1, r2}
    FirstBalance = 0
    Grant = 1
    Failures = TRUE
    MaxStarts = 2
    MaxDays = 1
SPECIFICATION Spec
SYMMETRY RunSymmetry
INVARIANTS
    GainExplained
    ErrorsExplained
    CleanRunClaimsAll
    RevivedIfFunded
