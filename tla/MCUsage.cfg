\* One answer of three lines, or three events of others with disk faults and crashes.
CONSTANTS
    Requested = {m1, noname}
    NoName = noname
    Unknown = unknown
    Absent = Absent
    Model = noname
    Tokens <- MCTokens
    DiskFaults = {"disk", "crash"}
    LineKinds = {"text", "message", "open0", "args0", "open1", "args1", "usage", "done", "other"}
    MaxTotal = 3
    MaxLines = 3
    MaxUnread = 4
SPECIFICATION Spec
INVARIANTS
    RowsAddUp
    UsageCountedOnce
    SameAnswer
    ClosedWithDone
PROPERTIES
    CountsTrail
    TotalsReachFile
CHECK_DEADLOCK FALSE
