\* The loop is started twice.
CONSTANTS
    a1 = a1
    l1 = l1
    l2 = l2
    NoFile = NoFile
    Missing = Missing
    Hours <- SomeHours
    Intervals <- SomeIntervals
    Requested <- SomeRequests
    Initial <- Config
    Admins = {}
    DiskFaults = FALSE
    MaxChanges = 2
    Loops = {l1, l2}
    TickSeconds = 1800
    TicksPerHour = 2
    DayTicks = 8
    TaskTicks = 0
    MaxTime = 10
SPECIFICATION Spec
INVARIANT
    OneLoopRuns
