\* One loop, one administrator, failing saves, tasks that take up to a tick.
CONSTANTS
    a1 = a1
    l1 = l1
    l2 = l2
    NoFile = NoFile
    Missing = Missing
    Hours <- SomeHours
    Intervals <- SomeIntervals
    Requested <- SomeRequests
    Initial <- Config
    Admins = {a1}
    DiskFaults = TRUE
    MaxChanges = 2
    Loops = {l1}
    TickSeconds = 1800
    TicksPerHour = 2
    DayTicks = 8
    TaskTicks = 1
    MaxTime = 10
SPECIFICATION FairSpec
INVARIANTS
    NoChangeMissed
    NoHourTwice
    EveryHourRuns
    RestartKeepsSettings
PROPERTIES
    SettingsReachLoops
