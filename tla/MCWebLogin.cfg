\* Refreshes, logins and saves of two goroutines, with every fault.
CONSTANTS
    w1 = w1
    w2 = w2
    Workers = {w1, w2}
    Faults = {"disk", "lost", "crash"}
    Broken = Broken
    Nothing = Nothing
    MaxSessions = 2
    MaxRotations = 2
    MaxIds = 2
    MaxOAuthSessions = 1
SPECIFICATION WebSpec
SYMMETRY WorkerSymmetry
INVARIANTS
    FileWhole
    SavedBeforeUsed
    FileCatchesUp
PROPERTIES
    NeverBackwards
    OnlyDeadDisabled
    ConsumedOnce
    RefusedOnlyByLive
