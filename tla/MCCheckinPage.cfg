\* Room for three records, five check-ins, failing saves.
CONSTANTS
    Record <- SomeRecords
    MaxRecords = 3
    DiskFaults = TRUE
    Statuses = {"success", "already_claimed"}
    PageSizes = {1, 2}
    MaxAdds = 5
SPECIFICATION Spec
INVARIANTS
    NewestKept
    PagesPartition
    WalkMissesNothing
