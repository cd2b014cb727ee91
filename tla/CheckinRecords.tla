---------------------------- MODULE CheckinRecords ----------------------------
(***************************************************************************)
(* The store of check-in records (internal/checkin/checkin.go): a list,    *)
(* oldest first, of at most MaxRecords records, rewritten to its file by   *)
(* every Add under the store's mutex and read back by a restart.           *)
(***************************************************************************)
EXTENDS Integers, SequencesExt

CONSTANTS
    Record,      \* the records there may be; they have a status
    MaxRecords,  \* Store.max
    DiskFaults   \* may a write of the file fail?

ASSUME StoreAssumption ==
    /\ MaxRecords \in Nat \ {0}
    /\ DiskFaults \in BOOLEAN

AlreadyClaimed == "already_claimed"

VARIABLES
    records,  \* Store.records
    file,     \* the records in checkin_file; an absent file holds none
    durable   \* history: the last save worked

storeVars == <<records, file, durable>>

-----------------------------------------------------------------------------
(* Adding and loading *)

\* s[len(s)-max:]
Newest(s) == IF Len(s) > MaxRecords
             THEN SubSeq(s, Len(s) - MaxRecords + 1, Len(s)) ELSE s

\* Temp file and rename; every error is dropped.
saveLocked ==
    \/ file' = records' /\ durable' = TRUE
    \/ DiskFaults /\ file' = file /\ durable' = FALSE

\* Mutant: the record is only kept in memory.
AddUnsaved(r) ==
    /\ records' = Newest(Append(records, r))
    /\ UNCHANGED <<file, durable>>

Add(r) ==
    /\ records' = Newest(Append(records, r))
    /\ saveLocked

Load ==
    /\ records' = Newest(file)
    /\ durable' = TRUE
    /\ UNCHANGED file

StoreInit == records = <<>> /\ file = <<>> /\ durable = TRUE

StoreTypeOK ==
    /\ records \in Seq(Record) /\ Len(records) <= MaxRecords
    /\ file \in Seq(Record) /\ Len(file) <= MaxRecords
    /\ durable \in BOOLEAN

-----------------------------------------------------------------------------
(* Reading *)

filterRecordsLocked(s, exclude) ==
    FoldLeft(LAMBDA out, r : IF r.status \in exclude THEN out ELSE Append(out, r),
             <<>>, s)

\* Mutant: page counts from 0.
EndFromZero(total, page, size) == total - page * size

\* What is left of total records after the pages before this one.
PageEnd(total, page, size) == total - (page - 1) * size

\* Mutant: a page is cut from all the records and filtered afterwards.
FilteredPage(page, size, exclude) ==
    LET end == PageEnd(Len(records), page, size)
        n == IF end <= 0 THEN 0 ELSE IF end < size THEN end ELSE size
    IN  filterRecordsLocked([i \in 1 .. n |-> records[end + 1 - i]], exclude)

\* Page: the page-th size records of the filtered ones, newest first.
Page(page, size, exclude) ==
    LET filtered == filterRecordsLocked(records, exclude)
        end == PageEnd(Len(filtered), page, size)
        n == IF end <= 0 THEN 0 ELSE IF end < size THEN end ELSE size
    IN  [i \in 1 .. n |-> filtered[end + 1 - i]]

Total(exclude) == Len(filterRecordsLocked(records, exclude))
===============================================================================
