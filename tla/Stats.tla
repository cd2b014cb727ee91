-------------------------------- MODULE Stats --------------------------------
(***************************************************************************)
(* The recorder of internal/stats/stats.go: counts in memory, one row per  *)
(* model, and the goroutine Run that writes them to a file every 30        *)
(* seconds and once more when the process is told to stop.                 *)
(*                                                                         *)
(* A row that is not in the map yet is a row of zeros.  Prompt and         *)
(* completion tokens are treated alike and are one number here.  The file  *)
(* is configured: without one Run only waits for the stop.                 *)
(***************************************************************************)
EXTENDS Integers, FiniteSetsExt

CONSTANTS
    Requested,   \* model names requests carry
    NoName,      \* the empty one among them
    Unknown,     \* the row "unknown"
    Tokens,      \* token counts a usage frame may carry, negative ones too
    Absent,      \* no statistics file yet
    DiskFaults,  \* subset of {"disk", "crash"}
    MaxTotal     \* bound: events counted in one life of the process

ASSUME TokensAssumption == Tokens \subseteq Int
\* A name is part of a request's body, which is cut at 8 MiB.
ASSUME FiniteNames == IsFiniteSet(Requested)
ASSUME MaxTotalAssumption == MaxTotal \in Nat
ASSUME DiskFaultsAssumption == DiskFaults \subseteq {"disk", "crash"}

Rows == (Requested \ {NoName}) \cup {Unknown}

Row == [total : Nat, success : Nat, failed : Nat, tokens : Nat]
Data == [sum : Row, rows : [Rows -> Row]]

ASSUME AbsentAssumption == Absent \notin Data

VARIABLES
    data,      \* r.data
    dirty,     \* r.dirty
    file,      \* the statistics file
    flusher,   \* Run: where it is, and the document it is writing
    stopping,  \* the context is done
    broken     \* the disk refuses writes

statsVars == <<data, dirty, file, flusher, stopping, broken>>

ZeroRow == [total |-> 0, success |-> 0, failed |-> 0, tokens |-> 0]
NewData == [sum |-> ZeroRow, rows |-> [r \in Rows |-> ZeroRow]]

Waiting == [pc |-> "wait", doc |-> NewData]
Gone == [pc |-> "gone", doc |-> NewData]

-----------------------------------------------------------------------------
(* Counting: each call holds the lock from its first change to its last *)

Key(m) == IF m = NoName THEN Unknown ELSE m

NotNegative(n) == IF n < 0 THEN 0 ELSE n

WithSuccess(row, n) == [total |-> row.total + 1, success |-> row.success + 1,
                        failed |-> row.failed, tokens |-> row.tokens + n]
WithFailure(row) == [total |-> row.total + 1, success |-> row.success,
                     failed |-> row.failed + 1, tokens |-> row.tokens]

\* Mutant: a failure is counted in its row only.
FailureInRow(m) ==
    /\ data' = [sum |-> data.sum,
                rows |-> [r \in Rows |-> IF r = Key(m)
                                         THEN WithFailure(data.rows[r])
                                         ELSE data.rows[r]]]
    /\ dirty' = TRUE

RecordTokens(m, n) ==
    /\ data' = [sum |-> WithSuccess(data.sum, NotNegative(n)),
                rows |-> [r \in Rows |->
                             IF r = Key(m)
                             THEN WithSuccess(data.rows[r], NotNegative(n))
                             ELSE data.rows[r]]]
    /\ dirty' = TRUE

AddFailure(m) ==
    /\ data' = [sum |-> WithFailure(data.sum),
                rows |-> [r \in Rows |-> IF r = Key(m)
                                         THEN WithFailure(data.rows[r])
                                         ELSE data.rows[r]]]
    /\ dirty' = TRUE

-----------------------------------------------------------------------------
(* Run and Flush *)

\* Mutant: dirty is cleared before the document is on disk.
EncodeOnce ==
    /\ flusher.pc = "wait" /\ dirty
    /\ flusher' = [pc |-> "write", doc |-> data]
    /\ dirty' = FALSE
    /\ UNCHANGED <<data, file, stopping, broken>>

\* The ticker fires: the document is built under the lock.  Flush never
\* clears dirty, so after the first event every tick writes the file.
Encode ==
    /\ flusher.pc = "wait" /\ dirty
    /\ flusher' = [pc |-> "write", doc |-> data]
    /\ UNCHANGED <<data, dirty, file, stopping, broken>>

\* The context is done: one more flush, and Run returns.
LastFlush ==
    /\ flusher.pc = "wait" /\ stopping
    /\ flusher' = IF dirty THEN [pc |-> "last", doc |-> data] ELSE Gone
    /\ UNCHANGED <<data, dirty, file, stopping, broken>>

\* The temporary file is written and renamed, or the flush gives up; errors
\* are not looked at.
Write ==
    /\ flusher.pc \in {"write", "last"}
    /\ file' = IF broken THEN file ELSE flusher.doc
    /\ flusher' = IF flusher.pc = "last" THEN Gone ELSE Waiting
    /\ UNCHANGED <<data, dirty, stopping, broken>>

\* SIGTERM
Stop ==
    /\ ~stopping
    /\ stopping' = TRUE
    /\ UNCHANGED <<data, dirty, file, flusher, broken>>

\* Mutant: a restart begins at zero.
LoadNothing == NewData

LoadFile == IF file = Absent THEN NewData ELSE file

\* main returns without waiting for Run, or the process dies; the next one
\* loads the file.  A temporary file left behind is never read.
Restart ==
    /\ stopping \/ "crash" \in DiskFaults
    /\ data' = LoadFile
    /\ dirty' = FALSE
    /\ flusher' = Waiting
    /\ stopping' = FALSE
    /\ UNCHANGED <<file, broken>>

DiskChanges ==
    /\ "disk" \in DiskFaults
    /\ broken' = ~broken
    /\ UNCHANGED <<data, dirty, file, flusher, stopping>>

StatsInit ==
    /\ data = NewData
    /\ dirty = FALSE
    /\ file = Absent
    /\ flusher = Waiting
    /\ stopping = FALSE
    /\ broken = FALSE

\* One event of any request.
Event ==
    /\ data.sum.total < MaxTotal
    /\ \E m \in Requested :
          \/ AddFailure(m)
          \/ \E n \in Tokens : RecordTokens(m, n)
    /\ UNCHANGED <<file, flusher, stopping, broken>>

Flusher == Encode \/ LastFlush \/ Write

StatsNext == Event \/ Flusher \/ Stop \/ Restart \/ DiskChanges

StatsSpec == StatsInit /\ [][StatsNext]_statsVars

-----------------------------------------------------------------------------
(* Properties *)

\* The file trails behind the memory and never goes back; a restart goes on
\* from it; nothing is counted that did not happen.
TotalsSpec ==
    INSTANCE Totals WITH
        mem <- data.sum.total,
        disk <- IF file = Absent THEN 0 ELSE file.sum.total

CountsTrail == TotalsSpec!Spec

SumOver(d, column) == MapThenSumSet(LAMBDA r : d.rows[r][column], Rows)

\* The reports' columns: the totals are the sums over the rows, and every
\* event is a success or a failure.
AddsUp(d) ==
    /\ d.sum.total = d.sum.success + d.sum.failed
    /\ d.sum.total = SumOver(d, "total")
    /\ d.sum.failed = SumOver(d, "failed")
    /\ d.sum.success = SumOver(d, "success")
    /\ d.sum.tokens = SumOver(d, "tokens")
    /\ \A r \in Rows : d.rows[r].tokens >= 0
=============================================================================
