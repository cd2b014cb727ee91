-------------------------------- MODULE Usage --------------------------------
(***************************************************************************)
(* The answer of one successful chat on its way from upstream to client:   *)
(* the end of chatCompletions (internal/server/handler.go), Stream and     *)
(* Aggregate (internal/upstream/sse.go), and the TapReader between them    *)
(* (internal/stats/tap.go), which counts usage frames as bytes pass by.    *)
(* It is composed with the recorder of module Stats.                       *)
(*                                                                         *)
(* A line is three pieces, <<n, 1>> and <<n, 2>> its two halves, <<n, 3>>  *)
(* its newline, and upstream may be cut off after any piece.  Lines are    *)
(* shorter than the 64 KiB the tap keeps of an unfinished one.             *)
(*                                                                         *)
(* A behaviour follows one answer, or (phase "others") the events of many: *)
(* to keep the state space small, other events, the stop, restarts and     *)
(* disk faults happen in the behaviours that follow no answer.  An answer  *)
(* and the recorder meet in data alone.                                    *)
(***************************************************************************)
EXTENDS Stats, Sse

CONSTANTS
    LineKinds,   \* the kinds of lines upstream sends
    Model,       \* the model name the request carries
    MaxLines,    \* bound: lines of the answer
    MaxUnread    \* bound: pieces on their way that nobody has read

ASSUME KindsAssumption == LineKinds \subseteq Kinds
ASSUME ModelAssumption == Model \in Requested

VARIABLES
    phase,    \* "stream" or "aggregate", then "answered" or "failed"; or
              \* "others"
    lines,    \* the kinds of the lines upstream has begun
    sent,     \* the last piece upstream has sent
    ended,    \* upstream: "open", "eof" or "error"
    wire,     \* pieces sent and not read
    chunk,    \* pieces this Read has taken and feed is looking at
    pending,  \* TapReader.pending
    buf,      \* pieces in the bufio.Reader
    out,      \* what the client has been written
    counted   \* history: RecordTokens calls of this request

reqVars == <<phase, lines, sent, ended, wire, chunk, pending, buf, out, counted>>
vars == <<statsVars, reqVars>>

Eol == 3
DoneLine == <<0, 1>>     \* the "data: [DONE]" Stream appends
ErrorBody == <<0, 2>>    \* the JSON of writeOpenAIError

Ends(s) == \E p \in Range(s) : p[2] = Eol
FirstEol(s) == CHOOSE i \in DOMAIN s :
                   s[i][2] = Eol /\ \A j \in 1 .. i - 1 : s[j][2] # Eol
FirstLine(s) == SubSeq(s, 1, FirstEol(s))
RestOf(s) == SubSeq(s, FirstEol(s) + 1, Len(s))

\* The lines both of whose halves are in s, with or without the newline.
WholeIn(s) == {n \in DOMAIN lines : <<n, 1>> \in Range(s) /\ <<n, 2>> \in Range(s)}

-----------------------------------------------------------------------------
(* Upstream *)

Upstream == phase \in {"stream", "aggregate"} /\ ended = "open"

Send ==
    /\ Upstream
    /\ Len(wire) < MaxUnread
    /\ IF sent[2] = Eol
       THEN /\ Len(lines) < MaxLines
            /\ \E k \in LineKinds : lines' = Append(lines, k)
            /\ sent' = <<sent[1] + 1, 1>>
       ELSE /\ sent' = <<sent[1], sent[2] + 1>>
            /\ UNCHANGED lines
    /\ wire' = Append(wire, sent')
    /\ UNCHANGED <<statsVars, phase, ended, chunk, pending, buf, out, counted>>

Close ==
    /\ Upstream
    /\ ended' \in {"eof", "error"}
    /\ UNCHANGED <<statsVars, phase, lines, sent, wire, chunk, pending, buf,
                   out, counted>>

-----------------------------------------------------------------------------
(* TapReader *)

\* Mutant: what is left of the last Read is dropped.
FeedFresh == pending' = chunk'

Feed == pending' = pending \o chunk'

\* A Read takes what has arrived; how much that is is up to Send.  Stream
\* reads only when its buffer holds no whole line.
Read ==
    /\ phase = "stream" /\ wire # <<>>
    /\ chunk = <<>> /\ ~Ends(buf)
    /\ chunk' = wire
    /\ wire' = <<>>
    /\ Feed
    /\ UNCHANGED <<statsVars, phase, lines, sent, ended, buf, out, counted>>

\* The trimmed line begins with "data:" and holds the usage.
SeesUsage(line) ==
    Len(line) = 3 /\ lines[line[1][1]] = "usage"

\* One turn of feed's loop: the next whole line is cut off and, if it holds
\* usage, counted.
FeedLine ==
    /\ chunk # <<>> /\ Ends(pending)
    /\ pending' = RestOf(pending)
    /\ IF SeesUsage(FirstLine(pending))
       THEN /\ \E n \in Tokens : RecordTokens(Model, n)
            /\ counted' = counted + 1
       ELSE UNCHANGED <<data, dirty, counted>>
    /\ UNCHANGED <<file, flusher, stopping, broken,
                   phase, lines, sent, ended, wire, chunk, buf, out>>

\* The Read returns and Stream's bufio.Reader has the pieces.
ReadReturns ==
    /\ chunk # <<>> /\ ~Ends(pending)
    /\ buf' = buf \o chunk
    /\ chunk' = <<>>
    /\ UNCHANGED <<statsVars, phase, lines, sent, ended, wire, pending, out,
                   counted>>

-----------------------------------------------------------------------------
(* Stream *)

Streaming == phase = "stream" /\ chunk = <<>>

WriteLine ==
    /\ Streaming /\ Ends(buf)
    /\ out' = out \o FirstLine(buf)
    /\ buf' = RestOf(buf)
    /\ UNCHANGED <<statsVars, phase, lines, sent, ended, wire, chunk, pending,
                   counted>>

\* Mutant: any line upstream sent counts for its [DONE].
SawAnything(s) == WholeIn(s) # {}

SawDone(s) == \E n \in WholeIn(s) : lines[n] = "done"

\* The client is gone: the write fails, and so does what comes after it.
WriteFails ==
    /\ Streaming
    /\ \/ Ends(buf)
       \/ /\ ended # "open" /\ wire = <<>>
          /\ buf # <<>> \/ (ended = "eof" /\ ~SawDone(out))
    /\ phase' = "failed"
    /\ UNCHANGED <<statsVars, lines, sent, ended, wire, chunk, pending, buf,
                   out, counted>>

\* Upstream has ended and every line is written.  What is left of an
\* unfinished line is written too; after an EOF a [DONE] follows if none was
\* seen, after an error the body of an error.
StreamEnds ==
    /\ Streaming /\ ended # "open" /\ wire = <<>> /\ ~Ends(buf)
    /\ LET written == out \o buf
       IN  out' = CASE ended = "error" -> Append(written, ErrorBody)
                    [] SawDone(written) -> written
                    [] OTHER -> Append(written, DoneLine)
    /\ buf' = <<>>
    /\ phase' = IF ended = "error" THEN "failed" ELSE "answered"
    /\ UNCHANGED <<statsVars, lines, sent, ended, wire, chunk, pending, counted>>

-----------------------------------------------------------------------------
(* Aggregate *)

\* Without the tap a Read has no effect but to fill the buffer.
ReadAll ==
    /\ phase = "aggregate" /\ wire # <<>>
    /\ buf' = buf \o wire
    /\ wire' = <<>>
    /\ UNCHANGED <<statsVars, phase, lines, sent, ended, chunk, pending, out,
                   counted>>

\* The tokens of the answer's usage, 0 if it has none.
ExtractUsageTokens(answer) == IF answer.usage = 0 THEN {0} ELSE Tokens

\* Also a last line without its newline is decoded.
Answer == Aggregate(lines, WholeIn(buf))

\* Every answer is counted, also one without usage.
AnswerWhole ==
    /\ phase = "aggregate" /\ ended = "eof" /\ wire = <<>>
    /\ \E n \in ExtractUsageTokens(Answer) : RecordTokens(Model, n)
    /\ counted' = counted + 1
    /\ phase' = "answered"
    /\ UNCHANGED <<file, flusher, stopping, broken,
                   lines, sent, ended, wire, chunk, pending, buf, out>>

\* An error of upstream's answer is passed on and counted nowhere.
AggregateFails ==
    /\ phase = "aggregate" /\ ended = "error" /\ wire = <<>>
    /\ phase' = "failed"
    /\ UNCHANGED <<statsVars, lines, sent, ended, wire, chunk, pending, buf,
                   out, counted>>

-----------------------------------------------------------------------------
(* The recorder beside it *)

Recorder ==
    /\ \/ Encode \/ Write
       \/ phase = "others" /\ (Event \/ LastFlush \/ Stop \/ Restart \/ DiskChanges)
    /\ UNCHANGED reqVars

Init ==
    /\ StatsInit
    /\ phase \in {"stream", "aggregate", "others"}
    /\ lines = <<>> /\ sent = <<0, Eol>> /\ ended = "open"
    /\ wire = <<>> /\ chunk = <<>> /\ pending = <<>> /\ buf = <<>>
    /\ out = <<>> /\ counted = 0

Request ==
    \/ Read \/ FeedLine \/ ReadReturns
    \/ WriteLine \/ WriteFails \/ StreamEnds
    \/ ReadAll \/ AnswerWhole \/ AggregateFails

Next == Send \/ Close \/ Request \/ Recorder

\* Run is a goroutine of its own with a ticker, and main returns once it has
\* been told to stop; nothing is assumed of upstream, clients or the disk.
Spec ==
    /\ Init /\ [][Next]_vars
    /\ WF_vars(Encode /\ UNCHANGED reqVars)
    /\ WF_vars(Write /\ UNCHANGED reqVars)
    /\ WF_vars(Restart /\ stopping /\ UNCHANGED reqVars)

-----------------------------------------------------------------------------
(* Properties *)

\* An answered stream, as opposed to an aggregate: Stream has written to out.
Streamed == phase = "answered" /\ out # <<>>

\* The lines of a text that are whole and end with a newline: what a reader
\* of the stream understands of it.
WholeLines(s) == {n \in WholeIn(s) : <<n, Eol>> \in Range(s)}

\* The reports' columns add up, in memory and in the file, whatever mixture
\* of answers, failures, saves and restarts they come from.
RowsAddUp == AddsUp(data) /\ (file # Absent => AddsUp(file))

\* However the bytes of a stream are cut into reads, each usage frame that
\* arrived whole, with its newline, is counted exactly once, and an aggregated
\* answer once.
UsageCountedOnce ==
    /\ chunk = <<>> /\ (phase = "stream" \/ Streamed) =>
           counted = Cardinality({n \in DOMAIN lines :
                         /\ lines[n] = "usage"
                         /\ <<n, Eol>> \in Range(out \o buf)})
    /\ phase = "answered" /\ ~Streamed => counted = 1

\* What a streaming client understands: it reads as far as the first [DONE].
ReadByClient(s) ==
    {n \in WholeLines(s) : \A m \in 1 .. n - 1 : lines[m] # "done"}

\* Upstream says nothing more after a [DONE] (its usage may still follow).
SilentAfterDone ==
    \A n \in DOMAIN lines : lines[n] \in {"text"} \cup Opens \cup ArgParts =>
        \A m \in 1 .. n - 1 : lines[m] # "done"

\* The answer a client gets without streaming says what the lines say that a
\* streaming client reads, for deltas in any order, if the stream ends with a
\* whole line.  Aggregate does not stop at [DONE]: a text after it would be in
\* the one answer and not in the other, so the two agree only for an upstream
\* that is silent from there on.
SameAnswer ==
    /\ Streamed /\ sent[2] = Eol
    /\ "message" \notin Range(lines) /\ SilentAfterDone
    => Says(Aggregate(lines, DOMAIN lines), lines, ReadByClient(out))

\* A stream that ended with a whole line is closed with a [DONE], upstream's
\* or Stream's own, and with no second one of its own.
ClosedWithDone ==
    Streamed /\ sent[2] = Eol =>
        (Last(out) = DoneLine <=>
            \A n \in WholeLines(out) : lines[n] # "done")

\* Once the disk works again what was counted reaches the file, or a restart
\* has gone back to the file.
TotalsReachFile ==
    <>[]~broken =>
        \A n \in 1 .. MaxTotal :
            data.sum.total = n ~>
                \/ data.sum.total < n
                \/ file # Absent /\ file.sum.total >= n
=============================================================================
