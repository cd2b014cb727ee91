--------------------------------- MODULE Sse ---------------------------------
(***************************************************************************)
(* Aggregate and mergeToolCallDelta (internal/upstream/sse.go): the fold   *)
(* over the lines of an event stream that makes one answer out of them,    *)
(* and what a client that reads the stream itself puts together.           *)
(*                                                                         *)
(* Lines are numbered; of a line only its kind matters, and its number     *)
(* stands for the text, name or arguments it carries.  The fields that     *)
(* only keep the first or the last value seen (id, model, created, role,   *)
(* finish_reason, reasoning_content) are left out.                         *)
(***************************************************************************)
EXTENDS Integers, SequencesExt

\* "open": a tool call's id, type and name; "args": a part of its arguments;
\* "other": blank lines, comments, chunks without any of this.
Kinds == {"text", "message", "open0", "args0", "open1", "args1",
          "usage", "done", "other"}

Opens == {"open0", "open1"}
ArgParts == {"args0", "args1"}
Indices == {0, 1}

\* A fragment without an index belongs to call 0.
IndexOf(kind) == IF kind \in {"open1", "args1"} THEN 1 ELSE 0

NewCall == [name |-> 0, args |-> <<>>]

\* The name is overwritten, the arguments are appended.
MergeToolCallDelta(call, kind, line) ==
    IF kind \in Opens THEN [call EXCEPT !.name = line]
    ELSE [call EXCEPT !.args = Append(@, line)]

\* Mutant: fragments go to the call that was opened last.
TouchLast(calls, kind, line) ==
    LET i == IF kind \in Opens \/ calls = <<>> THEN IndexOf(kind)
             ELSE CHOOSE j \in DOMAIN calls :
                      \A k \in DOMAIN calls : calls[k].name <= calls[j].name
    IN  [j \in DOMAIN calls \cup {i} |->
            IF j # i THEN calls[j]
            ELSE MergeToolCallDelta(IF i \in DOMAIN calls THEN calls[i]
                                    ELSE NewCall, kind, line)]

\* toolCalls[idx], made when it is first seen.
Touch(calls, kind, line) ==
    LET i == IndexOf(kind)
    IN  [j \in DOMAIN calls \cup {i} |->
            IF j # i THEN calls[j]
            ELSE MergeToolCallDelta(IF i \in DOMAIN calls THEN calls[i]
                                    ELSE NewCall, kind, line)]

NoAnswer == [content |-> <<>>, delta |-> FALSE, usage |-> 0,
             calls |-> [i \in {} |-> NewCall]]

\* One line of the loop; it goes on after [DONE].
AddLine(kind, line, answer) ==
    CASE kind = "text" ->
             [answer EXCEPT !.content = Append(@, line), !.delta = TRUE]
      [] kind = "message" /\ ~answer.delta ->
             [answer EXCEPT !.content = Append(@, line)]
      [] kind = "usage" -> [answer EXCEPT !.usage = line]
      [] kind \in Opens \cup ArgParts ->
             [answer EXCEPT !.calls = Touch(@, kind, line)]
      [] OTHER -> answer

\* Aggregate(kinds, whole): kinds[n] is the kind of line n; only the lines in
\* whole decode, a line that was cut inside adds nothing.
Aggregate(kinds, whole) ==
    FoldLeftDomain(LAMBDA answer, n :
                       IF n \in whole THEN AddLine(kinds[n], n, answer) ELSE answer,
                   NoAnswer, kinds)

\* s lists the lines in S in their order.
Lists(s, S) == Range(s) = S /\ \A i, j \in DOMAIN s : i < j => s[i] < s[j]

\* The answer is what the lines in S say, without a loop: the texts in their
\* order, and for every call its last name and its arguments in their order.
Says(answer, kinds, S) ==
    LET Of(K) == {n \in S : kinds[n] \in K}
        OfCall(i, K) == {n \in Of(K) : IndexOf(kinds[n]) = i}
    IN  /\ Lists(answer.content, Of({"text"}))
        /\ DOMAIN answer.calls = {IndexOf(kinds[n]) : n \in Of(Opens \cup ArgParts)}
        /\ \A i \in DOMAIN answer.calls :
              /\ answer.calls[i].name = Max({0} \cup OfCall(i, Opens))
              /\ Lists(answer.calls[i].args, OfCall(i, ArgParts))
=============================================================================
