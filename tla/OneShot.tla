------------------------------- MODULE OneShot -------------------------------
(***************************************************************************)
(* What the README promises of a web login's session: it is consumed once. *)
(* A session that was opened is claimed by at most one request, its code   *)
(* is sent to upstream at most once, and what is closed stays closed.      *)
(***************************************************************************)
EXTENDS Naturals

CONSTANTS Ids

VARIABLES
    status,   \* of each session: "new", "open", "claimed" or "closed"
    sent      \* how often its code was sent to upstream

vars == <<status, sent>>

Init ==
    /\ status = [i \in Ids |-> "new"]
    /\ sent = [i \in Ids |-> 0]

\* Opening a session may be refused, and may close others that have expired.
Open(i, E) ==
    /\ status[i] = "new"
    /\ \A e \in E : status[e] = "open"
    /\ \E first \in {"open", "closed"} :
          status' = [j \in Ids |-> IF j = i THEN first
                                   ELSE IF j \in E THEN "closed"
                                   ELSE status[j]]
    /\ UNCHANGED sent

Claim(i) ==
    /\ status[i] = "open"
    /\ status' = [j \in Ids |-> IF j = i THEN "claimed" ELSE status[j]]
    /\ UNCHANGED sent

Send(i) ==
    /\ status[i] = "claimed" /\ sent[i] = 0
    /\ sent' = [j \in Ids |-> IF j = i THEN 1 ELSE sent[j]]
    /\ status' = [j \in Ids |-> IF j = i THEN "closed" ELSE status[j]]

\* Expired, claimed with another session's state, or cut off by a restart.
Close(E) ==
    /\ \A e \in E : status[e] \in {"open", "claimed"}
    /\ status' = [j \in Ids |-> IF j \in E THEN "closed" ELSE status[j]]
    /\ UNCHANGED sent

Next ==
    \/ \E i \in Ids, E \in SUBSET Ids : Open(i, E)
    \/ \E i \in Ids : Claim(i) \/ Send(i)
    \/ \E E \in SUBSET Ids : Close(E)

Spec == Init /\ [][Next]_vars
=============================================================================
