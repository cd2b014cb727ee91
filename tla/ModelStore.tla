----------------------------- MODULE ModelStore -----------------------------
(***************************************************************************)
(* The model list (internal/models/models.go): the admin handler and the   *)
(* scheduler refresh it, each with an account it picks from the pool, and  *)
(* the server may stop and start at any point.  The loop of PickExcluding  *)
(* is PickLoop's; chats run it too, with the accounts they have tried.     *)
(*                                                                         *)
(* A list is the number of the upstream's change it was read after; Seeds, *)
(* the static table, is older than all.  Set holds the store's lock over   *)
(* the whole replacement and save.  models_file is not empty.              *)
(***************************************************************************)
EXTENDS PickLoop

CONSTANTS
    Handlers,     \* calls of adminModelsRefresh
    Schedulers,   \* scheduler loops: calls of RunModelRefreshNow
    MaxVersion    \* bound on the changes of the upstream's list

ASSUME MaxVersionAssumption == MaxVersion \in Nat \ {0}

Refreshers == Handlers \cup Schedulers

Chat  == "chat"
ASSUME ChatAssumption == Chat \notin Refreshers

Seeds == 0         \* StaticModels
Empty == 0 - 1     \* a list without a model

VARIABLES
    caller,     \* who runs the pick; Chat when nobody does
    phase,      \* phase[w]: what refresher w does next
    acct,       \* acct[w]: the account w asks with; None is a nil pointer
    fetched,    \* fetched[w]: the list w was answered
    upstream,   \* the list the upstream has now
    items,      \* Store.items
    file,       \* the list in models_file, Seeds when there is none
    shifted,    \* shifted[w]: the pool has changed since w's first pick
    overtaken   \* overtaken[w]: another Set came after w's answer

refreshVars == <<caller, phase, acct, fetched, shifted>>
listVars    == <<upstream, items, file, overtaken>>
vars        == <<pickVars, refreshVars, listVars>>

Init ==
    /\ PickInit
    /\ caller = Chat
    /\ phase = [w \in Refreshers |-> "idle"]
    /\ acct = [w \in Refreshers |-> None]
    /\ fetched = [w \in Refreshers |-> Seeds]
    /\ upstream = 1
    /\ items = Seeds /\ file = Seeds
    /\ shifted = [w \in Refreshers |-> FALSE]
    /\ overtaken = [w \in Refreshers |-> FALSE]

ChatPicks(excluded) ==
    /\ Call(excluded)
    /\ caller' = Chat
    /\ UNCHANGED <<phase, acct, fetched, shifted, listVars>>

\* A refresh begins with Pick; the handler calls it a second time to use it.
StartRefresh(w) ==
    /\ phase[w] = "idle"
    /\ Call({})
    /\ caller' = w
    /\ phase' = [phase EXCEPT ![w] = IF w \in Handlers THEN "checking" ELSE "picking"]
    /\ shifted' = [shifted EXCEPT ![w] = FALSE]
    /\ UNCHANGED <<acct, fetched, listVars>>

PickAgain(w) ==
    /\ phase[w] = "checked"
    /\ Call({})
    /\ caller' = w
    /\ phase' = [phase EXCEPT ![w] = "picking"]
    /\ UNCHANGED <<acct, fetched, shifted, listVars>>

VisitNext == \E u \in Accounts : Visit(u) /\ UNCHANGED <<refreshVars, listVars>>

ChatPicked ==
    /\ caller = Chat
    /\ Return
    /\ UNCHANGED <<refreshVars, listVars>>

\* Mutant: the handler goes on whether or not there is an account.
CheckedAnyway(w) == "checked"

\* 503 no_healthy_account when there is none.
Checked(w) == IF best = None THEN "idle" ELSE "checked"

HandlerChecked(w) ==
    /\ caller = w /\ phase[w] = "checking"
    /\ Return
    /\ caller' = Chat
    /\ phase' = [phase EXCEPT ![w] = Checked(w)]
    /\ UNCHANGED <<acct, fetched, shifted, listVars>>

\* The scheduler stops at nil; the handler does not look.
Picked(w) ==
    /\ caller = w /\ phase[w] = "picking"
    /\ Return
    /\ acct' = [acct EXCEPT ![w] = best]
    /\ phase' = [phase EXCEPT ![w] =
                    IF w \in Schedulers /\ best = None THEN "idle" ELSE "fetching"]
    /\ caller' = Chat
    /\ UNCHANGED <<fetched, shifted, listVars>>

\* Mutant: an answer without models is a list like any other.
Accepted(list) == TRUE

IsList(list) == list # Empty

\* FetchModels is answered with the upstream's list, or an empty one.  With a
\* nil account it panics instead (FetchFails).
Fetch(w, list) ==
    /\ phase[w] = "fetching" /\ acct[w] # None
    /\ list \in {upstream, Empty} /\ IsList(list)
    /\ fetched' = [fetched EXCEPT ![w] = list]
    /\ phase' = [phase EXCEPT ![w] = "setting"]
    /\ acct' = [acct EXCEPT ![w] = None]
    /\ shifted' = [shifted EXCEPT ![w] = FALSE]
    /\ UNCHANGED <<pickVars, caller, listVars>>

\* Any error, the empty list among them, and net/http's recovery of the
\* handler's panic: the list stays.
FetchFails(w) ==
    /\ phase[w] = "fetching"
    /\ phase' = [phase EXCEPT ![w] = "idle"]
    /\ acct' = [acct EXCEPT ![w] = None]
    /\ shifted' = [shifted EXCEPT ![w] = FALSE]
    /\ UNCHANGED <<pickVars, caller, fetched, listVars>>

\* Store.Set: a save that fails leaves the file as it was.
Set(w, saved) ==
    /\ phase[w] = "setting"
    /\ items' = fetched[w]
    /\ file' = IF saved THEN fetched[w] ELSE file
    /\ phase' = [phase EXCEPT ![w] = "idle"]
    /\ fetched' = [fetched EXCEPT ![w] = Seeds]
    /\ overtaken' = [v \in Refreshers |->
                        v # w /\ (overtaken[v] \/ phase[v] = "setting")]
    /\ UNCHANGED <<pickVars, caller, acct, shifted, upstream>>

PoolChanges(h, c) ==
    /\ Change(h, c)
    /\ shifted' = [w \in Refreshers |-> phase[w] \in {"checked", "fetching"}]
    /\ UNCHANGED <<caller, phase, acct, fetched, listVars>>

UpstreamChanges ==
    /\ upstream < MaxVersion
    /\ upstream' = upstream + 1
    /\ UNCHANGED <<pickVars, refreshVars, items, file, overtaken>>

\* Load: a missing, unreadable or empty file gives the seeds.
Loaded == IF file = Empty THEN Seeds ELSE file

\* The process ends, perhaps in the middle of all this, and starts again.
Restart ==
    /\ healthy' = healthy /\ credits' = credits
    /\ tried' = {} /\ toVisit' = {} /\ best' = None /\ returned' = TRUE
    /\ caller' = Chat
    /\ phase' = [w \in Refreshers |-> "idle"]
    /\ acct' = [w \in Refreshers |-> None]
    /\ fetched' = [w \in Refreshers |-> Seeds]
    /\ shifted' = [w \in Refreshers |-> FALSE]
    /\ overtaken' = [w \in Refreshers |-> FALSE]
    /\ items' = Loaded
    /\ UNCHANGED <<upstream, file>>

Next ==
    \/ \E T \in SUBSET Accounts : ChatPicks(T)
    \/ VisitNext
    \/ ChatPicked
    \/ \E w \in Refreshers :
          \/ StartRefresh(w) \/ PickAgain(w) \/ HandlerChecked(w) \/ Picked(w)
          \/ \E list \in {upstream, Empty} : Fetch(w, list)
          \/ FetchFails(w)
          \/ \E saved \in BOOLEAN : Set(w, saved)
    \/ \E h \in [Accounts -> BOOLEAN], c \in [Accounts -> Balances] : PoolChanges(h, c)
    \/ UpstreamChanges
    \/ Restart

Spec == Init /\ [][Next]_vars

-----------------------------------------------------------------------------

\* The upstream is asked with a healthy account, one that fits now, unless
\* the pool changed while the refresh was under way; only the handler, and
\* only then, can be left with no account after it checked there was one.
AskedFits ==
    \A w \in Refreshers : phase[w] = "fetching" =>
        /\ acct[w] = None => w \in Handlers /\ shifted[w]
        /\ acct[w] # None /\ ~shifted[w] => healthy[acct[w]]

\* The list served is never emptied, and goes back to an older one only when
\* the server starts again, or when a refresh answered before another one's
\* Set comes last: a failed or empty answer never costs the list.
ListGoesForward ==
    [][ \/ items' >= items
        \/ Restart
        \/ \E w \in Refreshers, saved \in BOOLEAN :
              overtaken[w] /\ Set(w, saved) /\ items' # Empty ]_items
=============================================================================
