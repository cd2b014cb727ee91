------------------------------ MODULE PickLoop ------------------------------
(***************************************************************************)
(* The loop of Pool.PickExcluding (internal/pool/pool.go), one range step  *)
(* at a time.  Go leaves the order of a range over a map open, so each     *)
(* step visits any account not visited yet.  The read lock is held from    *)
(* before now is taken until the return: byUID and the clock are constant  *)
(* during the loop, and only health and credits of an entry matter.        *)
(* Between two calls the pool changes in any way.  Calls that run at the   *)
(* same time do not see each other, so that one at a time is enough.       *)
(*                                                                         *)
(* Reference is what the other modules use for the whole call: any of the  *)
(* richest healthy accounts not tried, nil when there is none.             *)
(***************************************************************************)
EXTENDS Integers

CONSTANTS
    Accounts,   \* the uids in the pool
    Balances    \* the credits an entry may hold

ASSUME BalancesAssumption == Balances \subseteq Int

None == "none"             \* best == nil
ASSUME NoneAssumption == None \notin Accounts

VARIABLES
    healthy,   \* healthy[u]: e.healthy(now) of u's entry
    credits,   \* credits[u]: e.credits of u's entry
    tried,     \* the argument: uids the request has already tried
    toVisit,   \* accounts the range has not reached yet
    best,      \* the local variable best
    returned   \* the last call has returned best

pickVars == <<healthy, credits, tried, toVisit, best, returned>>

PickInit ==
    /\ healthy \in [Accounts -> BOOLEAN]
    /\ credits \in [Accounts -> Balances]
    /\ tried = {}
    /\ toVisit = {}
    /\ best = None
    /\ returned = TRUE

\* Pick is PickExcluding of nothing.
Call(excluded) ==
    /\ returned
    /\ tried' = excluded
    /\ toVisit' = Accounts
    /\ best' = None
    /\ returned' = FALSE
    /\ UNCHANGED <<healthy, credits>>

Skip(u) == u \in tried \/ ~healthy[u]

\* Mutant: the comparison is the wrong way round.
Poorer(u) == best = None \/ credits[u] < credits[best]

Better(u) == best = None \/ credits[u] > credits[best]

Visit(u) ==
    /\ u \in toVisit
    /\ toVisit' = toVisit \ {u}
    /\ best' = IF ~Skip(u) /\ Better(u) THEN u ELSE best
    /\ UNCHANGED <<healthy, credits, tried, returned>>

\* The caller gets best; the locals of the call are gone.
Return ==
    /\ toVisit = {}
    /\ ~returned
    /\ returned' = TRUE
    /\ tried' = {} /\ best' = None
    /\ UNCHANGED <<healthy, credits, toVisit>>

\* Any other method of the pool, or a cooldown that runs out.
Change(h, c) ==
    /\ returned
    /\ healthy' = h /\ credits' = c
    /\ UNCHANGED <<tried, toVisit, best, returned>>

PickNext ==
    \/ \E T \in SUBSET Accounts : Call(T)
    \/ \E u \in Accounts : Visit(u)
    \/ Return
    \/ \E h \in [Accounts -> BOOLEAN], c \in [Accounts -> Balances] : Change(h, c)

PickSpec == PickInit /\ [][PickNext]_pickVars

-----------------------------------------------------------------------------

\* The accounts the README promises to pick from: healthy, not yet tried by
\* this request.
Candidates == {u \in Accounts : healthy[u] /\ u \notin tried}

Reference == {u \in Candidates :
                 \A v \in Candidates : credits[v] <= credits[u]}

PickTypeOK ==
    /\ healthy \in [Accounts -> BOOLEAN]
    /\ credits \in [Accounts -> Balances]
    /\ tried \subseteq Accounts
    /\ toVisit \subseteq Accounts
    /\ best \in Accounts \cup {None}
    /\ returned \in BOOLEAN

\* The loop invariant: best is a richest candidate among those visited.
BestSoFar ==
    ~returned =>
    LET visited == Candidates \ toVisit
    IN  IF best = None THEN visited = {}
        ELSE /\ best \in visited
             /\ \A v \in visited : credits[v] <= credits[best]

\* Whatever the iteration order, and whatever happened to the pool before
\* the call, PickExcluding returns a richest healthy account the request has
\* not tried, and nil only when there is none.
PicksRichest ==
    ~returned /\ toVisit = {} =>
        IF best = None THEN Candidates = {} ELSE best \in Reference
=============================================================================
