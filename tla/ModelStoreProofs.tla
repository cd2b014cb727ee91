-------------------------- MODULE ModelStoreProofs --------------------------
(***************************************************************************)
(* PickExcluding returns a richest healthy untried account, for every set  *)
(* of accounts, every balance, every iteration order and every change of   *)
(* the pool between the calls: the loop invariant BestSoFar is inductive   *)
(* given the types.  With it the refreshers of the model list: whom they   *)
(* ask (AskInv), and that the list goes back only by overlap or restart    *)
(* (ListInv).                                                              *)
(***************************************************************************)
EXTENDS ModelStore, TLAPS

\* The variables keep their types: best is nil or an account of the pool.
LEMMA PickTypes ==
  ASSUME PickTypeOK, [PickNext]_pickVars
  PROVE  PickTypeOK'
  BY DEF PickTypeOK, PickNext, Call, Visit, Return, Change, pickVars

\* Visiting one more account keeps best a richest visited candidate.
LEMMA VisitKeepsBest ==
  ASSUME PickTypeOK, BestSoFar, ~returned, NEW u \in Accounts, Visit(u)
  PROVE  BestSoFar'
<1> USE BalancesAssumption, NoneAssumption
<1>1. /\ Candidates' = Candidates /\ credits' = credits
      /\ u \in toVisit /\ toVisit' = toVisit \ {u}
  BY DEF Visit, Candidates
<1>2. credits \in [Accounts -> Int] /\ Candidates \subseteq Accounts
  BY DEF PickTypeOK, Candidates
<1>3. CASE Skip(u)
  <2>1. best' = best /\ u \notin Candidates
    BY <1>3 DEF Visit, Skip, Candidates
  <2>2. Candidates' \ toVisit' = Candidates \ toVisit
    BY <1>1, <2>1
  <2>3. QED
    BY <1>1, <2>1, <2>2 DEF BestSoFar
<1>4. CASE ~Skip(u) /\ Better(u)
  <2>1. best' = u /\ u \in Candidates /\ u # None
    BY <1>4 DEF Visit, Skip, Candidates, PickTypeOK
  <2>2. Candidates' \ toVisit' = (Candidates \ toVisit) \cup {u}
    BY <1>1, <2>1
  <2>3. \A v \in Candidates \ toVisit : credits[v] <= credits[u]
    BY <1>2, <1>4 DEF Better, BestSoFar
  <2>4. QED
    BY <1>1, <1>2, <2>1, <2>2, <2>3 DEF BestSoFar
<1>5. CASE ~Skip(u) /\ ~Better(u)
  <2>1. best' = best /\ best # None /\ u \in Candidates
        /\ ~(credits[u] > credits[best])
    BY <1>5 DEF Visit, Skip, Candidates, Better
  <2>2. Candidates' \ toVisit' = (Candidates \ toVisit) \cup {u}
    BY <1>1, <2>1
  <2>3. best \in Candidates \ toVisit
    BY <2>1 DEF BestSoFar
  <2>4. credits[u] <= credits[best]
    BY <1>2, <2>1, <2>3
  <2>5. QED
    BY <1>1, <2>1, <2>2, <2>3, <2>4 DEF BestSoFar
<1>6. QED
  BY <1>3, <1>4, <1>5

LEMMA PickKeepsBest ==
  ASSUME PickTypeOK, BestSoFar, [PickNext]_pickVars
  PROVE  BestSoFar'
<1>1. ASSUME NEW T \in SUBSET Accounts, Call(T) PROVE BestSoFar'
  BY <1>1 DEF Call, BestSoFar, Candidates
<1>2. ASSUME NEW u \in Accounts, Visit(u) PROVE BestSoFar'
  <2>1. CASE returned
    BY <1>2, <2>1 DEF Visit, BestSoFar
  <2>2. CASE ~returned
    BY <1>2, <2>2, VisitKeepsBest
  <2>3. QED
    BY <2>1, <2>2
<1>3. CASE Return
  BY <1>3 DEF Return, BestSoFar
<1>4. ASSUME NEW h \in [Accounts -> BOOLEAN], NEW c \in [Accounts -> Balances],
             Change(h, c)
      PROVE  BestSoFar'
  BY <1>4 DEF Change, BestSoFar
<1>5. CASE UNCHANGED pickVars
  BY <1>5 DEF pickVars, BestSoFar, Candidates
<1>6. QED
  BY <1>1, <1>2, <1>3, <1>4, <1>5 DEF PickNext

LEMMA PickInitOK == PickInit => PickTypeOK /\ BestSoFar
  BY DEF PickInit, PickTypeOK, BestSoFar

LEMMA BestIsRichest == BestSoFar => PicksRichest
  BY DEF BestSoFar, PicksRichest, Reference

\* The loop invariant, and with it the result of the call: PickExcluding
\* returns a richest healthy account not yet tried, nil only if none is left.
THEOREM PickCorrect == PickSpec => []PicksRichest
<1>1. PickTypeOK /\ BestSoFar /\ [PickNext]_pickVars => (PickTypeOK /\ BestSoFar)'
  BY PickTypes, PickKeepsBest
<1>2. QED
  BY <1>1, PickInitOK, BestIsRichest, PTL DEF PickSpec

-----------------------------------------------------------------------------
(* Whom a refresh asks *)

Phases == {"idle", "checking", "checked", "picking", "fetching", "setting"}

RefreshTypeOK ==
    /\ phase \in [Refreshers -> Phases]
    /\ acct \in [Refreshers -> Accounts \cup {None}]
    /\ shifted \in [Refreshers -> BOOLEAN]

\* A refresher that is picking runs the loop, with nothing excluded.
Calling ==
    \A w \in Refreshers : phase[w] \in {"checking", "picking"} =>
        ~returned /\ caller = w /\ tried = {}

\* A handler that goes on has seen an account, which is there still unless
\* the pool has changed.
Found ==
    \A w \in Handlers : phase[w] \in {"checked", "picking"} /\ ~shifted[w] =>
        \E u \in Accounts : healthy[u]

AskInv == /\ PickTypeOK /\ BestSoFar
          /\ RefreshTypeOK /\ Calling /\ Found /\ AskedFits

\* Every step but the restart is one of the loop or leaves it alone.
LEMMA StepPicks ==
  ASSUME [Next]_vars
  PROVE  [PickNext]_pickVars \/ Restart
<1>1. ASSUME NEW w \in Refreshers,
             \/ StartRefresh(w) \/ PickAgain(w) \/ HandlerChecked(w) \/ Picked(w)
             \/ (\E list \in {upstream, Empty} : Fetch(w, list))
             \/ FetchFails(w)
             \/ \E saved \in BOOLEAN : Set(w, saved)
      PROVE  [PickNext]_pickVars
  BY <1>1 DEF StartRefresh, PickAgain, HandlerChecked, Picked, Fetch, FetchFails,
              Set, PickNext
<1>2. QED
  BY <1>1 DEF Next, vars, ChatPicks, VisitNext, ChatPicked, PoolChanges,
              UpstreamChanges, PickNext

LEMMA RestartPicks ==
  ASSUME PickTypeOK, Restart
  PROVE  PickTypeOK' /\ BestSoFar'
  BY DEF PickTypeOK, BestSoFar, Restart

\* When the loop has ended with nothing excluded, nil means that no account
\* is healthy.
LEMMA PickedFits ==
  ASSUME PickTypeOK, BestSoFar, ~returned, toVisit = {}, tried = {}
  PROVE  IF best = None THEN \A u \in Accounts : ~healthy[u]
         ELSE best \in Accounts /\ healthy[best]
  BY DEF BestSoFar, Candidates

\* Steps that change no local of a refresher, nor what they rely on.
LEMMA AskStill ==
  ASSUME AskInv, UNCHANGED <<phase, acct, shifted, healthy>>,
         \/ UNCHANGED <<returned, caller, tried>>
         \/ returned
         \/ caller = Chat
  PROVE  (RefreshTypeOK /\ Calling /\ Found /\ AskedFits)'
  BY ChatAssumption DEF AskInv, RefreshTypeOK, Calling, Found, AskedFits, Refreshers

LEMMA StartOK ==
  ASSUME AskInv, NEW w \in Refreshers, StartRefresh(w) \/ PickAgain(w)
  PROVE  (RefreshTypeOK /\ Calling /\ Found /\ AskedFits)'
<1>1. returned /\ returned' = FALSE /\ tried' = {} /\ caller' = w
      /\ healthy' = healthy /\ acct' = acct
  BY DEF StartRefresh, PickAgain, Call
<1>2. \A v \in Refreshers : phase[v] \notin {"checking", "picking"}
  BY <1>1 DEF AskInv, Calling
<1>3. phase'[w] \in {"checking", "picking"} /\ phase' \in [Refreshers -> Phases]
      /\ \A v \in Refreshers \ {w} : phase'[v] = phase[v]
  BY DEF StartRefresh, PickAgain, AskInv, RefreshTypeOK, Phases
<1>4. shifted' \in [Refreshers -> BOOLEAN]
      /\ \A v \in Refreshers \ {w} : shifted'[v] = shifted[v]
  BY DEF StartRefresh, PickAgain, AskInv, RefreshTypeOK
<1>5. RefreshTypeOK' /\ Calling'
  BY <1>1, <1>2, <1>3, <1>4 DEF AskInv, RefreshTypeOK, Calling
<1>6. AskedFits'
  BY <1>1, <1>3, <1>4 DEF AskInv, AskedFits
<1>7. w \in Handlers /\ phase'[w] = "picking" =>
          phase[w] = "checked" /\ shifted'[w] = shifted[w]
  BY DEF StartRefresh, PickAgain, AskInv, RefreshTypeOK
<1>8. Found'
  BY <1>1, <1>3, <1>4, <1>7 DEF AskInv, Found, Refreshers
<1>9. QED
  BY <1>5, <1>6, <1>8

LEMMA EndOK ==
  ASSUME AskInv, NEW w \in Refreshers, HandlerChecked(w) \/ Picked(w)
  PROVE  (RefreshTypeOK /\ Calling /\ Found /\ AskedFits)'
<1>1. caller = w /\ ~returned /\ toVisit = {} /\ tried = {}
      /\ healthy' = healthy /\ shifted' = shifted
  BY DEF HandlerChecked, Picked, Return, AskInv, Calling
<1>2. IF best = None THEN \A u \in Accounts : ~healthy[u]
      ELSE best \in Accounts /\ healthy[best]
  BY <1>1, PickedFits DEF AskInv
<1>3. \A v \in Refreshers \ {w} : phase[v] \notin {"checking", "picking"}
  BY <1>1 DEF AskInv, Calling
<1>4. \A v \in Refreshers \ {w} : phase'[v] = phase[v] /\ acct'[v] = acct[v]
  BY DEF HandlerChecked, Picked, AskInv, RefreshTypeOK
<1>5. CASE HandlerChecked(w)
  <2>1. phase'[w] = Checked(w) /\ acct' = acct
        /\ phase' \in [Refreshers -> Phases]
    BY <1>5 DEF HandlerChecked, Checked, AskInv, RefreshTypeOK, Phases
  <2>2. RefreshTypeOK' /\ Calling' /\ AskedFits'
    BY <1>1, <1>3, <1>4, <2>1
    DEF AskInv, RefreshTypeOK, Calling, AskedFits, Checked
  <2>3. Found'
    BY <1>1, <1>2, <1>4, <2>1 DEF AskInv, Found, Checked, Refreshers
  <2>4. QED
    BY <2>2, <2>3
<1>6. CASE Picked(w)
  <2>1. /\ phase[w] = "picking" /\ acct'[w] = best
        /\ phase'[w] = IF w \in Schedulers /\ best = None THEN "idle" ELSE "fetching"
    BY <1>6 DEF Picked, AskInv, RefreshTypeOK
  <2>2. RefreshTypeOK'
    BY <1>1, <1>2, <1>6 DEF Picked, AskInv, PickTypeOK, RefreshTypeOK, Phases
  <2>3. Calling' /\ Found'
    BY <1>1, <1>3, <1>4, <2>1 DEF AskInv, Calling, Found, Refreshers
  <2>4. phase'[w] = "fetching" /\ best = None => w \in Handlers /\ shifted[w]
    BY <1>2, <2>1 DEF AskInv, Found, Refreshers
  <2>5. AskedFits'
    BY <1>1, <1>2, <1>4, <2>1, <2>4 DEF AskInv, AskedFits
  <2>6. QED
    BY <2>2, <2>3, <2>5
<1>7. QED
  BY <1>5, <1>6

LEMMA AnswerOK ==
  ASSUME AskInv, NEW w \in Refreshers,
         \/ \E list \in {upstream, Empty} : Fetch(w, list)
         \/ FetchFails(w)
         \/ \E saved \in BOOLEAN : Set(w, saved)
  PROVE  (RefreshTypeOK /\ Calling /\ Found /\ AskedFits)'
<1>1. UNCHANGED <<returned, caller, tried, healthy>>
  BY DEF Fetch, FetchFails, Set, pickVars
<1>2. phase' \in [Refreshers -> Phases] /\ phase'[w] \in {"idle", "setting"}
      /\ \A v \in Refreshers \ {w} : phase'[v] = phase[v]
  BY DEF Fetch, FetchFails, Set, AskInv, RefreshTypeOK, Phases
<1>3. /\ acct' \in [Refreshers -> Accounts \cup {None}]
      /\ shifted' \in [Refreshers -> BOOLEAN]
      /\ \A v \in Refreshers \ {w} : acct'[v] = acct[v] /\ shifted'[v] = shifted[v]
  BY DEF Fetch, FetchFails, Set, AskInv, RefreshTypeOK
<1>4. QED
  BY <1>1, <1>2, <1>3 DEF AskInv, RefreshTypeOK, Calling, Found, AskedFits, Refreshers

LEMMA PoolChangesOK ==
  ASSUME AskInv, NEW h, NEW c, PoolChanges(h, c)
  PROVE  (RefreshTypeOK /\ Calling /\ Found /\ AskedFits)'
<1>1. /\ returned /\ UNCHANGED <<phase, acct, caller>>
      /\ shifted' = [w \in Refreshers |-> phase[w] \in {"checked", "fetching"}]
  BY DEF PoolChanges, Change
<1>2. \A w \in Refreshers : phase[w] \notin {"checking", "picking"}
  BY <1>1 DEF AskInv, Calling
<1>3. RefreshTypeOK' /\ Calling'
  BY <1>1, <1>2 DEF AskInv, RefreshTypeOK, Calling
<1>4. Found'
  BY <1>1, <1>2 DEF Found, Refreshers
<1>5. AskedFits'
  BY <1>1 DEF AskInv, AskedFits
<1>6. QED
  BY <1>3, <1>4, <1>5

LEMMA AskNext == AskInv /\ [Next]_vars => AskInv'
<1> SUFFICES ASSUME AskInv, [Next]_vars PROVE AskInv'
  OBVIOUS
<1>1. (PickTypeOK /\ BestSoFar)'
  BY StepPicks, RestartPicks, PickTypes, PickKeepsBest DEF AskInv
<1>2. CASE Restart
  BY <1>1, <1>2 DEF Restart, AskInv, RefreshTypeOK, Calling, Found, AskedFits,
                    Phases, Refreshers
<1>3. ASSUME NEW T \in SUBSET Accounts, ChatPicks(T)
      PROVE  (RefreshTypeOK /\ Calling /\ Found /\ AskedFits)'
  BY <1>3, AskStill DEF ChatPicks, Call
<1>4. ASSUME VisitNext \/ ChatPicked \/ UpstreamChanges \/ UNCHANGED vars
      PROVE  (RefreshTypeOK /\ Calling /\ Found /\ AskedFits)'
  <2>1. UNCHANGED <<phase, acct, shifted, healthy>>
    BY <1>4 DEF VisitNext, Visit, ChatPicked, Return, UpstreamChanges,
                vars, pickVars, refreshVars
  <2>2. CASE ChatPicked
    BY <2>1, <2>2, AskStill DEF ChatPicked
  <2>3. CASE VisitNext \/ UpstreamChanges \/ UNCHANGED vars
    <3>1. UNCHANGED <<returned, caller, tried>>
      BY <2>3 DEF VisitNext, Visit, UpstreamChanges, vars, pickVars, refreshVars
    <3>2. QED
      BY <2>1, <3>1, AskStill
  <2>4. QED
    BY <1>4, <2>2, <2>3
<1>5. ASSUME NEW w \in Refreshers,
             \/ StartRefresh(w) \/ PickAgain(w) \/ HandlerChecked(w) \/ Picked(w)
             \/ (\E list \in {upstream, Empty} : Fetch(w, list))
             \/ FetchFails(w)
             \/ \E saved \in BOOLEAN : Set(w, saved)
      PROVE  (RefreshTypeOK /\ Calling /\ Found /\ AskedFits)'
  BY <1>5, StartOK, EndOK, AnswerOK
<1>6. ASSUME NEW h, NEW c, PoolChanges(h, c)
      PROVE  (RefreshTypeOK /\ Calling /\ Found /\ AskedFits)'
  BY <1>6, PoolChangesOK
<1>7. AskInv' \/ (RefreshTypeOK /\ Calling /\ Found /\ AskedFits)'
  BY <1>2, <1>3, <1>4, <1>5, <1>6 DEF Next
<1>8. QED
  BY <1>1, <1>7 DEF AskInv

LEMMA AskInvariant == Spec => []AskInv
<1>1. Init => AskInv
  <2>1. Init => PickTypeOK /\ BestSoFar
    BY PickInitOK DEF Init
  <2>2. Init => RefreshTypeOK /\ Calling /\ Found /\ AskedFits
    BY DEF Init, RefreshTypeOK, Calling, Found, AskedFits, Phases, Refreshers
  <2>3. QED
    BY <2>1, <2>2 DEF AskInv
<1>2. QED
  BY <1>1, AskNext, PTL DEF Spec

\* PickExcluding between the restarts, with refreshers and chats as its
\* callers.
THEOREM ModelsPickRichest == Spec => []PicksRichest
<1>1. AskInv => PicksRichest
  BY BestIsRichest DEF AskInv
<1>2. QED
  BY <1>1, AskInvariant, PTL

\* adminModelsRefresh and RunModelRefreshNow ask with a healthy account; the
\* handler's nil pointer needs a change of the pool between its two picks.
THEOREM ModelsAskedFits == Spec => []AskedFits
<1>1. AskInv => AskedFits
  BY DEF AskInv
<1>2. QED
  BY <1>1, AskInvariant, PTL

-----------------------------------------------------------------------------
(* The list *)

\* Lists are numbered up to upstream's; one that waits for its Set is no
\* older than the list served, unless another Set has come between.
ListInv ==
    /\ upstream \in Nat \ {0}
    /\ items \in 0 .. upstream /\ file \in 0 .. upstream
    /\ fetched \in [Refreshers -> 0 .. upstream]
    /\ phase \in [Refreshers -> Phases]
    /\ overtaken \in [Refreshers -> BOOLEAN]
    /\ \A w \in Refreshers : phase[w] = "setting" /\ ~overtaken[w] =>
           items <= fetched[w]
    /\ \A w \in Refreshers : overtaken[w] => phase[w] = "setting"

LEMMA SetList ==
  ASSUME ListInv, NEW w \in Refreshers, NEW saved \in BOOLEAN, Set(w, saved)
  PROVE  ListInv' /\ (items' >= items \/ overtaken[w]) /\ items' # Empty
<1>1. /\ phase[w] = "setting" /\ items' = fetched[w] /\ upstream' = upstream
      /\ fetched[w] \in 0 .. upstream /\ upstream \in Nat /\ items \in Nat
  BY DEF Set, ListInv
<1>2. items' >= items \/ overtaken[w]
  BY <1>1 DEF ListInv
<1>3. items' # Empty /\ 0 \in 0 .. upstream
  BY <1>1 DEF Empty
<1>4. /\ file' \in 0 .. upstream' /\ fetched' \in [Refreshers -> 0 .. upstream']
      /\ phase' \in [Refreshers -> Phases] /\ overtaken' \in [Refreshers -> BOOLEAN]
  BY <1>1, <1>3 DEF Set, ListInv, Phases, Seeds
<1>5. \A v \in Refreshers \ {w} :
          /\ phase'[v] = phase[v]
          /\ overtaken'[v] <=> (overtaken[v] \/ phase[v] = "setting")
  BY DEF Set, ListInv
<1>6. phase'[w] = "idle" /\ ~overtaken'[w]
  BY DEF Set, ListInv
<1>7. QED
  BY <1>1, <1>2, <1>3, <1>4, <1>5, <1>6 DEF ListInv

LEMMA FetchList ==
  ASSUME ListInv, NEW w \in Refreshers, NEW list \in {upstream, Empty},
         Fetch(w, list)
  PROVE  ListInv' /\ items' = items
<1>1. /\ list = upstream /\ UNCHANGED <<upstream, items, file, overtaken>>
      /\ phase[w] = "fetching" /\ fetched' = [fetched EXCEPT ![w] = list]
      /\ phase' = [phase EXCEPT ![w] = "setting"]
  BY DEF Fetch, IsList, listVars
<1>2. items <= upstream /\ upstream \in 0 .. upstream
  BY DEF ListInv
<1>3. \A v \in Refreshers : /\ phase'[v] = IF v = w THEN "setting" ELSE phase[v]
                            /\ fetched'[v] = IF v = w THEN upstream ELSE fetched[v]
  BY <1>1 DEF ListInv
<1>4. fetched' \in [Refreshers -> 0 .. upstream'] /\ phase' \in [Refreshers -> Phases]
  BY <1>1, <1>2 DEF ListInv, Phases
<1>5. QED
  BY <1>1, <1>2, <1>3, <1>4 DEF ListInv

\* Steps that touch neither list nor file and bring nobody to a Set.
LEMMA ListStill ==
  ASSUME ListInv, UNCHANGED <<items, file, overtaken, fetched>>,
         upstream' \in {upstream, upstream + 1},
         phase' \in [Refreshers -> Phases],
         \A w \in Refreshers : phase'[w] = "setting" <=> phase[w] = "setting"
  PROVE  ListInv' /\ items' = items
<1>1. upstream' \in Nat \ {0} /\ 0 .. upstream \subseteq 0 .. upstream'
  BY DEF ListInv
<1>2. QED
  BY <1>1 DEF ListInv

LEMMA ListNext ==
  ASSUME ListInv, [Next]_vars
  PROVE  /\ ListInv'
         /\ \/ items' >= items
            \/ Restart
            \/ \E w \in Refreshers, saved \in BOOLEAN :
                  overtaken[w] /\ Set(w, saved) /\ items' # Empty
<1>0. items \in Nat
  BY DEF ListInv
<1>1. CASE \/ \E T \in SUBSET Accounts : ChatPicks(T)
           \/ VisitNext \/ ChatPicked \/ UpstreamChanges \/ UNCHANGED vars
           \/ \E h \in [Accounts -> BOOLEAN], c \in [Accounts -> Balances] :
                 PoolChanges(h, c)
  <2>1. UNCHANGED <<items, file, overtaken, fetched, phase>>
        /\ upstream' \in {upstream, upstream + 1}
    BY <1>1 DEF ChatPicks, VisitNext, ChatPicked, UpstreamChanges, PoolChanges,
                vars, listVars, refreshVars
  <2>2. QED
    BY <1>0, <2>1, ListStill DEF ListInv
<1>2. ASSUME NEW w \in Refreshers,
             \/ StartRefresh(w) \/ PickAgain(w) \/ HandlerChecked(w) \/ Picked(w)
             \/ FetchFails(w)
      PROVE  ListInv' /\ items' = items
  <2>1. UNCHANGED <<items, file, overtaken, fetched, upstream>>
    BY <1>2 DEF StartRefresh, PickAgain, HandlerChecked, Picked, FetchFails, listVars
  <2>2. phase[w] # "setting" /\ \E p \in Phases \ {"setting"} :
            phase' = [phase EXCEPT ![w] = p]
    BY <1>2 DEF StartRefresh, PickAgain, HandlerChecked, Picked, FetchFails,
                Checked, Phases
  <2>3. phase' \in [Refreshers -> Phases]
        /\ \A v \in Refreshers : phase'[v] = "setting" <=> phase[v] = "setting"
    BY <2>2 DEF ListInv
  <2>4. QED
    BY <2>1, <2>3, ListStill
<1>3. CASE Restart
  <2>1. Loaded \in 0 .. upstream
    BY DEF Loaded, ListInv, Seeds
  <2>2. QED
    BY <1>3, <2>1 DEF Restart, ListInv, Seeds, Phases
<1>4. QED
  BY <1>0, <1>1, <1>2, <1>3, SetList, FetchList DEF Next

\* Set and its two callers: a failed or empty answer never costs the list,
\* and only an overlap or a restart brings an older one back.
THEOREM ModelsGoForward == Spec => ListGoesForward
<1>1. Init => ListInv
  BY DEF Init, ListInv, Seeds, Phases
<1>2. ListInv /\ [Next]_vars => ListInv'
  BY ListNext
<1>3. ListInv /\ [Next]_vars =>
        [ \/ items' >= items
          \/ Restart
          \/ \E w \in Refreshers, saved \in BOOLEAN :
                overtaken[w] /\ Set(w, saved) /\ items' # Empty ]_items
  BY ListNext
<1>4. QED
  BY <1>1, <1>2, <1>3, PTL DEF Spec, ListGoesForward
=============================================================================
