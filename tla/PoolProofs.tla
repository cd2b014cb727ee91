----------------------------- MODULE PoolProofs -----------------------------
(***************************************************************************)
(* The pool's invariants, for every set of accounts, every balance,        *)
(* threshold and cooldown length, and every order of calls, failed saves,  *)
(* restarts and ticks.  Inv, their conjunction with FileBounded, is inductive. *)
(* Every method but Add and NoteSuccess replaces at most one entry and     *)
(* then saves, so UpdateAndSave carries the argument: what is left to show *)
(* of a method is that the entry it writes is Good.                        *)
(***************************************************************************)
EXTENDS Pool, TLAPS

Bounded(e, t) == e.until # ZeroTime => \E d \in Durations : e.until <= t + d

\* CooldownBounded alone is not inductive: after a failed save the file lags
\* behind memory, and the next restart loads the cooldowns it holds.
FileBounded == \A u \in DOMAIN file : Bounded(file[u], now)

Inv == /\ TypeOK
       /\ ReasonsConsistent
       /\ FileMatchesMemory
       /\ CooldownBounded
       /\ FileBounded

Good(e, t) == e \in Entry /\ ReasonFits(e) /\ Bounded(e, t)

LEMMA InvGood == Inv => \A u \in DOMAIN byUID : Good(byUID[u], now)
  BY DEF Inv, TypeOK, ReasonsConsistent, CooldownBounded, Good, Bounded

\* Saving an entry keeps what a restart needs of it, and its reason.
LEMMA SavedFacts ==
  ASSUME NEW e \in Entry
  PROVE  /\ SavedOf(e) \in Saved
         /\ ReasonFits(e) => ReasonFits(SavedOf(e))
         /\ \A t : Bounded(e, t) => Bounded(SavedOf(e), t)
  BY DEF Bounded, Entry, Saved, SavedOf, ReasonFits

LEMMA LoadedFacts ==
  ASSUME NEW s \in Saved
  PROVE  /\ LoadedOf(s) \in Entry
         /\ SavedOf(LoadedOf(s)) = s
         /\ ReasonFits(s) => ReasonFits(LoadedOf(s))
         /\ LoadedOf(s).until = s.until
  BY ThresholdAssumption
  DEF Entry, Saved, SavedOf, LoadedOf, ReasonFits, Placeholder

LEMMA NewEntryFacts ==
  /\ NewEntry \in Entry
  /\ \A t : Good(NewEntry, t)
<1>1. NewEntry \in Entry
  <2>1. 0 \in 0 .. ErrThreshold - 1 /\ 0 \in Credits
    BY CreditsAssumption, ThresholdAssumption
  <2>2. QED
    BY <2>1 DEF NewEntry, Entry, Credential, ZeroTime
<1>2. ReasonFits(NewEntry) /\ \A t : Bounded(NewEntry, t)
  BY DEF NewEntry, ReasonFits, Bounded
<1>3. QED
  BY <1>1, <1>2 DEF Good

\* The entry that Enable and a successful reenabling leave behind.
LEMMA ClearedFacts ==
  ASSUME NEW e \in Entry, NEW x \in BOOLEAN, NEW c \in Credits
  PROVE  /\ [e EXCEPT !.credits = c, !.until = ZeroTime, !.reason = NoReason,
                       !.errCount = 0] \in Entry
         /\ [e EXCEPT !.disabled = x, !.until = ZeroTime, !.reason = NoReason,
                       !.errCount = 0] \in Entry
<1>1. 0 \in 0 .. ErrThreshold - 1 /\ ZeroTime \in Nat
  BY ThresholdAssumption DEF ZeroTime
<1>2. QED
  BY <1>1 DEF Entry

\* saveLocked preserves the invariant over any Good pool: a successful save
\* makes the file match, a failed one leaves a consistent older file behind.
LEMMA SaveKeepsInv ==
  ASSUME Inv, saveLocked, now' = now,
         DOMAIN byUID' \subseteq Accounts,
         byUID' \in [DOMAIN byUID' -> Entry],
         \A v \in DOMAIN byUID' : Good(byUID'[v], now)
  PROVE  Inv'
<1>1. /\ ReasonsConsistent => \A v \in DOMAIN byUID' : ReasonFits(byUID'[v])
      /\ CooldownBounded'
  BY DEF Good, Bounded, CooldownBounded
<1>2. CASE file' = SnapshotOf(byUID') /\ durable' = TRUE
  <2>1. /\ DOMAIN file' = DOMAIN byUID'
        /\ \A v \in DOMAIN file' : file'[v] = SavedOf(byUID'[v])
    BY <1>2 DEF SnapshotOf
  <2>2. \A v \in DOMAIN file' : file'[v] \in Saved /\ ReasonFits(file'[v])
    BY <2>1, SavedFacts DEF Good
  <2>3. file' \in [DOMAIN file' -> Saved]
    BY <1>2, <2>1, <2>2 DEF SnapshotOf
  <2>4. TypeOK'
    BY <1>2, <2>1, <2>3 DEF TypeOK, Inv
  <2>5. ReasonsConsistent'
    BY <2>2 DEF ReasonsConsistent, Good
  <2>6. FileMatchesMemory'
    BY <2>1 DEF FileMatchesMemory
  <2>7. FileBounded'
    <3>1. \A v \in DOMAIN file' : Bounded(SavedOf(byUID'[v]), now)
      BY <2>1, SavedFacts DEF Good
    <3>2. QED
      BY <2>1, <3>1 DEF FileBounded, Bounded
  <2>8. QED
    BY <1>1, <2>4, <2>5, <2>6, <2>7 DEF Inv
<1>3. CASE file' = file /\ durable' = FALSE
  <2>1. TypeOK'
    BY <1>3 DEF TypeOK, Inv
  <2>2. ReasonsConsistent'
    BY <1>3 DEF ReasonsConsistent, Inv, Good
  <2>3. FileMatchesMemory'
    BY <1>3 DEF FileMatchesMemory
  <2>4. FileBounded'
    BY <1>3 DEF FileBounded, Bounded, Inv
  <2>5. QED
    BY <1>1, <2>1, <2>2, <2>3, <2>4 DEF Inv
<1>4. QED
  BY <1>2, <1>3 DEF saveLocked

\* What Update does to the pool when the new entry is Good.
LEMMA UpdateFacts ==
  ASSUME Inv, NEW u \in Accounts, NEW e, Update(u, e),
         u \in DOMAIN byUID => Good(e, now)
  PROVE  /\ DOMAIN byUID' = DOMAIN byUID
         /\ byUID' \in [DOMAIN byUID' -> Entry]
         /\ \A v \in DOMAIN byUID' : Good(byUID'[v], now)
<1>1. CASE u \notin DOMAIN byUID
  BY <1>1, InvGood DEF Update, Inv, TypeOK
<1>2. CASE u \in DOMAIN byUID
  <2>1. byUID' = [byUID EXCEPT ![u] = e] /\ e \in Entry
    BY <1>2 DEF Update, Good
  <2>2. byUID \in [DOMAIN byUID -> Entry]
    BY DEF Inv, TypeOK
  <2>3. /\ DOMAIN byUID' = DOMAIN byUID
        /\ \A v \in DOMAIN byUID : byUID'[v] = IF v = u THEN e ELSE byUID[v]
    BY <2>1
  <2>4. byUID' \in [DOMAIN byUID -> Entry]
    BY <2>1, <2>2
  <2>5. \A v \in DOMAIN byUID : Good(byUID'[v], now)
    BY <1>2, <2>3, InvGood
  <2>6. QED
    BY <2>3, <2>4, <2>5
<1>3. QED
  BY <1>1, <1>2

LEMMA UpdateAndSave ==
  ASSUME Inv, NEW u \in Accounts, NEW e, Update(u, e), saveLocked, now' = now,
         u \in DOMAIN byUID => Good(e, now)
  PROVE  Inv'
  BY UpdateFacts, SaveKeepsInv DEF Inv, TypeOK

-----------------------------------------------------------------------------
(* One lemma per method *)

LEMMA SetCreditsInv ==
  ASSUME Inv, NEW u \in Accounts, NEW c \in Credits, SetCredits(u, c)
  PROVE  Inv'
<1>1. u \in DOMAIN byUID => Good([byUID[u] EXCEPT !.credits = c], now)
  BY InvGood DEF Good, Bounded, Entry, ReasonFits
<1>2. QED
  BY <1>1, UpdateAndSave DEF SetCredits

LEMMA CooldownEntryGood ==
  ASSUME Inv, NEW u \in DOMAIN byUID, NEW d \in Durations, NEW r \in Reasons
  PROVE  Good([byUID[u] EXCEPT !.until = now + d, !.reason = r,
                               !.errCount = 0], now)
<1>1. now + d \in Nat /\ now + d # 0 /\ r # NoReason /\ 0 \in 0 .. ErrThreshold - 1
  BY DurationsAssumption, ReasonsAssumption, ThresholdAssumption
  DEF Inv, TypeOK
<1>2. byUID[u] \in Entry
  BY InvGood DEF Good
<1> DEFINE e == byUID[u]
           f == [e EXCEPT !.until = now + d, !.reason = r, !.errCount = 0]
<1>3. f \in Entry
  BY <1>1, <1>2 DEF Entry
<1>4. f.disabled = e.disabled /\ f.until = now + d /\ f.reason = r
  BY <1>2 DEF Entry
<1>5. Bounded(f, now)
  BY <1>1, <1>4 DEF Bounded
<1>6. ReasonFits(f)
  BY <1>1, <1>4 DEF ReasonFits, ZeroTime
<1>7. QED
  BY <1>3, <1>5, <1>6 DEF Good

LEMMA CooldownInv ==
  ASSUME Inv, NEW u \in Accounts, NEW d \in Durations, NEW r \in Reasons,
         Cooldown(u, d, r) \/ ForceCooldown(u, r, d)
  PROVE  Inv'
  BY CooldownEntryGood, UpdateAndSave DEF Cooldown, ForceCooldown

LEMMA DisableInv ==
  ASSUME Inv, NEW u \in Accounts, NEW r \in Reasons, Disable(u, r)
  PROVE  Inv'
<1>1. u \in DOMAIN byUID =>
        Good([byUID[u] EXCEPT !.disabled = TRUE, !.reason = r], now)
  BY InvGood, ReasonsAssumption DEF Good, Bounded, Entry, ReasonFits
<1>2. QED
  BY <1>1, UpdateAndSave DEF Disable

LEMMA EnableInv ==
  ASSUME Inv, NEW u \in Accounts, Enable(u)
  PROVE  Inv'
<1>1. u \in DOMAIN byUID =>
        Good([byUID[u] EXCEPT !.disabled = FALSE, !.until = ZeroTime,
                              !.reason = NoReason, !.errCount = 0], now)
  <2> SUFFICES ASSUME u \in DOMAIN byUID
               PROVE  Good([byUID[u] EXCEPT !.disabled = FALSE,
                              !.until = ZeroTime, !.reason = NoReason,
                              !.errCount = 0], now)
    OBVIOUS
  <2> DEFINE e == byUID[u]
             f == [e EXCEPT !.disabled = FALSE, !.until = ZeroTime,
                            !.reason = NoReason, !.errCount = 0]
  <2>1. e \in Entry
    BY InvGood DEF Good
  <2>2. f \in Entry
    BY <2>1, ClearedFacts, CreditsAssumption
  <2>3. f.disabled = FALSE /\ f.until = ZeroTime /\ f.reason = NoReason
    BY <2>1 DEF Entry
  <2>4. QED
    BY <2>2, <2>3 DEF Good, Bounded, ReasonFits
<1>2. QED
  BY <1>1, UpdateAndSave DEF Enable

LEMMA ReenableInv ==
  ASSUME Inv, NEW u \in Accounts, NEW c \in Credits, ReenableIfCredits(u, c)
  PROVE  Inv'
<1>1. u \in DOMAIN byUID => Good(ReenabledEntry(byUID[u], c), now)
  <2> SUFFICES ASSUME u \in DOMAIN byUID
               PROVE  Good(ReenabledEntry(byUID[u], c), now)
    OBVIOUS
  <2>1. Good(byUID[u], now)
    BY InvGood
  <2>2. CASE c > 0 /\ ~byUID[u].disabled
    <3> DEFINE e == byUID[u]
               f == [e EXCEPT !.credits = c, !.until = ZeroTime,
                              !.reason = NoReason, !.errCount = 0]
    <3>1. e \in Entry /\ ReenabledEntry(e, c) = f
      BY <2>1, <2>2 DEF Good, ReenabledEntry
    <3>2. f \in Entry
      BY <3>1, ClearedFacts
    <3>3. f.disabled = e.disabled /\ f.until = ZeroTime /\ f.reason = NoReason
      BY <3>1 DEF Entry
    <3>4. QED
      BY <2>2, <3>1, <3>2, <3>3 DEF Good, Bounded, ReasonFits
  <2>3. CASE ~(c > 0 /\ ~byUID[u].disabled)
    BY <2>1, <2>3 DEF ReenabledEntry, Good, Bounded, Entry, ReasonFits
  <2>4. QED
    BY <2>2, <2>3
<1>2. QED
  BY <1>1, UpdateAndSave DEF ReenableIfCredits

LEMMA NoteErrorInv ==
  ASSUME Inv, NEW u \in Accounts, NEW d \in Durations, NoteError(u, d)
  PROVE  Inv'
<1>1. u \in DOMAIN byUID => Good(ErredEntry(byUID[u], d), now)
  <2> SUFFICES ASSUME u \in DOMAIN byUID
               PROVE  Good(ErredEntry(byUID[u], d), now)
    OBVIOUS
  <2>1. Good(byUID[u], now)
    BY InvGood
  <2>2. CASE byUID[u].errCount + 1 >= ErrThreshold
    BY <2>2, CooldownEntryGood, ReasonsAssumption DEF ErredEntry
  <2>3. CASE ~(byUID[u].errCount + 1 >= ErrThreshold)
    <3>1. byUID[u].errCount + 1 \in 0 .. ErrThreshold - 1
      BY <2>1, <2>3, ThresholdAssumption DEF Good, Entry
    <3>2. QED
      BY <2>1, <2>3, <3>1 DEF ErredEntry, Good, Bounded, Entry, ReasonFits
  <2>4. QED
    BY <2>2, <2>3
<1>2. QED
  BY <1>1, UpdateAndSave DEF NoteError

\* NoteSuccess does not save, and changes nothing a save would write.
LEMMA NoteSuccessInv ==
  ASSUME Inv, NEW u \in Accounts, NoteSuccess(u)
  PROVE  Inv'
<1> DEFINE e == [byUID[u] EXCEPT !.errCount = 0]
<1>1. u \in DOMAIN byUID => Good(e, now) /\ SavedOf(e) = SavedOf(byUID[u])
  BY InvGood, ThresholdAssumption
  DEF Good, Bounded, Entry, ReasonFits, SavedOf
<1>2. Update(u, e) /\ file' = file /\ now' = now /\ durable' = durable
  BY DEF NoteSuccess
<1>3. /\ DOMAIN byUID' = DOMAIN byUID
      /\ byUID' \in [DOMAIN byUID' -> Entry]
      /\ \A v \in DOMAIN byUID' : Good(byUID'[v], now)
  BY <1>1, <1>2, UpdateFacts
<1>4. \A v \in DOMAIN byUID : SavedOf(byUID'[v]) = SavedOf(byUID[v])
  <2>1. CASE u \notin DOMAIN byUID
    BY <1>2, <2>1 DEF Update
  <2>2. CASE u \in DOMAIN byUID
    <3> HIDE DEF e
    <3>1. byUID' = [byUID EXCEPT ![u] = e]
      BY <1>2, <2>2 DEF Update
    <3>2. QED
      BY <1>1, <2>2, <3>1
  <2>3. QED
    BY <2>1, <2>2
<1>5. TypeOK'
  BY <1>2, <1>3 DEF Inv, TypeOK
<1>6. ReasonsConsistent' /\ CooldownBounded'
  BY <1>2, <1>3 DEF Inv, ReasonsConsistent, CooldownBounded, Good, Bounded
<1>7. FileMatchesMemory'
  BY <1>2, <1>3, <1>4 DEF Inv, FileMatchesMemory
<1>8. FileBounded'
  BY <1>2 DEF Inv, FileBounded, Bounded
<1>9. QED
  BY <1>5, <1>6, <1>7, <1>8 DEF Inv

\* Add does not save either: the entry it may create is what a restart would
\* give an account the file does not list.
LEMMA AddInv ==
  ASSUME Inv, NEW u \in Accounts, Add(u)
  PROVE  Inv'
<1>1. /\ DOMAIN byUID' = DOMAIN byUID \cup {u}
      /\ \A v \in DOMAIN byUID' :
           byUID'[v] = IF v \notin DOMAIN byUID THEN NewEntry
                       ELSE IF v \in {u} THEN [byUID[v] EXCEPT !.a = Credential]
                       ELSE byUID[v]
      /\ byUID' = [v \in DOMAIN byUID' |-> byUID'[v]]
      /\ file' = file /\ now' = now /\ durable' = durable
  BY DEF Add, Added
<1>2. \A v \in DOMAIN byUID :
        LET e == [byUID[v] EXCEPT !.a = Credential]
        IN  Good(e, now) /\ SavedOf(e) = SavedOf(byUID[v])
  BY InvGood DEF Good, Bounded, Entry, ReasonFits, SavedOf, Credential
<1>3. \A v \in DOMAIN byUID' : Good(byUID'[v], now)
  BY <1>1, <1>2, InvGood, NewEntryFacts
<1>4. \A v \in DOMAIN byUID' :
        SavedOf(byUID'[v]) = IF v \in DOMAIN byUID THEN SavedOf(byUID[v])
                                                   ELSE SavedOf(NewEntry)
  BY <1>1, <1>2
<1>5. byUID' \in [DOMAIN byUID' -> Entry]
  BY <1>1, <1>3 DEF Good
<1>6. TypeOK'
  BY <1>1, <1>5 DEF Inv, TypeOK
<1>7. ReasonsConsistent' /\ CooldownBounded'
  BY <1>1, <1>3 DEF Inv, ReasonsConsistent, CooldownBounded, Good, Bounded
<1>8. FileMatchesMemory'
  BY <1>1, <1>4 DEF Inv, FileMatchesMemory
<1>9. FileBounded'
  BY <1>1 DEF Inv, FileBounded, Bounded
<1>10. QED
  BY <1>6, <1>7, <1>8, <1>9 DEF Inv

LEMMA RestartInv ==
  ASSUME Inv, NEW auths \in SUBSET Accounts, NEW readable \in BOOLEAN,
         Restart(auths, readable)
  PROVE  Inv'
<1> DEFINE m == Loaded(readable)
<1>1. /\ DOMAIN m \subseteq DOMAIN file
      /\ readable => DOMAIN m = DOMAIN file
      /\ \A v \in DOMAIN m : m[v] = LoadedOf(file[v])
  BY DEF Loaded
<1>2. \A v \in DOMAIN file :
        Good(LoadedOf(file[v]), now) /\ SavedOf(LoadedOf(file[v])) = file[v]
  <2>1. \A v \in DOMAIN file : /\ file[v] \in Saved /\ ReasonFits(file[v])
                               /\ Bounded(file[v], now)
    BY DEF Inv, TypeOK, ReasonsConsistent, FileBounded
  <2>2. QED
    BY <2>1, LoadedFacts DEF Good, Bounded
<1>3. \A v \in DOMAIN m : Good(m[v], now) /\ SavedOf(m[v]) = file[v]
  BY <1>1, <1>2
<1> HIDE DEF m
<1>4. /\ DOMAIN byUID' = DOMAIN m \cup auths
      /\ \A v \in DOMAIN byUID' :
           byUID'[v] = IF v \notin DOMAIN m THEN NewEntry
                       ELSE IF v \in auths THEN [m[v] EXCEPT !.a = Credential]
                       ELSE m[v]
      /\ byUID' = [v \in DOMAIN byUID' |-> byUID'[v]]
      /\ file' = file /\ now' = now /\ durable' = readable
  BY DEF Restart, Added, m
<1>5. \A v \in DOMAIN m :
        LET e == [m[v] EXCEPT !.a = Credential]
        IN  Good(e, now) /\ SavedOf(e) = SavedOf(m[v])
  BY <1>3 DEF Good, Bounded, Entry, ReasonFits, SavedOf, Credential
<1>6. \A v \in DOMAIN byUID' : Good(byUID'[v], now)
  BY <1>3, <1>4, <1>5, NewEntryFacts
<1>7. \A v \in DOMAIN byUID' :
        SavedOf(byUID'[v]) = IF v \in DOMAIN m THEN file[v]
                                               ELSE SavedOf(NewEntry)
  BY <1>3, <1>4, <1>5
<1>8. byUID' \in [DOMAIN byUID' -> Entry]
  BY <1>4, <1>6 DEF Good
<1>9. TypeOK'
  BY <1>1, <1>4, <1>8 DEF Inv, TypeOK
<1>10. ReasonsConsistent' /\ CooldownBounded'
  BY <1>4, <1>6 DEF Inv, ReasonsConsistent, CooldownBounded, Good, Bounded
<1>11. FileMatchesMemory'
  BY <1>1, <1>4, <1>7 DEF FileMatchesMemory, m
<1>12. FileBounded'
  BY <1>4 DEF Inv, FileBounded, Bounded
<1>13. QED
  BY <1>9, <1>10, <1>11, <1>12 DEF Inv

LEMMA TickInv ==
  ASSUME Inv, Tick
  PROVE  Inv'
<1>1. /\ byUID' = byUID /\ file' = file /\ durable' = durable
      /\ now' = now + 1 /\ now \in Nat
  BY DEF Tick, Inv, TypeOK
<1>2. TypeOK'
  BY <1>1 DEF Inv, TypeOK
<1>3. ASSUME NEW e, e.until \in Nat, Bounded(e, now)
      PROVE  Bounded(e, now')
  BY <1>1, <1>3, DurationsAssumption DEF Bounded
<1>4. CooldownBounded'
  <2>1. \A u \in DOMAIN byUID : byUID[u].until \in Nat /\ Bounded(byUID[u], now)
    BY DEF Inv, TypeOK, CooldownBounded, Bounded, Entry
  <2>2. \A u \in DOMAIN byUID : Bounded(byUID[u], now')
    BY <1>3, <2>1
  <2>3. QED
    BY <1>1, <2>2 DEF CooldownBounded, Bounded
<1>5. FileBounded'
  <2>1. \A u \in DOMAIN file : file[u].until \in Nat /\ Bounded(file[u], now)
    BY DEF Inv, TypeOK, FileBounded, Saved
  <2>2. \A u \in DOMAIN file : Bounded(file[u], now')
    BY <1>3, <2>1
  <2>3. QED
    BY <1>1, <2>2 DEF FileBounded, Bounded
<1>6. ReasonsConsistent' /\ FileMatchesMemory'
  BY <1>1 DEF Inv, ReasonsConsistent, FileMatchesMemory
<1>7. QED
  BY <1>2, <1>4, <1>5, <1>6 DEF Inv

LEMMA InitInv == PoolInit => Inv
<1> SUFFICES ASSUME PoolInit PROVE Inv
  OBVIOUS
<1>1. PICK auths \in SUBSET Accounts : byUID = [u \in auths |-> NewEntry]
  BY DEF PoolInit
<1>2. DOMAIN byUID = auths /\ \A u \in auths : byUID[u] = NewEntry
  BY <1>1
<1>3. DOMAIN file = {} /\ file \in [{} -> Saved] /\ now = 1 /\ durable = TRUE
  BY DEF PoolInit
<1>4. TypeOK
  BY <1>1, <1>2, <1>3, NewEntryFacts DEF TypeOK
<1>5. ReasonsConsistent /\ CooldownBounded /\ FileBounded
  BY <1>2, <1>3, NewEntryFacts
  DEF ReasonsConsistent, CooldownBounded, FileBounded, Good, Bounded
<1>6. FileMatchesMemory
  BY <1>2, <1>3 DEF FileMatchesMemory
<1>7. QED
  BY <1>4, <1>5, <1>6 DEF Inv

-----------------------------------------------------------------------------

LEMMA NextInv == Inv /\ [PoolNext]_poolVars => Inv'
<1> SUFFICES ASSUME Inv, [PoolNext]_poolVars PROVE Inv'
  OBVIOUS
<1>1. ASSUME NEW u \in Accounts, PoolCall(u) PROVE Inv'
  BY <1>1, AddInv, SetCreditsInv, CooldownInv, DisableInv, EnableInv,
     ReenableInv, NoteErrorInv, NoteSuccessInv DEF PoolCall
<1>2. ASSUME NEW auths \in SUBSET Accounts, NEW readable \in BOOLEAN,
             Restart(auths, readable)
      PROVE  Inv'
  BY <1>2, RestartInv
<1>3. CASE Tick
  BY <1>3, TickInv
<1>4. CASE UNCHANGED poolVars
  BY <1>4 DEF poolVars, Inv, TypeOK, ReasonsConsistent, FileMatchesMemory,
              CooldownBounded, FileBounded, Bounded
<1>5. QED
  BY <1>1, <1>2, <1>3, <1>4 DEF PoolNext

LEMMA PoolInvariant == PoolSpec => []Inv
<1>1. PoolInit => Inv
  BY InitInv
<1>2. Inv /\ [PoolNext]_poolVars => Inv'
  BY NextInv
<1>3. QED
  BY <1>1, <1>2, PTL DEF PoolSpec

\* The pool and the state file keep their types through every call, failed
\* save, tick and restart; errCount never reaches the threshold.
THEOREM PoolTypeCorrect == PoolSpec => []TypeOK
<1>1. Inv => TypeOK
  BY DEF Inv
<1>2. QED
  BY <1>1, PoolInvariant, PTL

\* An account has a reason on record exactly while it is disabled or has a
\* cooldown, in memory and in the file a restart would load.
THEOREM PoolReasons == PoolSpec => []ReasonsConsistent
<1>1. Inv => ReasonsConsistent
  BY DEF Inv
<1>2. QED
  BY <1>1, PoolInvariant, PTL

\* A crash after a successful save loses nothing but error counts, although
\* Add and NoteSuccess do not save.
THEOREM PoolCrashSafe == PoolSpec => []FileMatchesMemory
<1>1. Inv => FileMatchesMemory
  BY DEF Inv
<1>2. QED
  BY <1>1, PoolInvariant, PTL

\* No cooldown reaches further ahead than the longest one the callers pass,
\* whatever stale file a restart finds.
THEOREM PoolCooldownsEnd == PoolSpec => []CooldownBounded
<1>1. Inv => CooldownBounded
  BY DEF Inv
<1>2. QED
  BY <1>1, PoolInvariant, PTL

-----------------------------------------------------------------------------
(* The action property: the ways back into rotation *)

\* Health depends on two fields of the entry only.
LEMMA SameHealth ==
  ASSUME NEW e, NEW f, NEW t, f.disabled = e.disabled, f.until = e.until
  PROVE  Healthy(f, t) <=> Healthy(e, t)
  BY DEF Healthy, Cooling

\* What Update means for one account.
LEMMA UpdateAt ==
  ASSUME Inv, NEW u \in DOMAIN byUID, NEW v \in Accounts, NEW e, Update(v, e)
  PROVE  byUID'[u] = IF u = v THEN e ELSE byUID[u]
<1>1. byUID \in [DOMAIN byUID -> Entry]
  BY DEF Inv, TypeOK
<1>2. QED
  BY <1>1 DEF Update

\* A cooldown that starts now has not expired.
LEMMA FreshCooldownUnhealthy ==
  ASSUME Inv, NEW e \in Entry, NEW d \in Durations, e.until = now + d
  PROVE  ~Healthy(e, now)
<1>1. now \in Nat /\ now + d # 0 /\ now < now + d
  BY DurationsAssumption DEF Inv, TypeOK
<1>2. QED
  BY <1>1 DEF Healthy, Cooling, ZeroTime

Returns(u) == ~Healthy(byUID[u], now) /\ Healthy(byUID'[u], now')

Rule(u) ==
  \/ ~byUID[u].disabled /\ now < now' /\ byUID[u].until <= now'
  \/ Enable(u)
  \/ /\ ~byUID[u].disabled
     /\ \E c \in Credits \ {0} : ReenableIfCredits(u, c)
  \/ ~durable \/ ~durable'

LEMMA CallRule ==
  ASSUME Inv, NEW u \in DOMAIN byUID \cap DOMAIN byUID', NEW v \in Accounts,
         PoolCall(v), Returns(u)
  PROVE  Rule(u)
<1>1. byUID[u] \in Entry /\ u \in DOMAIN byUID
  BY DEF Inv, TypeOK
<1>2. now' = now
  BY DEF PoolCall, Add, SetCredits, Cooldown, ForceCooldown, Disable, Enable,
         ReenableIfCredits, NoteError, NoteSuccess
<1>3. ASSUME byUID'[u].disabled = byUID[u].disabled,
             byUID'[u].until = byUID[u].until
      PROVE  FALSE
  BY <1>2, <1>3, SameHealth DEF Returns
<1>4. CASE Add(v)
  <2>1. byUID'[u] = byUID[u] \/ byUID'[u] = [byUID[u] EXCEPT !.a = Credential]
    BY <1>1, <1>4 DEF Add, Added
  <2>2. QED
    BY <1>1, <1>3, <2>1 DEF Entry
<1>5. ASSUME NEW c \in Credits, SetCredits(v, c) PROVE FALSE
  <2>1. byUID'[u] = byUID[u] \/ byUID'[u] = [byUID[u] EXCEPT !.credits = c]
    <3>1. Update(v, [byUID[v] EXCEPT !.credits = c])
      BY <1>5 DEF SetCredits
    <3>2. byUID'[u] = IF u = v THEN [byUID[v] EXCEPT !.credits = c]
                               ELSE byUID[u]
      BY <1>1, <3>1, UpdateAt
    <3>3. QED
      BY <3>2
  <2>2. QED
    BY <1>1, <1>3, <2>1 DEF Entry
<1>6. ASSUME NEW d \in Durations, NEW r \in Reasons,
             Cooldown(v, d, r) \/ ForceCooldown(v, r, d)
      PROVE  FALSE
  <2> DEFINE f == [byUID[u] EXCEPT !.until = now + d, !.reason = r,
                                   !.errCount = 0]
  <2>1. byUID'[u] = byUID[u] \/ byUID'[u] = f
    <3>1. Update(v, [byUID[v] EXCEPT !.until = now + d, !.reason = r,
                                     !.errCount = 0])
      BY <1>6 DEF Cooldown, ForceCooldown
    <3>2. byUID'[u] = IF u = v
                      THEN [byUID[v] EXCEPT !.until = now + d, !.reason = r,
                                            !.errCount = 0]
                      ELSE byUID[u]
      BY <1>1, <3>1, UpdateAt
    <3>3. QED
      BY <3>2
  <2>2. f \in Entry
    BY CooldownEntryGood DEF Good
  <2>3. f.until = now + d
    BY <1>1 DEF Entry
  <2>4. QED
    BY <1>2, <1>3, <2>1, <2>2, <2>3, FreshCooldownUnhealthy DEF Returns
<1>7. ASSUME NEW r \in Reasons, Disable(v, r) PROVE FALSE
  <2> DEFINE f == [byUID[u] EXCEPT !.disabled = TRUE, !.reason = r]
  <2>1. byUID'[u] = byUID[u] \/ byUID'[u] = f
    <3>1. Update(v, [byUID[v] EXCEPT !.disabled = TRUE, !.reason = r])
      BY <1>7 DEF Disable
    <3>2. byUID'[u] = IF u = v
                      THEN [byUID[v] EXCEPT !.disabled = TRUE, !.reason = r]
                      ELSE byUID[u]
      BY <1>1, <3>1, UpdateAt
    <3>3. QED
      BY <3>2
  <2>2. f.disabled = TRUE
    BY <1>1 DEF Entry
  <2>3. QED
    BY <1>2, <1>3, <2>1, <2>2 DEF Returns, Healthy
<1>8. CASE Enable(v)
  <2>1. u = v \/ byUID'[u] = byUID[u]
    <3>1. Update(v, [byUID[v] EXCEPT !.disabled = FALSE, !.until = ZeroTime,
                                     !.reason = NoReason, !.errCount = 0])
      BY <1>8 DEF Enable
    <3>2. QED
      BY <1>1, <3>1, UpdateAt
  <2>2. QED
    BY <1>3, <1>8, <2>1 DEF Rule
<1>9. ASSUME NEW c \in Credits, ReenableIfCredits(v, c) PROVE Rule(u)
  <2>1. CASE u # v
    <3>1. Update(v, ReenabledEntry(byUID[v], c))
      BY <1>9 DEF ReenableIfCredits
    <3>2. byUID'[u] = byUID[u]
      BY <1>1, <2>1, <3>1, UpdateAt
    <3>3. QED
      BY <1>3, <3>2
  <2>2. CASE u = v /\ c > 0 /\ ~byUID[u].disabled
    BY <1>9, <2>2 DEF Rule
  <2>3. CASE u = v /\ ~(c > 0 /\ ~byUID[u].disabled)
    <3>1. Update(v, ReenabledEntry(byUID[v], c))
      BY <1>9 DEF ReenableIfCredits
    <3>2. byUID'[u] = ReenabledEntry(byUID[u], c)
      BY <1>1, <2>3, <3>1, UpdateAt
    <3>3. byUID'[u] = [byUID[u] EXCEPT !.credits = c]
      BY <2>3, <3>2 DEF ReenabledEntry
    <3>4. QED
      BY <1>1, <1>3, <3>3 DEF Entry
  <2>4. QED
    BY <2>1, <2>2, <2>3
<1>10. ASSUME NEW d \in Durations, NoteError(v, d) PROVE FALSE
  <2>1. byUID'[u] = byUID[u] \/ byUID'[u] = ErredEntry(byUID[u], d)
    <3>1. Update(v, ErredEntry(byUID[v], d))
      BY <1>10 DEF NoteError
    <3>2. byUID'[u] = IF u = v THEN ErredEntry(byUID[v], d) ELSE byUID[u]
      BY <1>1, <3>1, UpdateAt
    <3>3. QED
      BY <3>2
  <2>2. CASE byUID[u].errCount + 1 >= ErrThreshold
    <3> DEFINE f == [byUID[u] EXCEPT !.until = now + d, !.reason = ErrReason,
                                     !.errCount = 0]
    <3>1. ErredEntry(byUID[u], d) = f
      BY <2>2 DEF ErredEntry
    <3>2. f \in Entry
      BY CooldownEntryGood, ReasonsAssumption DEF Good
    <3>3. f.until = now + d
      BY <1>1 DEF Entry
    <3>4. QED
      BY <1>2, <1>3, <2>1, <3>1, <3>2, <3>3, FreshCooldownUnhealthy DEF Returns
  <2>3. CASE ~(byUID[u].errCount + 1 >= ErrThreshold)
    BY <1>1, <1>3, <2>1, <2>3 DEF ErredEntry, Entry
  <2>4. QED
    BY <2>2, <2>3
<1>11. CASE NoteSuccess(v)
  <2>1. byUID'[u] = byUID[u] \/ byUID'[u] = [byUID[u] EXCEPT !.errCount = 0]
    <3>1. Update(v, [byUID[v] EXCEPT !.errCount = 0])
      BY <1>11 DEF NoteSuccess
    <3>2. byUID'[u] = IF u = v THEN [byUID[v] EXCEPT !.errCount = 0]
                               ELSE byUID[u]
      BY <1>1, <3>1, UpdateAt
    <3>3. QED
      BY <3>2
  <2>2. QED
    BY <1>1, <1>3, <2>1 DEF Entry
<1>12. QED
  BY <1>4, <1>5, <1>6, <1>7, <1>8, <1>9, <1>10, <1>11 DEF PoolCall

\* A restart that loads a file in step with memory changes no one's health.
LEMMA RestartRule ==
  ASSUME Inv, NEW u \in DOMAIN byUID \cap DOMAIN byUID',
         NEW auths \in SUBSET Accounts, NEW readable \in BOOLEAN,
         Restart(auths, readable), Returns(u)
  PROVE  Rule(u)
<1>1. CASE ~durable \/ ~readable
  BY <1>1 DEF Restart, Rule
<1>2. CASE durable /\ readable
  <2>1. SavedOf(byUID[u]) = IF u \in DOMAIN file
                            THEN file[u] ELSE SavedOf(NewEntry)
    BY <1>2 DEF Inv, FileMatchesMemory
  <2>2. /\ u \in DOMAIN file => /\ byUID'[u].disabled = file[u].disabled
                                /\ byUID'[u].until = file[u].until
        /\ u \notin DOMAIN file => byUID'[u] = NewEntry
    <3>1. CASE u \in DOMAIN file
      <4>1. LoadedOf(file[u]) \in Entry
        BY <3>1, LoadedFacts DEF Inv, TypeOK
      <4>2. \/ byUID'[u] = LoadedOf(file[u])
            \/ byUID'[u] = [LoadedOf(file[u]) EXCEPT !.a = Credential]
        BY <1>2, <3>1 DEF Restart, Added, Loaded
      <4>3. /\ byUID'[u].disabled = LoadedOf(file[u]).disabled
            /\ byUID'[u].until = LoadedOf(file[u]).until
        BY <4>1, <4>2 DEF Entry
      <4>4. QED
        BY <3>1, <4>3 DEF LoadedOf
    <3>2. CASE u \notin DOMAIN file
      BY <1>2, <3>2 DEF Restart, Added, Loaded
    <3>3. QED
      BY <3>1, <3>2
  <2>3. SavedOf(byUID[u]).disabled = byUID[u].disabled
        /\ SavedOf(byUID[u]).until = byUID[u].until
        /\ SavedOf(NewEntry).disabled = NewEntry.disabled
        /\ SavedOf(NewEntry).until = NewEntry.until
    BY DEF SavedOf
  <2>4. /\ byUID'[u].disabled = byUID[u].disabled
        /\ byUID'[u].until = byUID[u].until
    BY <2>1, <2>2, <2>3
  <2>5. now' = now
    BY DEF Restart
  <2>6. QED
    BY <2>4, <2>5, SameHealth DEF Returns
<1>3. QED
  BY <1>1, <1>2

\* An account out of rotation comes back only by expiry, by Enable, by a
\* positive balance while not disabled, or through a state file that missed a
\* save or could not be read.
THEOREM PoolReturns == PoolSpec => ReturnsOnlyByRule
<1>1. ASSUME Inv, [PoolNext]_poolVars,
             NEW u \in DOMAIN byUID \cap DOMAIN byUID', Returns(u)
      PROVE  Rule(u)
  <2>1. ASSUME NEW v \in Accounts, PoolCall(v) PROVE Rule(u)
    BY <1>1, <2>1, CallRule
  <2>2. ASSUME NEW auths \in SUBSET Accounts, NEW readable \in BOOLEAN,
               Restart(auths, readable)
        PROVE  Rule(u)
    BY <1>1, <2>2, RestartRule
  <2>3. CASE Tick
    <3>1. /\ byUID'[u] = byUID[u] /\ now' = now + 1 /\ now \in Nat
          /\ byUID[u] \in Entry
      BY <1>1, <2>3 DEF Tick, Inv, TypeOK
    <3>2. ~byUID[u].disabled /\ Cooling(byUID[u], now)
          /\ ~Cooling(byUID[u], now')
      <4>1. ~Healthy(byUID[u], now) /\ Healthy(byUID[u], now')
        BY <1>1, <3>1 DEF Returns
      <4>2. QED
        BY <4>1, Zenon DEF Healthy
    <3>3. byUID[u].until \in Nat
      BY <3>1 DEF Entry
    <3>4. byUID[u].until # ZeroTime /\ ~(now' < byUID[u].until)
      BY <3>1, <3>2 DEF Cooling
    <3>5. byUID[u].until <= now' /\ now < now'
      BY <3>1, <3>3, <3>4
    <3>6. QED
      BY <3>2, <3>5 DEF Rule
  <2>4. CASE UNCHANGED poolVars
    BY <1>1, <2>4 DEF poolVars, Returns
  <2>5. QED
    BY <1>1, <2>1, <2>2, <2>3, <2>4 DEF PoolNext
<1>2. Inv /\ [PoolNext]_poolVars =>
        [\A u \in DOMAIN byUID \cap DOMAIN byUID' :
          ~Healthy(byUID[u], now) /\ Healthy(byUID'[u], now') =>
              \/ ~byUID[u].disabled /\ now < now' /\ byUID[u].until <= now'
              \/ Enable(u)
              \/ /\ ~byUID[u].disabled
                 /\ \E c \in Credits \ {0} : ReenableIfCredits(u, c)
              \/ ~durable \/ ~durable']_poolVars
  BY <1>1 DEF Returns, Rule
<1>3. QED
  BY <1>2, PoolInvariant, PTL DEF PoolSpec, ReturnsOnlyByRule
=============================================================================
