-------------------------------- MODULE Pool --------------------------------
(***************************************************************************)
(* The account pool of internal/pool/pool.go: an in-memory index of the    *)
(* accounts, their cooldown / disabled state machine, and the state file   *)
(* every state change rewrites.  One operator per exported method; each    *)
(* is atomic because the method holds the pool's mutex from its first to   *)
(* its last statement, saveLocked included.                                *)
(*                                                                         *)
(* PoolNext is the most general client: any method, on any account, with   *)
(* any of its arguments, in any order, a save that fails, a clock tick and *)
(* a restart.  ChatRotation composes the same operators with the callers   *)
(* the program really has.                                                 *)
(***************************************************************************)
EXTENDS Integers

CONSTANTS
    Accounts,      \* the uids
    Credits,       \* the balances the upstream may report (clamped to >= 0)
    Reasons,       \* the non-empty reason strings the callers pass
    ErrReason,     \* the reason NoteError writes: "consecutive errors"
    Durations,     \* the cooldown lengths the callers pass, in clock units
    ErrThreshold,  \* Config.ErrThreshold, at least 1 (server.NewHandler)
    DiskFaults,    \* may reading or writing the state file fail?
    MaxTime        \* bound on the clock, for TLC only

NoReason == ""     \* the Go zero value of entry.reason
ZeroTime == 0      \* time.Time{}: "no cooldown"

ASSUME CreditsAssumption == Credits \subseteq Nat /\ 0 \in Credits
ASSUME ReasonsAssumption == ErrReason \in Reasons /\ NoReason \notin Reasons
ASSUME DurationsAssumption == Durations \subseteq Nat \ {0}
ASSUME ThresholdAssumption == ErrThreshold \in Nat \ {0}
ASSUME DiskFaultsAssumption == DiskFaults \in BOOLEAN

VARIABLES
    byUID,    \* Pool.byUID: a function on the accounts in the pool
    file,     \* the decoded state.json: a function on the accounts it lists
    now,      \* time.Now()
    durable   \* history: the last save (or load) of the state file succeeded

poolVars == <<byUID, file, now, durable>>

-----------------------------------------------------------------------------
(* Entries *)

Placeholder == "placeholder"   \* &auth.Auth{UID: uid}, made by load
Credential  == "credential"    \* an auth parsed from a file or from OAuth

Entry == [a : {Placeholder, Credential}, credits : Credits,
          disabled : BOOLEAN, reason : Reasons \cup {NoReason},
          until : Nat, errCount : 0 .. ErrThreshold - 1]

Saved == [credits : Credits, disabled : BOOLEAN,
          reason : Reasons \cup {NoReason}, until : Nat]

NewEntry == [a |-> Credential, credits |-> 0, disabled |-> FALSE,
             reason |-> NoReason, until |-> ZeroTime, errCount |-> 0]

\* What saveLocked writes of an entry: neither the credential nor errCount.
SavedOf(e) == [credits |-> e.credits, disabled |-> e.disabled,
               reason |-> e.reason, until |-> e.until]

\* Mutant: load forgets the disabled flag.
LoadedEnabled(s) == [a |-> Placeholder, credits |-> s.credits,
                     disabled |-> FALSE, reason |-> s.reason,
                     until |-> s.until, errCount |-> 0]

\* What load makes of a saved entry.
LoadedOf(s) == [a |-> Placeholder, credits |-> s.credits,
                disabled |-> s.disabled, reason |-> s.reason,
                until |-> s.until, errCount |-> 0]

Cooling(e, t) == e.until # ZeroTime /\ t < e.until
Healthy(e, t) == ~e.disabled /\ ~Cooling(e, t)

-----------------------------------------------------------------------------
(* Reading the pool *)

\* PickExcluding walks the map in Go's unspecified order and keeps the first
\* of the richest healthy accounts: any of them may come out.  The empty set
\* stands for nil.  (PickLoop models the loop itself.)
Eligible(tried) == {u \in DOMAIN byUID \ tried : Healthy(byUID[u], now)}

PickExcluding(tried) ==
    {u \in Eligible(tried) :
        \A v \in Eligible(tried) : byUID[v].credits <= byUID[u].credits}

-----------------------------------------------------------------------------
(* Persistence *)

SnapshotOf(m) == [u \in DOMAIN m |-> SavedOf(m[u])]

\* saveLocked: temp file and rename, so the file is the old or the new one.
\* Every error is dropped, and memory then differs from the file.
saveLocked ==
    \/ file' = SnapshotOf(byUID') /\ durable' = TRUE
    \/ DiskFaults /\ file' = file /\ durable' = FALSE

-----------------------------------------------------------------------------
(* The methods.  A method called with a uid the pool does not hold changes *)
(* no entry, and all but Add and NoteSuccess still save.                   *)

Update(u, e) == byUID' = IF u \in DOMAIN byUID
                         THEN [byUID EXCEPT ![u] = e]
                         ELSE byUID

\* Add keeps the state of an account it knows and replaces its credential; a
\* new account starts fresh.  It does not save.
Added(m, auths) ==
    [u \in DOMAIN m \cup auths |->
        IF u \notin DOMAIN m THEN NewEntry
        ELSE IF u \in auths THEN [m[u] EXCEPT !.a = Credential]
        ELSE m[u]]

Add(u) ==
    /\ byUID' = Added(byUID, {u})
    /\ UNCHANGED <<file, now, durable>>

SetCredits(u, credits) ==
    /\ Update(u, [byUID[u] EXCEPT !.credits = credits])
    /\ saveLocked
    /\ UNCHANGED now

\* Mutant: a cooldown is added to the one that is running.
CooldownExtends(u, d, reason) ==
    /\ Update(u, [byUID[u] EXCEPT !.until = (IF @ > now THEN @ ELSE now) + d,
                                  !.reason = reason, !.errCount = 0])
    /\ saveLocked
    /\ UNCHANGED now

Cooldown(u, d, reason) ==
    /\ Update(u, [byUID[u] EXCEPT !.until = now + d, !.reason = reason,
                                  !.errCount = 0])
    /\ saveLocked
    /\ UNCHANGED now

ForceCooldown(u, reason, d) ==
    /\ Update(u, [byUID[u] EXCEPT !.until = now + d, !.reason = reason,
                                  !.errCount = 0])
    /\ saveLocked
    /\ UNCHANGED now

\* Mutant: Disable does not save.
DisableUnsaved(u, reason) ==
    /\ Update(u, [byUID[u] EXCEPT !.disabled = TRUE, !.reason = reason])
    /\ UNCHANGED <<file, now, durable>>

Disable(u, reason) ==
    /\ Update(u, [byUID[u] EXCEPT !.disabled = TRUE, !.reason = reason])
    /\ saveLocked
    /\ UNCHANGED now

Enable(u) ==
    /\ Update(u, [byUID[u] EXCEPT !.disabled = FALSE, !.until = ZeroTime,
                                  !.reason = NoReason, !.errCount = 0])
    /\ saveLocked
    /\ UNCHANGED now

\* Mutant: the reason of the cooldown that ends is left behind.
ReenabledWithReason(e, remain) ==
    IF remain > 0 /\ ~e.disabled
    THEN [e EXCEPT !.credits = remain, !.until = ZeroTime, !.errCount = 0]
    ELSE [e EXCEPT !.credits = remain]

\* The balance is stored whatever it is; a positive one also ends the
\* cooldown of an account that is not disabled.
ReenabledEntry(e, remain) ==
    IF remain > 0 /\ ~e.disabled
    THEN [e EXCEPT !.credits = remain, !.until = ZeroTime,
                   !.reason = NoReason, !.errCount = 0]
    ELSE [e EXCEPT !.credits = remain]

ReenableIfCredits(u, remain) ==
    /\ Update(u, ReenabledEntry(byUID[u], remain))
    /\ saveLocked
    /\ UNCHANGED now

\* Mutant: the threshold is compared with > instead of >=.
ErredLate(e, d) ==
    IF e.errCount + 1 > ErrThreshold
    THEN [e EXCEPT !.until = now + d, !.reason = ErrReason, !.errCount = 0]
    ELSE [e EXCEPT !.errCount = @ + 1]

\* The threshold-th consecutive error starts a cooldown and the count over.
ErredEntry(e, d) ==
    IF e.errCount + 1 >= ErrThreshold
    THEN [e EXCEPT !.until = now + d, !.reason = ErrReason, !.errCount = 0]
    ELSE [e EXCEPT !.errCount = @ + 1]

NoteError(u, d) ==
    /\ Update(u, ErredEntry(byUID[u], d))
    /\ saveLocked
    /\ UNCHANGED now

NoteSuccess(u) ==
    /\ Update(u, [byUID[u] EXCEPT !.errCount = 0])
    /\ UNCHANGED <<file, now, durable>>

-----------------------------------------------------------------------------
(* Start, restart and the clock *)

\* cmd/server main: pool.New loads the state file (any error leaves the pool
\* empty), then Add is called for every credential file of the auth dir.
\* The dir may have lost or gained files since the last start.
Loaded(readable) ==
    IF readable THEN [u \in DOMAIN file |-> LoadedOf(file[u])]
                ELSE [u \in {} |-> NewEntry]

Restart(auths, readable) ==
    /\ readable \/ DiskFaults
    /\ byUID' = Added(Loaded(readable), auths)
    /\ durable' = readable
    /\ UNCHANGED <<file, now>>

\* Wall-clock time passes (bounded by MaxTime so that TLC terminates).
Tick ==
    /\ now < MaxTime
    /\ now' = now + 1
    /\ UNCHANGED <<byUID, file, durable>>

PoolInit ==
    /\ \E auths \in SUBSET Accounts : byUID = [u \in auths |-> NewEntry]
    /\ file = [u \in {} |-> SavedOf(NewEntry)]
    /\ now = 1
    /\ durable = TRUE

PoolCall(u) ==
    \/ Add(u)
    \/ \E c \in Credits : SetCredits(u, c)
    \/ \E d \in Durations, r \in Reasons : Cooldown(u, d, r)
    \/ \E d \in Durations, r \in Reasons : ForceCooldown(u, r, d)
    \/ \E r \in Reasons : Disable(u, r)
    \/ Enable(u)
    \/ \E c \in Credits : ReenableIfCredits(u, c)
    \/ \E d \in Durations : NoteError(u, d)
    \/ NoteSuccess(u)

PoolNext ==
    \/ \E u \in Accounts : PoolCall(u)
    \/ \E auths \in SUBSET Accounts, readable \in BOOLEAN :
          Restart(auths, readable)
    \/ Tick

PoolSpec == PoolInit /\ [][PoolNext]_poolVars

-----------------------------------------------------------------------------
(* Properties *)

\* The pool and the file are partial maps from uids to well-formed entries,
\* and errCount never reaches the threshold once NoteError has returned.
TypeOK ==
    /\ DOMAIN byUID \subseteq Accounts /\ byUID \in [DOMAIN byUID -> Entry]
    /\ DOMAIN file \subseteq Accounts /\ file \in [DOMAIN file -> Saved]
    /\ now \in Nat \ {0}
    /\ durable \in BOOLEAN

\* A reason is on record exactly while there is something to explain: the
\* admin page shows the reason of a disabled or cooled account, in memory and
\* in what a restart would load.
ReasonFits(e) == e.reason # NoReason <=> (e.disabled \/ e.until # ZeroTime)

ReasonsConsistent ==
    /\ \A u \in DOMAIN byUID : ReasonFits(byUID[u])
    /\ \A u \in DOMAIN file : ReasonFits(file[u])

\* As long as the last save succeeded, a crash loses nothing but error counts:
\* the file holds every account's balance, cooldown and disabled flag, and an
\* account it does not list has none.  Add and NoteSuccess rely on this, they
\* change the pool without saving.
FileMatchesMemory ==
    durable =>
        /\ DOMAIN file \subseteq DOMAIN byUID
        /\ \A u \in DOMAIN byUID :
              SavedOf(byUID[u]) = IF u \in DOMAIN file
                                  THEN file[u] ELSE SavedOf(NewEntry)

\* No sequence of cooldowns, restarts and errors takes an account out for
\* longer than the longest cooldown counted from now: every cooldown ends.
CooldownBounded ==
    \A u \in DOMAIN byUID : byUID[u].until # ZeroTime =>
        \E d \in Durations : byUID[u].until <= now + d

\* An account out of rotation returns only because its cooldown expired, an
\* administrator enabled it, a positive balance was reported for it while it
\* was not disabled, or a restart found a state file that had missed a save
\* (or could not be read).
ReturnsOnlyByRule ==
    [][\A u \in DOMAIN byUID \cap DOMAIN byUID' :
          ~Healthy(byUID[u], now) /\ Healthy(byUID'[u], now') =>
              \/ ~byUID[u].disabled /\ now < now' /\ byUID[u].until <= now'
              \/ Enable(u)
              \/ /\ ~byUID[u].disabled
                 /\ \E c \in Credits \ {0} : ReenableIfCredits(u, c)
              \/ ~durable \/ ~durable']_poolVars

=============================================================================
