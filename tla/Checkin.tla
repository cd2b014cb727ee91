------------------------------- MODULE Checkin -------------------------------
(***************************************************************************)
(* The daily check-in (internal/scheduler/scheduler.go RunCheckinNow,      *)
(* internal/upstream/checkin.go DailyCheckin): for each account a balance, *)
(* three calls of the activity API, a balance again, then the pool and the *)
(* records are told.                                                       *)
(*                                                                         *)
(* Check-ins overlap: main starts one 5 s after the start, the scheduler's *)
(* loops start theirs at the hours of the schedule.  Chats spend credits   *)
(* meanwhile.  The upstream is external: an account claims once a day, a   *)
(* second claim is refused, and any call may fail.                         *)
(***************************************************************************)
EXTENDS CheckinRecords

CONSTANTS
    Accounts,        \* the accounts of the pool; one without a token is skipped
    Runs,            \* goroutines in RunCheckinNow
    FirstBalance,    \* credits of an account at first
    Grant,           \* credits a check-in grants
    Failures,        \* may a call to the upstream fail?
    MaxStarts,       \* bound: check-ins started
    MaxDays          \* bound: days

ASSUME CheckinAssumption ==
    /\ {FirstBalance, Grant, MaxStarts, MaxDays} \subseteq Nat
    /\ Grant > 0
    /\ Failures \in BOOLEAN

Unknown == -1   \* the query of the balance failed
Nobody == "nobody"

VARIABLES
    claimed,   \* upstream: the accounts that claimed today
    granted,   \* upstream: credits granted to each account so far
    spent,     \* upstream: credits each account has spent
    activity,  \* upstream: is there a check-in activity today?
    broke,     \* chats told "no credits" that have not told the pool yet
    cooling,   \* pool: the accounts cooling down
    disabled,  \* pool: the disabled accounts
    run,       \* the locals of each check-in
    starts, days

upstreamVars == <<claimed, granted, spent, activity, days>>
poolVars == <<broke, cooling, disabled>>
vars == <<storeVars, upstreamVars, poolVars, run, starts>>

Balance(u) == FirstBalance + granted[u] - spent[u]

\* What checkinOne records.
Recorded(rec) == [uid |-> rec.uid, status |-> rec.status, before |-> rec.before,
                  after |-> rec.after, gained |-> rec.gained]

\* The record under way, and what the properties want to know of its
\* check-in: granted and spent while it ran, whether a call of the activity API
\* failed, whether another check-in claimed between this one's look and claim.
NoRecord == [uid |-> Nobody, status |-> "error", before |-> Unknown,
             after |-> Unknown, gained |-> 0, granted |-> 0, spent |-> 0,
             failed |-> FALSE, rival |-> FALSE]

\* unoffered: accounts that had not claimed and were offered no check_in.
IdleRun == [pc |-> "idle", todo |-> {}, rec |-> NoRecord, listed |-> {},
            unoffered |-> {}, clean |-> FALSE, cooled |-> FALSE]

\* run r goes on at pc with record rec.
Goto(r, pc, rec) == run' = [run EXCEPT ![r] = [@ EXCEPT !.pc = pc, !.rec = rec]]

\* A call of the activity API fails in the check-in with locals x.
Failed(x) == [x EXCEPT !.pc = "after", !.rec.failed = TRUE, !.clean = FALSE]

Failing(r) == Failures /\ run' = [run EXCEPT ![r] = Failed(@)]

-----------------------------------------------------------------------------
(* RunCheckinNow *)

\* Mutant: accounts that cool down are left out.
ToCheckInHealthy == Accounts \ (disabled \cup cooling)

\* List: what is enabled now.
ToCheckIn == Accounts \ disabled

Start(r) ==
    /\ run[r].pc = "idle"
    /\ starts < MaxStarts
    /\ starts' = starts + 1
    /\ run' = [run EXCEPT ![r] = [IdleRun EXCEPT !.pc = "loop", !.clean = TRUE,
                !.todo = ToCheckIn, !.listed = Accounts \ disabled]]
    /\ UNCHANGED <<storeVars, upstreamVars, poolVars>>

\* granted and spent start from here.
CheckinOne(r) ==
    /\ run[r].pc = "loop"
    /\ \E u \in run[r].todo :
          run' = [run EXCEPT ![r] = [@ EXCEPT !.pc = "before",
              !.todo = run[r].todo \ {u}, !.cooled = FALSE,
              !.rec = [NoRecord EXCEPT !.uid = u, !.granted = granted[u],
                                       !.spent = spent[u]]]]
    /\ UNCHANGED <<storeVars, upstreamVars, poolVars, starts>>

Finish(r) ==
    /\ run[r].pc = "loop" /\ run[r].todo = {}
    /\ run' = [run EXCEPT ![r] = IdleRun]
    /\ UNCHANGED <<storeVars, upstreamVars, poolVars, starts>>

-----------------------------------------------------------------------------
(* checkinOne *)

Before(r) ==
    /\ run[r].pc = "before"
    /\ LET u == run[r].rec.uid
       IN  \/ Goto(r, "slot", [run[r].rec EXCEPT !.before = Balance(u),
                               !.granted = granted[u], !.spent = spent[u]])
           \/ Failures /\ Goto(r, "slot", run[r].rec)
    /\ UNCHANGED <<storeVars, upstreamVars, poolVars, starts>>

Slot(r) ==
    /\ run[r].pc = "slot"
    /\ \/ activity /\ Goto(r, "context", run[r].rec)
       \/ ~activity /\ Goto(r, "after", [run[r].rec EXCEPT !.status = "no_activity"])
       \/ Failing(r)
    /\ UNCHANGED <<storeVars, upstreamVars, poolVars, starts>>

\* Mutant: claimedToday is not looked at.
ClaimedUnread(isClaimed, offered) == ~offered

\* claimedToday, or no check_in among the actions: both count as claimed.
Claimed(isClaimed, offered) == isClaimed \/ ~offered

Context(r) ==
    /\ run[r].pc = "context"
    /\ \/ \E offered \in BOOLEAN :
             LET x == run[r]
                 skip == Claimed(x.rec.uid \in claimed, offered)
             IN  run' = [run EXCEPT ![r] = [x EXCEPT
                     !.pc = IF skip THEN "after" ELSE "post",
                     !.rec.status = IF skip THEN AlreadyClaimed ELSE "error",
                     !.unoffered = x.unoffered \cup
                         (IF offered THEN {} ELSE {x.rec.uid} \ claimed)]]
       \/ Failing(r)
    /\ UNCHANGED <<storeVars, upstreamVars, poolVars, starts>>

Success(x, gained) ==
    [x EXCEPT !.pc = "after", !.rec.status = "success", !.rec.gained = gained]

\* u is claimed while the check-in with locals x is about to claim it.
Beaten(x, u) ==
    [x EXCEPT !.rec.rival = @ \/ (x.pc = "post" /\ x.rec.uid = u)]

\* The claim is refused because it has been granted before, or fails, or is
\* granted: the answer names the credits, or not, or is lost.
Post(r) ==
    /\ run[r].pc = "post"
    /\ LET u == run[r].rec.uid
       IN  \/ /\ Failing(r) \/ (u \in claimed /\ Goto(r, "after", run[r].rec))
              /\ UNCHANGED <<claimed, granted>>
           \/ /\ u \notin claimed
              /\ claimed' = claimed \cup {u}
              /\ granted' = [granted EXCEPT ![u] = @ + Grant]
              /\ \E won \in {Success(run[r], Grant), Success(run[r], 0)}
                             \cup {x \in {Failed(run[r])} : Failures} :
                    run' = [q \in Runs |-> IF q = r THEN won
                                            ELSE Beaten(run[q], u)]
    /\ UNCHANGED <<storeVars, spent, activity, days, poolVars, starts>>

\* What an account was granted or spent since its first balance.
Since(rec) ==
    [rec EXCEPT !.granted = granted[rec.uid] - @, !.spent = spent[rec.uid] - @]

\* Mutant: an unknown balance is used like any other.
GainedRaw(rec, after) == after - rec.before

\* The difference if both balances are known, else what the API said.
Gained(rec, after) ==
    IF rec.before >= 0 /\ after >= 0 THEN after - rec.before ELSE rec.gained

After(r) ==
    /\ run[r].pc = "after"
    /\ LET rec == Since(run[r].rec)
           after == Balance(rec.uid)
       IN  \/ run' = [run EXCEPT ![r] = [@ EXCEPT !.pc = "reenable", !.cooled = FALSE,
                 !.rec = [rec EXCEPT !.after = after, !.gained = Gained(rec, after)]]]
           \/ /\ Failures
              /\ Goto(r, "add", [rec EXCEPT !.gained = Gained(rec, Unknown)])
    /\ UNCHANGED <<storeVars, upstreamVars, poolVars, starts>>

\* Mutant: only a check-in that succeeded ends the cooldown.
RevivesOnSuccess(rec) == rec.after > 0 /\ rec.status = "success"

\* ReenableIfCredits leaves a disabled account alone.
Revives(rec) == rec.after > 0

Reenable(r) ==
    /\ run[r].pc = "reenable"
    /\ LET rec == run[r].rec
       IN  /\ cooling' = IF Revives(rec) /\ rec.uid \notin disabled
                         THEN cooling \ {rec.uid} ELSE cooling
           /\ Goto(r, "add", rec)
    /\ UNCHANGED <<storeVars, upstreamVars, broke, disabled, starts>>

AddRecord(r) ==
    /\ run[r].pc = "add"
    /\ Add(Recorded(run[r].rec))
    /\ Goto(r, "loop", NoRecord)
    /\ UNCHANGED <<upstreamVars, poolVars, starts>>

-----------------------------------------------------------------------------
(* Chats, the administrator, the day, the process *)

Spend(u) ==
    /\ Balance(u) > 0
    /\ spent' = [spent EXCEPT ![u] = @ + 1]
    /\ UNCHANGED <<storeVars, claimed, granted, activity, days, poolVars, run, starts>>

\* A chat is answered "no credits": some time later the pool is told.
Refuse(u) ==
    /\ Balance(u) = 0
    /\ broke' = broke \cup {u}
    /\ UNCHANGED <<storeVars, upstreamVars, cooling, disabled, run, starts>>

Exhaust(u) ==
    /\ u \in broke
    /\ broke' = broke \ {u} /\ cooling' = cooling \cup {u}
    /\ run' = [r \in Runs |-> [run[r] EXCEPT
                  !.cooled = @ \/ run[r].rec.uid = u]]
    /\ UNCHANGED <<storeVars, upstreamVars, disabled, starts>>

Manage(u) ==
    /\ \/ disabled' = disabled \cup {u} /\ UNCHANGED cooling
       \/ disabled' = disabled \ {u} /\ cooling' = cooling \ {u}
    /\ UNCHANGED <<storeVars, upstreamVars, broke, run, starts>>

NewDay ==
    /\ days < MaxDays
    /\ days' = days + 1
    /\ claimed' = {}
    /\ activity' \in BOOLEAN
    /\ run' = [r \in Runs |-> [run[r] EXCEPT !.clean = FALSE]]
    /\ UNCHANGED <<storeVars, granted, spent, poolVars, starts>>

\* The pool's cooldowns and disabled flags are restored, see Pool.
Restart ==
    /\ Load
    /\ run' = [r \in Runs |-> IdleRun] /\ broke' = {}
    /\ UNCHANGED <<upstreamVars, cooling, disabled, starts>>

Init ==
    /\ StoreInit
    /\ claimed = {}
    /\ granted = [u \in Accounts |-> 0]
    /\ spent = [u \in Accounts |-> 0]
    /\ activity \in BOOLEAN
    /\ broke = {} /\ cooling = {} /\ disabled = {}
    /\ run = [r \in Runs |-> IdleRun]
    /\ starts = 0 /\ days = 0

RunStep(r) ==
    \/ Start(r) \/ CheckinOne(r) \/ Finish(r)
    \/ Before(r) \/ Slot(r) \/ Context(r) \/ Post(r) \/ After(r)
    \/ Reenable(r) \/ AddRecord(r)

Next ==
    \/ \E r \in Runs : RunStep(r)
    \/ \E u \in Accounts : Spend(u) \/ Refuse(u) \/ Exhaust(u) \/ Manage(u)
    \/ NewDay
    \/ Restart

Spec == Init /\ [][Next]_vars
-----------------------------------------------------------------------------
(* Properties *)

\* The locals of a check-in have their types, and so has what it records.
TypeOK ==
    /\ StoreTypeOK
    /\ claimed \subseteq Accounts /\ broke \subseteq Accounts
    /\ cooling \subseteq Accounts /\ disabled \subseteq Accounts
    /\ \A u \in Accounts : Balance(u) \in Nat
    /\ \A r \in Runs :
          /\ run[r].pc \in {"idle", "loop", "before", "slot", "context", "post",
                            "after", "reenable", "add"}
          /\ run[r].todo \subseteq run[r].listed
          /\ run[r].pc \notin {"idle", "loop"} => run[r].rec.uid \in Accounts

\* A record claims no more credits than the account was granted while its
\* check-in ran and takes no more from it than it spent: a balance that could
\* not be queried is never taken for a number.
GainExplained ==
    \A r \in Runs : run[r].pc = "add" =>
        LET rec == run[r].rec
        IN  -rec.spent <= rec.gained /\ rec.gained <= rec.granted

\* An account that has checked in today already is no error (README: a normal
\* result): an error on record is a call of the activity API that failed, or a
\* claim that another check-in was granted between this one's look at the
\* account and its own claim.  Nothing else ends in an error, whatever other
\* check-ins, days and restarts come between.
ErrorsExplained ==
    \A r \in Runs : run[r].pc = "add" /\ run[r].rec.status = "error" =>
        run[r].rec.failed \/ run[r].rec.rival

\* A check-in during which no call of the activity API failed and no day began
\* leaves every account that was enabled when it started, the cooling ones and
\* those whose balance could not be queried too, checked in for the day,
\* whatever another check-in does meanwhile; but for those upstream offered no
\* check_in, which are recorded as claimed although nothing was.
CleanRunClaimsAll ==
    \A r \in Runs :
        run[r].pc = "loop" /\ run[r].todo = {} /\ run[r].clean /\ activity =>
            run[r].listed \subseteq claimed \cup run[r].unoffered

\* README: an account with credits after its check-in is out of its cooldown,
\* however the check-in ended, unless a chat has put it back since its second
\* balance was known (the answer the chat acts on may be older than the grant).
RevivedIfFunded ==
    \A r \in Runs :
        run[r].pc = "add" /\ run[r].rec.after > 0 /\ ~run[r].cooled =>
            run[r].rec.uid \notin cooling \/ run[r].rec.uid \in disabled

=============================================================================
