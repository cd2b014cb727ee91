---------------------------- MODULE CheckinProofs ----------------------------
(***************************************************************************)
(* For any number of accounts, of check-ins that overlap, of chats that    *)
(* spend meanwhile and of calls that fail, over any number of days: what   *)
(* the record of a check-in says of an account is explained by what        *)
(* happened to the account while the check-in ran.                         *)
(*                                                                         *)
(* RunsOK says what a check-in under way knows.  Counted is the heart of   *)
(* it: a balance it holds was the account's at the moment granted and      *)
(* spent were noted, and what the claim answered was granted since then.   *)
(***************************************************************************)
EXTENDS Checkin, TLAPS

InRecord == {"before", "slot", "context", "post", "after"}
Claimless == {"before", "slot", "context", "post"}

RecordType == [uid : Accounts \cup {Nobody},
               status : {"error", "no_activity", AlreadyClaimed, "success"},
               before : Int, after : Int, gained : Int, granted : Int,
               spent : Int, failed : BOOLEAN, rival : BOOLEAN]

RunType == [pc : {"idle", "loop", "reenable", "add"} \cup InRecord,
            todo : SUBSET Accounts, rec : RecordType,
            listed : SUBSET Accounts, unoffered : SUBSET Accounts,
            clean : BOOLEAN, cooled : BOOLEAN]

\* What a check-in with locals x knows of upstream's granted gr and spent sp.
Counted(x, gr, sp) ==
    /\ x.pc \notin {"idle", "loop"} => x.rec.uid \in Accounts
    /\ x.pc \in InRecord =>
          /\ 0 <= x.rec.granted /\ x.rec.granted <= gr[x.rec.uid]
          /\ 0 <= x.rec.spent /\ x.rec.spent <= sp[x.rec.uid]
          /\ \/ x.rec.before = Unknown
             \/ x.rec.before = FirstBalance + x.rec.granted - x.rec.spent
          /\ x.rec.after = Unknown
          /\ 0 <= x.rec.gained
          /\ x.rec.gained <= gr[x.rec.uid] - x.rec.granted
    /\ x.pc \in Claimless => x.rec.gained = 0
    /\ x.pc \in {"reenable", "add"} =>
          -x.rec.spent <= x.rec.gained /\ x.rec.gained <= x.rec.granted

\* A check-in that is about to claim what is claimed already was beaten to it,
\* and an error is a call that failed or such a claim.
Explained(x, cl) ==
    /\ x.pc = "post" /\ x.rec.uid \in cl => x.rec.rival
    /\ x.pc \in {"after", "reenable", "add"} /\ x.rec.status = "error" =>
          x.rec.failed \/ x.rec.rival

\* The accounts of a check-in are claimed, not offered, or still to come.
Claiming(x, cl, act) ==
    x.clean /\ act =>
        x.listed \subseteq cl \cup x.unoffered \cup x.todo
            \cup (IF x.pc \in Claimless THEN {x.rec.uid} ELSE {})

\* The account is not left cooling down.
Revived(x, co, di) ==
    x.pc = "add" /\ x.rec.after > 0 /\ ~x.cooled =>
        x.rec.uid \notin co \/ x.rec.uid \in di

RunsOK ==
    \A r \in Runs :
        /\ Counted(run[r], granted, spent) /\ Explained(run[r], claimed)
        /\ Claiming(run[r], claimed, activity)
        /\ Revived(run[r], cooling, disabled)

LocalsTyped == run \in [Runs -> RunType]

UpstreamOK ==
    /\ claimed \subseteq Accounts
    /\ granted \in [Accounts -> Nat] /\ spent \in [Accounts -> Nat]
    /\ \A u \in Accounts : Balance(u) >= 0

IInv == LocalsTyped /\ UpstreamOK /\ RunsOK

-----------------------------------------------------------------------------
(* Facts about the steps of a check-in *)

LEMMA FieldsTyped ==
  ASSUME LocalsTyped, NEW r \in Runs
  PROVE  /\ run[r] \in RunType /\ run[r].rec \in RecordType
         /\ run[r].todo \subseteq Accounts /\ run[r].listed \subseteq Accounts
         /\ run[r].unoffered \subseteq Accounts
         /\ {run[r].clean, run[r].cooled} \subseteq BOOLEAN
         /\ {run[r].rec.before, run[r].rec.after, run[r].rec.gained,
             run[r].rec.granted, run[r].rec.spent} \subseteq Int
BY DEF LocalsTyped, RunType, RecordType

LEMMA GotoFields ==
  ASSUME LocalsTyped, NEW r \in Runs, NEW pc, NEW rec \in RecordType,
         pc \in {"idle", "loop", "reenable", "add"} \cup InRecord,
         Goto(r, pc, rec)
  PROVE  /\ LocalsTyped' /\ \A q \in Runs \ {r} : run'[q] = run[q]
         /\ run'[r].pc = pc /\ run'[r].rec = rec
         /\ run'[r].todo = run[r].todo /\ run'[r].listed = run[r].listed
         /\ run'[r].unoffered = run[r].unoffered
         /\ run'[r].clean = run[r].clean /\ run'[r].cooled = run[r].cooled
<1> DEFINE y == [run[r] EXCEPT !.pc = pc, !.rec = rec]
<1>1. run[r] \in RunType
  BY FieldsTyped
<1>2. /\ y \in RunType /\ y.pc = pc /\ y.rec = rec
      /\ y.todo = run[r].todo /\ y.listed = run[r].listed
      /\ y.unoffered = run[r].unoffered
      /\ y.clean = run[r].clean /\ y.cooled = run[r].cooled
  BY <1>1 DEF RunType
<1>3. run' = [run EXCEPT ![r] = y]
  BY DEF Goto
<1> HIDE DEF y
<1>4. QED
  BY <1>2, <1>3 DEF LocalsTyped

LEMMA FailedFields ==
  ASSUME NEW x \in RunType
  PROVE  LET y == Failed(x)
         IN  /\ y \in RunType /\ y.pc = "after" /\ y.clean = FALSE
             /\ y.rec.failed
             /\ y.rec.uid = x.rec.uid /\ y.rec.before = x.rec.before
             /\ y.rec.after = x.rec.after /\ y.rec.gained = x.rec.gained
             /\ y.rec.granted = x.rec.granted /\ y.rec.spent = x.rec.spent
<1> DEFINE rec == [x.rec EXCEPT !.failed = TRUE]
           y == [x EXCEPT !.pc = "after", !.rec = rec, !.clean = FALSE]
<1>1. x.rec \in RecordType
  BY DEF RunType
<1>2. /\ rec \in RecordType /\ rec.failed = TRUE
      /\ rec.uid = x.rec.uid /\ rec.before = x.rec.before
      /\ rec.after = x.rec.after /\ rec.gained = x.rec.gained
      /\ rec.granted = x.rec.granted /\ rec.spent = x.rec.spent
  BY <1>1 DEF RecordType
<1>3. Failed(x) = y
  BY DEF Failed
<1> HIDE DEF rec
<1>4. y \in RunType /\ y.pc = "after" /\ y.rec = rec /\ y.clean = FALSE
  BY <1>2 DEF RunType, InRecord
<1> HIDE DEF y
<1>5. QED
  BY <1>2, <1>3, <1>4

\* Another check-in claims u: this one learns of it only in its history.
LEMMA BeatenFields ==
  ASSUME NEW x \in RunType, NEW u
  PROVE  LET y == Beaten(x, u)
         IN  /\ y \in RunType /\ y.pc = x.pc /\ y.todo = x.todo
             /\ y.listed = x.listed /\ y.unoffered = x.unoffered
             /\ y.clean = x.clean /\ y.cooled = x.cooled
             /\ y.rec.uid = x.rec.uid /\ y.rec.status = x.rec.status
             /\ y.rec.before = x.rec.before /\ y.rec.after = x.rec.after
             /\ y.rec.gained = x.rec.gained /\ y.rec.granted = x.rec.granted
             /\ y.rec.spent = x.rec.spent /\ y.rec.failed = x.rec.failed
             /\ (x.rec.rival => y.rec.rival)
             /\ (x.pc = "post" /\ x.rec.uid = u => y.rec.rival)
<1> DEFINE b == x.rec.rival \/ (x.pc = "post" /\ x.rec.uid = u)
           rec == [x.rec EXCEPT !.rival = b]
           y == [x EXCEPT !.rec = rec]
<1>1. x.rec \in RecordType /\ b \in BOOLEAN
  BY DEF RunType, RecordType
<1>2. b <=> x.rec.rival \/ (x.pc = "post" /\ x.rec.uid = u)
  OBVIOUS
<1>3. Beaten(x, u) = y
  BY DEF Beaten
<1> HIDE DEF b
<1>4. rec \in RecordType /\ rec.rival = b
  BY <1>1 DEF RecordType
<1>5. /\ rec.uid = x.rec.uid /\ rec.status = x.rec.status
      /\ rec.before = x.rec.before /\ rec.after = x.rec.after
      /\ rec.gained = x.rec.gained
  BY <1>1 DEF RecordType
<1>6. /\ rec.granted = x.rec.granted /\ rec.spent = x.rec.spent
      /\ rec.failed = x.rec.failed
  BY <1>1 DEF RecordType
<1> HIDE DEF rec
<1>7. /\ y \in RunType /\ y.pc = x.pc /\ y.todo = x.todo /\ y.rec = rec
      /\ y.listed = x.listed /\ y.unoffered = x.unoffered
      /\ y.clean = x.clean /\ y.cooled = x.cooled
  BY <1>4 DEF RunType
<1> HIDE DEF y
<1>8. QED
  BY <1>2, <1>3, <1>4, <1>5, <1>6, <1>7

\* More is granted: what a check-in knows of the account stays true.
LEMMA MoreGranted ==
  ASSUME NEW x, NEW gr, NEW gr2, NEW sp, Counted(x, gr, sp),
         x.rec.granted \in Int, x.rec.gained \in Int,
         \A u \in Accounts : gr[u] \in Nat /\ gr2[u] \in Nat /\ gr[u] <= gr2[u]
  PROVE  Counted(x, gr2, sp)
<1>1. x.pc \in InRecord =>
        /\ x.rec.granted <= gr2[x.rec.uid]
        /\ x.rec.gained <= gr2[x.rec.uid] - x.rec.granted
  <2> SUFFICES ASSUME x.pc \in InRecord
               PROVE  /\ x.rec.granted <= gr2[x.rec.uid]
                      /\ x.rec.gained <= gr2[x.rec.uid] - x.rec.granted
    OBVIOUS
  <2>1. x.rec.uid \in Accounts
    BY DEF Counted, InRecord
  <2>2. /\ gr[x.rec.uid] \in Nat /\ gr2[x.rec.uid] \in Nat
        /\ gr[x.rec.uid] <= gr2[x.rec.uid]
    BY <2>1
  <2>3. /\ x.rec.granted <= gr[x.rec.uid]
        /\ x.rec.gained <= gr[x.rec.uid] - x.rec.granted
    BY DEF Counted
  <2>4. QED
    BY <2>2, <2>3
<1>2. QED
  BY <1>1 DEF Counted

\* Check-in r moves, the claims and grants stay; cooldowns may end.
LEMMA OneMoves ==
  ASSUME IInv, NEW r \in Runs, LocalsTyped',
         \A q \in Runs \ {r} : run'[q] = run[q],
         UNCHANGED upstreamVars, cooling' \subseteq cooling, disabled' = disabled,
         Counted(run'[r], granted, spent), Explained(run'[r], claimed),
         Claiming(run'[r], claimed, activity),
         Revived(run'[r], cooling', disabled)
  PROVE  IInv'
<1>1. UNCHANGED <<claimed, granted, spent, activity>>
  BY DEF upstreamVars
<1>2. UpstreamOK'
  BY <1>1 DEF IInv, UpstreamOK, Balance
<1>3. ASSUME NEW q \in Runs \ {r}
      PROVE  /\ Counted(run'[q], granted', spent') /\ Explained(run'[q], claimed')
             /\ Claiming(run'[q], claimed', activity')
             /\ Revived(run'[q], cooling', disabled')
  <2>1. /\ Counted(run[q], granted, spent) /\ Explained(run[q], claimed)
        /\ Claiming(run[q], claimed, activity)
        /\ Revived(run[q], cooling, disabled)
    BY DEF IInv, RunsOK
  <2>2. Revived(run[q], cooling', disabled')
    BY <2>1 DEF Revived
  <2>3. run'[q] = run[q]
    OBVIOUS
  <2>4. QED
    BY <1>1, <2>1, <2>2, <2>3
<1>4. RunsOK'
  BY <1>1, <1>3 DEF RunsOK
<1>5. QED
  BY <1>2, <1>4 DEF IInv

\* Check-in r moves and nothing else does.
LEMMA RunMoves ==
  ASSUME IInv, NEW r \in Runs, LocalsTyped',
         \A q \in Runs \ {r} : run'[q] = run[q],
         UNCHANGED upstreamVars, UNCHANGED poolVars,
         Counted(run'[r], granted, spent), Explained(run'[r], claimed),
         Claiming(run'[r], claimed, activity),
         Revived(run'[r], cooling, disabled)
  PROVE  IInv'
BY OneMoves DEF poolVars

LEMMA IdleRunOK ==
  ASSUME NEW gr, NEW sp, NEW cl, NEW act, NEW co, NEW di
  PROVE  /\ IdleRun \in RunType /\ NoRecord \in RecordType
         /\ Counted(IdleRun, gr, sp) /\ Explained(IdleRun, cl)
         /\ Claiming(IdleRun, cl, act) /\ Revived(IdleRun, co, di)
<1>1. NoRecord \in RecordType
  BY DEF NoRecord, RecordType, Unknown
<1>2. IdleRun \in RunType /\ IdleRun.pc = "idle" /\ IdleRun.clean = FALSE
      /\ IdleRun.rec = NoRecord
  BY <1>1 DEF IdleRun, RunType
<1>3. QED
  BY <1>1, <1>2 DEF Counted, Explained, Claiming, Revived, InRecord, Claimless

-----------------------------------------------------------------------------
(* RunCheckinNow *)

LEMMA StartOK ==
  ASSUME IInv, NEW r \in Runs, Start(r)
  PROVE  IInv'
<1> DEFINE y == [IdleRun EXCEPT !.pc = "loop", !.clean = TRUE,
                   !.todo = ToCheckIn, !.listed = Accounts \ disabled]
<1>1. run' = [run EXCEPT ![r] = y] /\ UNCHANGED upstreamVars /\ UNCHANGED poolVars
  BY DEF Start
<1>2. y \in RunType /\ y.pc = "loop" /\ y.rec = NoRecord /\ y.listed = y.todo
  BY IdleRunOK DEF IdleRun, RunType, ToCheckIn
<1> HIDE DEF y
<1>3. LocalsTyped' /\ run'[r] = y /\ \A q \in Runs \ {r} : run'[q] = run[q]
  BY <1>1, <1>2 DEF IInv, LocalsTyped
<1>4. /\ Counted(y, granted, spent) /\ Explained(y, claimed)
      /\ Claiming(y, claimed, activity) /\ Revived(y, cooling, disabled)
  BY <1>2 DEF Counted, Explained, Claiming, Revived, InRecord, Claimless, NoRecord
<1>5. QED
  BY <1>1, <1>3, <1>4, RunMoves

LEMMA CheckinOneOK ==
  ASSUME IInv, NEW r \in Runs, CheckinOne(r)
  PROVE  IInv'
<1>0. run[r] \in RunType /\ run[r].todo \subseteq Accounts
      /\ Claiming(run[r], claimed, activity) /\ run[r].pc = "loop"
  BY FieldsTyped DEF IInv, RunsOK, CheckinOne
<1>1. PICK u \in run[r].todo :
        run' = [run EXCEPT ![r] = [run[r] EXCEPT !.pc = "before",
                 !.todo = run[r].todo \ {u}, !.cooled = FALSE,
                 !.rec = [NoRecord EXCEPT !.uid = u, !.granted = granted[u],
                                          !.spent = spent[u]]]]
  BY DEF CheckinOne
<1> DEFINE rec == [NoRecord EXCEPT !.uid = u, !.granted = granted[u],
                                   !.spent = spent[u]]
           y == [run[r] EXCEPT !.pc = "before", !.todo = run[r].todo \ {u},
                               !.cooled = FALSE, !.rec = rec]
<1>2. u \in Accounts /\ granted[u] \in Nat /\ spent[u] \in Nat
  BY <1>0 DEF IInv, UpstreamOK
<1>3. /\ rec \in RecordType /\ rec.uid = u /\ rec.granted = granted[u]
      /\ rec.spent = spent[u] /\ rec.before = Unknown /\ rec.after = Unknown
      /\ rec.gained = 0
  <2>1. /\ NoRecord \in RecordType /\ NoRecord.before = Unknown
        /\ NoRecord.after = Unknown /\ NoRecord.gained = 0
    BY IdleRunOK DEF NoRecord
  <2>2. u \in Accounts \cup {Nobody} /\ granted[u] \in Int /\ spent[u] \in Int
    BY <1>2
  <2>3. rec \in RecordType
    BY <2>1, <2>2 DEF RecordType
  <2>4. rec.uid = u /\ rec.granted = granted[u] /\ rec.spent = spent[u]
    BY <2>1 DEF RecordType
  <2>5. rec.before = NoRecord.before /\ rec.after = NoRecord.after
    BY <2>1 DEF RecordType
  <2>6. rec.gained = NoRecord.gained
    BY <2>1 DEF RecordType
  <2>7. QED
    BY <2>1, <2>3, <2>4, <2>5, <2>6
<1> HIDE DEF rec
<1>4. /\ y \in RunType /\ y.pc = "before" /\ y.rec = rec
      /\ y.todo = run[r].todo \ {u} /\ y.listed = run[r].listed
      /\ y.unoffered = run[r].unoffered /\ y.clean = run[r].clean
  BY <1>0, <1>3 DEF RunType, InRecord
<1>5. run' = [run EXCEPT ![r] = y]
  BY <1>1 DEF rec
<1> HIDE DEF y
<1>6. LocalsTyped' /\ run'[r] = y /\ \A q \in Runs \ {r} : run'[q] = run[q]
  BY <1>4, <1>5 DEF IInv, LocalsTyped
<1>7. Counted(y, granted, spent)
  BY <1>2, <1>3, <1>4 DEF Counted, InRecord, Claimless
<1>8. /\ Explained(y, claimed) /\ Claiming(y, claimed, activity)
      /\ Revived(y, cooling, disabled)
  BY <1>0, <1>3, <1>4 DEF Explained, Claiming, Revived, Claimless
<1>9. UNCHANGED upstreamVars /\ UNCHANGED poolVars
  BY DEF CheckinOne
<1>10. QED
  BY <1>6, <1>7, <1>8, <1>9, RunMoves

LEMMA FinishOK ==
  ASSUME IInv, NEW r \in Runs, Finish(r)
  PROVE  IInv'
<1>1. run' = [run EXCEPT ![r] = IdleRun]
      /\ UNCHANGED upstreamVars /\ UNCHANGED poolVars
  BY DEF Finish
<1>2. LocalsTyped' /\ run'[r] = IdleRun /\ \A q \in Runs \ {r} : run'[q] = run[q]
  BY <1>1, IdleRunOK DEF IInv, LocalsTyped
<1>3. QED
  BY <1>1, <1>2, IdleRunOK, RunMoves

-----------------------------------------------------------------------------
(* checkinOne *)

\* What is known of check-in r before its step.
LEMMA KnownRun ==
  ASSUME IInv, NEW r \in Runs
  PROVE  /\ LocalsTyped /\ run[r] \in RunType /\ run[r].rec \in RecordType
         /\ Counted(run[r], granted, spent) /\ Explained(run[r], claimed)
         /\ Claiming(run[r], claimed, activity)
         /\ Revived(run[r], cooling, disabled)
         /\ \A u \in Accounts : /\ granted[u] \in Nat /\ spent[u] \in Nat
                                 /\ Balance(u) \in Nat
                                 /\ Balance(u) = FirstBalance + granted[u] - spent[u]
<1>1. FirstBalance \in Nat
  BY CheckinAssumption
<1>2. ASSUME NEW u \in Accounts
      PROVE  /\ granted[u] \in Nat /\ spent[u] \in Nat /\ Balance(u) \in Nat
             /\ Balance(u) = FirstBalance + granted[u] - spent[u]
  BY <1>1 DEF IInv, UpstreamOK, Balance
<1>3. QED
  BY <1>2, FieldsTyped DEF IInv, RunsOK

\* A call of the check-in with locals x fails and it goes on without it.
LEMMA FailedOK ==
  ASSUME NEW x \in RunType, x.pc \in InRecord, Counted(x, granted, spent)
  PROVE  /\ Counted(Failed(x), granted, spent)
         /\ \A cl : Explained(Failed(x), cl)
         /\ \A cl, act : Claiming(Failed(x), cl, act)
         /\ Revived(Failed(x), cooling, disabled)
<1> DEFINE y == Failed(x)
<1>1. /\ y.pc = "after" /\ y.clean = FALSE /\ y.rec.failed
      /\ y.rec.uid = x.rec.uid /\ y.rec.before = x.rec.before
      /\ y.rec.after = x.rec.after /\ y.rec.gained = x.rec.gained
      /\ y.rec.granted = x.rec.granted /\ y.rec.spent = x.rec.spent
  BY FailedFields
<1> HIDE DEF y
<1>2. Counted(y, granted, spent)
  BY <1>1 DEF Counted, InRecord, Claimless
<1>3. (\A cl : Explained(y, cl)) /\ (\A cl, act : Claiming(y, cl, act))
      /\ Revived(y, cooling, disabled)
  BY <1>1 DEF Explained, Claiming, Revived
<1>4. QED
  BY <1>2, <1>3 DEF y

\* The same, when the failing call has changed nothing upstream.
LEMMA FailingMoves ==
  ASSUME IInv, NEW r \in Runs, run[r].pc \in InRecord, Failing(r),
         UNCHANGED upstreamVars, UNCHANGED poolVars
  PROVE  IInv'
<1> DEFINE y == Failed(run[r])
<1>1. /\ LocalsTyped /\ run[r] \in RunType /\ y \in RunType
      /\ Counted(run[r], granted, spent)
  BY KnownRun, FailedFields
<1>2. /\ Counted(y, granted, spent) /\ Explained(y, claimed)
      /\ Claiming(y, claimed, activity) /\ Revived(y, cooling, disabled)
  BY <1>1, FailedOK
<1>3. run' = [run EXCEPT ![r] = y]
  BY DEF Failing
<1> HIDE DEF y
<1>4. LocalsTyped' /\ run'[r] = y /\ \A q \in Runs \ {r} : run'[q] = run[q]
  BY <1>1, <1>3 DEF LocalsTyped
<1>5. QED
  BY <1>2, <1>4, RunMoves

\* The check-in goes on with another status, its numbers untouched.
LEMMA StatusMoves ==
  ASSUME IInv, NEW r \in Runs, run[r].pc \in Claimless,
         NEW pc \in {"slot", "context", "after"}, NEW rec \in RecordType,
         Goto(r, pc, rec),
         rec.uid = run[r].rec.uid, rec.before = run[r].rec.before,
         rec.after = run[r].rec.after, rec.gained = run[r].rec.gained,
         rec.granted = run[r].rec.granted, rec.spent = run[r].rec.spent,
         pc = "after" /\ rec.status = "error" => rec.failed \/ rec.rival,
         pc = "after" /\ run[r].clean /\ activity => rec.uid \in claimed,
         UNCHANGED upstreamVars, UNCHANGED poolVars
  PROVE  IInv'
<1>1. LocalsTyped /\ Counted(run[r], granted, spent)
      /\ Claiming(run[r], claimed, activity)
  BY KnownRun
<1>2. pc \in InRecord /\ run[r].pc \in InRecord
  BY DEF InRecord, Claimless
<1>3. /\ LocalsTyped' /\ \A q \in Runs \ {r} : run'[q] = run[q]
      /\ run'[r].pc = pc /\ run'[r].rec = rec
      /\ run'[r].todo = run[r].todo /\ run'[r].listed = run[r].listed
      /\ run'[r].unoffered = run[r].unoffered /\ run'[r].clean = run[r].clean
  BY <1>1, <1>2, GotoFields
<1>4. Counted(run'[r], granted, spent)
  BY <1>1, <1>2, <1>3 DEF Counted, InRecord, Claimless
<1>5. Explained(run'[r], claimed) /\ Revived(run'[r], cooling, disabled)
  BY <1>3 DEF Explained, Revived
<1>6. Claiming(run'[r], claimed, activity)
  BY <1>1, <1>3 DEF Claiming, Claimless
<1>7. QED
  BY <1>3, <1>4, <1>5, <1>6, RunMoves

\* The first balance is the account's at this moment.
LEMMA BeforeOK ==
  ASSUME IInv, NEW r \in Runs, Before(r)
  PROVE  IInv'
<1> DEFINE u == run[r].rec.uid
           rec == [run[r].rec EXCEPT !.before = Balance(u),
                     !.granted = granted[u], !.spent = spent[u]]
<1>0. /\ run[r].pc = "before" /\ "before" \in InRecord
      /\ UNCHANGED upstreamVars /\ UNCHANGED poolVars
  BY DEF Before, InRecord
<1>1. CASE Goto(r, "slot", run[r].rec)
  <2>1. run[r].rec \in RecordType /\ run[r].pc \in Claimless
    BY <1>0, KnownRun DEF Claimless
  <2>2. QED
    BY <1>0, <1>1, <2>1, StatusMoves
<1>2. CASE Goto(r, "slot", rec)
  <2>1. /\ LocalsTyped /\ run[r].rec \in RecordType /\ u \in Accounts
        /\ granted[u] \in Nat /\ spent[u] \in Nat /\ Balance(u) \in Nat
        /\ Balance(u) = FirstBalance + granted[u] - spent[u]
        /\ Counted(run[r], granted, spent)
        /\ Claiming(run[r], claimed, activity)
    BY <1>0, KnownRun DEF Counted
  <2>2. rec \in RecordType
    <3>1. run[r].rec \in RecordType /\ Balance(u) \in Int /\ granted[u] \in Int
          /\ spent[u] \in Int
      BY <2>1
    <3>2. QED
      BY <3>1 DEF RecordType
  <2>3. rec.uid = u /\ rec.before = Balance(u) /\ rec.granted = granted[u]
    BY <2>1 DEF RecordType
  <2>4. rec.spent = spent[u] /\ rec.after = run[r].rec.after
    BY <2>1 DEF RecordType
  <2>5. rec.gained = run[r].rec.gained /\ rec.status = run[r].rec.status
    BY <2>1 DEF RecordType
  <2>7. \A e : e = rec => Goto(r, "slot", e)
    BY <1>2
  <2> HIDE DEF rec
  <2>8. Goto(r, "slot", rec) /\ "slot" \in InRecord
    BY <2>7 DEF InRecord
  <2>9. /\ LocalsTyped' /\ \A q \in Runs \ {r} : run'[q] = run[q]
        /\ run'[r].pc = "slot" /\ run'[r].rec = rec
        /\ run'[r].todo = run[r].todo /\ run'[r].listed = run[r].listed
        /\ run'[r].unoffered = run[r].unoffered /\ run'[r].clean = run[r].clean
    BY <2>1, <2>2, <2>8, GotoFields
  <2>10. Counted(run'[r], granted, spent)
    <3>1. run[r].rec.gained = 0 /\ run[r].rec.after = Unknown
      BY <1>0, <2>1 DEF Counted, Claimless
    <3>2. QED
      BY <2>1, <2>3, <2>4, <2>5, <2>9, <3>1 DEF Counted
  <2>11. Explained(run'[r], claimed) /\ Claiming(run'[r], claimed, activity)
         /\ Revived(run'[r], cooling, disabled)
    BY <1>0, <2>1, <2>3, <2>9 DEF Explained, Claiming, Revived, Claimless
  <2>12. QED
    BY <1>0, <2>9, <2>10, <2>11, RunMoves
<1>3. QED
  BY <1>1, <1>2 DEF Before

LEMMA SlotOK ==
  ASSUME IInv, NEW r \in Runs, Slot(r)
  PROVE  IInv'
<1>0. /\ run[r].pc = "slot" /\ run[r].pc \in InRecord /\ run[r].pc \in Claimless
      /\ UNCHANGED upstreamVars /\ UNCHANGED poolVars
      /\ run[r].rec \in RecordType
  BY KnownRun DEF Slot, InRecord, Claimless
<1>1. CASE activity /\ Goto(r, "context", run[r].rec)
  BY <1>0, <1>1, StatusMoves
<1>2. CASE ~activity /\ Goto(r, "after", [run[r].rec EXCEPT !.status = "no_activity"])
  <2> DEFINE e == [run[r].rec EXCEPT !.status = "no_activity"]
  <2>1. Goto(r, "after", e) /\ e \in RecordType
    BY <1>0, <1>2 DEF RecordType
  <2>2. e.status = "no_activity" /\ e.uid = run[r].rec.uid
    BY <1>0 DEF RecordType
  <2>3. /\ e.before = run[r].rec.before /\ e.after = run[r].rec.after
        /\ e.gained = run[r].rec.gained
    BY <1>0 DEF RecordType
  <2>4. e.granted = run[r].rec.granted /\ e.spent = run[r].rec.spent
    BY <1>0 DEF RecordType
  <2> HIDE DEF e
  <2>5. QED
    BY <1>0, <1>2, <2>1, <2>2, <2>3, <2>4, StatusMoves
<1>3. CASE Failing(r)
  BY <1>0, <1>3, FailingMoves
<1>4. QED
  BY <1>1, <1>2, <1>3 DEF Slot

\* Taken for claimed is on record as claimed; else it is not claimed yet.
LEMMA ContextOK ==
  ASSUME IInv, NEW r \in Runs, Context(r)
  PROVE  IInv'
<1> DEFINE u == run[r].rec.uid
<1>0. /\ run[r].pc = "context" /\ run[r].pc \in InRecord /\ u \in Accounts
      /\ UNCHANGED upstreamVars /\ UNCHANGED poolVars
      /\ LocalsTyped /\ run[r] \in RunType /\ run[r].rec \in RecordType
      /\ Counted(run[r], granted, spent) /\ Claiming(run[r], claimed, activity)
  BY KnownRun DEF Context, InRecord, Counted
<1>1. CASE Failing(r)
  BY <1>0, <1>1, FailingMoves
<1>2. ASSUME NEW offered \in BOOLEAN, NEW skip, NEW pc, NEW st, NEW uno,
             skip <=> u \in claimed \/ ~offered,
             pc = IF skip THEN "after" ELSE "post",
             st = IF skip THEN AlreadyClaimed ELSE "error",
             uno = run[r].unoffered \cup (IF offered THEN {} ELSE {u} \ claimed),
             run' = [run EXCEPT ![r] = [run[r] EXCEPT
                       !.pc = pc, !.rec.status = st, !.unoffered = uno]]
      PROVE  IInv'
  <2> DEFINE e == [run[r].rec EXCEPT !.status = st]
             y == [run[r] EXCEPT !.pc = pc, !.rec = e, !.unoffered = uno]
  <2>1. /\ pc \in {"after", "post"} /\ uno \subseteq Accounts
        /\ st \in {"error", "no_activity", AlreadyClaimed, "success"}
        /\ (pc = "post" => u \notin claimed)
        /\ (pc = "after" => st # "error")
        /\ (pc = "after" => u \in claimed \cup uno)
        /\ run[r].unoffered \subseteq uno
    BY <1>0, <1>2 DEF AlreadyClaimed, RunType
  <2>2. e \in RecordType /\ e.status = st /\ e.uid = u
    BY <1>0, <2>1 DEF RecordType
  <2>3. /\ e.before = run[r].rec.before /\ e.after = run[r].rec.after
        /\ e.gained = run[r].rec.gained
    BY <1>0 DEF RecordType
  <2>4. e.granted = run[r].rec.granted /\ e.spent = run[r].rec.spent
    BY <1>0 DEF RecordType
  <2>5. run' = [run EXCEPT ![r] = y]
    BY <1>2
  <2> HIDE DEF e
  <2>6. /\ y \in RunType /\ y.pc = pc /\ y.rec = e /\ y.unoffered = uno
        /\ y.todo = run[r].todo /\ y.listed = run[r].listed
        /\ y.clean = run[r].clean
    BY <1>0, <2>1, <2>2 DEF RunType, InRecord
  <2> HIDE DEF y
  <2>7. LocalsTyped' /\ run'[r] = y /\ \A q \in Runs \ {r} : run'[q] = run[q]
    BY <1>0, <2>5, <2>6 DEF LocalsTyped
  <2>8. Counted(y, granted, spent)
    BY <1>0, <2>1, <2>2, <2>3, <2>4, <2>6 DEF Counted, InRecord, Claimless
  <2>9. Explained(y, claimed) /\ Revived(y, cooling, disabled)
    BY <2>1, <2>2, <2>6 DEF Explained, Revived
  <2>10. Claiming(y, claimed, activity)
    BY <1>0, <2>1, <2>2, <2>6 DEF Claiming, Claimless
  <2>11. QED
    BY <1>0, <2>7, <2>8, <2>9, <2>10, RunMoves
<1>3. CASE \E offered \in BOOLEAN :
             run' = [run EXCEPT ![r] = [run[r] EXCEPT
               !.pc = IF Claimed(u \in claimed, offered) THEN "after" ELSE "post",
               !.rec.status = IF Claimed(u \in claimed, offered)
                              THEN AlreadyClaimed ELSE "error",
               !.unoffered = run[r].unoffered \cup
                               (IF offered THEN {} ELSE {u} \ claimed)]]
  <2>1. PICK offered \in BOOLEAN :
             run' = [run EXCEPT ![r] = [run[r] EXCEPT
               !.pc = IF Claimed(u \in claimed, offered) THEN "after" ELSE "post",
               !.rec.status = IF Claimed(u \in claimed, offered)
                              THEN AlreadyClaimed ELSE "error",
               !.unoffered = run[r].unoffered \cup
                               (IF offered THEN {} ELSE {u} \ claimed)]]
    BY <1>3
  <2> DEFINE skip == Claimed(u \in claimed, offered)
  <2>2. skip <=> u \in claimed \/ ~offered
    BY DEF Claimed
  <2>3. run' = [run EXCEPT ![r] = [run[r] EXCEPT
                  !.pc = IF skip THEN "after" ELSE "post",
                  !.rec.status = IF skip THEN AlreadyClaimed ELSE "error",
                  !.unoffered = run[r].unoffered \cup
                                  (IF offered THEN {} ELSE {u} \ claimed)]]
    BY <2>1
  <2> HIDE DEF skip, u
  <2>4. QED
    BY <1>2, <2>2, <2>3
<1>4. QED
  BY <1>1, <1>3, Zenon DEF Context

LEMMA SuccessFields ==
  ASSUME NEW x \in RunType, NEW g \in Int
  PROVE  LET y == Success(x, g)
         IN  /\ y \in RunType /\ y.pc = "after" /\ y.todo = x.todo
             /\ y.listed = x.listed /\ y.unoffered = x.unoffered
             /\ y.rec.status = "success" /\ y.rec.gained = g
             /\ y.rec.uid = x.rec.uid
             /\ y.rec.before = x.rec.before /\ y.rec.after = x.rec.after
             /\ y.rec.granted = x.rec.granted /\ y.rec.spent = x.rec.spent
<1> DEFINE rec == [x.rec EXCEPT !.status = "success", !.gained = g]
           y == [x EXCEPT !.pc = "after", !.rec = rec]
<1>1. x.rec \in RecordType
  BY DEF RunType
<1>2. rec \in RecordType /\ rec.status = "success" /\ rec.gained = g
  BY <1>1 DEF RecordType
<1>3. rec.uid = x.rec.uid /\ rec.before = x.rec.before
  BY <1>1 DEF RecordType
<1>4. rec.after = x.rec.after /\ rec.granted = x.rec.granted
      /\ rec.spent = x.rec.spent
  BY <1>1 DEF RecordType
<1>5. Success(x, g) = y
  BY DEF Success
<1> HIDE DEF rec
<1>6. /\ y \in RunType /\ y.pc = "after" /\ y.rec = rec /\ y.todo = x.todo
      /\ y.listed = x.listed /\ y.unoffered = x.unoffered
  BY <1>2 DEF RunType, InRecord
<1> HIDE DEF y
<1>7. QED
  BY <1>2, <1>3, <1>4, <1>5, <1>6

\* The locals of the winner of a claim, whatever its answer.
LEMMA WonOK ==
  ASSUME NEW x \in RunType, x.pc = "post", NEW gr,
         \A u \in Accounts : granted[u] \in Nat /\ gr[u] \in Nat
                               /\ granted[u] <= gr[u],
         gr[x.rec.uid] = granted[x.rec.uid] + Grant,
         Counted(x, granted, spent), Claiming(x, claimed, activity),
         NEW y, \/ y = Success(x, Grant) \/ y = Success(x, 0) \/ y = Failed(x)
  PROVE  LET cl == claimed \cup {x.rec.uid}
         IN  /\ y \in RunType /\ Counted(y, gr, spent) /\ Explained(y, cl)
             /\ Claiming(y, cl, activity) /\ Revived(y, cooling, disabled)
<1> DEFINE u == x.rec.uid
<1>1. Grant \in Nat /\ u \in Accounts /\ granted[u] \in Nat
  BY CheckinAssumption DEF Counted
<1>2. CASE y = Failed(x)
  <2>1. y \in RunType /\ y.rec.granted \in Int /\ y.rec.gained \in Int
    BY <1>2, FailedFields DEF RunType, RecordType
  <2>2. /\ Counted(y, granted, spent) /\ \A cl : Explained(y, cl)
        /\ \A cl, act : Claiming(y, cl, act)
        /\ Revived(y, cooling, disabled)
    BY <1>2, FailedOK DEF InRecord
  <2>3. Counted(y, gr, spent)
    BY <2>1, <2>2, MoreGranted
  <2>4. QED
    BY <2>1, <2>2, <2>3
<1>3. ASSUME NEW g \in {Grant, 0}, y = Success(x, g)
      PROVE  /\ y \in RunType /\ Counted(y, gr, spent)
             /\ Explained(y, claimed \cup {u})
             /\ Claiming(y, claimed \cup {u}, activity)
             /\ Revived(y, cooling, disabled)
  <2>1. g \in Int /\ 0 <= g /\ g <= Grant
    BY <1>1
  <2>2. /\ y \in RunType /\ y.pc = "after" /\ y.todo = x.todo
        /\ y.listed = x.listed /\ y.unoffered = x.unoffered
        /\ y.rec.status = "success" /\ y.rec.gained = g /\ y.rec.uid = u
        /\ y.rec.before = x.rec.before /\ y.rec.after = x.rec.after
        /\ y.rec.granted = x.rec.granted /\ y.rec.spent = x.rec.spent
    BY <1>3, <2>1, SuccessFields
  <2>3. y.clean = x.clean
    BY <1>3 DEF Success, RunType
  <2>4. x.rec.granted \in Int /\ 0 <= x.rec.granted
        /\ x.rec.granted <= granted[u]
    BY DEF Counted, InRecord, RunType, RecordType
  <2>5. x.rec.granted <= gr[u] /\ g <= gr[u] - x.rec.granted
    BY <1>1, <2>1, <2>4
  <2>6. Counted(y, gr, spent)
    BY <1>1, <2>1, <2>2, <2>4, <2>5 DEF Counted, InRecord, Claimless
  <2>7. Explained(y, claimed \cup {u}) /\ Revived(y, cooling, disabled)
    BY <2>2 DEF Explained, Revived
  <2>8. Claiming(y, claimed \cup {u}, activity)
    BY <2>2, <2>3 DEF Claiming, Claimless
  <2>9. QED
    BY <2>2, <2>6, <2>7, <2>8
<1>4. QED
  BY <1>2, <1>3

\* Upstream grants u to another check-in; the one with locals x is told if it
\* is about to claim u itself.
LEMMA BeatenOK ==
  ASSUME NEW x \in RunType, NEW u, NEW gr,
         \A v \in Accounts : granted[v] \in Nat /\ gr[v] \in Nat
                               /\ granted[v] <= gr[v],
         Counted(x, granted, spent), Explained(x, claimed),
         Claiming(x, claimed, activity), Revived(x, cooling, disabled)
  PROVE  LET y == Beaten(x, u)
             cl == claimed \cup {u}
         IN  /\ y \in RunType /\ Counted(y, gr, spent) /\ Explained(y, cl)
             /\ Claiming(y, cl, activity) /\ Revived(y, cooling, disabled)
<1> DEFINE y == Beaten(x, u)
<1>1. /\ y \in RunType /\ y.pc = x.pc /\ y.todo = x.todo
      /\ y.listed = x.listed /\ y.unoffered = x.unoffered
      /\ y.clean = x.clean /\ y.cooled = x.cooled
      /\ y.rec.uid = x.rec.uid /\ y.rec.status = x.rec.status
      /\ y.rec.before = x.rec.before /\ y.rec.after = x.rec.after
      /\ y.rec.gained = x.rec.gained /\ y.rec.granted = x.rec.granted
      /\ y.rec.spent = x.rec.spent /\ y.rec.failed = x.rec.failed
      /\ (x.rec.rival => y.rec.rival)
      /\ (x.pc = "post" /\ x.rec.uid = u => y.rec.rival)
  BY BeatenFields
<1> HIDE DEF y
<1>2. y.rec.granted \in Int /\ y.rec.gained \in Int
  BY <1>1 DEF RunType, RecordType
<1>3. Counted(y, granted, spent)
  BY <1>1 DEF Counted
<1>4. Counted(y, gr, spent)
  BY <1>2, <1>3, MoreGranted
<1>5. Explained(y, claimed \cup {u})
  BY <1>1 DEF Explained
<1>6. Claiming(y, claimed \cup {u}, activity) /\ Revived(y, cooling, disabled)
  BY <1>1 DEF Claiming, Revived
<1>7. QED
  BY <1>1, <1>4, <1>5, <1>6 DEF y

\* What upstream grants while the check-in runs it may report as gained.
LEMMA PostOK ==
  ASSUME IInv, NEW r \in Runs, Post(r)
  PROVE  IInv'
<1> DEFINE u == run[r].rec.uid
<1>0. /\ run[r].pc = "post" /\ run[r].pc \in InRecord /\ run[r].pc \in Claimless
      /\ UNCHANGED <<spent, activity, days, broke, cooling, disabled>>
      /\ run[r] \in RunType /\ run[r].rec \in RecordType
      /\ Explained(run[r], claimed) /\ Counted(run[r], granted, spent)
      /\ u \in Accounts /\ Claiming(run[r], claimed, activity) /\ LocalsTyped
  BY KnownRun DEF Post, InRecord, Claimless, Counted, poolVars
<1>1. CASE /\ UNCHANGED <<claimed, granted>>
           /\ Failing(r) \/ (u \in claimed /\ Goto(r, "after", run[r].rec))
  <2>1. UNCHANGED upstreamVars /\ UNCHANGED poolVars
    BY <1>0, <1>1 DEF upstreamVars, poolVars
  <2>2. CASE u \in claimed /\ Goto(r, "after", run[r].rec)
    BY <1>0, <2>1, <2>2, StatusMoves DEF Explained
  <2>3. CASE Failing(r)
    BY <1>0, <2>1, <2>3, FailingMoves
  <2>4. QED
    BY <1>1, <2>2, <2>3
<1>2. ASSUME NEW won,
             \/ won = Success(run[r], Grant) \/ won = Success(run[r], 0)
             \/ won = Failed(run[r]),
             claimed' = claimed \cup {u},
             granted' = [granted EXCEPT ![u] = granted[u] + Grant],
             run' = [q \in Runs |-> IF q = r THEN won ELSE Beaten(run[q], u)]
      PROVE  IInv'
  <2>1. Grant \in Nat /\ FirstBalance \in Nat
    BY CheckinAssumption
  <2>2. /\ granted \in [Accounts -> Nat] /\ granted' \in [Accounts -> Nat]
        /\ \A v \in Accounts : granted[v] \in Nat /\ granted'[v] \in Nat
                                  /\ granted[v] <= granted'[v]
        /\ granted'[u] = granted[u] + Grant
    BY <1>0, <1>2, <2>1 DEF IInv, UpstreamOK
  <2>3. UpstreamOK'
    <3>1. ASSUME NEW v \in Accounts PROVE Balance(v)' >= 0
      <4>1. /\ granted[v] \in Nat /\ granted'[v] \in Nat /\ spent[v] \in Nat
            /\ granted[v] <= granted'[v] /\ spent' = spent
            /\ FirstBalance + granted[v] - spent[v] >= 0
        BY <1>0, <2>2 DEF IInv, UpstreamOK, Balance
      <4>2. QED
        BY <2>1, <4>1 DEF Balance
    <3>2. claimed' \subseteq Accounts
      BY <1>0, <1>2 DEF IInv, UpstreamOK
    <3>3. QED
      BY <1>0, <2>2, <3>1, <3>2 DEF IInv, UpstreamOK
  <2>4. PICK gr : gr = granted'
    OBVIOUS
  <2>5. /\ \A v \in Accounts : granted[v] \in Nat /\ gr[v] \in Nat
                                  /\ granted[v] <= gr[v]
        /\ gr[u] = granted[u] + Grant
    BY <2>2, <2>4
  <2>6. /\ won \in RunType /\ Counted(won, gr, spent)
        /\ Explained(won, claimed \cup {u})
        /\ Claiming(won, claimed \cup {u}, activity)
        /\ Revived(won, cooling, disabled)
    BY <1>0, <1>2, <2>5, WonOK
  <2>7. ASSUME NEW q \in Runs
        PROVE  LET y == Beaten(run[q], u)
               IN  /\ y \in RunType /\ Counted(y, gr, spent)
                   /\ Explained(y, claimed \cup {u})
                   /\ Claiming(y, claimed \cup {u}, activity)
                   /\ Revived(y, cooling, disabled)
    <3>1. /\ run[q] \in RunType /\ Counted(run[q], granted, spent)
          /\ Explained(run[q], claimed) /\ Claiming(run[q], claimed, activity)
          /\ Revived(run[q], cooling, disabled)
      BY KnownRun
    <3>2. QED
      BY <2>5, <3>1, BeatenOK
  <2>8. ASSUME NEW q \in Runs
        PROVE  /\ run'[q] \in RunType /\ Counted(run'[q], gr, spent)
               /\ Explained(run'[q], claimed \cup {u})
               /\ Claiming(run'[q], claimed \cup {u}, activity)
               /\ Revived(run'[q], cooling, disabled)
    <3>1. run'[q] = IF q = r THEN won ELSE Beaten(run[q], u)
      BY <1>2
    <3>2. CASE q = r
      BY <2>6, <3>1, <3>2
    <3>3. CASE q # r
      BY <2>7, <3>1, <3>3
    <3>4. QED
      BY <3>2, <3>3
  <2>9. LocalsTyped'
    <3>1. run' = [q \in Runs |-> run'[q]]
      BY <1>2
    <3>2. QED
      BY <2>8, <3>1 DEF LocalsTyped
  <2>10. RunsOK'
    BY <1>0, <1>2, <2>4, <2>8 DEF RunsOK
  <2>11. QED
    BY <2>3, <2>9, <2>10 DEF IInv
<1>3. QED
  BY <1>1, <1>2 DEF Post

\* The record once the second balance, a, is known or not.
Measured(rec, a) ==
    [Since(rec) EXCEPT !.after = a, !.gained = Gained(Since(rec), a)]

\* The numbers of a record whose account has its second balance, or none.
LEMMA MeasuredFields ==
  ASSUME IInv, NEW r \in Runs, run[r].pc = "after",
         NEW a, a = Unknown \/ a = Balance(run[r].rec.uid)
  PROVE  LET rec == run[r].rec
             e == Measured(rec, a)
         IN  /\ e \in RecordType /\ e.uid = rec.uid /\ e.after = a
             /\ e.status = rec.status /\ e.failed = rec.failed
             /\ e.rival = rec.rival
             /\ -e.spent <= e.gained /\ e.gained <= e.granted
<1> DEFINE rec == run[r].rec
           u == rec.uid
           s == Since(rec)
           e == Measured(rec, a)
<1>1. /\ rec \in RecordType /\ u \in Accounts
      /\ granted[u] \in Nat /\ spent[u] \in Nat /\ Balance(u) \in Nat
      /\ Balance(u) = FirstBalance + granted[u] - spent[u]
      /\ FirstBalance \in Nat
      /\ 0 <= rec.granted /\ rec.granted <= granted[u]
      /\ 0 <= rec.spent /\ rec.spent <= spent[u]
      /\ \/ rec.before = Unknown
         \/ rec.before = FirstBalance + rec.granted - rec.spent
      /\ 0 <= rec.gained /\ rec.gained <= granted[u] - rec.granted
      /\ {rec.before, rec.gained, rec.granted, rec.spent} \subseteq Int
  BY KnownRun, FieldsTyped, CheckinAssumption DEF Counted, InRecord, IInv
<1>2. granted[u] - rec.granted \in Int /\ spent[u] - rec.spent \in Int
  BY <1>1
<1>3. s \in RecordType
  BY <1>1, <1>2 DEF Since, RecordType
<1>4. s.granted = granted[u] - rec.granted /\ s.spent = spent[u] - rec.spent
  BY <1>1 DEF Since, RecordType
<1>5. s.uid = u /\ s.before = rec.before /\ s.gained = rec.gained
  BY <1>1 DEF Since, RecordType
<1>6. s.status = rec.status /\ s.failed = rec.failed /\ s.rival = rec.rival
  BY <1>1 DEF Since, RecordType
<1> HIDE DEF s
<1>7. a \in Int
  BY <1>1 DEF Unknown
<1>8. /\ Gained(s, a) \in Int
      /\ -s.spent <= Gained(s, a) /\ Gained(s, a) <= s.granted
  <2>1. CASE s.before >= 0 /\ a >= 0
    <3>1. s.before = FirstBalance + rec.granted - rec.spent /\ a = Balance(u)
          /\ Gained(s, a) = a - s.before
      BY <1>1, <1>5, <2>1 DEF Unknown, Gained
    <3>2. QED
      BY <1>1, <1>4, <3>1
  <2>2. CASE ~(s.before >= 0 /\ a >= 0)
    <3>1. Gained(s, a) = rec.gained
      BY <1>5, <2>2 DEF Gained
    <3>2. QED
      BY <1>1, <1>4, <3>1
  <2>3. QED
    BY <2>1, <2>2
<1>9. e = [s EXCEPT !.after = a, !.gained = Gained(s, a)]
  BY DEF Measured, s
<1> HIDE DEF e
<1>10. e \in RecordType
  BY <1>3, <1>7, <1>8, <1>9 DEF RecordType
<1>11. e.after = a /\ e.gained = Gained(s, a) /\ e.uid = s.uid
  BY <1>3, <1>9 DEF RecordType
<1>12. e.granted = s.granted /\ e.spent = s.spent /\ e.status = s.status
  BY <1>3, <1>9 DEF RecordType
<1>13. e.failed = s.failed /\ e.rival = s.rival
  BY <1>3, <1>9 DEF RecordType
<1>14. QED
  BY <1>5, <1>6, <1>8, <1>10, <1>11, <1>12, <1>13 DEF e

LEMMA AfterOK ==
  ASSUME IInv, NEW r \in Runs, After(r)
  PROVE  IInv'
<1>0. /\ run[r].pc = "after" /\ run[r] \in RunType /\ LocalsTyped
      /\ UNCHANGED upstreamVars /\ UNCHANGED poolVars
      /\ run[r].rec.uid \in Accounts /\ Explained(run[r], claimed)
      /\ Claiming(run[r], claimed, activity)
  BY KnownRun DEF After, Counted
<1>1. Since(run[r].rec).uid = run[r].rec.uid
  BY KnownRun DEF Since, RecordType
<1>2. PICK a : /\ a = Unknown \/ a = Balance(run[r].rec.uid)
               /\ LET e == Measured(run[r].rec, a)
                  IN  \/ run' = [run EXCEPT ![r] = [run[r] EXCEPT
                                   !.pc = "reenable", !.cooled = FALSE, !.rec = e]]
                      \/ a = Unknown /\ run' = [run EXCEPT ![r] =
                                   [run[r] EXCEPT !.pc = "add", !.rec = e]]
  <2>1. CASE Goto(r, "add", [Since(run[r].rec) EXCEPT
                                !.gained = Gained(Since(run[r].rec), Unknown)])
    <3>1. Since(run[r].rec).after = Unknown /\ Since(run[r].rec) \in RecordType
      <4>1. run[r].rec.after = Unknown /\ run[r].rec \in RecordType
            /\ granted[run[r].rec.uid] \in Int /\ spent[run[r].rec.uid] \in Int
            /\ {run[r].rec.granted, run[r].rec.spent} \subseteq Int
        BY <1>0, KnownRun, FieldsTyped DEF Counted, InRecord
      <4>2. /\ granted[run[r].rec.uid] - run[r].rec.granted \in Int
            /\ spent[run[r].rec.uid] - run[r].rec.spent \in Int
        BY <4>1
      <4>3. QED
        BY <4>1, <4>2 DEF Since, RecordType
    <3>2. [Since(run[r].rec) EXCEPT !.gained = Gained(Since(run[r].rec), Unknown)]
            = Measured(run[r].rec, Unknown)
      BY <3>1 DEF Measured, RecordType
    <3>3. QED
      BY <2>1, <3>2 DEF Goto
  <2>2. CASE run' = [run EXCEPT ![r] = [run[r] EXCEPT !.pc = "reenable",
                       !.cooled = FALSE, !.rec =
                         [Since(run[r].rec) EXCEPT
                            !.after = Balance(run[r].rec.uid),
                            !.gained = Gained(Since(run[r].rec),
                                              Balance(run[r].rec.uid))]]]
    BY <2>2 DEF Measured
  <2>3. QED
    BY <1>1, <2>1, <2>2, Zenon DEF After
<1> DEFINE e == Measured(run[r].rec, a)
           y == run'[r]
<1>3. /\ e \in RecordType /\ e.uid = run[r].rec.uid /\ e.after = a
      /\ e.status = run[r].rec.status /\ e.failed = run[r].rec.failed
      /\ e.rival = run[r].rec.rival
      /\ -e.spent <= e.gained /\ e.gained <= e.granted
  BY <1>0, <1>2, MeasuredFields
<1>4. \/ run' = [run EXCEPT ![r] = [run[r] EXCEPT !.pc = "reenable",
                                      !.cooled = FALSE, !.rec = e]]
      \/ a = Unknown
         /\ run' = [run EXCEPT ![r] = [run[r] EXCEPT !.pc = "add", !.rec = e]]
  BY <1>2
<1> HIDE DEF e
<1>5. /\ y \in RunType /\ y.rec = e /\ y.listed = run[r].listed
      /\ y.todo = run[r].todo /\ y.unoffered = run[r].unoffered
      /\ y.clean = run[r].clean
      /\ y.pc = "reenable" \/ (y.pc = "add" /\ a = Unknown)
      /\ LocalsTyped' /\ \A q \in Runs \ {r} : run'[q] = run[q]
  <2>1. CASE run' = [run EXCEPT ![r] = [run[r] EXCEPT !.pc = "reenable",
                                          !.cooled = FALSE, !.rec = e]]
    <3> DEFINE z == [run[r] EXCEPT !.pc = "reenable", !.cooled = FALSE, !.rec = e]
    <3>1. /\ z \in RunType /\ z.rec = e /\ z.listed = run[r].listed
          /\ z.todo = run[r].todo /\ z.unoffered = run[r].unoffered
          /\ z.clean = run[r].clean /\ z.pc = "reenable"
      BY <1>0, <1>3 DEF RunType
    <3>2. run' = [run EXCEPT ![r] = z]
      BY <2>1
    <3> HIDE DEF z
    <3>3. QED
      BY <1>0, <3>1, <3>2 DEF LocalsTyped
  <2>2. CASE a = Unknown /\ run' = [run EXCEPT ![r] =
                [run[r] EXCEPT !.pc = "add", !.rec = e]]
    <3> DEFINE z == [run[r] EXCEPT !.pc = "add", !.rec = e]
    <3>1. /\ z \in RunType /\ z.rec = e /\ z.listed = run[r].listed
          /\ z.todo = run[r].todo /\ z.unoffered = run[r].unoffered
          /\ z.clean = run[r].clean /\ z.pc = "add"
      BY <1>0, <1>3 DEF RunType
    <3>2. run' = [run EXCEPT ![r] = z]
      BY <2>2
    <3> HIDE DEF z
    <3>3. QED
      BY <1>0, <2>2, <3>1, <3>2 DEF LocalsTyped
  <2>3. QED
    BY <1>4, <2>1, <2>2
<1> HIDE DEF y
<1>6. Counted(y, granted, spent)
  BY <1>0, <1>3, <1>5 DEF Counted, InRecord, Claimless
<1>7. Explained(y, claimed) /\ Claiming(y, claimed, activity)
  BY <1>0, <1>3, <1>5 DEF Explained, Claiming, Claimless
<1>8. Revived(y, cooling, disabled)
  BY <1>3, <1>5 DEF Revived, Unknown
<1>9. QED
  BY <1>0, <1>5, <1>6, <1>7, <1>8, RunMoves DEF y

\* A funded account leaves its cooldown here, unless it is disabled.
LEMMA ReenableOK ==
  ASSUME IInv, NEW r \in Runs, Reenable(r)
  PROVE  IInv'
<1>1. /\ LocalsTyped /\ run[r].rec \in RecordType /\ run[r].pc = "reenable"
      /\ Counted(run[r], granted, spent) /\ Explained(run[r], claimed)
      /\ Claiming(run[r], claimed, activity)
      /\ Goto(r, "add", run[r].rec)
      /\ cooling' = IF Revives(run[r].rec) /\ run[r].rec.uid \notin disabled
                    THEN cooling \ {run[r].rec.uid} ELSE cooling
      /\ UNCHANGED upstreamVars /\ disabled' = disabled
  BY KnownRun DEF Reenable
<1>2. /\ LocalsTyped' /\ \A q \in Runs \ {r} : run'[q] = run[q]
      /\ run'[r].pc = "add" /\ run'[r].rec = run[r].rec
      /\ run'[r].todo = run[r].todo /\ run'[r].listed = run[r].listed
      /\ run'[r].unoffered = run[r].unoffered /\ run'[r].clean = run[r].clean
  BY <1>1, GotoFields
<1>3. Counted(run'[r], granted, spent) /\ Explained(run'[r], claimed)
      /\ Claiming(run'[r], claimed, activity)
  BY <1>1, <1>2 DEF Counted, Explained, Claiming, Claimless, InRecord
<1>4. Revived(run'[r], cooling', disabled) /\ cooling' \subseteq cooling
  BY <1>1, <1>2 DEF Revived, Revives
<1>5. QED
  BY <1>1, <1>2, <1>3, <1>4, OneMoves

LEMMA AddRecordOK ==
  ASSUME IInv, NEW r \in Runs, AddRecord(r)
  PROVE  IInv'
<1>1. /\ LocalsTyped /\ run[r].pc = "add" /\ NoRecord \in RecordType
      /\ Claiming(run[r], claimed, activity)
      /\ Goto(r, "loop", NoRecord)
      /\ UNCHANGED upstreamVars /\ UNCHANGED poolVars
  BY KnownRun, IdleRunOK DEF AddRecord
<1>2. /\ LocalsTyped' /\ \A q \in Runs \ {r} : run'[q] = run[q]
      /\ run'[r].pc = "loop" /\ run'[r].rec = NoRecord
      /\ run'[r].todo = run[r].todo /\ run'[r].listed = run[r].listed
      /\ run'[r].unoffered = run[r].unoffered /\ run'[r].clean = run[r].clean
  BY <1>1, GotoFields
<1>3. Counted(run'[r], granted, spent) /\ Explained(run'[r], claimed)
      /\ Claiming(run'[r], claimed, activity) /\ Revived(run'[r], cooling, disabled)
  BY <1>1, <1>2
     DEF Counted, Explained, Claiming, Claimless, InRecord, Revived, NoRecord
<1>4. QED
  BY <1>1, <1>2, <1>3, RunMoves

-----------------------------------------------------------------------------
(* Chats, the administrator, the day, the process *)

LEMMA SpendOK ==
  ASSUME IInv, NEW u \in Accounts, Spend(u)
  PROVE  IInv'
<1>1. /\ UNCHANGED <<claimed, granted, activity, cooling, disabled, run>>
      /\ Balance(u) > 0 /\ spent' = [spent EXCEPT ![u] = spent[u] + 1]
  BY DEF Spend, poolVars
<1>2. /\ spent \in [Accounts -> Nat] /\ spent' \in [Accounts -> Nat]
      /\ \A v \in Accounts : spent[v] <= spent'[v]
      /\ \A v \in Accounts : spent'[v] = IF v = u THEN spent[u] + 1 ELSE spent[v]
  BY <1>1 DEF IInv, UpstreamOK
<1>3. UpstreamOK'
  <2>1. ASSUME NEW v \in Accounts PROVE Balance(v)' >= 0
    <3>1. /\ granted[v] \in Nat /\ spent[v] \in Nat /\ FirstBalance \in Nat
          /\ FirstBalance + granted[v] - spent[v] >= 0
          /\ FirstBalance + granted[u] - spent[u] > 0
      BY <1>1, KnownRun, CheckinAssumption DEF IInv, UpstreamOK, Balance
    <3>2. QED
      BY <1>1, <1>2, <3>1 DEF Balance
  <2>2. QED
    BY <1>1, <1>2, <2>1 DEF IInv, UpstreamOK
<1>4. ASSUME NEW r \in Runs
      PROVE  Counted(run[r], granted, spent')
  <2>1. Counted(run[r], granted, spent) /\ {run[r].rec.spent} \subseteq Int
    BY FieldsTyped DEF IInv, RunsOK
  <2>2. run[r].pc \in InRecord => run[r].rec.spent <= spent'[run[r].rec.uid]
    <3> SUFFICES ASSUME run[r].pc \in InRecord
                 PROVE  run[r].rec.spent <= spent'[run[r].rec.uid]
      OBVIOUS
    <3>1. run[r].rec.uid \in Accounts
      BY <2>1 DEF Counted, InRecord
    <3>2. /\ run[r].rec.spent <= spent[run[r].rec.uid]
          /\ spent[run[r].rec.uid] \in Nat /\ spent'[run[r].rec.uid] \in Nat
          /\ spent[run[r].rec.uid] <= spent'[run[r].rec.uid]
      BY <1>2, <2>1, <3>1 DEF Counted
    <3>3. QED
      BY <2>1, <3>2
  <2>3. QED
    BY <2>1, <2>2 DEF Counted
<1>5. QED
  BY <1>1, <1>3, <1>4 DEF IInv, RunsOK, LocalsTyped

\* A field of every check-in's locals is set, the record is left alone.
LEMMA OthersSet ==
  ASSUME LocalsTyped, NEW c \in [Runs -> BOOLEAN],
         \/ run' = [r \in Runs |-> [run[r] EXCEPT !.cooled = c[r]]]
         \/ run' = [r \in Runs |-> [run[r] EXCEPT !.clean = c[r]]]
  PROVE  /\ LocalsTyped'
         /\ \A r \in Runs : /\ run'[r].pc = run[r].pc /\ run'[r].rec = run[r].rec
                             /\ run'[r].todo = run[r].todo
                             /\ run'[r].listed = run[r].listed
                             /\ run'[r].unoffered = run[r].unoffered
<1>1. \A r \in Runs : run[r] \in RunType
  BY DEF LocalsTyped
<1>2. ASSUME NEW r \in Runs
      PROVE  /\ run'[r] \in RunType
             /\ run'[r].pc = run[r].pc /\ run'[r].rec = run[r].rec
             /\ run'[r].todo = run[r].todo /\ run'[r].listed = run[r].listed
             /\ run'[r].unoffered = run[r].unoffered
  BY <1>1 DEF RunType
<1>3. run' = [r \in Runs |-> run'[r]]
  OBVIOUS
<1>4. run' \in [Runs -> RunType]
  BY <1>2, <1>3
<1>5. QED
  BY <1>2, <1>4 DEF LocalsTyped

LEMMA RefuseOK ==
  ASSUME IInv, NEW u \in Accounts, Refuse(u)
  PROVE  IInv'
<1>1. UNCHANGED <<claimed, granted, spent, activity, cooling, disabled, run>>
  BY DEF Refuse, upstreamVars
<1>2. QED
  BY <1>1 DEF IInv, LocalsTyped, UpstreamOK, Balance, RunsOK

LEMMA ExhaustOK ==
  ASSUME IInv, NEW u \in Accounts, Exhaust(u)
  PROVE  IInv'
<1> DEFINE c == [r \in Runs |-> run[r].cooled \/ run[r].rec.uid = u]
<1>1. /\ UNCHANGED <<claimed, granted, spent, activity, disabled>>
      /\ cooling' = cooling \cup {u}
      /\ run' = [r \in Runs |-> [run[r] EXCEPT
                     !.cooled = run[r].cooled \/ run[r].rec.uid = u]]
  BY DEF Exhaust, upstreamVars
<1>2. c \in [Runs -> BOOLEAN]
  OBVIOUS
<1>3. run' = [r \in Runs |-> [run[r] EXCEPT !.cooled = c[r]]]
  BY <1>1
<1>4. \A r \in Runs : run'[r].cooled = c[r]
  BY <1>3, FieldsTyped DEF RunType, IInv
<1>5. \A r \in Runs : c[r] <=> run[r].cooled \/ run[r].rec.uid = u
  OBVIOUS
<1> HIDE DEF c
<1>6. /\ LocalsTyped'
      /\ \A r \in Runs : /\ run'[r].pc = run[r].pc /\ run'[r].rec = run[r].rec
                          /\ run'[r].todo = run[r].todo
                          /\ run'[r].listed = run[r].listed
                          /\ run'[r].unoffered = run[r].unoffered
  BY <1>2, <1>3, OthersSet DEF IInv
<1>7. \A r \in Runs : run'[r].clean = run[r].clean
  BY <1>3, FieldsTyped DEF RunType, IInv
<1>8. UpstreamOK'
  BY <1>1 DEF IInv, UpstreamOK, Balance
<1>9. ASSUME NEW r \in Runs
      PROVE  /\ Counted(run'[r], granted', spent') /\ Explained(run'[r], claimed')
             /\ Claiming(run'[r], claimed', activity')
             /\ Revived(run'[r], cooling', disabled')
  <2>1. /\ Counted(run[r], granted, spent) /\ Explained(run[r], claimed)
        /\ Claiming(run[r], claimed, activity)
        /\ Revived(run[r], cooling, disabled)
    BY DEF IInv, RunsOK
  <2>2. Counted(run'[r], granted', spent')
    BY <1>1, <1>6, <2>1 DEF Counted
  <2>3. Explained(run'[r], claimed')
    BY <1>1, <1>6, <2>1 DEF Explained
  <2>4. Claiming(run'[r], claimed', activity')
    BY <1>1, <1>6, <1>7, <2>1 DEF Claiming
  <2>5. run'[r].cooled <=> run[r].cooled \/ run[r].rec.uid = u
    BY <1>4, <1>5
  <2>6. /\ run'[r].pc = run[r].pc /\ run'[r].rec = run[r].rec
        /\ cooling' = cooling \cup {u} /\ disabled' = disabled
    BY <1>1, <1>6
  <2>7. Revived(run'[r], cooling', disabled')
    BY <2>1, <2>5, <2>6 DEF Revived
  <2>8. QED
    BY <2>2, <2>3, <2>4, <2>7
<1>10. QED
  BY <1>6, <1>8, <1>9 DEF IInv, RunsOK

LEMMA ManageOK ==
  ASSUME IInv, NEW u \in Accounts, Manage(u)
  PROVE  IInv'
<1>1. /\ UNCHANGED <<claimed, granted, spent, activity, run>>
      /\ \/ disabled' = disabled \cup {u} /\ cooling' = cooling
         \/ disabled' = disabled \ {u} /\ cooling' = cooling \ {u}
  BY DEF Manage, upstreamVars
<1>2. \A r \in Runs : Revived(run[r], cooling, disabled)
                         => Revived(run[r], cooling', disabled')
  BY <1>1 DEF Revived
<1>3. UpstreamOK' /\ LocalsTyped'
  BY <1>1 DEF IInv, UpstreamOK, Balance, LocalsTyped
<1>4. RunsOK'
  BY <1>1, <1>2 DEF IInv, RunsOK
<1>5. QED
  BY <1>3, <1>4 DEF IInv

\* No check-in of the day before is asked for the claims of this one.
LEMMA NewDayOK ==
  ASSUME IInv, NewDay
  PROVE  IInv'
<1> DEFINE c == [r \in Runs |-> FALSE]
<1>1. /\ UNCHANGED <<granted, spent, cooling, disabled>> /\ claimed' = {}
      /\ run' = [r \in Runs |-> [run[r] EXCEPT !.clean = FALSE]]
  BY DEF NewDay, poolVars
<1>2. c \in [Runs -> BOOLEAN] /\ run' = [r \in Runs |-> [run[r] EXCEPT !.clean = c[r]]]
  BY <1>1
<1> HIDE DEF c
<1>3. \A r \in Runs : run'[r].clean = FALSE /\ run'[r].cooled = run[r].cooled
  BY <1>1, FieldsTyped DEF RunType, IInv
<1>4. /\ LocalsTyped'
      /\ \A r \in Runs : /\ run'[r].pc = run[r].pc /\ run'[r].rec = run[r].rec
                          /\ run'[r].todo = run[r].todo
                          /\ run'[r].listed = run[r].listed
                          /\ run'[r].unoffered = run[r].unoffered
  BY <1>2, OthersSet DEF IInv
<1>5. UpstreamOK'
  BY <1>1 DEF IInv, UpstreamOK, Balance
<1>6. ASSUME NEW r \in Runs
      PROVE  /\ Counted(run'[r], granted', spent') /\ Explained(run'[r], claimed')
             /\ Claiming(run'[r], claimed', activity')
             /\ Revived(run'[r], cooling', disabled')
  <2>1. /\ Counted(run[r], granted, spent) /\ Explained(run[r], claimed)
        /\ Revived(run[r], cooling, disabled)
    BY DEF IInv, RunsOK
  <2>2. Counted(run'[r], granted', spent')
    BY <1>1, <1>4, <2>1 DEF Counted
  <2>3. Explained(run'[r], claimed')
    BY <1>1, <1>4, <2>1 DEF Explained
  <2>4. Claiming(run'[r], claimed', activity')
    BY <1>3 DEF Claiming
  <2>5. Revived(run'[r], cooling', disabled')
    BY <1>1, <1>3, <1>4, <2>1 DEF Revived
  <2>6. QED
    BY <2>2, <2>3, <2>4, <2>5
<1>7. QED
  BY <1>4, <1>5, <1>6 DEF IInv, RunsOK

LEMMA AllIdle ==
  ASSUME run' = [r \in Runs |-> IdleRun], UpstreamOK'
  PROVE  IInv'
<1>1. run' \in [Runs -> RunType] /\ \A r \in Runs : run'[r] = IdleRun
  BY IdleRunOK
<1>2. QED
  BY <1>1, IdleRunOK DEF IInv, LocalsTyped, RunsOK

LEMMA RestartOK ==
  ASSUME IInv, Restart
  PROVE  IInv'
BY AllIdle DEF Restart, upstreamVars, IInv, UpstreamOK, Balance

LEMMA InitOK == Init => IInv
<1> SUFFICES ASSUME Init PROVE IInv
  OBVIOUS
<1>1. run \in [Runs -> RunType] /\ \A r \in Runs : run[r] = IdleRun
  BY IdleRunOK DEF Init
<1>2. UpstreamOK
  BY CheckinAssumption DEF Init, UpstreamOK, Balance
<1>3. QED
  BY <1>1, <1>2, IdleRunOK DEF IInv, LocalsTyped, RunsOK

LEMMA NextOK ==
  ASSUME IInv, [Next]_vars
  PROVE  IInv'
<1>1. ASSUME NEW r \in Runs, RunStep(r) PROVE IInv'
  BY <1>1, StartOK, CheckinOneOK, FinishOK, BeforeOK, SlotOK, ContextOK, PostOK,
     AfterOK, ReenableOK, AddRecordOK DEF RunStep
<1>2. ASSUME NEW u \in Accounts, Spend(u) \/ Refuse(u) \/ Exhaust(u) \/ Manage(u)
      PROVE  IInv'
  BY <1>2, SpendOK, RefuseOK, ExhaustOK, ManageOK
<1>3. CASE UNCHANGED vars
  <2>1. UNCHANGED <<claimed, granted, spent, activity, cooling, disabled, run>>
    BY <1>3 DEF vars, upstreamVars, poolVars
  <2>2. QED
    BY <2>1 DEF IInv, LocalsTyped, UpstreamOK, Balance, RunsOK
<1>4. QED
  BY <1>1, <1>2, <1>3, NewDayOK, RestartOK DEF Next

-----------------------------------------------------------------------------
(* The theorems *)

\* checkinOne: what a record says an account gained lies between what it
\* spent and what it was granted while the check-in ran; -1, the balance that
\* could not be queried, is never calculated with.
THEOREM CheckinGainExplained == Spec => []GainExplained
<1>1. IInv => GainExplained
  BY DEF IInv, RunsOK, Counted, GainExplained
<1>2. QED
  BY <1>1, InitOK, NextOK, PTL DEF Spec

\* DailyCheckin: an error on record is a call of the activity API that failed,
\* or a claim that another check-in was granted after this one had seen the
\* account unclaimed; an account that had checked in before is never one.
THEOREM CheckinErrorsExplained == Spec => []ErrorsExplained
<1>1. IInv => ErrorsExplained
  BY DEF IInv, RunsOK, Explained, ErrorsExplained
<1>2. QED
  BY <1>1, InitOK, NextOK, PTL DEF Spec

\* RunCheckinNow: a check-in that no failing call of the activity API and no
\* midnight disturbs leaves every account claimed that was enabled when it
\* began and was offered a check_in, however many check-ins run beside it.
THEOREM CheckinClaimsAll == Spec => []CleanRunClaimsAll
<1>1. IInv => CleanRunClaimsAll
  <2> SUFFICES ASSUME IInv, NEW r \in Runs, run[r].pc = "loop",
                      run[r].todo = {}, run[r].clean, activity
               PROVE  run[r].listed \subseteq claimed \cup run[r].unoffered
    BY DEF CleanRunClaimsAll
  <2>1. Claiming(run[r], claimed, activity)
    BY DEF IInv, RunsOK
  <2>2. QED
    BY <2>1 DEF Claiming, Claimless
<1>2. QED
  BY <1>1, InitOK, NextOK, PTL DEF Spec

\* ReenableIfCredits: an account with credits after its check-in is not left
\* cooling down, whatever became of the claim, but by a chat.
THEOREM CheckinRevives == Spec => []RevivedIfFunded
<1>1. IInv => RevivedIfFunded
  BY DEF IInv, RunsOK, Revived, RevivedIfFunded
<1>2. QED
  BY <1>1, InitOK, NextOK, PTL DEF Spec

=============================================================================
