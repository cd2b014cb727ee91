------------------------------ MODULE MCCheckin ------------------------------
(* Two check-ins of one account that overlap. *)
EXTENDS Checkin, TLC

CONSTANTS u1, r1, r2

SomeCredits == -1 .. FirstBalance + MaxDays + 1
SomeRecords == [uid : Accounts,
                status : {"error", "no_activity", AlreadyClaimed, "success"},
                before : SomeCredits, after : SomeCredits, gained : Int]

RunSymmetry == Permutations(Runs)
=============================================================================
