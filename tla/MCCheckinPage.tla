---------------------------- MODULE MCCheckinPage ----------------------------
(* Room for three records, five check-ins, pages of one or two. *)
EXTENDS CheckinPage

SomeRecords == [n : 1 .. MaxAdds, status : Statuses]
=============================================================================
