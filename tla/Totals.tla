------------------------------- MODULE Totals -------------------------------
(***************************************************************************)
(* What the statistics promise their reader (package comment of            *)
(* internal/stats/stats.go): events are counted in memory one by one, the  *)
(* file trails behind but never goes back and never holds a count that was *)
(* not reached, and a restart goes on from the file.                       *)
(***************************************************************************)
EXTENDS Naturals

VARIABLES
    mem,    \* events counted, as the reports show them
    disk    \* events counted, as a restart would find them

Init == mem = 0 /\ disk = 0

Count == mem' = mem + 1 /\ UNCHANGED disk

Persist == disk' \in disk .. mem /\ UNCHANGED mem

Restart == mem' = disk /\ UNCHANGED disk

Next == Count \/ Persist \/ Restart

Spec == Init /\ [][Next]_<<mem, disk>>
=============================================================================
