----------------------------- MODULE MCScheduler -----------------------------
(* A day of four hours of two ticks; tasks are due in three of them, and the *)
(* configuration has hours for each.                                         *)
EXTENDS Scheduler

CONSTANTS a1, l1, l2

S(checkin, keepalive, model, every) ==
    [checkin |-> checkin, keepalive |-> keepalive, model |-> model, every |-> every]

Config == S({1, 3}, {2}, {3}, 5400)
SomeHours == 0 .. 3
SomeIntervals == {0, 1800, 5400}
SomeRequests == {S({1}, {}, {}, 1800), S({1}, {2}, {}, Missing)}
===============================================================================
