----------------------------- MODULE MCWebLogin -----------------------------
(* Two goroutines, any of which may refresh the account's credential or      *)
(* complete a login, and two login sessions of which one at most is open.    *)
EXTENDS WebLogin, TLC

CONSTANTS w1, w2

WorkerSymmetry == Permutations(Workers)
=============================================================================
