------------------------------- MODULE MCPool -------------------------------
(* Constants and symmetry for model-checking Pool. *)
EXTENDS Pool, TLC

CONSTANTS a1, a2

MCAccounts == {a1, a2}
MCCredits == {0, 1}
MCReasons == {"consecutive errors"}
MCErrReason == "consecutive errors"
MCDurations == {1, 2}

Symmetry == Permutations(MCAccounts)
=============================================================================
