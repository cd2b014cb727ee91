------------------------------- MODULE MCUsage -------------------------------
(* One answer of up to three lines of every kind, cut and read anywhere,     *)
(* beside a recorder whose disk may fail and whose process may die.          *)
EXTENDS Usage

MCTokens == {-1, 1}
=============================================================================
