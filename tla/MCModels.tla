------------------------------ MODULE MCModels ------------------------------
(* Constants for model-checking ModelStore: three accounts, so that a richest  *)
(* one can be met first, in the middle or last; a handler and the           *)
(* scheduler refresh while the upstream's list changes once.                 *)
EXTENDS ModelStore, TLC

CONSTANTS a1, a2, a3
MCAccounts == {a1, a2, a3}
Symmetry == Permutations(MCAccounts)
=============================================================================
