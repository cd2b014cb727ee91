------------------------------ MODULE MCLogin -------------------------------
(* CommandLogin has no constants: the two ways to run it are initial states. *)
EXTENDS CommandLogin
=============================================================================
