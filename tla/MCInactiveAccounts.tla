------------------------- MODULE MCInactiveAccounts -------------------------
(* Small instances of InactiveAccounts for TLC. *)
EXTENDS InactiveAccounts, TLC

CONSTANTS u1, u2

Symmetry == Permutations(Users)
=============================================================================
