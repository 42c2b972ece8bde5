----------------------------- MODULE MCAccounts -----------------------------
(* Small instances of Accounts for TLC. *)
EXTENDS Accounts, TLC

CONSTANTS p1, p2, p3, t1, t2, base

(* Homonyms. *)
MCBase == [p \in People |-> base]

Symmetry == Permutations({t1, t2}) \cup Permutations(People)
=============================================================================
