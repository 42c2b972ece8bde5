------------------------------- MODULE MCLease -------------------------------
(* Small instances of Lease for TLC. *)
EXTENDS Lease, TLC

CONSTANTS v1, v2, t1, t2

MCMaxSession == v1 :> 2 @@ v2 :> 1

Symmetry == Permutations({t1, t2})
=============================================================================
