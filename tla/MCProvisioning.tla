-------------------------- MODULE MCProvisioning --------------------------
(* Small instances of Provisioning for TLC. *)
EXTENDS Provisioning, TLC

CONSTANTS v1, v2, v3, u1, u2, h1, h2

(* Two requests of one user and one of another. *)
MCOwner3 == v1 :> u1 @@ v2 :> u1 @@ v3 :> u2
MCOwner2 == v1 :> u1 @@ v2 :> u2
MCMaxVms == u1 :> 1 @@ u2 :> 1

(* Requests of the same user and handlers are interchangeable. *)
Symmetry3 == Permutations({v1, v2}) \cup Permutations({h1, h2})
=============================================================================
