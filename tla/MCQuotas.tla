------------------------------ MODULE MCQuotas ------------------------------
(* Small instances of Quotas for TLC. *)
EXTENDS Quotas, TLC

CONSTANTS u1, a1, v1, v2, v3, t1, t2

(* A user with a small quota who owns two machines, an administrator with  *)
(* a large one who owns the third.                                         *)
MCOwner == v1 :> u1 @@ v2 :> u1 @@ v3 :> a1
MCLimits(s, c) == [f \in Fields |-> IF f = "size" THEN s ELSE c]
MCBase == u1 :> MCLimits(1, 1) @@ a1 :> MCLimits(2, 1)

(* More than the ceiling of 2 and no more machines; and more machines. *)
MCGrants == u1 :> {MCLimits(3, 0), MCLimits(Null, 2)} @@ a1 :> {}

MCPolicies == u1 :> {MCLimits(1, 1), MCLimits(2, 0)} @@ a1 :> {}

Symmetry == Permutations({v1, v2}) \cup Permutations({t1, t2})
=============================================================================
