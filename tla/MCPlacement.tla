----------------------------- MODULE MCPlacement -----------------------------
(* A small instance of Placement for TLC: two creations, two physical      *)
(* nodes, one image, and two numbers that creations reach and one above.   *)
EXTENDS Placement, TLC

MCPhys == 1..2
MCNumbers == 101..103

Symmetric == Permutations(VMs)
=============================================================================
