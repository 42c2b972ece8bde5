---------------------------- MODULE MCCredentials ----------------------------
(* Small instances of Credentials for TLC. *)
EXTENDS Credentials, TLC

CONSTANTS t1, t2, t3

Symmetry == Permutations(Threads)
=============================================================================
