---------------------------- MODULE VMLifecycle ----------------------------
(***************************************************************************)
(* What Horizon promises about the rows of virtual_machines: a row is born *)
(* ACTIVE, alone, once; it settles in STOPPED or EXPIRED and never becomes *)
(* ACTIVE again; it may be removed, and what is removed never comes back.  *)
(***************************************************************************)
CONSTANT VMs

VARIABLE row    \* what a user sees of each machine

RowStates == {"unborn", "ACTIVE", "STOPPED", "EXPIRED", "gone"}

Settled == {"STOPPED", "EXPIRED"}

Live == {v \in VMs : row[v] \in {"ACTIVE"} \cup Settled}

Init == row = [v \in VMs |-> "unborn"]

Birth(v) == /\ row[v] = "unborn"
            /\ row' = [row EXCEPT ![v] = "ACTIVE"]

(* One transaction moves a set of rows, as the scheduler jobs do. *)
Move(S, s) == row' = [v \in VMs |-> IF v \in S THEN s ELSE row[v]]

Settle == \E S \in SUBSET Live, s \in Settled : Move(S, s)

Remove == \E S \in SUBSET Live : Move(S, "gone")

Next == (\E v \in VMs : Birth(v)) \/ Settle \/ Remove

Spec == Init /\ [][Next]_row
=============================================================================
