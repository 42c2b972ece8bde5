------------------------ MODULE Provisioning_proofs ------------------------
(***************************************************************************)
(* Proofs about Provisioning, for every set of requests, users, handlers   *)
(* and jobs.  What must be strengthened is what the code never states:     *)
(* which numbers are taken while a creation is open, and which machine a   *)
(* waiting handler really holds.                                           *)
(***************************************************************************)
EXTENDS Provisioning, FiniteSetTheorems, TLAPS

(* A number is taken from the flush of its row to the row's removal. *)
Taken == Rows \cup Open

(* A request not yet admitted has left no trace; a row is the end of a     *)
(* creation.                                                               *)
Traces == \A v \in VMs :
    /\ create[v] = "idle" => machine[v] = "absent"
    /\ status[v] # "none" => create[v] = "done"

(* The cluster holds a number once. *)
UniqueHolder == \A v, w \in VMs :
    machine[v] # "absent" /\ machine[w] # "absent" /\ vmid[v] = vmid[w] => v = w

(* No two taken numbers are equal, and a taken number names no machine but *)
(* its own.                                                                *)
TakenNumbers == \A v \in Taken, w \in VMs :
    vmid[v] = vmid[w] /\ (w \in Taken \/ machine[w] # "absent") => v = w

(* What each handler may rely on when it resumes. *)
OpHolds(h) ==
    LET v == op[h].vm
        w == op[h].mach
    IN  /\ op[h].pc # "idle" => v \in VMs /\ create[v] = "done"
        /\ op[h].pc = "stopping" => w = v /\ machine[v] = "stopping"
        /\ op[h].pc = "stopped" => machine[v] \in Off
        /\ op[h].pc = "destroying" =>
               w \in VMs /\ machine[w] = "destroying" /\ vmid[w] = vmid[v]
        /\ op[h].pc = "destroyed" => machine[v] = "absent"

OpsHold == \A h \in Handlers : OpHolds(h)

IInv == TypeOK /\ Traces /\ UniqueHolder /\ TakenNumbers /\ OpsHold /\ StoppedIsOff

USE DEF Statuses, CreateStates, OpStates, TaskStates, MachineStates, AllJobs

(* An admitted row gets a natural number. *)
LEMMA AdmitTypes ==
  ASSUME TypeOK, NEW v \in VMs, NEW n, Admit(v, n)
  PROVE  n \in Nat /\ vmid' \in [VMs -> Nat]
<1>1. n \in Nat
  BY DEF TypeOK, Admit, NextVmid, NextAfter, FirstVmid, Rows
<1> QED
  BY <1>1 DEF TypeOK, Admit

(* Every step keeps the types. *)
LEMMA TypeStep == TypeOK /\ [Next]_vars => TypeOK'
<1> SUFFICES ASSUME TypeOK, [Next]_vars PROVE TypeOK'
  OBVIOUS
<1> USE VMsAssumption, ModeAssumption DEF TypeOK
<1>1. ASSUME NEW v \in VMs, CreateRefused(v) PROVE TypeOK'
  BY <1>1 DEF CreateRefused
<1>2. ASSUME NEW v \in VMs, CreateBlocks(v) PROVE TypeOK'
  BY <1>2, AdmitTypes DEF CreateBlocks
<1>3. ASSUME NEW v \in VMs, CreateClones(v) PROVE TypeOK'
  BY <1>3, AdmitTypes DEF CreateClones
<1>4. ASSUME NEW v \in VMs, CreateStarts(v) PROVE TypeOK'
  BY <1>4 DEF CreateStarts
<1>5. ASSUME NEW v \in VMs, CreateCommits(v) PROVE TypeOK'
  BY <1>5 DEF CreateCommits
<1>6. ASSUME NEW v \in VMs, CreateFails(v) PROVE TypeOK'
  BY <1>6 DEF CreateFails, OpenStates
<1>7. ASSUME NEW v \in VMs, NEW ok \in BOOLEAN, TaskEnds(v, ok) PROVE TypeOK'
  BY <1>7 DEF TaskEnds, Outcome, AfterCreateTask, AfterOpTask
<1>8. ASSUME NEW v \in VMs, LeavesOutOfBand(v) PROVE TypeOK'
  BY <1>8 DEF LeavesOutOfBand
<1>9. ASSUME NEW h \in Handlers, NEW v \in VMs, StopBegins(h, v) PROVE TypeOK'
  BY <1>9 DEF StopBegins, PostStop, SetOp, Called, Rows, Holder
<1>10. ASSUME NEW h \in Handlers, NEW v \in VMs, DeleteBegins(h, v) PROVE TypeOK'
  BY <1>10 DEF DeleteBegins, PostStop, PostDestroy, SetOp, Called, Rows, Holder
<1>11. ASSUME NEW h \in Handlers, StopCommits(h) PROVE TypeOK'
  BY <1>11 DEF StopCommits, Idle, Rows
<1>12. ASSUME NEW h \in Handlers, DeleteContinues(h) PROVE TypeOK'
  BY <1>12 DEF DeleteContinues, PostDestroy, SetOp, Holder
<1>13. ASSUME NEW h \in Handlers, DeleteCommits(h) PROVE TypeOK'
  BY <1>13 DEF DeleteCommits, Idle
<1>14. ASSUME NEW h \in Handlers, HandlerFails(h) PROVE TypeOK'
  BY <1>14 DEF HandlerFails, Idle
<1>15. CASE ExpireLoads
  BY <1>15 DEF ExpireLoads, Loads, Rows
<1>16. CASE ExpireCommits
  BY <1>16 DEF ExpireCommits, Ends, Write
<1>17. CASE MonitorLoads
  BY <1>17 DEF MonitorLoads, Loads, Rows
<1>18. CASE MonitorCommits
  BY <1>18 DEF MonitorCommits, Ends, Write
<1>19. CASE DeleteOldLoads
  BY <1>19 DEF DeleteOldLoads, Loads, Rows
<1>20. CASE DeleteOldCommits
  BY <1>20 DEF DeleteOldCommits, Ends, Write
<1>21. CASE Restart
  BY <1>21 DEF Restart, Idle, OpenStates
<1>22. CASE UNCHANGED vars
  BY <1>22 DEF vars
<1> QED
  BY <1>1, <1>2, <1>3, <1>4, <1>5, <1>6, <1>7, <1>8, <1>9, <1>10, <1>11, <1>12, <1>13, <1>14, <1>15, <1>16, <1>17, <1>18, <1>19, <1>20, <1>21, <1>22 DEF Next, CreateSteps, OpSteps

(* The number of an admitted row is above that of every row. *)
LEMMA Fresh ==
  ASSUME TypeOK, NEW v \in VMs, NEW n, Admit(v, n)
  PROVE  /\ create[v] = "idle"
         /\ n \in Nat
         /\ vmid' = [vmid EXCEPT ![v] = n]
         /\ \A r \in Rows : vmid[r] # n
<1>1. n \in Nat /\ create[v] = "idle" /\ vmid' = [vmid EXCEPT ![v] = n]
  BY AdmitTypes DEF Admit
<1>2. \A r \in Rows : vmid[r] < n
  BY DEF Admit, NextVmid, NextAfter
<1>3. \A r \in Rows : vmid[r] \in Nat
  BY DEF TypeOK, Rows
<1> QED
  BY <1>1, <1>2, <1>3

(* Every step keeps the invariant. *)
LEMMA InvStep == IInv /\ [Next]_vars => IInv'
<1> SUFFICES ASSUME IInv, [Next]_vars PROVE IInv'
  OBVIOUS
<1>0. TypeOK'
  BY TypeStep DEF IInv
<1> USE <1>0 DEF IInv, TypeOK, Traces, UniqueHolder, TakenNumbers, Taken, OpsHold, OpHolds,
             StoppedIsOff, Off, Rows, Open, OpenStates
<1>1. ASSUME NEW v \in VMs, CreateRefused(v) PROVE IInv'
  BY <1>1 DEF CreateRefused
<1>2. ASSUME NEW v \in VMs, CreateBlocks(v) PROVE IInv'
  BY <1>2, Fresh DEF CreateBlocks
<1>3. ASSUME NEW v \in VMs, CreateClones(v) PROVE IInv'
  <2>1. Traces'
    BY <1>3, Fresh DEF CreateClones, Holder
  <2>2. UniqueHolder'
    BY <1>3, Fresh DEF CreateClones, Holder
  <2>3. TakenNumbers'
    BY <1>3, Fresh DEF CreateClones, Holder
  <2>4. OpsHold'
    BY <1>3, Fresh DEF CreateClones, Holder
  <2>5. StoppedIsOff'
    BY <1>3, Fresh DEF CreateClones, Holder
  <2> QED
    BY <2>1, <2>2, <2>3, <2>4, <2>5
<1>4. ASSUME NEW v \in VMs, CreateStarts(v) PROVE IInv'
  BY <1>4 DEF CreateStarts
<1>5. ASSUME NEW v \in VMs, CreateCommits(v) PROVE IInv'
  BY <1>5 DEF CreateCommits
<1>6. ASSUME NEW v \in VMs, CreateFails(v) PROVE IInv'
  BY <1>6 DEF CreateFails
<1>7. ASSUME NEW v \in VMs, NEW ok \in BOOLEAN, TaskEnds(v, ok) PROVE IInv'
  <2>1. Traces'
    BY <1>7 DEF TaskEnds, Outcome, AfterCreateTask, AfterOpTask
  <2>2. UniqueHolder'
    BY <1>7 DEF TaskEnds, Outcome, AfterCreateTask, AfterOpTask
  <2>3. TakenNumbers'
    BY <1>7 DEF TaskEnds, Outcome, AfterCreateTask, AfterOpTask
  <2>4. OpsHold'
    BY <1>7 DEF TaskEnds, Outcome, AfterCreateTask, AfterOpTask
  <2>5. StoppedIsOff'
    BY <1>7 DEF TaskEnds, Outcome, AfterCreateTask, AfterOpTask
  <2> QED
    BY <2>1, <2>2, <2>3, <2>4, <2>5
<1>8. ASSUME NEW v \in VMs, LeavesOutOfBand(v) PROVE IInv'
  BY <1>8 DEF LeavesOutOfBand
<1>9. ASSUME NEW h \in Handlers, NEW v \in VMs, StopBegins(h, v) PROVE IInv'
  <2>1. Traces'
    BY <1>9 DEF StopBegins, Called, PostStop, SetOp, Holder, Idle
  <2>2. UniqueHolder'
    BY <1>9 DEF StopBegins, Called, PostStop, SetOp, Holder, Idle
  <2>3. TakenNumbers'
    BY <1>9 DEF StopBegins, Called, PostStop, SetOp, Holder, Idle
  <2>4. OpsHold'
    BY <1>9 DEF StopBegins, Called, PostStop, SetOp, Holder, Idle
  <2>5. StoppedIsOff'
    BY <1>9 DEF StopBegins, Called, PostStop, SetOp, Holder, Idle
  <2> QED
    BY <2>1, <2>2, <2>3, <2>4, <2>5
<1>10. ASSUME NEW h \in Handlers, NEW v \in VMs, DeleteBegins(h, v) PROVE IInv'
  <2>1. Traces'
    BY <1>10 DEF DeleteBegins, Called, PostStop, PostDestroy, SetOp, Holder, Idle
  <2>2. UniqueHolder'
    BY <1>10 DEF DeleteBegins, Called, PostStop, PostDestroy, SetOp, Holder, Idle
  <2>3. TakenNumbers'
    BY <1>10 DEF DeleteBegins, Called, PostStop, PostDestroy, SetOp, Holder, Idle
  <2>4. OpsHold'
    BY <1>10 DEF DeleteBegins, Called, PostStop, PostDestroy, SetOp, Holder, Idle
  <2>5. StoppedIsOff'
    BY <1>10 DEF DeleteBegins, Called, PostStop, PostDestroy, SetOp, Holder, Idle
  <2> QED
    BY <2>1, <2>2, <2>3, <2>4, <2>5
<1>11. ASSUME NEW h \in Handlers, StopCommits(h) PROVE IInv'
  BY <1>11 DEF StopCommits, Idle
<1>12. ASSUME NEW h \in Handlers, DeleteContinues(h) PROVE IInv'
  <2>1. Traces'
    BY <1>12 DEF DeleteContinues, PostDestroy, SetOp, Holder
  <2>2. UniqueHolder'
    BY <1>12 DEF DeleteContinues, PostDestroy, SetOp, Holder
  <2>3. TakenNumbers'
    BY <1>12 DEF DeleteContinues, PostDestroy, SetOp, Holder
  <2>4. OpsHold'
    BY <1>12 DEF DeleteContinues, PostDestroy, SetOp, Holder
  <2>5. StoppedIsOff'
    BY <1>12 DEF DeleteContinues, PostDestroy, SetOp, Holder
  <2> QED
    BY <2>1, <2>2, <2>3, <2>4, <2>5
<1>13. ASSUME NEW h \in Handlers, DeleteCommits(h) PROVE IInv'
  BY <1>13 DEF DeleteCommits, Idle
<1>14. ASSUME NEW h \in Handlers, HandlerFails(h) PROVE IInv'
  BY <1>14 DEF HandlerFails, Idle
<1>15. CASE ExpireLoads
  BY <1>15 DEF ExpireLoads, Loads
<1>16. CASE ExpireCommits
  BY <1>16 DEF ExpireCommits, Ends, Write
<1>17. CASE MonitorLoads
  BY <1>17 DEF MonitorLoads, Loads
<1>18. CASE MonitorCommits
  BY <1>18 DEF MonitorCommits, Ends, Write
<1>19. CASE DeleteOldLoads
  BY <1>19 DEF DeleteOldLoads, Loads
<1>20. CASE DeleteOldCommits
  BY <1>20 DEF DeleteOldCommits, Ends, Write
<1>21. CASE Restart
  BY <1>21 DEF Restart, Idle
<1>22. CASE UNCHANGED vars
  BY <1>22 DEF vars
<1> QED
  BY <1>1, <1>2, <1>3, <1>4, <1>5, <1>6, <1>7, <1>8, <1>9, <1>10, <1>11, <1>12, <1>13, <1>14, <1>15, <1>16, <1>17, <1>18, <1>19, <1>20, <1>21, <1>22 DEF Next, CreateSteps, OpSteps

-----------------------------------------------------------------------------
(* The theorems *)

(* Every variable keeps its type in every behaviour. *)
THEOREM TypeCorrect == Spec => []TypeOK
<1>1. Init => TypeOK
  BY DEF Init, TypeOK, Idle
<1> QED
  BY <1>1, TypeStep, PTL DEF Spec

(* The strengthened invariant holds in every behaviour. *)
LEMMA Invariant == Spec => []IInv
<1>1. Init => IInv
  BY DEF Init, IInv, TypeOK, Idle, Traces, UniqueHolder, TakenNumbers, Taken, Rows, Open,
         OpenStates, OpsHold, OpHolds, StoppedIsOff
<1> QED
  BY <1>1, InvStep, PTL DEF Spec

(* The number a committed row keeps (virtual_machines.proxmox_vmid) never  *)
(* names another creation's machine on the cluster.                        *)
THEOREM Ownership == Spec => []RowOwnsMachine
<1>1. IInv => RowOwnsMachine
  BY DEF IInv, TakenNumbers, Taken, RowOwnsMachine, Holder, Rows
<1> QED
  BY <1>1, Invariant, PTL

(* A row that stop_vm or task_monitor_vms marked STOPPED has its machine   *)
(* off.                                                                    *)
THEOREM StoppedMachines == Spec => []StoppedIsOff
<1>1. IInv => StoppedIsOff
  BY DEF IInv
<1> QED
  BY <1>1, Invariant, PTL

(* delete_vm destroys the machine of its own row, as long as that row is   *)
(* there (destroys_another shows what happens otherwise), and removes a    *)
(* row only when its machine is gone.                                      *)
THEOREM DeletedMachines == Spec => []DeleteDestroys
<1>1. IInv => DeleteDestroys
  BY DEF IInv, TakenNumbers, Taken, OpsHold, OpHolds, DeleteDestroys, Rows
<1> QED
  BY <1>1, Invariant, PTL

-----------------------------------------------------------------------------
(* The quota, when creations overlap: enforce_vm_limits counts the ACTIVE  *)
(* rows before the awaits of create_vm, and nothing counts them again.     *)

Making(u) == {v \in Open : Owner[v] = u}

Using(u) == {r \in Rows : status[r] = "ACTIVE" /\ Owner[r] = u}

(* No more than MaxVms[u] - 1 + k machines are in use or being made.       *)
Bounded(u, k) == Cardinality(Using(u) \cup Making(u)) <= MaxVms[u] - 1 + k

LEMMA UsersSets ==
  ASSUME NEW u \in Users
  PROVE  IsFiniteSet(Using(u)) /\ IsFiniteSet(Making(u))
  BY VMsAssumption, FS_Subset DEF Using, Making, Rows, Open

(* Every step but an admission leaves a user with no more than before.     *)
LEMMA FewerInUse ==
  ASSUME IInv, [Next]_vars, NEW u \in Users, \A v \in VMs : ~CreateClones(v)
  PROVE  (Using(u) \cup Making(u))' \subseteq Using(u) \cup Making(u)
<1> USE DEF IInv, TypeOK, OpsHold, OpHolds, Using, Making, Rows, Open, OpenStates
<1>1. ASSUME NEW v \in VMs,
             \/ CreateRefused(v) \/ CreateBlocks(v) \/ CreateSteps(v) \/ LeavesOutOfBand(v)
      PROVE  (Using(u) \cup Making(u))' \subseteq Using(u) \cup Making(u)
  BY <1>1 DEF CreateRefused, CreateBlocks, CreateSteps, CreateCommits, CreateStarts, CreateFails,
     LeavesOutOfBand
<1>2. ASSUME NEW v \in VMs, NEW ok \in BOOLEAN, TaskEnds(v, ok)
      PROVE  (Using(u) \cup Making(u))' \subseteq Using(u) \cup Making(u)
  BY <1>2 DEF TaskEnds
<1>3. ASSUME NEW h \in Handlers, NEW v \in VMs, StopBegins(h, v) \/ DeleteBegins(h, v)
      PROVE  (Using(u) \cup Making(u))' \subseteq Using(u) \cup Making(u)
  BY <1>3 DEF StopBegins, DeleteBegins
<1>4. ASSUME NEW h \in Handlers, OpSteps(h)
      PROVE  (Using(u) \cup Making(u))' \subseteq Using(u) \cup Making(u)
  BY <1>4 DEF OpSteps, StopCommits, DeleteContinues, DeleteCommits, HandlerFails
<1>5. CASE ExpireLoads \/ MonitorLoads \/ DeleteOldLoads
  BY <1>5 DEF ExpireLoads, MonitorLoads, DeleteOldLoads, Loads
<1>6. CASE ExpireCommits \/ MonitorCommits \/ DeleteOldCommits
  BY <1>6 DEF ExpireCommits, MonitorCommits, DeleteOldCommits, Ends, Write
<1>7. CASE Restart \/ UNCHANGED vars
  BY <1>7 DEF Restart, vars
<1> QED
  BY <1>1, <1>2, <1>3, <1>4, <1>5, <1>6, <1>7 DEF Next

LEMMA BoundedStep ==
  ASSUME IInv, [Next]_vars, NEW u \in Users, NEW k \in Nat \ {0}, Bounded(u, k),
         Cardinality(Making(u))' <= k, IInv'
  PROVE  Bounded(u, k)'
<1>1. /\ IsFiniteSet(Using(u) \cup Making(u))
      /\ Cardinality(Using(u) \cup Making(u)) \in Nat
  BY UsersSets, FS_Union, FS_CardinalityType
<1>2. CASE \A v \in VMs : ~CreateClones(v)
  <2>1. Cardinality((Using(u) \cup Making(u))') <= Cardinality(Using(u) \cup Making(u))
    BY <1>1, <1>2, FewerInUse, FS_Subset
  <2>2. Cardinality((Using(u) \cup Making(u))') \in Nat
    BY <1>1, <1>2, FewerInUse, FS_Subset, FS_CardinalityType
  <2> QED
    BY <1>1, <2>1, <2>2, OwnerAssumption DEF Bounded
<1>3. ASSUME NEW v \in VMs, CreateClones(v) PROVE Bounded(u, k)'
  <2>1. Using(u)' = Using(u)
    BY <1>3 DEF CreateClones, Using, Rows
  <2>2. CASE Owner[v] = u
    <3>1. Cardinality(Using(u)) < MaxVms[u]
      BY <1>3, <2>2 DEF CreateClones, Admit, CountActive, Using
    <3>2. IsFiniteSet(Making(u)')
      BY VMsAssumption, FS_Subset DEF Making, Open
    <3>3. /\ Cardinality(Using(u) \cup Making(u)') =
               Cardinality(Using(u)) + Cardinality(Making(u)')
                  - Cardinality(Using(u) \cap Making(u)')
          /\ IsFiniteSet(Using(u) \cap Making(u)')
      BY <3>2, UsersSets, FS_Union, FS_Intersection
    <3>4. /\ Cardinality(Using(u)) \in Nat /\ Cardinality(Making(u)') \in Nat
          /\ Cardinality(Using(u) \cap Making(u)') \in Nat
      BY <3>2, <3>3, UsersSets, FS_CardinalityType
    <3> QED
      BY <2>1, <3>1, <3>3, <3>4, OwnerAssumption DEF Bounded
  <2>3. CASE Owner[v] # u
    <3>1. Making(u)' = Making(u)
      BY <1>3, <2>3 DEF CreateClones, Making, Open, IInv, TypeOK
    <3> QED
      BY <2>1, <3>1 DEF Bounded
  <2> QED
    BY <2>2, <2>3
<1> QED
  BY <1>2, <1>3

(* A user of whom at most k creations are open at a time has at most       *)
(* k - 1 machines above the quota, in use or being made, whatever stops,   *)
(* jobs and restarts happen meanwhile: creations that do not overlap       *)
(* (k = 1) keep the quota.                                                 *)
THEOREM OverlapBound ==
  ASSUME NEW u \in Users, NEW k \in Nat \ {0}
  PROVE  Spec /\ [](Cardinality(Making(u)) <= k) => []Bounded(u, k)
<1>1. Init => Bounded(u, k)
  <2> SUFFICES ASSUME Init PROVE Bounded(u, k)
    OBVIOUS
  <2>1. Using(u) \cup Making(u) = {}
    BY DEF Init, Using, Making, Rows, Open, OpenStates
  <2>2. Cardinality({}) = 0 /\ MaxVms[u] \in Nat
    BY FS_EmptySet, OwnerAssumption
  <2> QED
    BY <2>1, <2>2 DEF Bounded
<1>2. IInv /\ IInv' /\ [Next]_vars /\ Bounded(u, k) /\ (Cardinality(Making(u)) <= k)'
         => Bounded(u, k)'
  BY BoundedStep
<1> QED
  BY <1>1, <1>2, Invariant, PTL DEF Spec

-----------------------------------------------------------------------------
(* How far the blocked loop and the misplaced destroy of Provisioning go.  *)

(* While the loop is blocked it is one flush that waits, and the creation  *)
(* it waits for is open with the same number.                              *)
Blocked(v, w) == /\ create[v] = "flushing"
                 /\ w \in Open /\ vmid[w] = vmid[v]
                 /\ \A u \in VMs : create[u] = "flushing" => u = v

BlockedByOpen == ~LoopFree => \E v, w \in VMs : Blocked(v, w)

LEMMA BlockedStep == TypeOK /\ BlockedByOpen /\ [Next]_vars => BlockedByOpen'
<1> SUFFICES ASSUME TypeOK, BlockedByOpen, [Next]_vars, ~LoopFree' PROVE BlockedByOpen'
  BY DEF BlockedByOpen
<1> USE DEF TypeOK, BlockedByOpen, Blocked, LoopFree, Open, OpenStates
<1>1. ASSUME NEW v \in VMs, CreateBlocks(v) PROVE BlockedByOpen'
  <2>1. PICK n \in {vmid[w] : w \in Open} : Admit(v, n)
    BY <1>1 DEF CreateBlocks
  <2>2. PICK w \in Open : n = vmid[w]
    BY <2>1
  <2>3. LoopFree /\ create[v] = "idle" /\ vmid' = [vmid EXCEPT ![v] = vmid[w]]
    BY <2>1, <2>2 DEF Admit
  <2>4. Blocked(v, w)'
    BY <1>1, <2>3 DEF CreateBlocks
  <2> QED
    BY <2>4
<1>2. ASSUME NEW v \in VMs, NEW ok \in BOOLEAN, TaskEnds(v, ok) PROVE BlockedByOpen'
  BY <1>2 DEF TaskEnds, AfterCreateTask
<1>3. CASE Restart
  BY <1>3 DEF Restart
<1>4. CASE UNCHANGED <<create, vmid>>
  BY <1>4
<1>5. ASSUME NEW v \in VMs, CreateRefused(v) \/ CreateClones(v) \/ CreateSteps(v)
      PROVE  BlockedByOpen'
  BY <1>5 DEF CreateRefused, CreateClones, CreateSteps, CreateStarts, CreateCommits, CreateFails,
     Admit
<1>6. ASSUME NEW v \in VMs, LeavesOutOfBand(v) PROVE UNCHANGED <<create, vmid>>
  BY <1>6 DEF LeavesOutOfBand
<1>7. ASSUME NEW h \in Handlers, NEW v \in VMs, StopBegins(h, v) \/ DeleteBegins(h, v)
      PROVE  UNCHANGED <<create, vmid>>
  BY <1>7 DEF StopBegins, DeleteBegins
<1>8. ASSUME NEW h \in Handlers, OpSteps(h) PROVE UNCHANGED <<create, vmid>>
  BY <1>8 DEF OpSteps, StopCommits, DeleteContinues, DeleteCommits, HandlerFails
<1>9. ASSUME ExpireLoads \/ MonitorLoads \/ DeleteOldLoads PROVE UNCHANGED <<create, vmid>>
  BY <1>9 DEF ExpireLoads, MonitorLoads, DeleteOldLoads, Loads
<1>10. ASSUME ExpireCommits \/ MonitorCommits \/ DeleteOldCommits
       PROVE  UNCHANGED <<create, vmid>>
  BY <1>10 DEF ExpireCommits, MonitorCommits, DeleteOldCommits, Ends
<1>11. CASE UNCHANGED vars
  BY <1>4, <1>11 DEF vars
<1> QED
  BY <1>1, <1>2, <1>3, <1>4, <1>5, <1>6, <1>7, <1>8, <1>9, <1>10, <1>11 DEF Next

(* A loop that is blocked frees itself never: neither the creation that    *)
(* waits nor the one it waits for goes on, whatever the cluster does, and  *)
(* every step out of it is a restart of the process.                       *)
OnlyRestartFrees == [][~LoopFree /\ LoopFree' => Restart]_vars

(* The deadlock of loop_blocks, for any number of requests: it needs an    *)
(* open creation with the number that create_vm computed (so creations     *)
(* that do not overlap never block), and it lasts until a restart.         *)
THEOREM Deadlock == Spec => []BlockedByOpen /\ OnlyRestartFrees
<1>1. Init => BlockedByOpen
  BY DEF Init, BlockedByOpen, LoopFree
<1>2. TypeOK /\ [Next]_vars => [~LoopFree /\ LoopFree' => Restart]_vars
  <2> SUFFICES ASSUME TypeOK, Next, ~LoopFree, LoopFree' PROVE Restart
    BY DEF vars, LoopFree
  <2> USE DEF LoopFree, TypeOK
  <2>1. ASSUME NEW v \in VMs, \/ CreateRefused(v) \/ CreateBlocks(v) \/ CreateClones(v)
                              \/ CreateSteps(v)
        PROVE  FALSE
    BY <2>1 DEF CreateRefused, CreateBlocks, CreateClones, CreateSteps, CreateStarts,
       CreateCommits, CreateFails, Admit
  <2>2. ASSUME NEW v \in VMs, NEW ok \in BOOLEAN, TaskEnds(v, ok) PROVE FALSE
    BY <2>2 DEF TaskEnds
  <2>3. ASSUME UNCHANGED create PROVE FALSE
    BY <2>3
  <2>4. ASSUME NEW h \in Handlers, NEW v \in VMs, StopBegins(h, v) \/ DeleteBegins(h, v)
        PROVE  FALSE
    BY <2>4 DEF StopBegins, DeleteBegins
  <2>5. ASSUME NEW h \in Handlers, OpSteps(h) PROVE FALSE
    BY <2>5 DEF OpSteps, StopCommits, DeleteContinues, DeleteCommits, HandlerFails
  <2>6. ASSUME ExpireLoads \/ MonitorLoads \/ DeleteOldLoads PROVE FALSE
    BY <2>6 DEF ExpireLoads, MonitorLoads, DeleteOldLoads, Loads
  <2>7. ASSUME ExpireCommits \/ MonitorCommits \/ DeleteOldCommits PROVE FALSE
    BY <2>7 DEF ExpireCommits, MonitorCommits, DeleteOldCommits, Ends
  <2>8. ASSUME NEW v \in VMs, LeavesOutOfBand(v) PROVE FALSE
    BY <2>8 DEF LeavesOutOfBand
  <2> QED
    BY <2>1, <2>2, <2>4, <2>5, <2>6, <2>7, <2>8 DEF Next
<1> QED
  BY <1>1, <1>2, BlockedStep, TypeCorrect, PTL DEF Spec, OnlyRestartFrees

(* The row of a request in flight stays, if nothing else may remove it.    *)
HeldRows == /\ \A h \in Handlers : op[h].pc # "idle" => op[h].vm \in Rows
            /\ batch["delete_old_vms"] = {}

LEMMA HeldStep ==
  ASSUME "delete_old_vms" \notin Jobs, \A g, h \in Handlers : g = h,
         IInv, HeldRows, [Next]_vars
  PROVE  HeldRows'
<1> USE DEF IInv, TypeOK, OpsHold, OpHolds, HeldRows, Rows
<1>1. ASSUME NEW v \in VMs, \/ CreateRefused(v) \/ CreateBlocks(v) \/ CreateClones(v)
                            \/ CreateSteps(v) \/ LeavesOutOfBand(v)
      PROVE  HeldRows'
  BY <1>1 DEF CreateRefused, CreateBlocks, CreateClones, CreateSteps, CreateCommits,
     CreateStarts, CreateFails, LeavesOutOfBand
<1>2. ASSUME NEW v \in VMs, NEW ok \in BOOLEAN, TaskEnds(v, ok) PROVE HeldRows'
  BY <1>2 DEF TaskEnds
<1>3. ASSUME NEW h \in Handlers, NEW v \in VMs, StopBegins(h, v) \/ DeleteBegins(h, v)
      PROVE  HeldRows'
  BY <1>3 DEF StopBegins, DeleteBegins, Called, PostStop, PostDestroy, SetOp
<1>4. ASSUME NEW h \in Handlers, OpSteps(h) PROVE HeldRows'
  BY <1>4 DEF OpSteps, StopCommits, DeleteContinues, DeleteCommits, HandlerFails, PostDestroy,
     SetOp, Idle
<1>5. CASE ExpireLoads \/ MonitorLoads \/ DeleteOldLoads
  BY <1>5 DEF ExpireLoads, MonitorLoads, DeleteOldLoads, Loads
<1>6. CASE ExpireCommits \/ MonitorCommits \/ DeleteOldCommits
  BY <1>6 DEF ExpireCommits, MonitorCommits, DeleteOldCommits, Ends, Write
<1>7. CASE Restart
  BY <1>7 DEF Restart, Idle
<1>8. CASE UNCHANGED vars
  BY <1>8 DEF vars
<1> QED
  BY <1>1, <1>2, <1>3, <1>4, <1>5, <1>6, <1>7, <1>8 DEF Next

(* What destroys_another needs: with one stop or delete at a time and      *)
(* without task_delete_old_vms a delete destroys no machine but its own,   *)
(* however many creations, other jobs, failures and restarts there are.    *)
THEOREM OneAtATime ==
  ASSUME "delete_old_vms" \notin Jobs, \A g, h \in Handlers : g = h
  PROVE  Spec => []DestroysOwn
<1>1. Init => HeldRows
  BY DEF Init, HeldRows, Idle, AllJobs
<1>2. IInv /\ HeldRows /\ [Next]_vars => HeldRows'
  BY HeldStep
<1>3. HeldRows /\ DeleteDestroys => DestroysOwn
  BY DEF HeldRows, DeleteDestroys, DestroysOwn
<1> QED
  BY <1>1, <1>2, <1>3, Invariant, DeletedMachines, PTL DEF Spec

-----------------------------------------------------------------------------
(* Refinement: every step is a step of VMLifecycle or leaves its row alone. *)

LEMMA LifecycleInit == Init => Lifecycle!Init
BY DEF Init, Lifecycle!Init, row, Rows

LEMMA LifecycleStep == IInv /\ [Next]_vars => [Lifecycle!Next]_row
<1> SUFFICES ASSUME IInv, [Next]_vars PROVE [Lifecycle!Next]_row
  OBVIOUS
<1> USE DEF Rows, row
<1>1. ASSUME NEW v \in VMs, status' = [status EXCEPT ![v] = "ACTIVE"],
             create' = [create EXCEPT ![v] = "done"], create[v] = "started"
      PROVE  Lifecycle!Birth(v)
  BY <1>1 DEF Lifecycle!Birth, IInv, TypeOK, Traces
<1>2. ASSUME UNCHANGED status, NEW v \in VMs, NEW s \in {"flushing", "cloning", "aborted"},
             create' = [create EXCEPT ![v] = s], create[v] # "done"
      PROVE  UNCHANGED row
  BY <1>2 DEF IInv, TypeOK
<1>3. ASSUME UNCHANGED <<status, create>> PROVE UNCHANGED row
  BY <1>3
<1>4. ASSUME UNCHANGED create, NEW S \in SUBSET Rows, NEW s \in {"STOPPED", "EXPIRED"},
             status' = [v \in VMs |-> IF v \in S THEN s ELSE status[v]]
      PROVE  Lifecycle!Settle
  <2>1. Lifecycle!Move(S, s)
    BY <1>4 DEF Lifecycle!Move
  <2>2. S \in SUBSET Lifecycle!Live
    BY <1>4 DEF Lifecycle!Live, Lifecycle!Settled, IInv, TypeOK
  <2> QED
    BY <2>1, <2>2 DEF Lifecycle!Settle, Lifecycle!Settled
<1>5. ASSUME UNCHANGED create, NEW S \in SUBSET VMs,
             status' = [v \in VMs |-> IF v \in S THEN "none" ELSE status[v]]
      PROVE  Lifecycle!Remove
  <2> DEFINE T == S \cap Rows
  <2>1. Lifecycle!Move(T, "gone")
    BY <1>5 DEF Lifecycle!Move, IInv, Traces
  <2>2. T \in SUBSET Lifecycle!Live
    BY DEF Lifecycle!Live, Lifecycle!Settled, IInv, TypeOK
  <2> QED
    BY <2>1, <2>2 DEF Lifecycle!Remove
<1>6. ASSUME NEW v \in VMs, CreateRefused(v) \/ CreateBlocks(v) \/ CreateClones(v) \/ CreateFails(v)
      PROVE  UNCHANGED row
  BY <1>2, <1>6 DEF CreateRefused, CreateBlocks, CreateClones, CreateFails, Admit, OpenStates
<1>7. ASSUME NEW v \in VMs, CreateCommits(v) PROVE Lifecycle!Next
  BY <1>1, <1>7 DEF CreateCommits, Lifecycle!Next
<1>8. ASSUME NEW v \in VMs, CreateStarts(v) PROVE UNCHANGED row
  BY <1>8 DEF CreateStarts, IInv, TypeOK
<1>9. ASSUME NEW v \in VMs, NEW ok \in BOOLEAN, TaskEnds(v, ok) PROVE UNCHANGED row
  BY <1>9 DEF TaskEnds, AfterCreateTask, IInv, TypeOK
<1>10. ASSUME NEW h \in Handlers, StopCommits(h) PROVE Lifecycle!Next \/ UNCHANGED row
  <2>1. CASE op[h].vm \notin Rows
    BY <1>3, <1>10, <2>1 DEF StopCommits
  <2>2. CASE op[h].vm \in Rows
    <3>1. status' = [w \in VMs |-> IF w \in {op[h].vm} THEN "STOPPED" ELSE status[w]]
      BY <1>10, <2>2 DEF StopCommits, IInv, TypeOK
    <3>2. UNCHANGED create /\ {op[h].vm} \in SUBSET Rows
      BY <1>10, <2>2 DEF StopCommits
    <3> HIDE DEF Rows, row
    <3>3. Lifecycle!Settle
      BY <1>4, <3>1, <3>2
    <3> QED
      BY <3>3 DEF Lifecycle!Next
  <2> QED
    BY <2>1, <2>2
<1>11. ASSUME NEW h \in Handlers, DeleteCommits(h) PROVE Lifecycle!Next
  <2>1. op[h].vm \in VMs
    BY <1>11 DEF DeleteCommits, IInv, OpsHold, OpHolds
  <2>2. status' = [w \in VMs |-> IF w \in {op[h].vm} THEN "none" ELSE status[w]]
    BY <1>11, <2>1 DEF DeleteCommits, IInv, TypeOK
  <2> QED
    BY <1>5, <1>11, <2>1, <2>2 DEF DeleteCommits, Lifecycle!Next
<1>12. ASSUME ExpireCommits PROVE Lifecycle!Next \/ UNCHANGED row
  BY <1>3, <1>4, <1>12 DEF ExpireCommits, Ends, Write, Lifecycle!Next, IInv, TypeOK
<1>13. ASSUME MonitorCommits PROVE Lifecycle!Next \/ UNCHANGED row
  BY <1>3, <1>4, <1>13 DEF MonitorCommits, Ends, Write, Lifecycle!Next, IInv, TypeOK
<1>14. ASSUME DeleteOldCommits PROVE Lifecycle!Next
  BY <1>5, <1>14 DEF DeleteOldCommits, Ends, Write, Lifecycle!Next, IInv, TypeOK
<1>15. ASSUME Restart PROVE UNCHANGED row
  BY <1>15 DEF Restart, OpenStates, IInv, TypeOK
<1>16. ASSUME NEW h \in Handlers, NEW v \in VMs, StopBegins(h, v) \/ DeleteBegins(h, v)
       PROVE  UNCHANGED row
  BY <1>3, <1>16 DEF StopBegins, DeleteBegins
<1>17. ASSUME NEW v \in VMs, LeavesOutOfBand(v) PROVE UNCHANGED row
  BY <1>3, <1>17 DEF LeavesOutOfBand
<1>18. ASSUME ExpireLoads \/ MonitorLoads \/ DeleteOldLoads PROVE UNCHANGED row
  BY <1>3, <1>18 DEF ExpireLoads, MonitorLoads, DeleteOldLoads, Loads
<1>19. ASSUME NEW h \in Handlers, DeleteContinues(h) \/ HandlerFails(h) PROVE UNCHANGED row
  BY <1>3, <1>19 DEF DeleteContinues, HandlerFails
<1>20. CASE UNCHANGED vars
  BY <1>3, <1>20 DEF vars
<1> QED
  BY <1>6, <1>7, <1>8, <1>9, <1>10, <1>11, <1>12, <1>13, <1>14, <1>15, <1>16,
     <1>17, <1>18, <1>19, <1>20 DEF Next, CreateSteps, OpSteps

(* Provisioning implements VMLifecycle: whatever the handlers, the jobs    *)
(* and the cluster interleave, rows are born ACTIVE once and never revive. *)
THEOREM Refinement == Spec => LifecycleSpec
BY LifecycleInit, LifecycleStep, Invariant, PTL DEF Spec, LifecycleSpec, Lifecycle!Spec

=============================================================================
