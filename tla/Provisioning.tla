---------------------------- MODULE Provisioning ----------------------------
(***************************************************************************)
(* The life of a virtual machine between three parties that share no lock: *)
(*   - the request handlers create_vm, stop_vm and delete_vm, coroutines   *)
(*     of the one asyncio event loop of the one uvicorn worker;            *)
(*   - the scheduler jobs task_expire_vms, task_monitor_vms and            *)
(*     task_delete_old_vms, which run in threads of their own;             *)
(*   - the Proxmox cluster, which executes clone, start, stop and destroy  *)
(*     as tasks the handlers poll (horizon/infrastructure/                 *)
(*     proxmox_client.py, wait_for_task).                                  *)
(* A handler is one atomic step between two awaits, except that a job may  *)
(* commit at any time.  Every transaction is READ COMMITTED: a row that is *)
(* flushed but not committed is seen by no query, and the unique key on    *)
(* proxmox_vmid makes a second insert of the same number wait for it.      *)
(*                                                                         *)
(* settings.PROXMOX_ENABLED is true here.  When it is false the three      *)
(* handlers never await: Quotas and Lease have them so.                    *)
(***************************************************************************)
EXTENDS Naturals, FiniteSets

CONSTANTS VMs,            \* creation requests; each makes at most one row and one machine
          Users,
          Owner,          \* the user who sends each creation request
          MaxVms,         \* effective max_simultaneous_vms of each user
          Handlers,       \* concurrent stop and delete requests
          Jobs,           \* the scheduler jobs that run
          OutOfBand,      \* whether machines may halt or vanish outside Horizon
          NoVm

AllJobs == {"expire_vms", "monitor_vms", "delete_old_vms"}

ASSUME VMsAssumption == IsFiniteSet(VMs) /\ NoVm \notin VMs
ASSUME OwnerAssumption == Owner \in [VMs -> Users] /\ MaxVms \in [Users -> Nat]
ASSUME ModeAssumption == /\ Jobs \subseteq AllJobs
                         /\ OutOfBand \in BOOLEAN

FirstVmid == 101

VARIABLES status,   \* the committed row of each VM: its VMStatus, or "none"
          vmid,     \* proxmox_vmid given to the row and the machine, 0 before
          create,   \* where the create_vm handler of each request stands
          op,       \* what each stop_vm / delete_vm handler is doing
          machine,  \* the cluster's machine cloned for each request
          batch     \* the rows a job has loaded and not yet committed

vars == <<status, vmid, create, op, machine, batch>>

Statuses == {"none", "ACTIVE", "STOPPED", "EXPIRED"}
CreateStates == {"idle", "flushing", "cloning", "cloned", "starting", "started",
                 "failed", "done", "aborted"}
OpStates == {"idle", "stopping", "stopped", "halting", "halted",
             "destroying", "destroyed", "failed"}
TaskStates == {"cloning", "starting", "stopping", "destroying"}
MachineStates == {"absent", "halted", "running"} \cup TaskStates

(* The creations whose row is flushed but not committed. *)
OpenStates == {"cloning", "cloned", "starting", "started", "failed"}

Idle == [pc |-> "idle", vm |-> NoVm, mach |-> NoVm]

TypeOK == /\ status \in [VMs -> Statuses]
          /\ vmid \in [VMs -> Nat]
          /\ create \in [VMs -> CreateStates]
          /\ op \in [Handlers -> [pc : OpStates, vm : VMs \cup {NoVm},
                                  mach : VMs \cup {NoVm}]]
          /\ machine \in [VMs -> MachineStates]
          /\ batch \in [AllJobs -> SUBSET VMs]

Init == /\ status = [v \in VMs |-> "none"]
        /\ vmid = [v \in VMs |-> 0]
        /\ create = [v \in VMs |-> "idle"]
        /\ op = [h \in Handlers |-> Idle]
        /\ machine = [v \in VMs |-> "absent"]
        /\ batch = [j \in AllJobs |-> {}]

-----------------------------------------------------------------------------
(* What the handlers read. *)

Rows == {v \in VMs : status[v] # "none"}
Open == {v \in VMs : create[v] \in OpenStates}

(* A flush that waits for another session's uncommitted key waits inside   *)
(* the event loop's only thread: no coroutine advances until it returns.   *)
LoopFree == \A v \in VMs : create[v] # "flushing"

(* (max or first - 1) + 1, as the set that holds this one number. *)
NextAfter(first, used) ==
    {n \in {first} \cup {m + 1 : m \in used} : \A m \in used : m < n}

NextVmid == NextAfter(FirstVmid, {vmid[r] : r \in Rows})

CountActive(u) == Cardinality({r \in Rows : status[r] = "ACTIVE" /\ Owner[r] = u})

(* The machine the cluster knows under a number. *)
Holder(n) == {w \in VMs : machine[w] # "absent" /\ vmid[w] = n}

-----------------------------------------------------------------------------
(* create_vm *)

(* Every check before the row passes and the row gets its number. *)
Admit(v, n) ==
    /\ LoopFree
    /\ create[v] = "idle"
    /\ CountActive(Owner[v]) < MaxVms[Owner[v]]
    /\ n \in NextVmid
    /\ vmid' = [vmid EXCEPT ![v] = n]

(* A check on the image, the sizes, the duration or the quota refuses. *)
CreateRefused(v) ==
    /\ LoopFree
    /\ create[v] = "idle"
    /\ create' = [create EXCEPT ![v] = "aborted"]
    /\ UNCHANGED <<status, vmid, op, machine, batch>>

(* The flush meets the same number in another open creation and waits. *)
CreateBlocks(v) ==
    /\ \E n \in {vmid[w] : w \in Open} : Admit(v, n)
    /\ create' = [create EXCEPT ![v] = "flushing"]
    /\ UNCHANGED <<status, op, machine, batch>>

(* Mutant: "number already in use" is taken for a clone of our own. *)
CreateClonesAnyway(v) ==
    /\ \E n \in NextVmid \ {vmid[w] : w \in Open} : Admit(v, n)
    /\ create' = [create EXCEPT ![v] = "cloning"]
    /\ machine' = [machine EXCEPT ![v] = "cloning"]
    /\ UNCHANGED <<status, op, batch>>

(* The flush passes, the cluster accepts the clone of a number nobody      *)
(* holds, and the handler awaits the task.                                 *)
CreateClones(v) ==
    /\ \E n \in NextVmid \ {vmid[w] : w \in Open} :
          Admit(v, n) /\ Holder(n) = {}
    /\ create' = [create EXCEPT ![v] = "cloning"]
    /\ machine' = [machine EXCEPT ![v] = "cloning"]
    /\ UNCHANGED <<status, op, batch>>

(* The clone is done: configure the machine and post its start. *)
CreateStarts(v) ==
    /\ LoopFree
    /\ create[v] = "cloned"
    /\ machine[v] = "halted"
    /\ machine' = [machine EXCEPT ![v] = "starting"]
    /\ create' = [create EXCEPT ![v] = "starting"]
    /\ UNCHANGED <<status, vmid, op, batch>>

(* Mutant: the row is committed as it was flushed. *)
CreateCommitsPending(v) ==
    /\ LoopFree
    /\ create[v] = "started"
    /\ status' = [status EXCEPT ![v] = "PENDING"]
    /\ create' = [create EXCEPT ![v] = "done"]
    /\ UNCHANGED <<vmid, op, machine, batch>>

(* The start is done and the wait for an address is over: commit. *)
CreateCommits(v) ==
    /\ LoopFree
    /\ create[v] = "started"
    /\ status' = [status EXCEPT ![v] = "ACTIVE"]
    /\ create' = [create EXCEPT ![v] = "done"]
    /\ UNCHANGED <<vmid, op, machine, batch>>

(* Mutant: wait_for_task polls without a deadline. *)
CreateWaits(v) ==
    /\ LoopFree
    /\ create[v] \in {"cloned", "failed"}
    /\ create' = [create EXCEPT ![v] = "aborted"]
    /\ UNCHANGED <<status, vmid, op, machine, batch>>

(* A task failed or timed out, or the configuration or the start was       *)
(* refused: the row is rolled back and the cluster is left as it is.       *)
CreateFails(v) ==
    /\ LoopFree
    /\ create[v] \in OpenStates \ {"started"}
    /\ create' = [create EXCEPT ![v] = "aborted"]
    /\ UNCHANGED <<status, vmid, op, machine, batch>>

-----------------------------------------------------------------------------
(* stop_vm and delete_vm.  The caller owns the machine or is an            *)
(* administrator; any other call is refused and changes nothing.           *)

Called(h, v) == /\ LoopFree
                /\ op[h] = Idle
                /\ v \in Rows

SetOp(h, pc, v, w) == op' = [op EXCEPT ![h] = [pc |-> pc, vm |-> v, mach |-> w]]

(* The cluster accepts a stop of the machine under the row's number and    *)
(* the handler awaits it (pc); a halted machine is stopped already (over). *)
PostStop(h, v, pc, over) ==
    \E w \in Holder(vmid[v]) :
        \/ /\ machine[w] = "running"
           /\ machine' = [machine EXCEPT ![w] = "stopping"]
           /\ SetOp(h, pc, v, w)
        \/ /\ machine[w] = "halted"
           /\ UNCHANGED machine
           /\ SetOp(h, over, v, w)

(* Proxmox first.  A refused stop answers 502 and changes nothing. *)
StopBegins(h, v) ==
    /\ Called(h, v)
    /\ status[v] # "STOPPED"
    /\ PostStop(h, v, "stopping", "stopped")
    /\ UNCHANGED <<status, vmid, create, batch>>

(* Mutant: the row is merged back instead of updated. *)
StopUpserts(h) ==
    /\ LoopFree
    /\ op[h].pc = "stopped"
    /\ status' = [status EXCEPT ![op[h].vm] = "STOPPED"]
    /\ op' = [op EXCEPT ![h] = Idle]
    /\ UNCHANGED <<vmid, create, machine, batch>>

(* Mutant: a stop that timed out is taken for done, as with force. *)
StopForces(h) ==
    /\ LoopFree
    /\ op[h].pc \in {"stopping", "stopped"}
    /\ status' = IF op[h].vm \in Rows
                 THEN [status EXCEPT ![op[h].vm] = "STOPPED"] ELSE status
    /\ op' = [op EXCEPT ![h] = Idle]
    /\ UNCHANGED <<vmid, create, machine, batch>>

(* Then the row, whatever its status has become since it was loaded; if it *)
(* is gone the UPDATE matches nothing (StaleDataError, rolled back).       *)
StopCommits(h) ==
    /\ LoopFree
    /\ op[h].pc = "stopped"
    /\ status' = IF op[h].vm \in Rows
                 THEN [status EXCEPT ![op[h].vm] = "STOPPED"] ELSE status
    /\ op' = [op EXCEPT ![h] = Idle]
    /\ UNCHANGED <<vmid, create, machine, batch>>

(* The cluster destroys, under the row's number, a machine that is halted; *)
(* it refuses one that is running or that a task holds.                    *)
PostDestroy(h, v) ==
    \E w \in Holder(vmid[v]) :
        /\ machine[w] = "halted"
        /\ machine' = [machine EXCEPT ![w] = "destroying"]
        /\ SetOp(h, "destroying", v, w)

(* An ACTIVE row is stopped first, and a refused stop is passed over; any  *)
(* other row is destroyed at once.                                         *)
DeleteBegins(h, v) ==
    /\ Called(h, v)
    /\ \/ status[v] = "ACTIVE" /\ PostStop(h, v, "halting", "halted")
       \/ PostDestroy(h, v)
    /\ UNCHANGED <<status, vmid, create, batch>>

(* The stop ended, failed or timed out: go on to the destroy. *)
DeleteContinues(h) ==
    /\ LoopFree
    /\ op[h].pc \in {"halting", "halted"}
    /\ PostDestroy(h, op[h].vm)
    /\ UNCHANGED <<status, vmid, create, batch>>

(* The row goes with its machine; deleting a missing row is only a warning. *)
DeleteCommits(h) ==
    /\ LoopFree
    /\ op[h].pc = "destroyed"
    /\ status' = [status EXCEPT ![op[h].vm] = "none"]
    /\ op' = [op EXCEPT ![h] = Idle]
    /\ UNCHANGED <<vmid, create, machine, batch>>

(* A task failed or timed out, or the destroy was refused: answer an error *)
(* and leave the row.                                                      *)
HandlerFails(h) ==
    /\ LoopFree
    /\ op[h].pc \in {"stopping", "halting", "halted", "destroying", "failed"}
    /\ op' = [op EXCEPT ![h] = Idle]
    /\ UNCHANGED <<status, vmid, create, machine, batch>>

-----------------------------------------------------------------------------
(* The cluster (external): one task at a time on a machine, which ends     *)
(* well or badly, and tells the handler that polls it, if one still does.  *)

Outcome(task, ok) ==
    CASE task = "cloning"    -> IF ok THEN "halted" ELSE "absent"
      [] task = "starting"   -> IF ok THEN "running" ELSE "halted"
      [] task = "stopping"   -> IF ok THEN "halted" ELSE "running"
      [] task = "destroying" -> IF ok THEN "absent" ELSE "halted"

(* The handler's wait_for_task returns, or raises if the task failed;      *)
(* delete_vm takes either end of its stop for the same.                    *)
AfterCreateTask(pc, ok) ==
    IF ~ok THEN "failed" ELSE IF pc = "cloning" THEN "cloned" ELSE "started"

(* Mutant: the exit status of the destroy is not looked at. *)
AfterOpTaskBlind(pc, ok) ==
    IF pc = "halting" THEN "halted"
    ELSE IF pc = "stopping" THEN IF ok THEN "stopped" ELSE "failed"
    ELSE "destroyed"

AfterOpTask(pc, ok) ==
    IF pc = "halting" THEN "halted"
    ELSE IF ~ok THEN "failed"
    ELSE IF pc = "stopping" THEN "stopped" ELSE "destroyed"

TaskEnds(w, ok) ==
    /\ machine[w] \in TaskStates
    /\ machine' = [machine EXCEPT ![w] = Outcome(@, ok)]
    /\ create' = [create EXCEPT ![w] = IF @ = machine[w] THEN AfterCreateTask(@, ok) ELSE @]
    /\ op' = [h \in Handlers |->
                IF op[h].mach = w /\ op[h].pc \in {"stopping", "halting", "destroying"}
                THEN [op[h] EXCEPT !.pc = AfterOpTask(@, ok)]
                ELSE op[h]]
    /\ UNCHANGED <<status, vmid, batch>>

(* A guest powers off, or someone removes a machine from the cluster. *)
LeavesOutOfBand(w) ==
    /\ OutOfBand
    /\ \/ /\ machine[w] = "running"
          /\ machine' = [machine EXCEPT ![w] = "halted"]
       \/ /\ machine[w] \in {"running", "halted"}
          /\ machine' = [machine EXCEPT ![w] = "absent"]
    /\ UNCHANGED <<status, vmid, create, op, batch>>

-----------------------------------------------------------------------------
(* The scheduler jobs: a query, and one transaction for the whole batch. *)

Loads(j, S) == /\ j \in Jobs
               /\ batch[j] = {}
               /\ S # {}
               /\ batch' = [batch EXCEPT ![j] = S]
               /\ UNCHANGED <<status, vmid, create, op, machine>>

Ends(j) == /\ batch[j] # {}
           /\ batch' = [batch EXCEPT ![j] = {}]
           /\ UNCHANGED <<vmid, create, op, machine>>

Write(S, s) == status' = [v \in VMs |-> IF v \in S THEN s ELSE status[v]]

(* The ACTIVE rows whose lease is over: any of them (Lease has the time). *)
ExpireLoads == \E S \in SUBSET {v \in Rows : status[v] = "ACTIVE"} :
                   Loads("expire_vms", S)

(* A single UPDATE that finds its row gone rolls back all the others. *)
ExpireCommits ==
    LET S == batch["expire_vms"]
    IN  /\ Ends("expire_vms")
        /\ IF S \subseteq Rows THEN Write(S, "EXPIRED") ELSE UNCHANGED status

(* Mutant: the filter of the neighbouring job. *)
MonitorLoadsExpired == Loads("monitor_vms", {v \in Rows : status[v] = "EXPIRED"})

MonitorLoads == Loads("monitor_vms", {v \in Rows : status[v] = "ACTIVE"})

(* G: the machines the cluster no longer had when they were polled.  A     *)
(* poll may also fail otherwise, and is passed over.  The addresses of the *)
(* others are written too, so any lost row may roll the batch back.        *)
MonitorCommits ==
    LET S == batch["monitor_vms"]
    IN  /\ Ends("monitor_vms")
        /\ \/ \E G \in SUBSET {v \in S : machine[v] = "absent"} :
                 G \subseteq Rows /\ Write(G, "STOPPED")
           \/ ~(S \subseteq Rows) /\ UNCHANGED status

(* The rows stopped or expired long enough ago: any of them. *)
DeleteOldLoads == \E S \in SUBSET {v \in Rows : status[v] # "ACTIVE"} :
                      Loads("delete_old_vms", S)

(* The rows go; the cluster is not asked anything. *)
DeleteOldCommits ==
    /\ Ends("delete_old_vms")
    /\ Write(batch["delete_old_vms"], "none")

-----------------------------------------------------------------------------
(* The process stops and starts again: every open transaction is rolled    *)
(* back, every handler and job is gone, the cluster's tasks go on.         *)
Restart ==
    /\ create' = [v \in VMs |-> IF create[v] \in OpenStates \cup {"flushing"}
                                THEN "aborted" ELSE create[v]]
    /\ op' = [h \in Handlers |-> Idle]
    /\ batch' = [j \in AllJobs |-> {}]
    /\ UNCHANGED <<status, vmid, machine>>

CreateSteps(v) == CreateCommits(v) \/ CreateStarts(v) \/ CreateFails(v)

OpSteps(h) == StopCommits(h) \/ DeleteContinues(h) \/ DeleteCommits(h) \/ HandlerFails(h)

Next ==
    \/ \E v \in VMs : \/ CreateRefused(v) \/ CreateBlocks(v) \/ CreateClones(v) \/ CreateSteps(v)
                      \/ TaskEnds(v, TRUE) \/ TaskEnds(v, FALSE) \/ LeavesOutOfBand(v)
    \/ \E h \in Handlers, v \in VMs : StopBegins(h, v) \/ DeleteBegins(h, v)
    \/ \E h \in Handlers : OpSteps(h)
    \/ ExpireLoads \/ ExpireCommits \/ MonitorLoads \/ MonitorCommits
    \/ DeleteOldLoads \/ DeleteOldCommits
    \/ Restart

Spec == Init /\ [][Next]_vars

(* The event loop runs every coroutine that can go on, and wait_for_task   *)
(* gives up after a time; the jobs are called again for ever, and the      *)
(* cluster does not refuse to answer the monitor's polls for ever.         *)
MonitorSees ==
    LET S == batch["monitor_vms"]
    IN  /\ Ends("monitor_vms")
        /\ S \subseteq Rows
        /\ Write({v \in S : machine[v] = "absent"}, "STOPPED")

Fairness == /\ \A v \in VMs : WF_vars(CreateSteps(v))
            /\ \A h \in Handlers : WF_vars(OpSteps(h))
            /\ WF_vars(MonitorLoads) /\ WF_vars(MonitorCommits)
            /\ SF_vars(MonitorSees)

FairSpec == Spec /\ Fairness

-----------------------------------------------------------------------------
(* Safety *)

(* A VMID is a name the cluster reuses: whatever order creations, deletes, *)
(* timeouts and jobs come in, the number of a committed row never names    *)
(* the machine of another creation.                                        *)
RowOwnsMachine == \A v \in Rows : Holder(vmid[v]) \subseteq {v}

(* stop_vm halts the machine before it writes the row and the two are      *)
(* never apart: a row that says STOPPED has a machine that is off, although *)
(* the row is written after an await and by two jobs besides.              *)
Off == {"absent", "halted", "destroying"}

StoppedIsOff == \A v \in VMs : status[v] = "STOPPED" => machine[v] \in Off

(* As long as its row is there, delete_vm destroys the row's own machine,  *)
(* by a number it loaded minutes before; and it removes the row only when  *)
(* that machine is gone, even if the number it destroyed belonged to a     *)
(* later machine by then.                                                  *)
DeleteDestroys == \A h \in Handlers :
    /\ op[h].pc = "destroying" /\ op[h].vm \in Rows => op[h].mach = op[h].vm
    /\ op[h].pc = "destroyed" => machine[op[h].vm] = "absent"

(* What a user sees of a machine: VMLifecycle, where a row is born ACTIVE  *)
(* once and no stale write brings it back to ACTIVE or to life.            *)
row == [v \in VMs |-> IF v \in Rows THEN status[v]
                      ELSE IF create[v] = "done" THEN "gone" ELSE "unborn"]

Lifecycle == INSTANCE VMLifecycle

LifecycleSpec == Lifecycle!Spec

(* What the documents promise and the code does not do *)

(* wait_for_task sleeps with asyncio "pour ne pas bloquer": the event loop *)
(* is never stuck in a blocking call of one request.                       *)
LoopNeverBlocks == LoopFree

(* enforce_vm_ownership: a delete destroys no machine but its own.         *)
DestroysOwn == \A h \in Handlers : op[h].pc = "destroying" => op[h].mach = op[h].vm

(* Liveness *)

(* Every call returns: the timeouts of wait_for_task end every wait, so a  *)
(* request is stuck only while the whole event loop is.                    *)
CallsReturn ==
    /\ \A h \in Handlers : op[h].pc # "idle" ~> (op[h].pc = "idle" \/ ~LoopFree)
    /\ \A v \in VMs : create[v] \in OpenStates ~> (create[v] \notin OpenStates \/ ~LoopFree)

(* POL-SURV-01: an ACTIVE row whose machine vanished from the cluster does *)
(* not stay ACTIVE, although one lost row rolls a whole batch back.        *)
VanishedIsNoticed == \A v \in VMs :
    (status[v] = "ACTIVE" /\ machine[v] = "absent") ~> (status[v] # "ACTIVE")
=============================================================================
