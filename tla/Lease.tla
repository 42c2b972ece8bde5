-------------------------------- MODULE Lease --------------------------------
(***************************************************************************)
(* The session of a virtual machine: the lease create_vm opens, the        *)
(* extensions and the reservations that record them, the job that expires  *)
(* it and the private key that is downloaded while it lasts.               *)
(*                                                                         *)
(* extend_vm and get_ssh_key run in the thread pool, stop_vm is a          *)
(* coroutine, task_expire_vms is a thread of the scheduler: each one loads *)
(* the row in its session and writes absolute values of the columns it     *)
(* changed at its commit, under READ COMMITTED and without a row lock.     *)
(* An UPDATE of a row that is gone rolls its whole transaction back.       *)
(***************************************************************************)
EXTENDS Integers

CONSTANTS VMs,
          Threads,      \* requests served at the same time
          MaxSession,   \* effective max_session_duration_hours of each VM's owner
          HardLimit,    \* settings.HARD_LIMIT_SESSION_HOURS
          CloneTime,    \* hours between the reading of the clock and create_vm's commit
          LastStart,    \* bound: no session starts later
          MaxTime,      \* bound: the clock stops
          NoVm

ASSUME LeaseAssumption ==
    /\ NoVm \notin VMs
    /\ MaxSession \in [VMs -> Nat]
    /\ HardLimit \in Nat
    /\ CloneTime \in Nat
    /\ LastStart \in Nat
    /\ MaxTime \in Nat
    /\ \A v \in VMs : LastStart + MaxSession[v] <= MaxTime

VARIABLES now,       \* hours
          status,    \* VMStatus of the committed row, "unborn" before, "gone" after
          start,     \* lease_start
          end,       \* lease_end
          slots,     \* the reservations of the VM
          key,       \* whether the row still holds the private key
          delivered, \* how many responses carried the private key
          call,      \* what each request has loaded
          batch      \* the rows task_expire_vms has loaded

vars == <<now, status, start, end, slots, key, delivered, call, batch>>

Statuses == {"unborn", "ACTIVE", "STOPPED", "EXPIRED", "gone"}

Slot == [from : Nat, to : Nat]

(* No request: what a thread holds between two requests. *)
Idle == [pc |-> "idle", vm |-> NoVm, end |-> 0, hours |-> 0]

TypeOK == /\ now \in Nat
          /\ status \in [VMs -> Statuses]
          /\ start \in [VMs -> Nat]
          /\ end \in [VMs -> Nat]
          /\ slots \in [VMs -> SUBSET Slot]
          /\ key \in [VMs -> BOOLEAN]
          /\ delivered \in [VMs -> Nat]
          /\ call \in [Threads -> [pc : {"idle", "extend", "key", "stop"},
                                   vm : VMs \cup {NoVm}, end : Nat, hours : Nat]]
          /\ batch \in SUBSET VMs

Init == /\ now = 0
        /\ status = [v \in VMs |-> "unborn"]
        /\ start = [v \in VMs |-> 0]
        /\ end = [v \in VMs |-> 0]
        /\ slots = [v \in VMs |-> {}]
        /\ key = [v \in VMs |-> FALSE]
        /\ delivered = [v \in VMs |-> 0]
        /\ call = [t \in Threads |-> Idle]
        /\ batch = {}

Rows == {v \in VMs : status[v] \in {"ACTIVE", "STOPPED", "EXPIRED"}}

(* The hours both limits of create_vm allow. *)
Durations(v) == {h \in 1..HardLimit : h <= MaxSession[v]}

-----------------------------------------------------------------------------
(* The clock and create_vm *)

Tick == /\ now < MaxTime
        /\ now' = now + 1
        /\ UNCHANGED <<status, start, end, slots, key, delivered, call, batch>>

(* Mutant: the row is committed as it was flushed. *)
CreatePending(v) ==
    /\ status[v] = "unborn"
    /\ now <= LastStart
    /\ \E h \in Durations(v) :
           /\ start' = [start EXCEPT ![v] = now]
           /\ end' = [end EXCEPT ![v] = now + h]
           /\ slots' = [slots EXCEPT ![v] = {[from |-> now, to |-> now + h]}]
    /\ status' = [status EXCEPT ![v] = "PENDING"]
    /\ key' = [key EXCEPT ![v] = TRUE]
    /\ UNCHANGED <<now, delivered, call, batch>>

(* Mutant: the lease opens at the commit, its reservation when the clock was read. *)
CreateRestamps(v) ==
    /\ status[v] = "unborn"
    /\ now <= LastStart
    /\ \E from \in {s \in 0..now : now - s <= CloneTime}, h \in Durations(v) :
           /\ start' = [start EXCEPT ![v] = from]
           /\ end' = [end EXCEPT ![v] = now + h]
           /\ slots' = [slots EXCEPT ![v] = {[from |-> from, to |-> from + h]}]
    /\ status' = [status EXCEPT ![v] = "ACTIVE"]
    /\ key' = [key EXCEPT ![v] = TRUE]
    /\ UNCHANGED <<now, delivered, call, batch>>

Create(v) ==
    /\ status[v] = "unborn"
    /\ now <= LastStart
    /\ \E from \in {s \in 0..now : now - s <= CloneTime}, h \in Durations(v) :
           /\ start' = [start EXCEPT ![v] = from]
           /\ end' = [end EXCEPT ![v] = from + h]
           /\ slots' = [slots EXCEPT ![v] = {[from |-> from, to |-> from + h]}]
    /\ status' = [status EXCEPT ![v] = "ACTIVE"]
    /\ key' = [key EXCEPT ![v] = TRUE]
    /\ UNCHANGED <<now, delivered, call, batch>>

-----------------------------------------------------------------------------
(* Requests on a row *)

(* The request has loaded the row and passed its checks. *)
Loads(t, pc, v, h) ==
    /\ call[t] = Idle
    /\ v \in Rows
    /\ call' = [call EXCEPT ![t] = [pc |-> pc, vm |-> v, end |-> end[v], hours |-> h]]
    /\ UNCHANGED <<now, status, start, end, slots, key, delivered, batch>>

(* The transaction finds its row and the request returns. *)
Writes(t, pc) ==
    /\ call[t].pc = pc
    /\ call[t].vm \in Rows
    /\ call' = [call EXCEPT ![t] = Idle]

(* Mutant: the extension alone is compared with the quota. *)
ExtendLoadsAlone(t, v, h) ==
    /\ h <= MaxSession[v]
    /\ Loads(t, "extend", v, h)

(* The schema asks for an hour at least; no check looks at the status. *)
ExtendLoads(t, v, h) ==
    /\ h >= 1
    /\ end[v] - start[v] + h <= MaxSession[v]
    /\ Loads(t, "extend", v, h)

(* Mutant: the hours are added to the column the commit finds. *)
ExtendAdds(t) ==
    /\ Writes(t, "extend")
    /\ LET v == call[t].vm
       IN  /\ end' = [end EXCEPT ![v] = end[v] + call[t].hours]
           /\ slots' = [slots EXCEPT ![v] = @ \cup
                  {[from |-> call[t].end, to |-> call[t].end + call[t].hours]}]
    /\ UNCHANGED <<now, status, start, key, delivered, batch>>

ExtendCommits(t) ==
    /\ Writes(t, "extend")
    /\ LET v == call[t].vm
           to == call[t].end + call[t].hours
       IN  /\ end' = [end EXCEPT ![v] = to]
           /\ slots' = [slots EXCEPT ![v] = @ \cup {[from |-> call[t].end, to |-> to]}]
    /\ UNCHANGED <<now, status, start, key, delivered, batch>>

KeyLoads(t, v) == key[v] /\ Loads(t, "key", v, 0)

(* Mutant: the row is answered and not cleared. *)
KeyStays(t) ==
    /\ Writes(t, "key")
    /\ delivered' = [delivered EXCEPT ![call[t].vm] = @ + 1]
    /\ UNCHANGED <<now, status, start, end, slots, key, batch>>

KeyCommits(t) ==
    /\ Writes(t, "key")
    /\ key' = [key EXCEPT ![call[t].vm] = FALSE]
    /\ delivered' = [delivered EXCEPT ![call[t].vm] = @ + 1]
    /\ UNCHANGED <<now, status, start, end, slots, batch>>

StopLoads(t, v) == status[v] # "STOPPED" /\ Loads(t, "stop", v, 0)

StopCommits(t) ==
    /\ Writes(t, "stop")
    /\ status' = [status EXCEPT ![call[t].vm] = "STOPPED"]
    /\ UNCHANGED <<now, start, end, slots, key, delivered, batch>>

(* The row went away, or the cluster refused the stop: an error answer. *)
Fails(t) ==
    /\ call[t].pc # "idle"
    /\ call[t].vm \notin Rows \/ call[t].pc = "stop"
    /\ call' = [call EXCEPT ![t] = Idle]
    /\ UNCHANGED <<now, status, start, end, slots, key, delivered, batch>>

(* delete_vm or task_delete_old_vms; the reservations go with the row. *)
Delete(v) ==
    /\ v \in Rows
    /\ status' = [status EXCEPT ![v] = "gone"]
    /\ slots' = [slots EXCEPT ![v] = {}]
    /\ UNCHANGED <<now, start, end, key, delivered, call, batch>>

-----------------------------------------------------------------------------
(* task_expire_vms, one instance at a time, and the process *)

Over == {v \in Rows : status[v] = "ACTIVE" /\ end[v] <= now}

ExpireLoads ==
    /\ batch = {}
    /\ Over # {}
    /\ batch' = Over
    /\ UNCHANGED <<now, status, start, end, slots, key, delivered, call>>

(* Mutant: the rows that are gone are written again. *)
ExpireUpserts ==
    /\ batch # {}
    /\ status' = [v \in VMs |-> IF v \in batch THEN "EXPIRED" ELSE status[v]]
    /\ batch' = {}
    /\ UNCHANGED <<now, start, end, slots, key, delivered, call>>

(* One row gone rolls the others back. *)
ExpireCommits ==
    /\ batch # {}
    /\ status' = IF batch \subseteq Rows
                 THEN [v \in VMs |-> IF v \in batch THEN "EXPIRED" ELSE status[v]]
                 ELSE status
    /\ batch' = {}
    /\ UNCHANGED <<now, start, end, slots, key, delivered, call>>

(* The container is restarted: what was not committed is lost. *)
Restart ==
    /\ call' = [t \in Threads |-> Idle]
    /\ batch' = {}
    /\ UNCHANGED <<now, status, start, end, slots, key, delivered>>

Next == \/ Tick
        \/ \E v \in VMs : Create(v) \/ Delete(v)
        \/ \E t \in Threads, v \in VMs :
               \/ \E h \in 1..MaxSession[v] : ExtendLoads(t, v, h)
               \/ KeyLoads(t, v)
               \/ StopLoads(t, v)
        \/ \E t \in Threads : ExtendCommits(t) \/ KeyCommits(t) \/ StopCommits(t) \/ Fails(t)
        \/ ExpireLoads
        \/ ExpireCommits
        \/ Restart

Spec == Init /\ [][Next]_vars

(* Time passes and the scheduler starts its job every minute; a job that   *)
(* starts again and again reaches its commit, whatever the restarts.       *)
Fairness == WF_vars(Tick) /\ WF_vars(ExpireLoads) /\ SF_vars(ExpireCommits)

FairSpec == Spec /\ Fairness

-----------------------------------------------------------------------------
(* What holds *)

(* However extensions race, no session outlasts the quota its owner had:   *)
(* extend_vm_lease checks the very value it will write.                    *)
LeaseWithinQuota == \A v \in Rows : end[v] - start[v] <= MaxSession[v]

(* Every hour of a lease, the extensions' included, is in a reservation of *)
(* the VM: the reservations extend_vm_lease adds leave no gap.             *)
LeaseIsReserved ==
    \A v \in Rows : \A hour \in start[v]..(end[v] - 1) :
        \E s \in slots[v] : s.from <= hour /\ hour < s.to

(* A row is born ACTIVE and, settled, is never ACTIVE again, even when its *)
(* lease is extended after task_expire_vms has loaded it.                  *)
Lifecycle == INSTANCE VMLifecycle WITH row <- status
LifecycleSpec == Lifecycle!Spec

(* Every session ends: extensions are bounded and the job finds the row,   *)
(* although a removed row rolls a batch back and restarts drop others.     *)
SessionsEnd == \A v \in VMs : status[v] = "ACTIVE" ~> status[v] # "ACTIVE"

(* A request that comes after an answer carried the private key does not   *)
(* find it, whatever had loaded the row before and whatever it wrote.  The *)
(* route promises more: its message says that the key is available once    *)
(* only, and two requests that overlap are both answered with it.          *)
KeyIsCleared ==
    [][\A t \in Threads : call[t] = Idle /\ call'[t].pc = "key"
           => delivered[call'[t].vm] = 0]_vars
=============================================================================
