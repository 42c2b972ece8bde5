------------------------------- MODULE Quotas -------------------------------
(***************************************************************************)
(* How much a user may have: the policy or the defaults, the override an   *)
(* administrator grants, and the two handlers that compare a machine with  *)
(* them, create_vm and update_vm.                                          *)
(*                                                                         *)
(* A grant and an update run in the thread pool: they load, check and      *)
(* commit, and a commit writes the columns that differ from what the       *)
(* session has loaded.  PROXMOX_ENABLED is false here: create_vm runs in   *)
(* the event loop to its commit without an await, one at a time (with it,  *)
(* creations overlap at their awaits: see Provisioning).  update_user      *)
(* gives a user another policy; no endpoint changes a policy itself or     *)
(* removes an override.  One size stands for the vcpu, the ram_gb and the  *)
(* storage_gb.                                                             *)
(***************************************************************************)
EXTENDS Integers, FiniteSets

CONSTANTS Users,
          Admins,
          VMs,        \* creation requests
          Owner,      \* the user who sends each of them
          Base,       \* limits of each user's first policy, or the defaults
          HardLimit,  \* settings.HARD_LIMIT_VCPU, _RAM_GB and _STORAGE_GB
          Threads,    \* grants and updates served at the same time
          Sizes,      \* bound: sizes that requests name
          Grants,     \* bound: bodies of the grants to each user
          Policies,   \* bound: limits of the policies each user is given
          NoVm

Fields == {"size", "count"}

Null == -1   \* a column, or a field of a body, without a value

Limits == [Fields -> Nat]
Columns == [Fields -> Nat \cup {Null}]

ASSUME QuotasAssumption ==
    /\ Admins \subseteq Users /\ IsFiniteSet(VMs) /\ NoVm \notin VMs
    /\ Owner \in [VMs -> Users] /\ Base \in [Users -> Limits]
    /\ HardLimit \in Nat /\ Sizes \subseteq Nat /\ Grants \in [Users -> SUBSET Columns]
    /\ Policies \in [Users -> SUBSET Limits]

VARIABLES base,      \* limits of each user's active policy, or the defaults
          granted,   \* users who have a QuotaOverride row
          override,  \* the columns of that row
          status,    \* "none", "ACTIVE", "STOPPED" (or EXPIRED) and "gone"
          size,      \* the size in the row of each machine
          creating,  \* what create_vm has read, in the event loop
          call,      \* what each other handler has loaded
          peak       \* the largest limits each user has had (history)

vars == <<base, granted, override, status, size, creating, call, peak>>

NoRow == [f \in Fields |-> Null]

Waiting == [vm |-> NoVm, size |-> 0, count |-> 0]

Idle == [op |-> "idle", who |-> NoVm, fresh |-> FALSE, seen |-> NoRow, body |-> NoRow]

TypeOK == /\ base \in [Users -> Limits]
          /\ granted \subseteq Users
          /\ override \in [Users -> Columns]
          /\ status \in [VMs -> {"none", "ACTIVE", "STOPPED", "gone"}]
          /\ size \in [VMs -> Nat]
          /\ creating \in [vm : VMs \cup {NoVm}, size : Nat, count : Nat]
          /\ call \in [Threads -> [op : {"idle", "grant", "update"},
                                   who : Users \cup VMs \cup {NoVm}, fresh : BOOLEAN,
                                   seen : Columns, body : Columns]]
          /\ peak \in [Users -> Limits]

Init == /\ base = Base
        /\ granted = {}
        /\ override = [u \in Users |-> NoRow]
        /\ status = [v \in VMs |-> "none"]
        /\ size = [v \in VMs |-> 0]
        /\ creating = Waiting
        /\ call = [t \in Threads |-> Idle]
        /\ peak = Base

-----------------------------------------------------------------------------
(* get_effective_quota, column by column *)

Over(columns, limits) ==
    [f \in Fields |-> IF columns[f] # Null THEN columns[f] ELSE limits[f]]

Effective(u) == Over(override[u], base[u])

Rows == {v \in VMs : status[v] \in {"ACTIVE", "STOPPED"}}

Active(u) == {v \in VMs : status[v] = "ACTIVE" /\ Owner[v] = u}

(* The largest limits yet, when u is allowed these. *)
Peaks(limits, u) ==
    peak' = [peak EXCEPT ![u] = [f \in Fields |-> IF limits[f] > @[f]
                                                  THEN limits[f] ELSE @[f]]]

Returns(t) == call' = [call EXCEPT ![t] = Idle]

-----------------------------------------------------------------------------
(* apply_quota_override *)

GrantLoads(t, u, g) ==
    /\ call[t] = Idle
    /\ call' = [call EXCEPT ![t] = [op |-> "grant", who |-> u, fresh |-> u \notin granted,
                                    seen |-> override[u], body |-> g]]
    /\ UNCHANGED <<base, granted, override, status, size, creating, peak>>

(* The user had no row: insert one, unless another grant was faster, whose *)
(* row raises IntegrityError on the unique user_id.                        *)
GrantInserts(t) ==
    LET u == call[t].who
    IN  /\ call[t].op = "grant" /\ call[t].fresh
        /\ Returns(t)
        /\ \/ /\ u \notin granted
              /\ granted' = granted \cup {u}
              /\ override' = [override EXCEPT ![u] = call[t].body]
              /\ Peaks(Over(call[t].body, base[u]), u)
           \/ /\ u \in granted
              /\ UNCHANGED <<granted, override, peak>>
        /\ UNCHANGED <<base, status, size, creating>>

(* Mutant: all the columns are written, the untouched ones as loaded. *)
UpdatedWhole(t, u) ==
    [f \in Fields |-> IF call[t].body[f] = Null THEN call[t].seen[f] ELSE call[t].body[f]]

(* The columns after an UPDATE of those the body names and changes. *)
Updated(t, u) ==
    [f \in Fields |-> IF call[t].body[f] \in {Null, call[t].seen[f]}
                      THEN override[u][f] ELSE call[t].body[f]]

GrantUpdates(t) ==
    LET u == call[t].who
    IN  /\ call[t].op = "grant" /\ ~call[t].fresh
        /\ Returns(t)
        /\ override' = [override EXCEPT ![u] = Updated(t, u)]
        /\ Peaks(Over(Updated(t, u), base[u]), u)
        /\ UNCHANGED <<base, granted, status, size, creating>>

(* update_user: quota_policy_id is one column, and what was loaded of the  *)
(* row does not matter to the commit.                                      *)
Assigns(u, p) ==
    /\ base' = [base EXCEPT ![u] = p]
    /\ Peaks(Over(override[u], p), u)
    /\ UNCHANGED <<granted, override, status, size, creating, call>>

-----------------------------------------------------------------------------
(* create_vm *)

(* The schema asks for a positive size, and both limits hold. *)
CreateLoads(v, s) ==
    /\ creating = Waiting
    /\ status[v] = "none"
    /\ s >= 1 /\ s <= HardLimit /\ s <= Effective(Owner[v])["size"]
    /\ creating' = [vm |-> v, size |-> s, count |-> Effective(Owner[v])["count"]]
    /\ UNCHANGED <<base, granted, override, status, size, call, peak>>

(* Mutant: the machine being created is not counted. *)
CreateCommitsOneMore ==
    LET v == creating.vm
    IN  /\ v # NoVm
        /\ Cardinality(Active(Owner[v])) <= creating.count
        /\ status' = [status EXCEPT ![v] = "ACTIVE"]
        /\ size' = [size EXCEPT ![v] = creating.size]
        /\ creating' = Waiting
        /\ UNCHANGED <<base, granted, override, call, peak>>

(* Mutant: the row is committed as it was flushed. *)
CreateCommitsPending ==
    LET v == creating.vm
    IN  /\ v # NoVm
        /\ Cardinality(Active(Owner[v])) < creating.count
        /\ status' = [status EXCEPT ![v] = "PENDING"]
        /\ size' = [size EXCEPT ![v] = creating.size]
        /\ creating' = Waiting
        /\ UNCHANGED <<base, granted, override, call, peak>>

(* The machines are counted and the row is committed without an await in   *)
(* between, which holds only while PROXMOX_ENABLED is false.               *)
CreateCommits ==
    LET v == creating.vm
    IN  /\ v # NoVm
        /\ Cardinality(Active(Owner[v])) < creating.count
        /\ status' = [status EXCEPT ![v] = "ACTIVE"]
        /\ size' = [size EXCEPT ![v] = creating.size]
        /\ creating' = Waiting
        /\ UNCHANGED <<base, granted, override, call, peak>>

CreateRefused ==
    /\ creating.vm # NoVm
    /\ Cardinality(Active(Owner[creating.vm])) >= creating.count
    /\ creating' = Waiting
    /\ UNCHANGED <<base, granted, override, status, size, call, peak>>

-----------------------------------------------------------------------------
(* update_vm, called by u *)

UpdateBody(s) == [NoRow EXCEPT !["size"] = s]

(* Mutant: the quota of the caller. *)
UpdateLoadsAsCaller(t, u, v, s) ==
    /\ call[t] = Idle
    /\ v \in Rows /\ (u = Owner[v] \/ u \in Admins)
    /\ s <= HardLimit /\ s <= Effective(u)["size"]
    /\ call' = [call EXCEPT ![t] = [op |-> "update", who |-> v, fresh |-> FALSE,
                                    seen |-> UpdateBody(size[v]), body |-> UpdateBody(s)]]
    /\ UNCHANGED <<base, granted, override, status, size, creating, peak>>

(* The quota of the owner; this schema has no lower bound. *)
UpdateLoads(t, u, v, s) ==
    /\ call[t] = Idle
    /\ v \in Rows /\ (u = Owner[v] \/ u \in Admins)
    /\ s <= HardLimit /\ s <= Effective(Owner[v])["size"]
    /\ call' = [call EXCEPT ![t] = [op |-> "update", who |-> v, fresh |-> FALSE,
                                    seen |-> UpdateBody(size[v]), body |-> UpdateBody(s)]]
    /\ UNCHANGED <<base, granted, override, status, size, creating, peak>>

(* A row that is gone is an error answer; an equal size is not written. *)
UpdateCommits(t) ==
    LET v == call[t].who
        s == call[t].body["size"]
    IN  /\ call[t].op = "update"
        /\ Returns(t)
        /\ size' = IF v \in Rows /\ s # call[t].seen["size"]
                   THEN [size EXCEPT ![v] = s] ELSE size
        /\ UNCHANGED <<base, granted, override, status, creating, peak>>

-----------------------------------------------------------------------------
(* stop_vm or task_expire_vms; delete_vm or task_delete_old_vms; the process *)

Settles(v) ==
    /\ status[v] = "ACTIVE"
    /\ status' = [status EXCEPT ![v] = "STOPPED"]
    /\ UNCHANGED <<base, granted, override, size, creating, call, peak>>

Leaves(v) ==
    /\ v \in Rows
    /\ status' = [status EXCEPT ![v] = "gone"]
    /\ UNCHANGED <<base, granted, override, size, creating, call, peak>>

Restart ==
    /\ creating' = Waiting
    /\ call' = [t \in Threads |-> Idle]
    /\ UNCHANGED <<base, granted, override, status, size, peak>>

Next == \/ \E t \in Threads, u \in Users : \/ \E g \in Grants[u] : GrantLoads(t, u, g)
                                           \/ \E v \in VMs, s \in Sizes : UpdateLoads(t, u, v, s)
        \/ \E t \in Threads : GrantInserts(t) \/ GrantUpdates(t) \/ UpdateCommits(t)
        \/ \E u \in Users : \E p \in Policies[u] : Assigns(u, p)
        \/ \E v \in VMs, s \in Sizes : CreateLoads(v, s)
        \/ CreateCommits \/ CreateRefused
        \/ \E v \in VMs : Settles(v) \/ Leaves(v)
        \/ Restart

Spec == Init /\ [][Next]_vars

-----------------------------------------------------------------------------
(* No machine is above the absolute ceiling, however generous an override, *)
(* nor larger than its owner was ever allowed, whoever resized it and      *)
(* whatever grants and updates overlapped.                                 *)
WithinLimits == \A v \in Rows : /\ size[v] <= HardLimit
                                /\ size[v] <= peak[Owner[v]]["size"]

(* No user has more ACTIVE machines than they were ever allowed, though    *)
(* grants commit between the quota create_vm reads and its commit.         *)
CountWithinPeak == \A u \in Users : Cardinality(Active(u)) <= peak[u]["count"]

(* A limit of an override changes only to what the grant that is committed *)
(* names for it: no grant writes back, or over, a limit that it does not   *)
(* name, whatever it has loaded and whichever grants overlap.  Of two that *)
(* name the same limit the last one committed stands, and of two that both *)
(* found no row the second is an error answer and is lost.                 *)
GrantsKeepOthers ==
    [][\A u \in Users, f \in Fields : override'[u][f] # override[u][f] =>
           \E t \in Threads : /\ call[t].op = "grant" /\ call[t].who = u
                              /\ call'[t] # call[t]
                              /\ call[t].body[f] # Null
                              /\ override'[u][f] = call[t].body[f]]_vars
=============================================================================
