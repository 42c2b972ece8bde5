-------------------------- MODULE Placement_proofs --------------------------
(***************************************************************************)
(* What is proved of Placement, for any nodes, images, numbers, creations  *)
(* and setting.                                                            *)
(***************************************************************************)
EXTENDS Placement, TLAPS

Live == Open \cup Committed

(* Two machines never share a number.                                      *)
Apart == \A v, w \in Live : v # w => row[v].number # row[w].number

(* A row has a machine of its own kind, on the node its physical node      *)
(* stood for when the number was drawn, and still does unless it moved.    *)
Found == \A v \in Live :
            /\ row[v].number \in Numbers /\ row[v].phys \in Phys
            /\ kind[row[v].number] \in (IF v \in Open THEN {"cloning"} ELSE {"off", "running"})
            /\ node[row[v].number] # NoNode
            /\ v \notin moved => node[row[v].number] = Resolve(row[v].phys)

(* The monitor has only rows that were ACTIVE, and a machine that is there *)
(* is told gone only when its node has moved.                              *)
Monitored == /\ \A v \in todo \cup gone : row[v].status \in {"ACTIVE", "STOPPED", "gone"}
             /\ \A v \in gone : v \in Committed => v \in moved

(* An image that upload_iso_to_proxmox registered has its file on the      *)
(* cluster, whichever of its steps fails and whoever uploads it again.     *)
UploadedIsStored == \A i \in Isos : iso[i] = "uploaded" => i \in stored

(* The file of an upload that is to be registered is there.                *)
StoredFirst == \A i \in Isos : upload[i] = "stored" => i \in stored

IInv == /\ TypeOK /\ Apart /\ Found /\ Monitored /\ StoppedIsOff
        /\ StoredFirst /\ UploadedIsStored

USE DEF Open, Committed, Live, adminVars, clusterVars, monitorVars

(* The invariant does not read the administrators' image tables but for    *)
(* their types and the two conjuncts on files.                             *)
LEMMA Images ==
  ASSUME IInv, TypeOK', StoredFirst', UploadedIsStored',
         UNCHANGED <<mapping, moved, clusterVars, row, monitorVars>>
  PROVE  IInv'
BY DEF IInv, Apart, Found, Monitored, StoppedIsOff, Resolve

LEMMA AdminStep == ASSUME IInv, Admin PROVE IInv'
<1> USE PlacementAssumption DEF IInv
<1>1. ASSUME NEW p \in Phys, NEW k \in Nodes, SetMapping(p, k) PROVE IInv'
  <2> USE <1>1 DEF SetMapping
  <2>1. TypeOK'
    BY DEF TypeOK, Resolve
  <2>2. moved \subseteq moved' /\ \A v \in Live \ moved' : Resolve(row[v].phys)' = Resolve(row[v].phys)
    BY DEF TypeOK, Resolve, Found
  <2>3. Found'
    BY <2>2 DEF Found
  <2>4. Apart' /\ Monitored' /\ StoppedIsOff'
    BY <2>2 DEF Apart, Monitored, StoppedIsOff
  <2> QED
    BY <2>1, <2>3, <2>4 DEF StoredFirst, UploadedIsStored
<1>2. ASSUME NEW i \in Isos, NEW n \in Numbers, SetTemplate(i, n) PROVE IInv'
  BY <1>2, Images DEF SetTemplate, TypeOK, StoredFirst, UploadedIsStored
<1>3. ASSUME NEW i \in Isos,
             AddIso(i) \/ UploadPosts(i) \/ ClusterStores(i) \/ UploadRegisters(i) \/ UploadFails(i)
      PROVE  IInv'
  <2>1. TypeOK' /\ UNCHANGED <<mapping, moved, clusterVars, row, monitorVars>>
    BY <1>3 DEF TypeOK, AddIso, UploadPosts, ClusterStores, UploadRegisters, UploadFails
  <2>2. StoredFirst' /\ UploadedIsStored'
    BY <1>3 DEF TypeOK, AddIso, UploadPosts, ClusterStores, UploadRegisters, UploadFails,
                StoredFirst, UploadedIsStored
  <2> QED
    BY <2>1, <2>2, Images
<1>4. ASSUME NEW n \in Numbers, NEW k \in Nodes, NEW i \in Isos, Prepare(n, k, i) PROVE IInv'
  <2> USE <1>4 DEF Prepare, SetMachine
  <2>1. TypeOK' /\ \A m \in Numbers \ {n} : kind'[m] = kind[m] /\ node'[m] = node[m]
    BY DEF TypeOK
  <2>2. \A v \in Live : row[v].number # n
    BY DEF Found
  <2>3. Found' /\ Apart' /\ Monitored' /\ StoppedIsOff'
    BY <2>1, <2>2 DEF Found, Apart, Monitored, StoppedIsOff, Resolve
  <2> QED
    BY <2>1, <2>3 DEF StoredFirst, UploadedIsStored
<1> QED
  BY <1>1, <1>2, <1>3, <1>4 DEF Admin, AddMapping, PatchMapping, AddTemplate, PatchTemplate

(* A step on the machine of one row, which keeps its number and its node.  *)
(* The row's new status and its machine's new kind agree.                  *)
LEMMA OneMachine ==
  ASSUME IInv, NEW v \in Live, UNCHANGED <<adminVars, monitorVars>>, TypeOK',
         row'[v].number = row[v].number, row'[v].phys = row[v].phys,
         \A w \in VMs \ {v} : row'[w] = row[w],
         \A n \in Numbers \ {row[v].number} : kind'[n] = kind[n] /\ node'[n] = node[n],
         \/ row'[v].status = "gone"
         \/ row'[v].status = "failed" /\ v \in Open
         \/ /\ row'[v].status \in {"ACTIVE", "STOPPED"}
            /\ kind'[row[v].number] \in {"off", "running"}
            /\ row'[v].status = "STOPPED" => kind'[row[v].number] = "off"
            /\ node'[row[v].number] = node[row[v].number]
            /\ v \in Open \cup {w \in VMs : row[w].status = "ACTIVE"}
  PROVE  IInv'
<1> USE DEF IInv
<1>1. Live' \subseteq Live /\ \A w \in Live' : /\ row'[w].number = row[w].number
                                               /\ row'[w].phys = row[w].phys
  OBVIOUS
<1>2. Apart'
  BY <1>1 DEF Apart
<1>3. \A w \in Live \ {v} : row[w].number \in Numbers \ {row[v].number}
  BY DEF Apart, Found
<1>4. Found'
  BY <1>1, <1>3 DEF Found, Resolve
<1>5. Monitored'
  <2>1. ASSUME NEW w \in todo \cup gone PROVE row'[w].status \in {"ACTIVE", "STOPPED", "gone"}
    BY DEF Monitored, TypeOK
  <2>2. ASSUME NEW w \in gone, w \in Committed' PROVE w \in moved
    BY <2>2, <1>1 DEF Monitored, TypeOK
  <2> QED
    BY <2>1, <2>2 DEF Monitored
<1>6. StoppedIsOff'
  BY <1>1, <1>3 DEF StoppedIsOff
<1> QED
  BY <1>2, <1>4, <1>5, <1>6 DEF StoredFirst, UploadedIsStored

LEMMA CreateStep == ASSUME IInv, Create PROVE IInv'
<1> USE PlacementAssumption DEF IInv
<1>1. ASSUME NEW v \in VMs, NEW i \in Isos, NEW p \in Phys, NEW n \in Numbers,
             CreateBegins(v, i, p, n)
      PROVE  IInv'
  <2> USE <1>1 DEF CreateBegins, Draw, SetMachine
  <2>1. TypeOK' /\ Resolve(p) # NoNode
    BY DEF TypeOK, Resolve
  <2>2. /\ row'[v] = [status |-> "PENDING", number |-> n, phys |-> p]
        /\ \A w \in VMs \ {v} : row'[w] = row[w]
        /\ kind'[n] = "cloning" /\ node'[n] = Resolve(p)
        /\ \A m \in Numbers \ {n} : kind'[m] = kind[m] /\ node'[m] = node[m]
    BY DEF TypeOK
  <2>3. \A w \in Live : w # v /\ row[w].number # n
    BY DEF Found
  <2>4. Apart'
    BY <2>2, <2>3 DEF Apart
  <2>5. Found'
    BY <2>1, <2>2, <2>3 DEF Found, Resolve
  <2>6. Monitored'
    BY <2>2 DEF Monitored
  <2>7. StoppedIsOff'
    BY <2>2, <2>3 DEF StoppedIsOff, Found
  <2> QED
    BY <2>1, <2>4, <2>5, <2>6, <2>7 DEF StoredFirst, UploadedIsStored
<1>2. ASSUME NEW v \in VMs, CreateCommits(v) PROVE IInv'
  <2>1. TypeOK'
    BY <1>2 DEF CreateCommits, SetStatus, TypeOK, Found
  <2> QED
    BY <1>2, <2>1, OneMachine DEF CreateCommits, SetStatus, TypeOK, Found
<1>3. ASSUME NEW v \in VMs, CreateFails(v) PROVE IInv'
  <2>1. TypeOK'
    <3>1. row' \in [VMs -> [status : {"none", "PENDING", "failed", "ACTIVE", "STOPPED", "gone"},
                              number : Numbers \cup {0}, phys : Phys \cup {0}]]
      BY <1>3 DEF CreateFails, SetStatus, TypeOK
    <3>2. /\ node' \in [Numbers -> Nodes \cup {NoNode}]
          /\ kind' \in [Numbers -> {"none", "template", "cloning", "off", "running"}]
      <4>1. node[row[v].number] \in Nodes \cup {NoNode}
        BY <1>3 DEF CreateFails, TypeOK, Found
      <4>2. node \in [Numbers -> Nodes \cup {NoNode}]
            /\ kind \in [Numbers -> {"none", "template", "cloning", "off", "running"}]
        BY DEF TypeOK
      <4>3. PICK k \in Nodes \cup {NoNode}, s \in {"none", "off", "running"} :
               SetMachine(row[v].number, k, s)
        BY <1>3, <4>1 DEF CreateFails
      <4> QED
        BY <4>2, <4>3 DEF SetMachine
    <3> QED
      BY <1>3, <3>1, <3>2 DEF CreateFails, TypeOK
  <2>2. \A n \in Numbers \ {row[v].number} : kind'[n] = kind[n] /\ node'[n] = node[n]
    BY <1>3 DEF CreateFails, SetMachine, TypeOK
  <2> QED
    BY <1>3, <2>1, <2>2, OneMachine DEF CreateFails, SetStatus, TypeOK
<1> QED
  BY <1>1, <1>2, <1>3 DEF Create

LEMMA OperateStep == ASSUME IInv, Operate PROVE IInv'
<1> SUFFICES ASSUME NEW v \in VMs, Stop(v) \/ Delete(v) \/ DeleteHalts(v) PROVE IInv'
  BY DEF Operate
<1> USE DEF IInv
<1>1. CASE Stop(v)
  BY <1>1, OneMachine DEF Stop, SetStatus, TypeOK, Found
<1>2. CASE Delete(v)
  BY <1>2, OneMachine DEF Delete, SetStatus, SetMachine, TypeOK, Found
<1>3. CASE DeleteHalts(v)
  BY <1>3, OneMachine DEF DeleteHalts, TypeOK, Found
<1> QED
  BY <1>1, <1>2, <1>3

LEMMA MonitorStep == ASSUME IInv, Monitor PROVE IInv'
<1> USE DEF IInv
<1>1. CASE MonitorLoads \/ MonitorRollsBack
  BY <1>1 DEF MonitorLoads, MonitorRollsBack, TypeOK, Apart, Found, Monitored, StoppedIsOff,
              Resolve, StoredFirst, UploadedIsStored
<1>2. ASSUME NEW v \in VMs, MonitorPolls(v) PROVE IInv'
  <2> USE <1>2 DEF MonitorPolls
  <2>1. gone' # gone => (v \in Committed => v \in moved)
    BY DEF Found, Resolve
  <2>2. TypeOK' /\ Monitored'
    BY <2>1 DEF TypeOK, Monitored
  <2> QED
    BY <2>2 DEF Apart, Found, StoppedIsOff, Resolve, StoredFirst, UploadedIsStored
<1>3. CASE MonitorCommits
  <2> USE <1>3 DEF MonitorCommits
  <2>1. TypeOK'
    BY DEF TypeOK
  <2>2. \A v \in VMs : /\ row'[v].number = row[v].number /\ row'[v].phys = row[v].phys
                       /\ \/ row'[v].status = row[v].status
                          \/ v \in gone \cap Committed /\ row'[v].status = "STOPPED"
    BY DEF TypeOK
  <2>3. Live' = Live /\ Open' = Open
    BY <2>2
  <2>4. Apart' /\ Found'
    BY <2>2, <2>3 DEF Apart, Found, Resolve
  <2>5. Monitored' /\ StoppedIsOff'
    BY <2>2 DEF Monitored, StoppedIsOff, TypeOK
  <2> QED
    BY <2>1, <2>4, <2>5 DEF StoredFirst, UploadedIsStored
<1> QED
  BY <1>1, <1>2, <1>3 DEF Monitor

LEMMA Inductive == Spec => []IInv
<1>1. Init => IInv
  BY DEF Init, IInv, TypeOK, Apart, Found, Monitored, StoppedIsOff, StoredFirst,
         UploadedIsStored
<1>2. IInv /\ [Next]_vars => IInv'
  <2> SUFFICES ASSUME IInv, [Next]_vars PROVE IInv'
    OBVIOUS
  <2>1. CASE UNCHANGED vars
    BY <2>1 DEF vars, IInv, TypeOK, Apart, Found, Monitored, StoppedIsOff, Resolve,
                StoredFirst, UploadedIsStored
  <2> QED
    BY <2>1, AdminStep, CreateStep, OperateStep, MonitorStep DEF Next
<1> QED
  BY <1>1, <1>2, PTL DEF Spec

(* Every variable of Placement keeps its type. *)
THEOREM TypeCorrect == Spec => []TypeOK
BY Inductive, PTL DEF IInv

(* stop_vm and delete_vm look for a machine where it is, as long as no     *)
(* administrator changes what its physical node stands for: a creation     *)
(* resolves the node once and its machine never leaves it.                 *)
THEOREM Located == Spec => []RowFound
<1>1. IInv => RowFound
  BY PlacementAssumption DEF IInv, Found, RowFound, IsOn
<1> QED
  BY <1>1, Inductive, PTL

(* Neither stop_vm nor task_monitor_vms leaves a STOPPED row with a running *)
(* machine, as long as its physical node keeps its meaning.                 *)
THEOREM Halted == Spec => []StoppedIsOff
BY Inductive, PTL DEF IInv

(* An image registered by upload has its file, whichever step fails. *)
THEOREM Uploaded == Spec => []UploadedIsStored
BY Inductive, PTL DEF IInv

(* What an administrator prepared as a template is never destroyed, started *)
(* or overwritten by what users and jobs do.                                *)
THEOREM Templates == Spec => TemplatesKept
<1> DEFINE Keep(n) == kind[n] = "template" => kind'[n] = "template" /\ node'[n] = node[n]
<1>1. ASSUME IInv, [Next]_vars, NEW n \in Numbers PROVE Keep(n)
  <2> USE DEF IInv
  <2>1. CASE UNCHANGED <<node, kind>>
    BY <2>1
  <2>2. CASE Admin
    BY <1>1, <2>2 DEF Admin, AddMapping, PatchMapping, SetMapping, AddTemplate, PatchTemplate,
                      SetTemplate, AddIso, UploadPosts, ClusterStores, UploadRegisters,
                      UploadFails, Prepare, SetMachine, TypeOK
  <2>3. CASE Create
    BY <1>1, <2>3 DEF Create, CreateBegins, CreateCommits, CreateFails, SetMachine, TypeOK, Found
  <2>4. CASE Operate
    BY <1>1, <2>4 DEF Operate, Stop, Delete, DeleteHalts, SetMachine, TypeOK, Found
  <2>5. CASE Monitor
    BY <2>1, <2>5 DEF Monitor, MonitorLoads, MonitorPolls, MonitorCommits, MonitorRollsBack
  <2> QED
    BY <1>1, <2>1, <2>2, <2>3, <2>4, <2>5 DEF Next, vars
<1>2. IInv /\ [Next]_vars => [\A n \in Numbers : Keep(n)]_vars
  BY <1>1
<1> QED
  BY <1>2, Inductive, PTL DEF Spec, TemplatesKept
-----------------------------------------------------------------------------
(* Refinement: what a user sees of a row, for whom an open creation and a  *)
(* failed one are no row at all.                                           *)

Seen == [v \in VMs |-> IF row[v].status \in {"none", "PENDING", "failed"}
                       THEN "unborn" ELSE row[v].status]

Lifecycle == INSTANCE VMLifecycle WITH row <- Seen

LifecycleSpec == Lifecycle!Spec

LEMMA LifecycleStep == IInv /\ [Next]_vars => [Lifecycle!Next]_Seen
<1> SUFFICES ASSUME IInv, [Next]_vars PROVE [Lifecycle!Next]_Seen
  OBVIOUS
<1> USE DEF IInv
<1>1. Lifecycle!Live = Committed
  BY DEF Lifecycle!Live, Lifecycle!Settled, Seen, TypeOK
<1>2. ASSUME NEW v \in VMs, CreateCommits(v) PROVE Lifecycle!Next
  <2>1. Seen[v] = "unborn" /\ row' = [row EXCEPT ![v].status = "ACTIVE"]
    BY <1>2 DEF CreateCommits, SetStatus, Seen
  <2>2. Seen' = [Seen EXCEPT ![v] = "ACTIVE"]
    BY <2>1 DEF Seen, TypeOK
  <2> QED
    BY <2>1, <2>2 DEF Lifecycle!Birth, Lifecycle!Next
<1>3. ASSUME NEW v \in VMs, Stop(v) PROVE Lifecycle!Next
  <2>1. {v} \in SUBSET Lifecycle!Live /\ Lifecycle!Move({v}, "STOPPED")
    BY <1>1, <1>3 DEF Stop, SetStatus, TypeOK, Seen, Lifecycle!Move
  <2> QED
    BY <2>1 DEF Lifecycle!Next, Lifecycle!Settle, Lifecycle!Settled
<1>4. ASSUME NEW v \in VMs, Delete(v) PROVE Lifecycle!Next
  <2>1. {v} \in SUBSET Lifecycle!Live /\ Lifecycle!Move({v}, "gone")
    BY <1>1, <1>4 DEF Delete, SetStatus, TypeOK, Seen, Lifecycle!Move
  <2> QED
    BY <2>1 DEF Lifecycle!Next, Lifecycle!Remove
<1>5. ASSUME MonitorCommits PROVE Lifecycle!Next \/ UNCHANGED Seen
  <2>1. CASE gone \subseteq Committed
    <3>1. gone \in SUBSET Lifecycle!Live
      BY <1>1, <2>1
    <3>2. Lifecycle!Move(gone, "STOPPED")
      BY <1>5, <2>1 DEF MonitorCommits, TypeOK, Seen, Lifecycle!Move
    <3> QED
      BY <3>1, <3>2 DEF Lifecycle!Next, Lifecycle!Settle, Lifecycle!Settled
  <2>2. CASE ~(gone \subseteq Committed)
    BY <1>5, <2>2 DEF MonitorCommits, Seen
  <2> QED
    BY <2>1, <2>2
<1>6. CASE UNCHANGED row
  BY <1>6 DEF Seen
<1>7. ASSUME NEW v \in VMs, NEW i \in Isos, NEW p \in Phys, NEW n \in Numbers,
             CreateBegins(v, i, p, n)
      PROVE  UNCHANGED Seen
  BY <1>7 DEF CreateBegins, Draw, TypeOK, Seen
<1>8. ASSUME NEW v \in VMs, CreateFails(v) PROVE UNCHANGED Seen
  BY <1>8 DEF CreateFails, SetStatus, TypeOK, Seen
<1>9. Admin => UNCHANGED row
  BY DEF Admin, AddMapping, PatchMapping, SetMapping, AddTemplate, PatchTemplate, SetTemplate,
         AddIso, UploadPosts, ClusterStores, UploadRegisters, UploadFails, Prepare
<1>10. MonitorLoads \/ MonitorRollsBack \/ (\E v \in VMs : MonitorPolls(v) \/ DeleteHalts(v))
         => UNCHANGED row
  BY DEF MonitorLoads, MonitorRollsBack, MonitorPolls, DeleteHalts
<1> QED
  BY <1>2, <1>3, <1>4, <1>5, <1>6, <1>7, <1>8, <1>9, <1>10 DEF Next, Create, Operate, Monitor, vars

(* Placement implements VMLifecycle: wherever the machines are, whatever   *)
(* the monitor takes for missing and whatever creation fails.              *)
THEOREM Refinement == Spec => LifecycleSpec
<1>1. Init => Lifecycle!Init
  BY DEF Init, Lifecycle!Init, Seen
<1> QED
  BY <1>1, LifecycleStep, Inductive, PTL DEF Spec, LifecycleSpec, Lifecycle!Spec
=============================================================================
