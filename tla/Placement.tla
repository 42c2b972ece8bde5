------------------------------ MODULE Placement ------------------------------
(***************************************************************************)
(* Where machines are on the cluster, and where Horizon looks for them:    *)
(* the mapping of the physical nodes to Proxmox nodes, the ISO images, the *)
(* machines prepared as templates and the number each image is cloned      *)
(* from, all kept by administrators, and what create_vm, stop_vm,          *)
(* delete_vm and task_monitor_vms draw from them.  PROXMOX_ENABLED = true. *)
(*                                                                         *)
(* stop_vm and delete_vm resolve the node once, before their first await,  *)
(* so a call is one step here; Provisioning has their awaits.  create_vm   *)
(* resolves it minutes before its commit, and the monitor once for each    *)
(* row, in a thread of its own.  The checks of the administrators' inserts *)
(* are backed by unique keys: check and insert are one step, and a refused *)
(* request is no step.  A restart of the process is CreateFails of each    *)
(* open creation, UploadFails of each open upload and MonitorRollsBack.    *)
(***************************************************************************)
EXTENDS Naturals, FiniteSets

CONSTANTS VMs,       \* creation requests
          Phys,      \* PhysicalNode, numbered in the order of _select_node's list
          Nodes,     \* names of Proxmox nodes
          Fallback,  \* settings.PROXMOX_NODE, or NoNode when it is empty
          Isos,      \* names of ISO files
          Numbers,   \* bound: numbers on the cluster, and that administrators name;
                     \* none has the digits 404, which the monitor would take
                     \* for the status of an error whose text names the number
          NoNode

FirstVmid == 101

ASSUME PlacementAssumption == /\ Phys \subseteq Nat \ {0}
                              /\ NoNode \notin Nodes
                              /\ Fallback \in Nodes \cup {NoNode}
                              /\ Numbers \subseteq Nat \ {0}

VARIABLES mapping,   \* the ProxmoxNodeMapping row of each physical node, or NoNode
          moved,     \* rows whose node was given another meaning under them (history)
          iso,       \* the ISOImage row of each file: who made it, or "none"
          stored,    \* the files on the cluster's storage
          upload,    \* what the upload of each file is waiting for
          template,  \* proxmox_template_vmid of each image's IsoProxmoxTemplate row, or 0
          node,      \* the cluster: where the machine with each number is, or NoNode
          kind,      \* the cluster: what that machine is
          row,       \* the VirtualMachine row of each request
          todo,      \* the rows task_monitor_vms has loaded and not yet asked for
          gone       \* those the cluster told it do not exist

adminVars == <<mapping, moved, iso, stored, upload, template>>
clusterVars == <<node, kind>>
monitorVars == <<todo, gone>>
vars == <<adminVars, clusterVars, row, monitorVars>>

TypeOK == /\ mapping \in [Phys -> Nodes \cup {NoNode}]
          /\ moved \subseteq VMs
          /\ iso \in [Isos -> {"none", "typed", "uploaded"}]
          /\ stored \subseteq Isos
          /\ upload \in [Isos -> {"idle", "posted", "stored"}]
          /\ template \in [Isos -> Numbers \cup {0}]
          /\ node \in [Numbers -> Nodes \cup {NoNode}]
          /\ kind \in [Numbers -> {"none", "template", "cloning", "off", "running"}]
          /\ row \in [VMs -> [status : {"none", "PENDING", "failed", "ACTIVE", "STOPPED", "gone"},
                              number : Numbers \cup {0}, phys : Phys \cup {0}]]
          /\ todo \subseteq VMs /\ gone \subseteq VMs

(* The migration maps every node; a database made otherwise need not.      *)
Init == /\ mapping \in [Phys -> Nodes \cup {NoNode}]
        /\ moved = {}
        /\ iso = [i \in Isos |-> "none"]
        /\ stored \in SUBSET Isos
        /\ upload = [i \in Isos |-> "idle"]
        /\ template = [i \in Isos |-> 0]
        /\ node = [n \in Numbers |-> NoNode]
        /\ kind = [n \in Numbers |-> "none"]
        /\ row = [v \in VMs |-> [status |-> "none", number |-> 0, phys |-> 0]]
        /\ todo = {} /\ gone = {}

-----------------------------------------------------------------------------
(* What the code reads. *)

Committed == {v \in VMs : row[v].status \in {"ACTIVE", "STOPPED"}}
Open == {v \in VMs : row[v].status = "PENDING"}

(* The mapping of the node, else the setting, else an error (NoNode). *)
Resolve(p) == IF mapping[p] # NoNode THEN mapping[p] ELSE Fallback

ActiveOn(p) == Cardinality({v \in VMs : row[v].status = "ACTIVE" /\ row[v].phys = p})

(* The first of the nodes with the fewest ACTIVE rows. *)
IsSelected(p) == \A q \in Phys \ {p} : \/ ActiveOn(p) < ActiveOn(q)
                                       \/ ActiveOn(p) = ActiveOn(q) /\ p < q

(* (max or 100) + 1 *)
IsNextVmid(n) == /\ n \in {FirstVmid} \cup {row[v].number + 1 : v \in Committed}
                 /\ \A v \in Committed : row[v].number < n

(* The machine of the row's number is on node k. *)
IsOn(v, k) == k # NoNode /\ node[row[v].number] = k

SetMachine(n, k, what) == /\ node' = [node EXCEPT ![n] = k]
                          /\ kind' = [kind EXCEPT ![n] = what]

SetStatus(v, s) == row' = [row EXCEPT ![v].status = s]

-----------------------------------------------------------------------------
(* The administrators' tables. *)

SetMapping(p, k) ==
    /\ mapping' = [mapping EXCEPT ![p] = k]
    /\ moved' = moved \cup {v \in Open \cup Committed : row[v].phys = p /\ Resolve(p) # k}
    /\ UNCHANGED <<iso, stored, upload, template, clusterVars, row, monitorVars>>

(* create_proxmox_node_mapping: from now on the setting is not used. *)
AddMapping(p, k) == mapping[p] = NoNode /\ SetMapping(p, k)

(* patch_proxmox_node_mapping, whatever machines the node has. *)
PatchMapping(p, k) == mapping[p] # NoNode /\ SetMapping(p, k)

SetTemplate(i, n) ==
    /\ template' = [template EXCEPT ![i] = n]
    /\ UNCHANGED <<mapping, moved, iso, stored, upload, clusterVars, row, monitorVars>>

(* Any number will do: the cluster is not asked what it holds.  The row of *)
(* the image is there by the foreign key.                                  *)
AddTemplate(i, n) == iso[i] # "none" /\ template[i] = 0 /\ SetTemplate(i, n)

PatchTemplate(i, n) == template[i] # 0 /\ SetTemplate(i, n)

(* create_iso_image: a row for a file that need not exist. *)
AddIso(i) ==
    /\ iso[i] = "none"
    /\ iso' = [iso EXCEPT ![i] = "typed"]
    /\ UNCHANGED <<mapping, moved, stored, upload, template, clusterVars, row, monitorVars>>

(* upload_iso_to_proxmox sends the file, registered already or not. *)
UploadPosts(i) ==
    /\ upload[i] = "idle"
    /\ upload' = [upload EXCEPT ![i] = "posted"]
    /\ UNCHANGED <<mapping, moved, iso, stored, template, clusterVars, row, monitorVars>>

(* The cluster's import task ends OK. *)
ClusterStores(i) ==
    /\ upload[i] = "posted"
    /\ upload' = [upload EXCEPT ![i] = "stored"]
    /\ stored' = stored \cup {i}
    /\ UNCHANGED <<mapping, moved, iso, template, clusterVars, row, monitorVars>>

(* wait_for_task sees that and the row is inserted; the unique key refuses *)
(* a second one (an IntegrityError nobody catches) and the file stays.     *)
UploadRegisters(i) ==
    /\ upload[i] = "stored"
    /\ upload' = [upload EXCEPT ![i] = "idle"]
    /\ iso' = IF iso[i] = "none" THEN [iso EXCEPT ![i] = "uploaded"] ELSE iso
    /\ UNCHANGED <<mapping, moved, stored, template, clusterVars, row, monitorVars>>

(* Refused, failed or timed out: no row, and the file may be there or come. *)
UploadFails(i) ==
    /\ upload[i] # "idle"
    /\ upload' = [upload EXCEPT ![i] = "idle"]
    /\ stored' \in {stored, stored \cup {i}}
    /\ UNCHANGED <<mapping, moved, iso, template, clusterVars, row, monitorVars>>

(* prepare_vm_template: a machine under a free number, with a stored file  *)
(* in its drive.  An error after its creation leaves it there.             *)
Prepare(n, k, i) ==
    /\ n >= 100
    /\ kind[n] = "none"
    /\ i \in stored
    /\ SetMachine(n, k, "template")
    /\ UNCHANGED <<adminVars, row, monitorVars>>

-----------------------------------------------------------------------------
(* create_vm, stop_vm, delete_vm *)

(* The row's node and number are drawn and its machine is to be cloned,    *)
(* from whatever machine has the template's number on the resolved node.   *)
Draw(v, i, p, n) ==
    /\ row[v].status = "none"
    /\ IsSelected(p) /\ IsNextVmid(n)
    /\ template[i] # 0
    /\ Resolve(p) # NoNode /\ node[template[i]] = Resolve(p)
    /\ row' = [row EXCEPT ![v] = [status |-> "PENDING", number |-> n, phys |-> p]]

(* Mutant: a number in use is taken for a clone made before. *)
CreateAdopts(v, i, p, n) ==
    /\ Draw(v, i, p, n)
    /\ \A w \in Open : row[w].number # n
    /\ IF kind[n] = "none" THEN SetMachine(n, Resolve(p), "cloning")
                           ELSE UNCHANGED clusterVars
    /\ UNCHANGED <<adminVars, monitorVars>>

(* The cluster accepts only a free number.  A creation with the number of  *)
(* an open one is not a step: its flush blocks the event loop for good, as *)
(* Provisioning has it.                                                    *)
CreateBegins(v, i, p, n) ==
    /\ Draw(v, i, p, n)
    /\ \A w \in Open : row[w].number # n
    /\ kind[n] = "none"
    /\ SetMachine(n, Resolve(p), "cloning")
    /\ UNCHANGED <<adminVars, monitorVars>>

(* Mutant: the node is selected again for the row's last version. *)
CreateReselects(v) ==
    /\ row[v].status = "PENDING"
    /\ \E p \in Phys : /\ IsSelected(p)
                       /\ row' = [row EXCEPT ![v].status = "ACTIVE", ![v].phys = p]
    /\ kind' = [kind EXCEPT ![row[v].number] = "running"]
    /\ UNCHANGED <<adminVars, node, monitorVars>>

(* Mutant: the row is given a status the enum does not have. *)
CreateCommitsOther(v) ==
    /\ row[v].status = "PENDING"
    /\ SetStatus(v, "CREATED")
    /\ kind' = [kind EXCEPT ![row[v].number] = "running"]
    /\ UNCHANGED <<adminVars, node, monitorVars>>

CreateCommits(v) ==
    /\ row[v].status = "PENDING"
    /\ SetStatus(v, "ACTIVE")
    /\ kind' = [kind EXCEPT ![row[v].number] = "running"]
    /\ UNCHANGED <<adminVars, node, monitorVars>>

(* The row is rolled back; the machine is there, halted or running, or not. *)
CreateFails(v) ==
    /\ row[v].status = "PENDING"
    /\ SetStatus(v, "failed")
    /\ \/ SetMachine(row[v].number, NoNode, "none")
       \/ \E s \in {"off", "running"} :
             SetMachine(row[v].number, node[row[v].number], s)
    /\ UNCHANGED <<adminVars, monitorVars>>

(* Where the machine is not found the cluster's error is the answer. *)
Stop(v) ==
    /\ row[v].status = "ACTIVE"
    /\ IsOn(v, Resolve(row[v].phys))
    /\ SetStatus(v, "STOPPED")
    /\ kind' = [kind EXCEPT ![row[v].number] = "off"]
    /\ UNCHANGED <<adminVars, node, monitorVars>>

(* An ACTIVE row's machine is stopped first; a running one is not destroyed. *)
Delete(v) ==
    /\ v \in Committed
    /\ IsOn(v, Resolve(row[v].phys))
    /\ row[v].status = "ACTIVE" \/ kind[row[v].number] # "running"
    /\ SetStatus(v, "gone")
    /\ SetMachine(row[v].number, NoNode, "none")
    /\ UNCHANGED <<adminVars, monitorVars>>

(* The stop is done and the destroy is refused or fails. *)
DeleteHalts(v) ==
    /\ row[v].status = "ACTIVE"
    /\ IsOn(v, Resolve(row[v].phys))
    /\ kind' = [kind EXCEPT ![row[v].number] = "off"]
    /\ UNCHANGED <<adminVars, node, row, monitorVars>>

-----------------------------------------------------------------------------
(* task_monitor_vms *)

MonitorLoads ==
    /\ todo = {} /\ gone = {}
    /\ todo' = {v \in VMs : row[v].status = "ACTIVE"}
    /\ UNCHANGED <<adminVars, clusterVars, row, gone>>

(* Mutant: any error is taken for a machine that is gone. *)
MonitorPollsAnyError(v) ==
    /\ v \in todo
    /\ todo' = todo \ {v}
    /\ gone' = IF node[row[v].number] # mapping[row[v].phys]
               THEN gone \cup {v} ELSE gone
    /\ UNCHANGED <<adminVars, clusterVars, row>>

(* The monitor reads the mapping itself and knows no setting: an unmapped  *)
(* node is asked for under its own name, which the cluster does not know.  *)
(* Only "does not exist", from a node that does, tells that it is gone;    *)
(* any other error is passed over.                                         *)
MonitorPolls(v) ==
    /\ v \in todo
    /\ todo' = todo \ {v}
    /\ \/ UNCHANGED gone
       \/ /\ mapping[row[v].phys] \notin {NoNode, node[row[v].number]}
          /\ gone' = gone \cup {v}
    /\ UNCHANGED <<adminVars, clusterVars, row>>

(* All or nothing: the UPDATE of a row deleted meanwhile matches nothing. *)
MonitorCommits ==
    /\ todo = {} /\ gone # {}
    /\ gone' = {}
    /\ row' = IF gone \subseteq Committed
              THEN [v \in VMs |-> IF v \in gone THEN [row[v] EXCEPT !.status = "STOPPED"]
                                                ELSE row[v]]
              ELSE row
    /\ UNCHANGED <<adminVars, clusterVars, todo>>

MonitorRollsBack ==
    /\ todo # {} \/ gone # {}
    /\ todo' = {} /\ gone' = {}
    /\ UNCHANGED <<adminVars, clusterVars, row>>

-----------------------------------------------------------------------------
Admin == \/ \E p \in Phys, k \in Nodes : AddMapping(p, k) \/ PatchMapping(p, k)
         \/ \E i \in Isos : \/ AddIso(i)
                            \/ UploadPosts(i) \/ ClusterStores(i)
                            \/ UploadRegisters(i) \/ UploadFails(i)
                            \/ \E n \in Numbers : AddTemplate(i, n) \/ PatchTemplate(i, n)
         \/ \E n \in Numbers, k \in Nodes, i \in Isos : Prepare(n, k, i)

Create == \E v \in VMs : \/ \E i \in Isos, p \in Phys, n \in Numbers : CreateBegins(v, i, p, n)
                         \/ CreateCommits(v) \/ CreateFails(v)

Operate == \E v \in VMs : Stop(v) \/ Delete(v) \/ DeleteHalts(v)

Monitor == MonitorLoads \/ MonitorCommits \/ MonitorRollsBack
           \/ \E v \in VMs : MonitorPolls(v)

Next == Admin \/ Create \/ Operate \/ Monitor

Spec == Init /\ [][Next]_vars

-----------------------------------------------------------------------------
(* The node that stop_vm and delete_vm will ask for the machine of a       *)
(* committed row is the node that has it, and it is no template: however   *)
(* late create_vm commits, and whatever numbers administrators name.  The  *)
(* exception are the rows under which an administrator has changed what    *)
(* their physical node stands for.                                         *)
RowFound == \A v \in Committed :
               /\ kind[row[v].number] \in {"off", "running"}
               /\ v \notin moved => IsOn(v, Resolve(row[v].phys))

(* A row is STOPPED, by its owner or by task_monitor_vms, only when its    *)
(* machine is off: that the monitor looks elsewhere than stop_vm does for  *)
(* unmapped nodes, and reads the mapping long after it loaded the rows,    *)
(* never makes it close a running machine.  The exception are the rows     *)
(* under which the meaning of their node was changed.                      *)
StoppedIsOff == \A v \in Committed :
                   row[v].status = "STOPPED" /\ v \notin moved
                      => kind[row[v].number] # "running"

(* No creation, stop, deletion or monitoring destroys, starts or overwrites *)
(* a machine that an administrator prepared as a template, although their   *)
(* numbers come from one space and Horizon keeps no record of them.         *)
TemplatesKept == [][\A n \in Numbers : kind[n] = "template" =>
                       kind'[n] = "template" /\ node'[n] = node[n]]_vars
=============================================================================
