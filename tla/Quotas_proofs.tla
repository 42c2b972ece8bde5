---------------------------- MODULE Quotas_proofs ----------------------------
(***************************************************************************)
(* What is proved of Quotas, for any users, machines, limits and grants.   *)
(***************************************************************************)
EXTENDS Quotas, FiniteSetTheorems, TLAPS

(* The history is above what holds now. *)
PeakCovers == \A u \in Users, f \in Fields : Effective(u)[f] <= peak[u][f]

(* What create_vm has read, the owner has been allowed. *)
CreationAllowed ==
    creating.vm # NoVm =>
        /\ status[creating.vm] = "none"
        /\ creating.size <= HardLimit
        /\ creating.size <= peak[Owner[creating.vm]]["size"]
        /\ creating.count <= peak[Owner[creating.vm]]["count"]

(* What an update will write, the owner has been allowed. *)
UpdatesAllowed ==
    \A t \in Threads : call[t].op = "update" =>
        /\ call[t].who \in VMs
        /\ call[t].body["size"] \in Nat
        /\ call[t].body["size"] <= HardLimit
        /\ call[t].body["size"] <= peak[Owner[call[t].who]]["size"]

(* A grant that found a row will find it again: rows stay.                 *)
GrantsNamed == \A t \in Threads : call[t].op = "grant" =>
                   call[t].who \in Users /\ (~call[t].fresh => call[t].who \in granted)

(* Columns have values in a row only.                                      *)
RowsOfGranted == \A u \in Users \ granted : override[u] = NoRow

QInv == /\ TypeOK /\ PeakCovers /\ CreationAllowed /\ UpdatesAllowed /\ GrantsNamed
        /\ RowsOfGranted /\ WithinLimits /\ CountWithinPeak

USE DEF Fields, Null

Calls == [op : {"idle", "grant", "update"}, who : Users \cup VMs \cup {NoVm},
          fresh : BOOLEAN, seen : Columns, body : Columns]

LEMMA IdleType == NoRow \in Columns /\ Idle \in Calls
<1>1. NoRow \in Columns
  BY DEF NoRow, Columns
<1> QED
  BY <1>1 DEF Idle, Calls

LEMMA OverType ==
  ASSUME NEW columns \in Columns, NEW limits \in Limits
  PROVE  Over(columns, limits) \in Limits
  BY DEF Over, Columns, Limits

LEMMA EffectiveType == ASSUME TypeOK, NEW u \in Users PROVE Effective(u) \in Limits
  BY OverType DEF Effective, TypeOK

(* The history only grows, and covers the new limits. *)
LEMMA PeaksGrow ==
  ASSUME QInv, NEW u \in Users, NEW limits \in Limits, Peaks(limits, u)
  PROVE  /\ peak' \in [Users -> Limits]
         /\ \A w \in Users, f \in Fields : peak[w][f] <= peak'[w][f]
         /\ \A f \in Fields : limits[f] <= peak'[u][f]
  BY DEF Peaks, QInv, TypeOK, Limits

(* Once the history has grown, everything it bounded still is. *)
LEMMA StillAllowed ==
  ASSUME QInv, TypeOK', UNCHANGED <<status, size, creating>>, granted \subseteq granted',
         \A w \in Users, f \in Fields : peak[w][f] <= peak'[w][f],
         \A t \in Threads : call'[t] \in {call[t], Idle}
  PROVE  /\ CreationAllowed' /\ UpdatesAllowed' /\ GrantsNamed'
         /\ WithinLimits' /\ CountWithinPeak'
<1> USE QuotasAssumption DEF QInv
<1>1. \A w \in Users, f \in Fields : peak[w][f] \in Nat /\ peak'[w][f] \in Nat
  BY DEF TypeOK, Limits
<1>2. CreationAllowed'
  <2>1. creating.vm # NoVm => Owner[creating.vm] \in Users
    BY DEF TypeOK
  <2>2. creating.size \in Nat /\ creating.count \in Nat
    BY DEF TypeOK
  <2> QED
    BY <1>1, <2>1, <2>2 DEF CreationAllowed
<1>3. UpdatesAllowed'
  <2> SUFFICES ASSUME NEW t \in Threads, call[t].op = "update", call'[t] = call[t]
               PROVE  call[t].body["size"] <= peak'[Owner[call[t].who]]["size"]
    BY DEF UpdatesAllowed, Idle
  <2>1. /\ call[t].who \in VMs /\ call[t].body["size"] \in Nat
        /\ call[t].body["size"] <= peak[Owner[call[t].who]]["size"]
    BY DEF UpdatesAllowed
  <2>2. Owner[call[t].who] \in Users
    BY <2>1
  <2> QED
    BY <1>1, <2>1, <2>2
<1> USE DEF TypeOK, Limits
<1>4. GrantsNamed'
  <2> SUFFICES ASSUME NEW t \in Threads, call'[t].op = "grant"
               PROVE  call'[t].who \in Users /\ (~call'[t].fresh => call'[t].who \in granted')
    BY DEF GrantsNamed
  <2>1. call'[t] = call[t]
    BY DEF Idle
  <2> HIDE DEF QInv, TypeOK, Limits
  <2>2. GrantsNamed
    BY DEF QInv
  <2> QED
    BY <2>1, <2>2 DEF GrantsNamed
<1>5. WithinLimits'
  BY DEF WithinLimits, Rows
<1>6. CountWithinPeak'
  <2> SUFFICES ASSUME NEW u \in Users PROVE Cardinality(Active(u))' <= peak'[u]["count"]
    BY DEF CountWithinPeak
  <2>1. Active(u)' = Active(u)
    BY DEF Active
  <2>2. IsFiniteSet(Active(u))
    BY FS_Subset DEF Active
  <2>3. Cardinality(Active(u)) \in Nat
    BY <2>2, FS_CardinalityType
  <2>4. Cardinality(Active(u)) <= peak[u]["count"]
    BY DEF CountWithinPeak
  <2> QED
    BY <2>1, <2>3, <2>4
<1> QED
  BY <1>2, <1>3, <1>4, <1>5, <1>6

(* With fewer ACTIVE machines and no new size, everything holds. *)
LEMMA FewerMachines ==
  ASSUME QInv, NEW v \in VMs, NEW s \in {"STOPPED", "gone"}, v \in Rows,
         status' = [status EXCEPT ![v] = s],
         UNCHANGED <<base, granted, override, size, creating, call, peak>>
  PROVE  QInv'
<1> USE QuotasAssumption DEF QInv
<1>1. TypeOK'
  BY DEF TypeOK
<1>2. PeakCovers' /\ UpdatesAllowed' /\ GrantsNamed' /\ RowsOfGranted'
  BY DEF PeakCovers, Effective, Over, UpdatesAllowed, GrantsNamed, RowsOfGranted
<1>3. CreationAllowed'
  BY DEF CreationAllowed, Rows, TypeOK
<1>4. WithinLimits'
  BY DEF WithinLimits, Rows, TypeOK
<1>5. CountWithinPeak'
  <2> SUFFICES ASSUME NEW u \in Users PROVE Cardinality(Active(u))' <= peak[u]["count"]
    BY DEF CountWithinPeak
  <2>1. Active(u)' \subseteq Active(u)
    BY DEF Active, TypeOK
  <2>2. IsFiniteSet(Active(u))
    BY FS_Subset DEF Active
  <2>3. /\ IsFiniteSet(Active(u)')
        /\ Cardinality(Active(u)') <= Cardinality(Active(u))
    BY <2>1, <2>2, FS_Subset
  <2>4. /\ Cardinality(Active(u)) \in Nat /\ Cardinality(Active(u)') \in Nat
        /\ Cardinality(Active(u)) <= peak[u]["count"] /\ peak[u]["count"] \in Nat
    BY <2>2, <2>3, FS_CardinalityType DEF CountWithinPeak, TypeOK, Limits
  <2> QED
    BY <2>3, <2>4
<1> QED
  BY <1>1, <1>2, <1>3, <1>4, <1>5

LEMMA InitInv == Init => QInv
<1> SUFFICES ASSUME Init PROVE QInv
  OBVIOUS
<1> USE QuotasAssumption DEF Init, NoRow, Waiting, Idle
<1>1. TypeOK
  BY DEF TypeOK, Limits, Columns
<1>2. PeakCovers
  BY DEF PeakCovers, Effective, Over, Limits
<1>3. CreationAllowed /\ UpdatesAllowed /\ GrantsNamed /\ RowsOfGranted
  BY DEF CreationAllowed, UpdatesAllowed, GrantsNamed, RowsOfGranted
<1>4. WithinLimits
  BY DEF WithinLimits, Rows
<1>5. CountWithinPeak
  <2> SUFFICES ASSUME NEW u \in Users PROVE Cardinality(Active(u)) <= peak[u]["count"]
    BY DEF CountWithinPeak
  <2>1. Active(u) = {}
    BY DEF Active
  <2> QED
    BY <2>1, FS_EmptySet DEF Limits
<1> QED
  BY <1>1, <1>2, <1>3, <1>4, <1>5 DEF QInv

LEMMA GrantStep ==
  ASSUME QInv, NEW t \in Threads, GrantInserts(t) \/ GrantUpdates(t)
  PROVE  QInv'
<1> USE QuotasAssumption
<1>1. PICK u \in Users : u = call[t].who
  BY DEF QInv, GrantsNamed, GrantInserts, GrantUpdates
<1>2. /\ call[t].body \in Columns
      /\ \A w \in Threads : call'[w] \in {call[w], Idle}
      /\ call' \in [Threads -> Calls]
  <2>1. call \in [Threads -> Calls]
    BY DEF QInv, TypeOK, Calls
  <2>2. call' = [call EXCEPT ![t] = Idle]
    BY DEF GrantInserts, GrantUpdates, Returns
  <2>3. call[t].body \in Columns
    BY <2>1 DEF Calls
  <2> QED
    BY <2>1, <2>2, <2>3, IdleType
<1>3. UNCHANGED <<base, status, size, creating>>
  BY DEF GrantInserts, GrantUpdates
<1>4. CASE UNCHANGED <<granted, override, peak>>
  <2>1. TypeOK'
    BY <1>2, <1>3, <1>4 DEF QInv, TypeOK, Calls
  <2>2. PeakCovers'
    BY <1>3, <1>4 DEF QInv, PeakCovers, Effective, Over
  <2>3. \A w \in Users, f \in Fields : peak[w][f] <= peak'[w][f]
    BY <1>4 DEF QInv, TypeOK, Limits
  <2>4. RowsOfGranted'
    BY <1>4 DEF QInv, RowsOfGranted
  <2> QED
    BY <1>2, <1>3, <1>4, <2>1, <2>2, <2>3, <2>4, StillAllowed DEF QInv
<1>5. ASSUME NEW columns \in Columns, override' = [override EXCEPT ![u] = columns],
             Peaks(Over(columns, base[u]), u), granted' = granted \cup {u}
      PROVE  QInv'
  <2>1. /\ peak' \in [Users -> Limits]
        /\ \A w \in Users, f \in Fields : peak[w][f] <= peak'[w][f]
        /\ \A f \in Fields : Over(columns, base[u])[f] <= peak'[u][f]
    <3>1. Over(columns, base[u]) \in Limits
      BY OverType DEF QInv, TypeOK
    <3> QED
      BY <1>5, <3>1, PeaksGrow
  <2>2. TypeOK'
    BY <1>2, <1>3, <1>5, <2>1 DEF QInv, TypeOK, Calls
  <2>3. PeakCovers'
    <3> SUFFICES ASSUME NEW w \in Users, NEW f \in Fields
                 PROVE  Effective(w)'[f] <= peak'[w][f]
      BY DEF PeakCovers
    <3>1. CASE w = u
      <4>1. Effective(u)' = Over(columns, base[u])
        BY <1>3, <1>5 DEF Effective, Over, QInv, TypeOK
      <4> QED
        BY <3>1, <4>1, <2>1
    <3>2. CASE w # u
      <4>1. Effective(w)' = Effective(w) /\ Effective(w) \in Limits
        BY <1>3, <1>5, <3>2, EffectiveType DEF Effective, Over, QInv, TypeOK
      <4>2. peak'[w][f] \in Nat /\ peak[w][f] \in Nat /\ Effective(w)[f] \in Nat
        BY <2>1, <4>1 DEF Limits, QInv, TypeOK
      <4> QED
        BY <2>1, <4>1, <4>2 DEF QInv, PeakCovers
    <3> QED
      BY <3>1, <3>2
  <2>4. RowsOfGranted'
    BY <1>5 DEF QInv, RowsOfGranted, TypeOK
  <2> QED
    BY <1>2, <1>3, <1>5, <2>1, <2>2, <2>3, <2>4, StillAllowed DEF QInv
<1>6. CASE GrantInserts(t)
  BY <1>1, <1>2, <1>4, <1>5, <1>6 DEF GrantInserts
<1>7. CASE GrantUpdates(t)
  <2>1. Updated(t, u) \in Columns
    BY <1>2 DEF Updated, QInv, TypeOK, Columns
  <2>2. granted' = granted \cup {u}
    BY <1>1, <1>7 DEF GrantUpdates, QInv, GrantsNamed
  <2> QED
    BY <1>1, <1>5, <1>7, <2>1, <2>2 DEF GrantUpdates
<1> QED
  BY <1>6, <1>7

(* Another policy raises the history where it allows more. *)
LEMMA AssignStep ==
  ASSUME QInv, NEW u \in Users, NEW p \in Policies[u], Assigns(u, p)
  PROVE  QInv'
<1> USE QuotasAssumption
<1>1. p \in Limits /\ Over(override[u], p) \in Limits
  BY OverType DEF QInv, TypeOK
<1>2. /\ peak' \in [Users -> Limits]
      /\ \A w \in Users, f \in Fields : peak[w][f] <= peak'[w][f]
      /\ \A f \in Fields : Over(override[u], p)[f] <= peak'[u][f]
  BY <1>1, PeaksGrow DEF Assigns
<1>3. TypeOK'
  BY <1>1, <1>2 DEF Assigns, QInv, TypeOK
<1>4. PeakCovers'
  <2> SUFFICES ASSUME NEW w \in Users, NEW f \in Fields
               PROVE  Effective(w)'[f] <= peak'[w][f]
    BY DEF PeakCovers
  <2>1. CASE w = u
    BY <1>2, <2>1 DEF Assigns, Effective, Over, QInv, TypeOK
  <2>2. CASE w # u
    <3>1. Effective(w)' = Effective(w) /\ Effective(w) \in Limits
      BY <2>2, EffectiveType DEF Assigns, Effective, Over, QInv, TypeOK
    <3>2. peak'[w][f] \in Nat /\ peak[w][f] \in Nat /\ Effective(w)[f] \in Nat
      BY <1>2, <3>1 DEF Limits, QInv, TypeOK
    <3> QED
      BY <1>2, <3>1, <3>2 DEF QInv, PeakCovers
  <2> QED
    BY <2>1, <2>2
<1>5. RowsOfGranted'
  BY DEF Assigns, QInv, RowsOfGranted
<1> QED
  BY <1>2, <1>3, <1>4, <1>5, StillAllowed DEF Assigns, QInv

LEMMA CreateStep == ASSUME QInv, CreateCommits PROVE QInv'
<1> USE QuotasAssumption DEF QInv
<1> DEFINE v == creating.vm
<1>1. /\ v \in VMs /\ status[v] = "none"
      /\ creating.size <= HardLimit /\ creating.size <= peak[Owner[v]]["size"]
      /\ creating.count <= peak[Owner[v]]["count"]
      /\ Cardinality(Active(Owner[v])) < creating.count
      /\ status' = [status EXCEPT ![v] = "ACTIVE"]
      /\ size' = [size EXCEPT ![v] = creating.size]
      /\ creating' = Waiting
      /\ UNCHANGED <<base, granted, override, call, peak>>
  BY DEF CreateCommits, CreationAllowed, TypeOK
<1> HIDE DEF v
<1>2. TypeOK'
  BY <1>1 DEF TypeOK, Waiting
<1>3. PeakCovers' /\ UpdatesAllowed' /\ GrantsNamed' /\ RowsOfGranted' /\ CreationAllowed'
  BY <1>1 DEF PeakCovers, Effective, Over, UpdatesAllowed, GrantsNamed, RowsOfGranted,
     CreationAllowed, Waiting
<1>4. WithinLimits'
  BY <1>1 DEF WithinLimits, Rows, TypeOK
<1>5. CountWithinPeak'
  <2> SUFFICES ASSUME NEW u \in Users PROVE Cardinality(Active(u)') <= peak[u]["count"]
    BY <1>1 DEF CountWithinPeak
  <2>1. IsFiniteSet(Active(u))
    BY FS_Subset DEF Active
  <2>2. Cardinality(Active(u)) \in Nat /\ peak[u]["count"] \in Nat
    BY <2>1, FS_CardinalityType DEF TypeOK, Limits
  <2>3. CASE u = Owner[v]
    <3>1. Active(u)' = Active(u) \cup {v} /\ v \notin Active(u)
      BY <1>1, <2>3 DEF Active, TypeOK
    <3>2. Cardinality(Active(u)') = Cardinality(Active(u)) + 1
      BY <2>1, <3>1, FS_AddElement
    <3>3. creating.count \in Nat
      BY DEF TypeOK
    <3> QED
      BY <1>1, <2>2, <2>3, <3>2, <3>3
  <2>4. CASE u # Owner[v]
    <3>1. Active(u)' = Active(u)
      BY <1>1, <2>4 DEF Active, TypeOK
    <3> QED
      BY <3>1 DEF CountWithinPeak
  <2> QED
    BY <2>3, <2>4
<1> QED
  BY <1>2, <1>3, <1>4, <1>5

LEMMA UpdateStep ==
  ASSUME QInv, NEW t \in Threads, UpdateCommits(t)
  PROVE  QInv'
<1> USE QuotasAssumption DEF QInv
<1>1. PICK v \in VMs : v = call[t].who
  BY DEF UpdateCommits, UpdatesAllowed
<1>2. PICK s \in Nat : /\ s = call[t].body["size"]
                       /\ s <= HardLimit /\ s <= peak[Owner[v]]["size"]
  BY <1>1 DEF UpdateCommits, UpdatesAllowed
<1>3. /\ size' \in {size, [size EXCEPT ![v] = s]}
      /\ UNCHANGED <<base, granted, override, status, creating, peak>>
      /\ call' = [call EXCEPT ![t] = Idle]
  BY <1>1, <1>2 DEF UpdateCommits, Returns
<1>4. TypeOK'
  <2>1. call \in [Threads -> Calls] /\ call' \in [Threads -> Calls]
    BY <1>3, IdleType DEF TypeOK, Calls
  <2> QED
    BY <1>3, <2>1 DEF TypeOK, Calls
<1>5. PeakCovers' /\ CreationAllowed' /\ RowsOfGranted'
  BY <1>3 DEF PeakCovers, Effective, Over, CreationAllowed, RowsOfGranted
<1>6. UpdatesAllowed' /\ GrantsNamed'
  BY <1>3 DEF UpdatesAllowed, GrantsNamed, Idle, TypeOK
<1>7. WithinLimits'
  BY <1>2, <1>3 DEF WithinLimits, Rows, TypeOK
<1>8. CountWithinPeak'
  BY <1>3 DEF CountWithinPeak, Active, Rows
<1> QED
  BY <1>4, <1>5, <1>6, <1>7, <1>8

(* A handler that loads, a refusal and a restart change no row. *)
LEMMA LoadStep ==
  ASSUME QInv, UNCHANGED <<base, granted, override, status, size, peak>>,
         TypeOK', CreationAllowed', UpdatesAllowed', GrantsNamed'
  PROVE  QInv'
  BY DEF QInv, PeakCovers, Effective, Over, WithinLimits, CountWithinPeak,
         RowsOfGranted, Rows, Active

LEMMA NextInv == QInv /\ [Next]_vars => QInv'
<1> SUFFICES ASSUME QInv, [Next]_vars PROVE QInv'
  OBVIOUS
<1> USE QuotasAssumption
<1>1. ASSUME NEW t \in Threads, NEW u \in Users, NEW g \in Grants[u], GrantLoads(t, u, g)
      PROVE  QInv'
  <2> USE <1>1 DEF GrantLoads, QInv
  <2>1. TypeOK'
    BY DEF TypeOK
  <2>2. CreationAllowed' /\ UpdatesAllowed' /\ GrantsNamed'
    BY DEF CreationAllowed, UpdatesAllowed, GrantsNamed, TypeOK
  <2> QED
    BY <2>1, <2>2, LoadStep
<1>2. ASSUME NEW t \in Threads, NEW u \in Users, NEW v \in VMs, NEW s \in Sizes,
             UpdateLoads(t, u, v, s)
      PROVE  QInv'
  <2> USE <1>2 DEF UpdateLoads, QInv
  <2>1. s \in Nat /\ s <= HardLimit /\ s <= peak[Owner[v]]["size"]
    <3>1. Effective(Owner[v]) \in Limits
      BY EffectiveType
    <3>2. Effective(Owner[v])["size"] <= peak[Owner[v]]["size"]
      BY DEF PeakCovers
    <3>3. peak[Owner[v]]["size"] \in Nat /\ Effective(Owner[v])["size"] \in Nat /\ s \in Nat
      BY <3>1 DEF Limits, TypeOK
    <3> QED
      BY <3>2, <3>3
  <2>2. TypeOK'
    BY <2>1 DEF TypeOK, UpdateBody, NoRow, Columns
  <2>3. UpdatesAllowed'
    BY <2>1 DEF UpdatesAllowed, TypeOK, UpdateBody, NoRow
  <2>4. CreationAllowed' /\ GrantsNamed'
    BY DEF CreationAllowed, GrantsNamed, TypeOK
  <2> QED
    BY <2>2, <2>3, <2>4, LoadStep
<1>3. ASSUME NEW v \in VMs, NEW s \in Sizes, CreateLoads(v, s)
      PROVE  QInv'
  <2> USE <1>3 DEF CreateLoads, QInv
  <2>1. /\ Effective(Owner[v]) \in Limits
        /\ \A f \in Fields : Effective(Owner[v])[f] <= peak[Owner[v]][f]
    BY EffectiveType DEF PeakCovers
  <2>2. TypeOK'
    BY <2>1 DEF TypeOK, Limits
  <2>3. CreationAllowed'
    BY <2>1 DEF CreationAllowed, TypeOK, Limits
  <2>4. UpdatesAllowed' /\ GrantsNamed'
    BY DEF UpdatesAllowed, GrantsNamed
  <2> QED
    BY <2>2, <2>3, <2>4, LoadStep
<1>4. CASE CreateRefused \/ Restart \/ UNCHANGED vars
  <2>1. /\ UNCHANGED <<base, granted, override, status, size, peak>>
        /\ creating' \in {creating, Waiting}
        /\ call' \in {call, [t \in Threads |-> Idle]}
    BY <1>4 DEF CreateRefused, Restart, vars
  <2>2. TypeOK'
    BY <2>1, IdleType DEF QInv, TypeOK, Waiting, Calls
  <2>3. CreationAllowed' /\ UpdatesAllowed' /\ GrantsNamed'
    BY <2>1 DEF QInv, CreationAllowed, UpdatesAllowed, GrantsNamed, Waiting, Idle
  <2> QED
    BY <2>1, <2>2, <2>3, LoadStep
<1>5. ASSUME NEW v \in VMs, Settles(v) \/ Leaves(v)
      PROVE  QInv'
  BY <1>5, FewerMachines DEF Settles, Leaves, Rows
<1> QED
  BY <1>1, <1>2, <1>3, <1>4, <1>5, GrantStep, AssignStep, CreateStep, UpdateStep DEF Next

LEMMA SpecInv == Spec => []QInv
  BY InitInv, NextInv, PTL DEF Spec

(* Every variable of Quotas keeps its type. *)
THEOREM TypeCorrect == Spec => []TypeOK
<1>1. QInv => TypeOK
  BY DEF QInv
<1> QED
  BY <1>1, SpecInv, PTL

(* No machine is above the absolute ceiling or larger than its owner was   *)
(* ever allowed, whoever creates or resizes it (enforce_hard_limits).      *)
THEOREM SizeBound == Spec => []WithinLimits
<1>1. QInv => WithinLimits
  BY DEF QInv
<1> QED
  BY <1>1, SpecInv, PTL

(* No user has more ACTIVE machines than they were ever allowed.            *)
THEOREM CountBound == Spec => []CountWithinPeak
<1>1. QInv => CountWithinPeak
  BY DEF QInv
<1> QED
  BY <1>1, SpecInv, PTL

(* No grant changes a limit that it does not name: an UPDATE writes only    *)
(* named columns, and a row is inserted where all columns were NULL.        *)
THEOREM GrantsStay == Spec => GrantsKeepOthers
<1> DEFINE Named(u, f) == \E t \in Threads : /\ call[t].op = "grant" /\ call[t].who = u
                                             /\ call'[t] # call[t]
                                             /\ call[t].body[f] # Null
                                             /\ override'[u][f] = call[t].body[f]
           A == \A u \in Users, f \in Fields : override'[u][f] # override[u][f] => Named(u, f)
<1>1. QInv /\ [Next]_vars => [A]_vars
  <2> SUFFICES ASSUME QInv, [Next]_vars, NEW u \in Users, NEW f \in Fields,
                      override'[u][f] # override[u][f]
               PROVE  Named(u, f)
    OBVIOUS
  <2>1. ASSUME NEW t \in Threads, call[t].op = "grant", Returns(t) PROVE call'[t] # call[t]
    BY <2>1 DEF Returns, Idle, QInv, TypeOK
  <2>2. ASSUME NEW t \in Threads, GrantInserts(t) PROVE Named(u, f)
    <3>1. /\ call[t].op = "grant" /\ call[t].who \in Users \ granted
          /\ override' = [override EXCEPT ![call[t].who] = call[t].body]
      BY <2>2 DEF GrantInserts, QInv, GrantsNamed
    <3>2. call[t].who = u /\ override[u][f] = Null /\ override'[u][f] = call[t].body[f]
      BY <3>1 DEF QInv, TypeOK, RowsOfGranted, NoRow
    <3> QED
      BY <2>1, <2>2, <3>1, <3>2 DEF GrantInserts
  <2>3. ASSUME NEW t \in Threads, GrantUpdates(t) PROVE Named(u, f)
    <3>1. PICK w \in Users : w = call[t].who
      BY <2>3 DEF GrantUpdates, QInv, GrantsNamed
    <3>2. override' = [override EXCEPT ![w] = Updated(t, w)]
      BY <2>3, <3>1 DEF GrantUpdates
    <3>3. w = u /\ override'[u][f] = Updated(t, u)[f]
      BY <3>2 DEF QInv, TypeOK
    <3>4. call[t].body[f] # Null /\ override'[u][f] = call[t].body[f]
      BY <3>3 DEF Updated
    <3> QED
      BY <2>1, <2>3, <3>1, <3>3, <3>4 DEF GrantUpdates
  <2>4. CASE UNCHANGED override
    BY <2>4
  <2> QED
    BY <2>2, <2>3, <2>4 DEF Next, vars, GrantLoads, Assigns, UpdateLoads, UpdateCommits,
       CreateLoads, CreateCommits, CreateRefused, Settles, Leaves, Restart
<1> QED
  BY <1>1, SpecInv, PTL DEF Spec, GrantsKeepOthers
-----------------------------------------------------------------------------
(* Refinement: what a user sees of a row.                                  *)

Seen == [v \in VMs |-> IF status[v] = "none" THEN "unborn" ELSE status[v]]

Lifecycle == INSTANCE VMLifecycle WITH row <- Seen

LifecycleSpec == Lifecycle!Spec

LEMMA LifecycleStep == QInv /\ [Next]_vars => [Lifecycle!Next]_Seen
<1> SUFFICES ASSUME QInv, [Next]_vars PROVE [Lifecycle!Next]_Seen
  OBVIOUS
<1> USE DEF QInv
<1>1. Lifecycle!Live = Rows
  BY DEF Lifecycle!Live, Lifecycle!Settled, Seen, Rows, TypeOK
<1>2. CASE CreateCommits
  <2>1. creating.vm \in VMs /\ status[creating.vm] = "none"
    BY <1>2 DEF CreateCommits, CreationAllowed, TypeOK
  <2>2. PICK v \in VMs : v = creating.vm
    BY <2>1
  <2>3. Seen[v] = "unborn" /\ status' = [status EXCEPT ![v] = "ACTIVE"]
    BY <1>2, <2>1, <2>2 DEF CreateCommits, Seen
  <2>4. Seen' = [Seen EXCEPT ![v] = "ACTIVE"]
    BY <2>3 DEF Seen, TypeOK
  <2> QED
    BY <2>3, <2>4 DEF Lifecycle!Birth, Lifecycle!Next
<1>3. ASSUME NEW v \in VMs, Settles(v) PROVE Lifecycle!Next
  <2>1. {v} \in SUBSET Lifecycle!Live /\ Lifecycle!Move({v}, "STOPPED")
    BY <1>1, <1>3 DEF Settles, Rows, TypeOK, Seen, Lifecycle!Move
  <2> QED
    BY <2>1 DEF Lifecycle!Next, Lifecycle!Settle, Lifecycle!Settled
<1>4. ASSUME NEW v \in VMs, Leaves(v) PROVE Lifecycle!Next
  <2>1. {v} \in SUBSET Lifecycle!Live /\ Lifecycle!Move({v}, "gone")
    BY <1>1, <1>4 DEF Leaves, Rows, TypeOK, Seen, Lifecycle!Move
  <2> QED
    BY <2>1 DEF Lifecycle!Next, Lifecycle!Remove
<1>5. CASE UNCHANGED status
  BY <1>5 DEF Seen
<1> QED
  BY <1>2, <1>3, <1>4, <1>5 DEF Next, vars, GrantLoads, GrantInserts, GrantUpdates, Assigns,
     UpdateLoads, UpdateCommits, CreateLoads, CreateRefused, Restart

(* Quotas implements VMLifecycle: no resize, grant or refused creation     *)
(* brings a row to life.                                                   *)
THEOREM Refinement == Spec => LifecycleSpec
<1>1. Init => Lifecycle!Init
  BY DEF Init, Lifecycle!Init, Seen
<1> QED
  BY <1>1, LifecycleStep, SpecInv, PTL DEF Spec, LifecycleSpec, Lifecycle!Spec
=============================================================================
