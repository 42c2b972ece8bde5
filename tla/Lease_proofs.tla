---------------------------- MODULE Lease_proofs ----------------------------
(***************************************************************************)
(* Proofs about Lease, for every set of VMs and threads, every quota and   *)
(* every limit.  The two invariants follow from LInv, which adds what an   *)
(* extension in flight knows: the end it has loaded is the end of some     *)
(* reservation, and the end it will write is within the quota.             *)
(***************************************************************************)
EXTENDS Lease, TLAPS

ReservedUntil(v, hour) == \A h \in start[v]..(hour - 1) :
                              \E s \in slots[v] : s.from <= h /\ h < s.to

(* Up to the end of any reservation every hour is reserved. *)
SlotsCover == \A v \in Rows : \A s \in slots[v] : ReservedUntil(v, s.to)

EndIsSlot == \A v \in Rows : \E s \in slots[v] : s.to = end[v]

CallsBorn == \A t \in Threads : call[t].pc # "idle" =>
                 call[t].vm \in VMs /\ status[call[t].vm] # "unborn"

ExtendsBounded == \A t \in Threads : call[t].pc = "extend" =>
    call[t].end + call[t].hours - start[call[t].vm] <= MaxSession[call[t].vm]

ExtendsFromSlot == \A t \in Threads : call[t].pc = "extend" /\ call[t].vm \in Rows =>
    \E s \in slots[call[t].vm] : s.to = call[t].end

LInv == /\ TypeOK
        /\ SlotsCover
        /\ EndIsSlot
        /\ CallsBorn
        /\ ExtendsBounded
        /\ ExtendsFromSlot
        /\ LeaseWithinQuota

(* Every variable of Lease keeps its type under every action. *)
LEMMA TypeStep == TypeOK /\ [Next]_vars => TypeOK'
<1> SUFFICES ASSUME TypeOK, [Next]_vars PROVE TypeOK'
  OBVIOUS
<1> USE LeaseAssumption DEF TypeOK, Statuses, Slot, Idle, Rows
<1>1. CASE UNCHANGED vars
  BY <1>1 DEF vars
<1>2. CASE Tick
  BY <1>2 DEF Tick
<1>3. ASSUME NEW v \in VMs, Create(v) PROVE TypeOK'
  BY <1>3 DEF Create, Durations
<1>4. ASSUME NEW v \in VMs, Delete(v) PROVE TypeOK'
  BY <1>4 DEF Delete
<1>5. ASSUME NEW t \in Threads, NEW v \in VMs, NEW h \in Nat,
             Loads(t, "extend", v, h) \/ Loads(t, "key", v, h) \/ Loads(t, "stop", v, h)
      PROVE  TypeOK'
  BY <1>5 DEF Loads
<1>6. ASSUME NEW t \in Threads, ExtendCommits(t) PROVE TypeOK'
  BY <1>6 DEF ExtendCommits, Writes
<1>7. ASSUME NEW t \in Threads, KeyCommits(t) PROVE TypeOK'
  BY <1>7 DEF KeyCommits, Writes
<1>8. ASSUME NEW t \in Threads, StopCommits(t) PROVE TypeOK'
  BY <1>8 DEF StopCommits, Writes
<1>9. ASSUME NEW t \in Threads, Fails(t) PROVE TypeOK'
  BY <1>9 DEF Fails
<1>10. CASE ExpireLoads \/ ExpireCommits \/ Restart
  BY <1>10 DEF ExpireLoads, ExpireCommits, Restart, Over
<1> QED
  BY <1>1, <1>2, <1>3, <1>4, <1>5, <1>6, <1>7, <1>8, <1>9, <1>10
     DEF Next, ExtendLoads, KeyLoads, StopLoads

LEMMA InvInit == Init => LInv
  BY LeaseAssumption DEF Init, LInv, TypeOK, Statuses, Slot, Idle, Rows, SlotsCover, EndIsSlot,
     CallsBorn, ExtendsBounded, ExtendsFromSlot, LeaseWithinQuota

(* A new lease is one reservation, of at most the quota. *)
LEMMA CreateStep ==
    ASSUME LInv, TypeOK', NEW v \in VMs, Create(v)
    PROVE  LInv'
<1> USE LeaseAssumption DEF LInv, TypeOK, Slot, Rows
<1>1. PICK from \in {s \in 0..now : now - s <= CloneTime}, h \in Durations(v) :
          /\ start' = [start EXCEPT ![v] = from]
          /\ end' = [end EXCEPT ![v] = from + h]
          /\ slots' = [slots EXCEPT ![v] = {[from |-> from, to |-> from + h]}]
  BY DEF Create
<1>2. /\ from \in Nat /\ h \in Nat /\ h <= MaxSession[v]
      /\ status[v] = "unborn"
      /\ status' = [status EXCEPT ![v] = "ACTIVE"]
      /\ UNCHANGED call
  BY DEF Create, Durations
<1>3. \A t \in Threads : call[t].pc # "idle" => call[t].vm # v
  BY <1>2 DEF CallsBorn
<1> DEFINE new == [from |-> from, to |-> from + h]
<1>4. SlotsCover' /\ EndIsSlot'
  <2>1. new.from = start'[v] /\ new.to = end'[v] /\ slots'[v] = {new}
    BY <1>1
  <2>2. ASSUME NEW w \in Rows', w # v
        PROVE  w \in Rows /\ start'[w] = start[w] /\ end'[w] = end[w] /\ slots'[w] = slots[w]
    BY <1>1, <1>2, <2>2
  <2> HIDE DEF new
  <2>3. \A w \in Rows' : \A s \in slots'[w] : ReservedUntil(w, s.to)'
    BY <1>1, <1>2, <2>1, <2>2 DEF SlotsCover, ReservedUntil
  <2> QED
    BY <2>1, <2>2, <2>3 DEF SlotsCover, EndIsSlot, ReservedUntil
<1>5. CallsBorn' /\ ExtendsBounded' /\ ExtendsFromSlot'
  BY <1>1, <1>2, <1>3 DEF CallsBorn, ExtendsBounded, ExtendsFromSlot
<1>6. LeaseWithinQuota'
  BY <1>1, <1>2 DEF LeaseWithinQuota
<1> QED
  BY <1>4, <1>5, <1>6

(* A request that loads a row copies the end of a reservation. *)
LEMMA LoadStep ==
    ASSUME LInv, TypeOK', NEW t \in Threads, NEW v \in VMs, NEW h \in Nat,
           NEW pc \in {"extend", "key", "stop"}, Loads(t, pc, v, h),
           pc = "extend" => end[v] - start[v] + h <= MaxSession[v]
    PROVE  LInv'
<1> USE LeaseAssumption DEF LInv, TypeOK, Loads, Rows
<1>1. SlotsCover' /\ EndIsSlot' /\ LeaseWithinQuota'
  BY DEF SlotsCover, EndIsSlot, ReservedUntil, LeaseWithinQuota
<1>2. CallsBorn'
  BY DEF CallsBorn
<1>3. ExtendsBounded'
  BY DEF ExtendsBounded
<1>4. ExtendsFromSlot'
  BY DEF ExtendsFromSlot, EndIsSlot
<1> QED
  BY <1>1, <1>2, <1>3, <1>4

(* An extension adds a reservation that starts where another one ends, so  *)
(* the reserved hours stay without a gap whatever was committed meanwhile. *)
LEMMA ExtendStep ==
    ASSUME LInv, TypeOK', NEW t \in Threads, ExtendCommits(t)
    PROVE  LInv'
<1> USE LeaseAssumption DEF LInv, TypeOK, Slot, Rows
<1>0. /\ call[t].pc = "extend" /\ call[t].vm \in Rows
      /\ call[t].end \in Nat /\ call[t].hours \in Nat
  BY DEF ExtendCommits, Writes
<1>11. [from |-> call[t].end, to |-> call[t].end + call[t].hours] \in Slot
  BY <1>0
<1> PICK v \in Rows : v = call[t].vm
  BY <1>0
<1> PICK new \in Slot : new = [from |-> call[t].end, to |-> call[t].end + call[t].hours]
  BY <1>11
<1>1. /\ call' = [call EXCEPT ![t] = Idle]
      /\ end' = [end EXCEPT ![v] = new.to]
      /\ slots' = [slots EXCEPT ![v] = @ \cup {new}]
      /\ UNCHANGED <<status, start>>
  BY DEF ExtendCommits, Writes
<1>2. PICK old \in slots[v] : old.to = new.from
  BY <1>0 DEF ExtendsFromSlot
<1>3. new.from \in Nat /\ new.to \in Nat /\ old \in Slot
  BY <1>2
<1>4. ReservedUntil(v, old.to)
  BY <1>2 DEF SlotsCover
<1>5. ReservedUntil(v, new.to)'
  <2> SUFFICES ASSUME NEW h \in start[v]..(new.to - 1)
               PROVE  \E s \in slots'[v] : s.from <= h /\ h < s.to
    BY <1>1 DEF ReservedUntil
  <2>1. new \in slots'[v] /\ slots[v] \subseteq slots'[v]
    BY <1>1
  <2>2. CASE h < old.to
    <3>1. h \in start[v]..(old.to - 1)
      BY <2>2, <1>3
    <3> QED
      BY <3>1, <2>1, <1>4 DEF ReservedUntil
  <2>3. CASE h >= old.to
    BY <2>3, <2>1, <1>2, <1>3
  <2> QED
    BY <2>2, <2>3, <1>3
<1>6. ASSUME NEW w \in Rows, NEW s \in slots[w] PROVE ReservedUntil(w, s.to)'
  BY <1>1, <1>6 DEF SlotsCover, ReservedUntil
<1>7. SlotsCover'
  <2> SUFFICES ASSUME NEW w \in Rows', NEW s \in slots'[w] PROVE ReservedUntil(w, s.to)'
    BY DEF SlotsCover, ReservedUntil
  <2>1. w \in Rows
    BY <1>1
  <2>2. CASE w # v
    <3>1. slots'[w] = slots[w]
      BY <1>1, <2>1, <2>2
    <3>2. s \in slots[w]
      BY <3>1
    <3> QED
      BY <2>1, <3>2, <1>6
  <2>3. CASE w = v
    <3>1. slots'[w] = slots[w] \cup {new}
      BY <1>1, <2>1, <2>3
    <3>2. s \in slots[w] \/ s = new
      BY <3>1
    <3> QED
      BY <2>1, <2>3, <3>2, <1>5, <1>6
  <2> QED
    BY <2>2, <2>3
<1>8. EndIsSlot'
  BY <1>1 DEF EndIsSlot
<1>9. CallsBorn' /\ ExtendsBounded' /\ ExtendsFromSlot'
  BY <1>1 DEF CallsBorn, ExtendsBounded, ExtendsFromSlot, Idle
<1>10. LeaseWithinQuota'
  BY <1>0, <1>1 DEF LeaseWithinQuota, ExtendsBounded
<1> QED
  BY <1>7, <1>8, <1>9, <1>10

LEMMA InvStep == LInv /\ [Next]_vars => LInv'
<1> SUFFICES ASSUME LInv, [Next]_vars PROVE LInv'
  OBVIOUS
<1>0. TypeOK'
  BY TypeStep DEF LInv
<1>1. CASE UNCHANGED vars
  BY <1>1 DEF vars, LInv, TypeOK, SlotsCover, EndIsSlot, ReservedUntil, CallsBorn,
     ExtendsBounded, ExtendsFromSlot, LeaseWithinQuota, Rows
<1>2. CASE Tick
  BY <1>0, <1>2 DEF Tick, LInv, SlotsCover, EndIsSlot, ReservedUntil, CallsBorn,
     ExtendsBounded, ExtendsFromSlot, LeaseWithinQuota, Rows
<1>3. ASSUME NEW v \in VMs, Create(v) PROVE LInv'
  BY <1>0, <1>3, CreateStep
<1>4. ASSUME NEW v \in VMs, Delete(v) PROVE LInv'
  BY <1>0, <1>4 DEF Delete, LInv, TypeOK, SlotsCover, EndIsSlot, ReservedUntil, CallsBorn,
     ExtendsBounded, ExtendsFromSlot, LeaseWithinQuota, Rows
<1>5. ASSUME NEW t \in Threads, NEW v \in VMs, NEW h \in 1..MaxSession[v], ExtendLoads(t, v, h)
      PROVE  LInv'
  BY <1>0, <1>5, LoadStep, LeaseAssumption DEF ExtendLoads
<1>6. ASSUME NEW t \in Threads, NEW v \in VMs, KeyLoads(t, v) \/ StopLoads(t, v)
      PROVE  LInv'
  BY <1>0, <1>6, LoadStep DEF KeyLoads, StopLoads
<1>7. ASSUME NEW t \in Threads, ExtendCommits(t) PROVE LInv'
  BY <1>0, <1>7, ExtendStep
<1>8. ASSUME NEW t \in Threads, KeyCommits(t) \/ StopCommits(t) \/ Fails(t) PROVE LInv'
  <2> USE DEF LInv, TypeOK, Rows
  <2>1. /\ UNCHANGED <<start, end, slots>>
        /\ call' = [call EXCEPT ![t] = Idle]
        /\ Rows' = Rows
        /\ \A v \in VMs : status'[v] = "unborn" <=> status[v] = "unborn"
    BY <1>8 DEF KeyCommits, StopCommits, Fails, Writes
  <2> HIDE DEF Rows
  <2>2. SlotsCover' /\ EndIsSlot' /\ LeaseWithinQuota'
    BY <2>1 DEF SlotsCover, EndIsSlot, ReservedUntil, LeaseWithinQuota
  <2>3. CallsBorn' /\ ExtendsBounded' /\ ExtendsFromSlot'
    BY <2>1 DEF CallsBorn, ExtendsBounded, ExtendsFromSlot, Idle
  <2> QED
    BY <1>0, <2>2, <2>3
<1>9. CASE ExpireLoads \/ ExpireCommits \/ Restart
  BY <1>0, <1>9 DEF ExpireLoads, ExpireCommits, Restart, Idle, LInv, TypeOK, SlotsCover,
     EndIsSlot, ReservedUntil, CallsBorn, ExtendsBounded, ExtendsFromSlot, LeaseWithinQuota, Rows
<1> QED
  BY <1>1, <1>2, <1>3, <1>4, <1>5, <1>6, <1>7, <1>8, <1>9 DEF Next

LEMMA LInvariant == Spec => []LInv
  BY InvInit, InvStep, PTL DEF Spec

(* Every variable of Lease keeps its type. *)
THEOREM TypeCorrect == Spec => []TypeOK
<1>1. LInv => TypeOK
  BY DEF LInv
<1> QED
  BY <1>1, LInvariant, PTL

(* A key on a row has been given to nobody: the row is born with it, and   *)
(* every answer that carries it is sent by a transaction that clears it.   *)
KeysKept == \A v \in VMs : /\ status[v] = "unborn" => delivered[v] = 0
                           /\ delivered[v] # 0 => ~key[v]

LEMMA KeyStep == TypeOK /\ KeysKept /\ [Next]_vars => KeysKept'
<1> SUFFICES ASSUME TypeOK, KeysKept, [Next]_vars PROVE KeysKept'
  OBVIOUS
<1>0. /\ status \in [VMs -> Statuses] /\ delivered \in [VMs -> Nat]
      /\ key \in [VMs -> BOOLEAN]
  BY DEF TypeOK
<1>1. ASSUME NEW v \in VMs, Create(v) PROVE KeysKept'
  BY <1>0, <1>1 DEF Create, KeysKept
<1>2. ASSUME NEW t \in Threads, KeyCommits(t) PROVE KeysKept'
  BY <1>0, <1>2 DEF KeyCommits, Writes, Rows, KeysKept
<1>3. CASE /\ UNCHANGED <<key, delivered>>
           /\ \A v \in VMs : status'[v] = "unborn" => status[v] = "unborn"
  BY <1>0, <1>3 DEF KeysKept
<1>4. ASSUME NEW v \in VMs, Delete(v) PROVE KeysKept'
  BY <1>0, <1>3, <1>4 DEF Delete
<1>5. ASSUME NEW t \in Threads, ExtendCommits(t) \/ StopCommits(t) \/ Fails(t) PROVE KeysKept'
  BY <1>0, <1>3, <1>5 DEF ExtendCommits, StopCommits, Fails
<1>6. ASSUME NEW t \in Threads, NEW v \in VMs, NEW h, NEW pc, Loads(t, pc, v, h) PROVE KeysKept'
  BY <1>0, <1>3, <1>6 DEF Loads
<1>7. CASE ExpireCommits \/ Restart \/ Tick \/ ExpireLoads \/ UNCHANGED vars
  BY <1>0, <1>3, <1>7 DEF ExpireCommits, Restart, Tick, ExpireLoads, vars
<1> QED
  BY <1>1, <1>2, <1>4, <1>5, <1>6, <1>7 DEF Next, ExtendLoads, KeyLoads, StopLoads

(* get_ssh_key forgets the private key that it returns, whatever request   *)
(* has loaded the row before: who asks after an answer finds no key.       *)
THEOREM KeysAreCleared == Spec => KeyIsCleared
<1> DEFINE A == \A t \in Threads : call[t] = Idle /\ call'[t].pc = "key"
                                      => delivered[call'[t].vm] = 0
<1>1. Init => KeysKept
  BY DEF Init, KeysKept
<1>2. TypeOK /\ KeysKept /\ [Next]_vars => [A]_vars
  <2> SUFFICES ASSUME TypeOK, KeysKept, [Next]_vars, NEW t \in Threads,
                      call[t] = Idle, call'[t].pc = "key"
               PROVE  delivered[call'[t].vm] = 0
    OBVIOUS
  <2>1. call'[t] # Idle
    BY DEF Idle
  <2>2. PICK v \in VMs : KeyLoads(t, v)
    <3>1. ASSUME NEW r \in Threads, call' = [call EXCEPT ![r] = Idle] PROVE FALSE
      BY <3>1, <2>1 DEF TypeOK
    <3>2. ASSUME NEW r \in Threads, NEW v \in VMs, NEW h \in 1..MaxSession[v],
                 ExtendLoads(r, v, h)
          PROVE  FALSE
      BY <3>2 DEF ExtendLoads, Loads, TypeOK, Idle
    <3>3. ASSUME NEW r \in Threads, NEW v \in VMs, StopLoads(r, v) PROVE FALSE
      BY <3>3 DEF StopLoads, Loads, TypeOK, Idle
    <3>4. ASSUME NEW r \in Threads, NEW v \in VMs, KeyLoads(r, v) PROVE r = t
      BY <3>4, <2>1 DEF KeyLoads, Loads, TypeOK
    <3>5. call' # call /\ ~Restart
      BY <2>1 DEF Restart, TypeOK
    <3> QED
      BY <3>1, <3>2, <3>3, <3>4, <3>5 DEF Next, vars, Tick, Create, Delete, ExtendCommits,
         KeyCommits, StopCommits, Writes, Fails, ExpireLoads, ExpireCommits
  <2>3. call'[t].vm = v /\ key[v]
    BY <2>2 DEF KeyLoads, Loads, TypeOK
  <2> QED
    BY <2>3 DEF KeysKept, TypeOK
<1> QED
  BY <1>1, <1>2, KeyStep, TypeCorrect, PTL DEF Spec, KeyIsCleared

(* No session outlasts its owner's quota, however extensions interleave:   *)
(* extend_vm_lease writes the very value it has checked.                   *)
THEOREM SessionsBounded == Spec => []LeaseWithinQuota
<1>1. LInv => LeaseWithinQuota
  BY DEF LInv
<1> QED
  BY <1>1, LInvariant, PTL

(* Every hour of every lease is in a reservation, although extensions load *)
(* the end of the lease and write it back later.                           *)
THEOREM Reserved == Spec => []LeaseIsReserved
<1>1. LInv => LeaseIsReserved
  BY DEF LInv, LeaseIsReserved, EndIsSlot, SlotsCover, ReservedUntil
<1> QED
  BY <1>1, LInvariant, PTL

(* Lease implements the abstract life of a row.                            *)
THEOREM Refinement == Spec => LifecycleSpec
<1>1. Init => Lifecycle!Init
  BY DEF Init, Lifecycle!Init
<1>2. LInv /\ [Next]_vars => [Lifecycle!Next]_status
  <2> SUFFICES ASSUME LInv, [Next]_vars PROVE [Lifecycle!Next]_status
    OBVIOUS
  <2> USE DEF LInv, TypeOK
  <2>1. Rows = Lifecycle!Live
    BY DEF Rows, Lifecycle!Live, Lifecycle!Settled
  <2>2. ASSUME NEW v \in VMs, Create(v) PROVE [Lifecycle!Next]_status
    BY <2>2 DEF Create, Lifecycle!Next, Lifecycle!Birth
  <2>3. ASSUME NEW v \in VMs, Delete(v) PROVE [Lifecycle!Next]_status
    <3>1. {v} \in SUBSET Lifecycle!Live /\ Lifecycle!Move({v}, "gone")
      BY <2>1, <2>3 DEF Delete, Lifecycle!Move
    <3> QED
      BY <3>1 DEF Lifecycle!Next, Lifecycle!Remove
  <2>4. ASSUME NEW t \in Threads, StopCommits(t) PROVE [Lifecycle!Next]_status
    <3>1. /\ {call[t].vm} \in SUBSET Lifecycle!Live
          /\ Lifecycle!Move({call[t].vm}, "STOPPED")
      BY <2>1, <2>4 DEF StopCommits, Writes, Rows, Lifecycle!Move
    <3> QED
      BY <3>1 DEF Lifecycle!Next, Lifecycle!Settle, Lifecycle!Settled
  <2>5. CASE ExpireCommits
    <3>1. CASE batch \subseteq Rows
      <4>1. batch \in SUBSET Lifecycle!Live /\ Lifecycle!Move(batch, "EXPIRED")
        BY <2>1, <2>5, <3>1 DEF ExpireCommits, Lifecycle!Move
      <4> QED
        BY <4>1 DEF Lifecycle!Next, Lifecycle!Settle, Lifecycle!Settled
    <3>2. CASE ~(batch \subseteq Rows)
      BY <2>5, <3>2 DEF ExpireCommits
    <3> QED
      BY <3>1, <3>2
  <2>6. UNCHANGED vars \/ Tick \/ ExpireLoads \/ Restart => UNCHANGED status
    BY DEF vars, Tick, ExpireLoads, Restart
  <2>7. ASSUME NEW t \in Threads, NEW v \in VMs, NEW h \in 1..MaxSession[v],
               ExtendLoads(t, v, h) \/ KeyLoads(t, v) \/ StopLoads(t, v)
        PROVE  UNCHANGED status
    BY <2>7 DEF ExtendLoads, KeyLoads, StopLoads, Loads
  <2>8. ASSUME NEW t \in Threads, ExtendCommits(t) \/ KeyCommits(t) \/ Fails(t)
        PROVE  UNCHANGED status
    BY <2>8 DEF ExtendCommits, KeyCommits, Fails
  <2> QED
    BY <2>2, <2>3, <2>4, <2>5, <2>6, <2>7, <2>8 DEF Next, KeyLoads, StopLoads, Loads
<1> QED
  BY <1>1, <1>2, LInvariant, PTL DEF Spec, LifecycleSpec, Lifecycle!Spec
=============================================================================
