-------------------------- MODULE Credentials_proofs --------------------------
(***************************************************************************)
(* Proofs about Credentials, for every set of threads and every threshold. *)
(***************************************************************************)
EXTENDS Credentials, TLAPS

(* What a wrong password in flight has loaded was true of the account once *)
(* and the alert and the number of wrong passwords only grow.              *)
WrongsHold == \A t \in Threads : call[t].pc = "wrong" =>
    /\ call[t].count <= wrong
    /\ call[t].count >= AlertAt => alerted

CInv == TypeOK /\ WrongsHold /\ AlertIsNotMissed /\ LockIsEarned

USE CredentialsAssumption DEF Requests

LEMMA InvInit == Init => CInv
<1> SUFFICES ASSUME Init PROVE CInv
  OBVIOUS
<1>1. TypeOK
  BY DEF Init, TypeOK, Idle
<1>2. WrongsHold /\ AlertIsNotMissed /\ LockIsEarned
  BY DEF Init, Idle, WrongsHold, AlertIsNotMissed, LockIsEarned
<1> QED
  BY <1>1, <1>2 DEF CInv

(* What neither counts nor locks keeps the three facts. *)
LEMMA NothingCounted ==
    ASSUME CInv, count' \in {count, 0}, until' \in {until, 0}, wrong' = wrong, alerted' = alerted,
           \A t \in Threads : call'[t] = call[t] \/ call'[t] = Idle
    PROVE  WrongsHold' /\ AlertIsNotMissed' /\ LockIsEarned'
<1> USE DEF CInv, TypeOK, Idle
<1>1. WrongsHold'
  BY DEF WrongsHold
<1>2. AlertIsNotMissed'
  BY DEF AlertIsNotMissed
<1>3. LockIsEarned'
  BY DEF LockIsEarned
<1> QED
  BY <1>1, <1>2, <1>3

(* A load copies the row and ends nothing. *)
LEMMA LoadStep ==
    ASSUME CInv, NEW t \in Threads, NEW pc \in Requests, Loads(t, pc)
    PROVE  CInv'
<1> USE DEF CInv, TypeOK, Loads, row
<1>1. TypeOK'
  OBVIOUS
<1>2. WrongsHold'
  BY DEF WrongsHold, AlertIsNotMissed, LockIsEarned
<1>3. AlertIsNotMissed' /\ LockIsEarned'
  BY DEF AlertIsNotMissed, LockIsEarned
<1> QED
  BY <1>1, <1>2, <1>3

(* A counter moves from a value at which the alert was out, or by one. *)
LEMMA WrongStep ==
    ASSUME CInv, NEW t \in Threads, WrongCommits(t)
    PROVE  CInv'
<1> USE DEF CInv, TypeOK, WrongCommits, Ends
<1>1. TypeOK'
  BY DEF Idle
<1>2. WrongsHold'
  BY DEF WrongsHold, Idle
<1>3. AlertIsNotMissed'
  <2>1. alerted \/ count' = AlertAt => alerted'
    BY Zenon
  <2>2. CASE call[t].count >= AlertAt
    BY <2>1, <2>2 DEF WrongsHold, AlertIsNotMissed
  <2>3. CASE ~(call[t].count >= AlertAt)
    <3>1. count' >= AlertAt => count' = AlertAt
      BY <2>3
    <3> QED
      BY <2>1, <3>1 DEF AlertIsNotMissed
  <2> QED
    BY <2>2, <2>3
<1>4. LockIsEarned'
  BY DEF WrongsHold, LockIsEarned
<1> QED
  BY <1>1, <1>2, <1>3, <1>4

LEMMA InvStep == CInv /\ [Next]_vars => CInv'
<1> SUFFICES ASSUME CInv, [Next]_vars PROVE CInv'
  OBVIOUS
<1>1. CASE Tick \/ Restart \/ UNCHANGED vars
  <2>1. TypeOK'
    <3>1. now' \in Nat
      BY <1>1 DEF Tick, Restart, vars, CInv, TypeOK
    <3>2. UNCHANGED <<active, count, until, password, must, alerted, wrong>>
      BY <1>1 DEF Tick, Restart, vars, row
    <3>3. call' = call \/ call' = [t \in Threads |-> Idle]
      BY <1>1 DEF Tick, Restart, vars
    <3>4. call' \in [Threads -> [pc : Requests \cup {"idle"}, count : Nat, until : Nat,
                                must : BOOLEAN, active : BOOLEAN]]
      <4> DEFINE Calls == [pc : Requests \cup {"idle"}, count : Nat, until : Nat,
                           must : BOOLEAN, active : BOOLEAN]
      <4>1. Idle \in Calls
        BY DEF Idle
      <4>2. call \in [Threads -> Calls]
        BY DEF CInv, TypeOK
      <4> HIDE DEF Calls
      <4>3. call' \in [Threads -> Calls]
        BY <3>3, <4>1, <4>2
      <4> QED
        BY <4>3 DEF Calls
    <3> QED
      BY <3>1, <3>2, <3>4 DEF CInv, TypeOK
  <2>2. WrongsHold' /\ AlertIsNotMissed' /\ LockIsEarned'
    BY <1>1, NothingCounted DEF Tick, Restart, vars, row
  <2> QED
    BY <2>1, <2>2 DEF CInv
<1>2. ASSUME NEW t \in Threads, NEW pc \in {"wrong", "right"}, LoginLoads(t, pc) PROVE CInv'
  BY <1>2, LoadStep DEF LoginLoads
<1>3. ASSUME NEW t \in Threads, ChangeLoads(t) \/ AdminLoads(t) PROVE CInv'
  BY <1>3, LoadStep DEF ChangeLoads, AdminLoads
<1>4. ASSUME NEW t \in Threads, WrongCommits(t) PROVE CInv'
  BY <1>4, WrongStep
<1>5. ASSUME NEW t \in Threads,
             RightCommits(t) \/ ReactivateCommits(t) \/ ChangeCommits(t) \/ ResetCommits(t)
             \/ SuspendCommits(t)
      PROVE  CInv'
  <2> USE DEF RightCommits, ReactivateCommits, ChangeCommits, ResetCommits, SuspendCommits, Ends
  <2>1. call' = [call EXCEPT ![t] = Idle]
    BY <1>5
  <2>2. /\ count' \in {count, 0} /\ until' \in {until, 0}
        /\ wrong' = wrong /\ alerted' = alerted
        /\ now' = now /\ password' \in {password, "own", "temp"}
    BY <1>5 DEF Write
  <2>3. active' \in BOOLEAN /\ must' \in BOOLEAN
    BY <1>5, Zenon DEF Write, CInv, TypeOK
  <2>4. call' \in [Threads -> [pc : Requests \cup {"idle"}, count : Nat, until : Nat,
                              must : BOOLEAN, active : BOOLEAN]]
    BY <2>1 DEF Idle, CInv, TypeOK
  <2>5. \A u \in Threads : call'[u] = call[u] \/ call'[u] = Idle
    BY <2>1 DEF CInv, TypeOK
  <2>6. TypeOK'
    BY <2>2, <2>3, <2>4 DEF CInv, TypeOK
  <2> HIDE DEF RightCommits, ReactivateCommits, ChangeCommits, ResetCommits, SuspendCommits, Ends
  <2> QED
    BY <2>2, <2>5, <2>6, NothingCounted DEF CInv
<1> QED
  BY <1>1, <1>2, <1>3, <1>4, <1>5 DEF Next

LEMMA Invariant == Spec => []CInv
  BY InvInit, InvStep, PTL DEF Spec

(* Every variable of Credentials keeps its type. *)
THEOREM TypeCorrect == Spec => []TypeOK
<1>1. CInv => TypeOK
  BY DEF CInv
<1> QED
  BY <1>1, Invariant, PTL

(* The alert of the administrators is never jumped over: the counter only  *)
(* reaches a value past the threshold from one at which the alert left.    *)
THEOREM Alerted == Spec => []AlertIsNotMissed
<1>1. CInv => AlertIsNotMissed
  BY DEF CInv
<1> QED
  BY <1>1, Invariant, PTL

(* A lock was earned by MAX_LOGIN_ATTEMPTS wrong passwords, whichever      *)
(* updates of the counter were lost.                                       *)
THEOREM Earned == Spec => []LockIsEarned
<1>1. CInv => LockIsEarned
  BY DEF CInv
<1> QED
  BY <1>1, Invariant, PTL

-----------------------------------------------------------------------------
(* A request that ends is one whose record changes. *)
LEMMA EndsLifts ==
    ASSUME TypeOK, NEW t \in Threads, NEW pc \in Requests, Ends(t, pc), NEW S, pc \in S
    PROVE  Lifts(t, S)
  BY DEF TypeOK, Ends, Idle, Lifts

(* A suspension, a lock and the duty to change the password are lifted     *)
(* only by a request that had loaded one, for every number of requests.    *)
THEOREM Lifted == Spec => LiftedWhenSeen
<1> DEFINE Active == ~active /\ active' =>
              \E t \in Threads : Lifts(t, {"reactivate"}) /\ ~call[t].active
           Until == until # 0 /\ until' = 0 =>
              \E t \in Threads : Lifts(t, {"right", "reactivate"}) /\ call[t].until # 0
           Must == must /\ ~must' =>
              \E t \in Threads : Lifts(t, {"change"}) /\ call[t].must
<1>1. TypeOK /\ [Next]_vars => [Active /\ Until /\ Must]_vars
  <2> SUFFICES ASSUME TypeOK, [Next]_vars PROVE Active /\ Until /\ Must
    OBVIOUS
  <2>1. CASE UNCHANGED row
    BY <2>1, Zenon DEF row
  <2>2. ASSUME NEW t \in Threads, WrongCommits(t) PROVE Active /\ Until /\ Must
    <3>1. until' = until \/ until' = now + Lockout
      BY <2>2, Zenon DEF WrongCommits
    <3>2. until' # 0 \/ until' = until
      BY <3>1 DEF TypeOK
    <3> QED
      BY <2>2, <3>2, Zenon DEF WrongCommits
  <2>3. ASSUME NEW t \in Threads, RightCommits(t) PROVE Active /\ Until /\ Must
    <3>1. Lifts(t, {"right", "reactivate"})
      BY <2>3, EndsLifts DEF RightCommits
    <3> QED
      BY <2>3, <3>1, Zenon DEF RightCommits, Write
  <2>4. ASSUME NEW t \in Threads, ReactivateCommits(t) PROVE Active /\ Until /\ Must
    <3>1. Lifts(t, {"right", "reactivate"}) /\ Lifts(t, {"reactivate"})
      BY <2>4, EndsLifts DEF ReactivateCommits
    <3>2. call[t].active \in BOOLEAN
      BY DEF TypeOK
    <3> QED
      BY <2>4, <3>1, <3>2, Zenon DEF ReactivateCommits, Write
  <2>5. ASSUME NEW t \in Threads, ChangeCommits(t) PROVE Active /\ Until /\ Must
    <3>1. Lifts(t, {"change"})
      BY <2>5, EndsLifts DEF ChangeCommits
    <3>2. call[t].must \in BOOLEAN
      BY DEF TypeOK
    <3> QED
      BY <2>5, <3>1, <3>2, Zenon DEF ChangeCommits, Write
  <2>6. ASSUME NEW t \in Threads, ResetCommits(t) PROVE Active /\ Until /\ Must
    BY <2>6, Zenon DEF ResetCommits, Write
  <2>7. ASSUME NEW t \in Threads, SuspendCommits(t) PROVE Active /\ Until /\ Must
    BY <2>7, Zenon DEF SuspendCommits, Write
  <2>8. CASE Tick \/ Restart \/ UNCHANGED vars
    BY <2>1, <2>8 DEF Tick, Restart, vars, row
  <2>9. ASSUME NEW t \in Threads,
               (\E pc \in {"wrong", "right"} : LoginLoads(t, pc)) \/ ChangeLoads(t) \/ AdminLoads(t)
        PROVE  UNCHANGED row
    BY <2>9, Zenon DEF LoginLoads, ChangeLoads, AdminLoads, Loads, row
  <2> QED
    BY <2>1, <2>2, <2>3, <2>4, <2>5, <2>6, <2>7, <2>8, <2>9 DEF Next
<1> QED
  BY <1>1, TypeCorrect, PTL DEF Spec, LiftedWhenSeen
=============================================================================
