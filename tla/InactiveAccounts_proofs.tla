----------------------- MODULE InactiveAccounts_proofs -----------------------
(***************************************************************************)
(* What is proved of InactiveAccounts, for any users and any thresholds.   *)
(***************************************************************************)
EXTENDS InactiveAccounts, TLAPS

(* A machine or an override always has a user: the job removes no account  *)
(* that still owns something.                                              *)
OwnersStay == owns \subseteq present

(* The clock is ahead of what it has stamped, an account that is not       *)
(* active was suspended, and so was each account the run will delete.      *)
Stamped == /\ now # 0 /\ job.at <= now
           /\ job.pc # "idle" => job.at # 0
           /\ \A u \in Users : last[u] <= now
           /\ present \ active \subseteq suspended
           /\ job.pc = "deleting" => job.delete \subseteq suspended

(* Away for d when the run began, or seen since: never an account that was *)
(* not used yet.                                                           *)
AwayFor(u, d) == last[u] >= job.at \/ IdleFor(u, d, job.at)

(* The batches of the run: idle when it began, or seen since.              *)
BatchIdle == /\ job.pc \in {"suspended", "deleting"} =>
                    \A u \in job.suspend : AwayFor(u, SuspendAt)
             /\ job.pc = "deleting" =>
                    \A u \in job.delete : AwayFor(u, SuspendAt + DeleteAfter)

AInv == TypeOK /\ OwnersStay /\ Stamped /\ BatchIdle

LEMMA InitInv == Init => AInv
  BY InactiveAssumption DEF Init, Idle, AInv, TypeOK, OwnersStay, Stamped, BatchIdle

(* A step of the users or the administrators leaves the run alone. *)
LEMMA UserStep ==
  ASSUME AInv, NEW u \in Users,
         LoginLoads(u) \/ LoginCommits(u) \/ Suspend(u) \/ Reactivate(u)
         \/ GainsRow(u) \/ LosesRow(u)
  PROVE  AInv'
<1>1. TypeOK'
  BY DEF AInv, TypeOK, Stamped, LoginLoads, LoginCommits, Suspend, Reactivate, GainsRow, LosesRow
<1>2. OwnersStay'
  BY DEF AInv, TypeOK, OwnersStay, LoginLoads, LoginCommits, Suspend, Reactivate, GainsRow,
         LosesRow
<1>3. CASE LoginCommits(u)
  <2>1. /\ UNCHANGED <<now, present, active, suspended, job>>
        /\ \A v \in Users : last'[v] = last[v] \/ last'[v] = now
    BY <1>3 DEF LoginCommits, AInv, TypeOK
  <2>2. Stamped'
    BY <2>1 DEF AInv, TypeOK, Stamped
  <2>3. ASSUME NEW v \in Users, NEW d \in Nat, AwayFor(v, d) PROVE AwayFor(v, d)'
    BY <2>1, <2>3 DEF AInv, TypeOK, Stamped, AwayFor, IdleFor
  <2>4. BatchIdle'
    BY <2>1, <2>3, InactiveAssumption DEF AInv, TypeOK, BatchIdle
  <2> QED
    BY <1>1, <1>2, <2>2, <2>4 DEF AInv
<1>4. CASE ~LoginCommits(u)
  <2>1. UNCHANGED <<now, last, present, job>>
    BY <1>4 DEF LoginLoads, Suspend, Reactivate, GainsRow, LosesRow
  <2>2. BatchIdle'
    BY <2>1 DEF AInv, BatchIdle, AwayFor, IdleFor
  <2>3. /\ suspended \subseteq suspended'
        /\ present \ active' \subseteq suspended'
    BY <1>4 DEF LoginLoads, Suspend, Reactivate, GainsRow, LosesRow, AInv, TypeOK, Stamped
  <2>4. Stamped'
    BY <2>1, <2>3 DEF AInv, TypeOK, Stamped
  <2> QED
    BY <1>1, <1>2, <2>2, <2>4 DEF AInv
<1> QED
  BY <1>3, <1>4

LEMMA CommitStep == ASSUME AInv, JobCommits PROVE AInv'
<1> USE DEF JobCommits
<1>1. TypeOK'
  BY DEF AInv, TypeOK, Idle
<1>2. OwnersStay'
  BY DEF AInv, TypeOK, OwnersStay
<1>3. Stamped'
  BY DEF AInv, TypeOK, Stamped, Idle
<1>4. BatchIdle'
  BY DEF BatchIdle, Idle
<1> QED
  BY <1>1, <1>2, <1>3, <1>4 DEF AInv

LEMMA NextInv == AInv /\ [Next]_vars => AInv'
<1> SUFFICES ASSUME AInv, [Next]_vars PROVE AInv'
  OBVIOUS
<1>1. CASE Tick \/ Restart \/ JobFails \/ UNCHANGED vars
  <2>1. /\ UNCHANGED <<present, active, last, owns, suspended>>
        /\ now' \in {now, now + 1} /\ job' \in {job, Idle} /\ login' \in {login, {}}
    BY <1>1 DEF Tick, Restart, JobFails, vars
  <2>2. TypeOK'
    BY <2>1 DEF AInv, TypeOK, Idle
  <2>3. OwnersStay' /\ Stamped' /\ BatchIdle'
    BY <2>1 DEF AInv, TypeOK, OwnersStay, Stamped, BatchIdle, AwayFor, IdleFor, Idle
  <2> QED
    BY <2>2, <2>3 DEF AInv
<1>2. ASSUME NEW u \in Users,
             LoginLoads(u) \/ LoginCommits(u) \/ Suspend(u) \/ Reactivate(u)
             \/ GainsRow(u) \/ LosesRow(u)
      PROVE  AInv'
  BY <1>2, UserStep
<1>3. CASE JobWarns
  <2> USE <1>3 DEF JobWarns
  <2>1. TypeOK'
    BY DEF AInv, TypeOK, Idle
  <2>2. OwnersStay' /\ Stamped' /\ BatchIdle'
    BY DEF AInv, TypeOK, OwnersStay, Stamped, BatchIdle, Idle
  <2> QED
    BY <2>1, <2>2 DEF AInv
<1>4. CASE JobSuspends
  <2> USE <1>4 DEF JobSuspends
  <2>1. TypeOK'
    BY DEF AInv, TypeOK
  <2>2. OwnersStay' /\ Stamped' /\ BatchIdle'
    BY DEF AInv, TypeOK, OwnersStay, Stamped, BatchIdle, AwayFor, IdleFor
  <2> QED
    BY <2>1, <2>2 DEF AInv
<1>5. CASE JobDeletes
  <2> USE <1>5 DEF JobDeletes
  <2>1. TypeOK'
    BY DEF AInv, TypeOK
  <2>2. OwnersStay' /\ Stamped' /\ BatchIdle'
    BY DEF AInv, TypeOK, OwnersStay, Stamped, BatchIdle, AwayFor, IdleFor
  <2> QED
    BY <2>1, <2>2 DEF AInv
<1>6. CASE JobCommits
  BY <1>6, CommitStep
<1> QED
  BY <1>1, <1>2, <1>3, <1>4, <1>5, <1>6 DEF Next

(* Every step that is not a commit of the job keeps the accounts, and       *)
(* changes is_active and the run together never.                            *)
LEMMA OnlyCommits ==
  ASSUME AInv, [Next]_vars, ~JobCommits
  PROVE  present' = present /\ (job' = job \/ active' = active)
  BY DEF Next, vars, Tick, LoginLoads, LoginCommits, Suspend, Reactivate, GainsRow, LosesRow,
         JobWarns, JobSuspends, JobDeletes, JobFails, Restart

LEMMA SpecInv == Spec => []AInv
  BY InitInv, NextInv, PTL DEF Spec

(* Every variable of InactiveAccounts keeps its type. *)
THEOREM TypeCorrect == Spec => []TypeOK
<1>1. AInv => TypeOK
  BY DEF AInv
<1> QED
  BY <1>1, SpecInv, PTL

(* A machine or an override always has a user.                              *)
THEOREM Owners == Spec => []OwnersStay
<1>1. AInv => OwnersStay
  BY DEF AInv
<1> QED
  BY <1>1, SpecInv, PTL

(* An account is removed only after a committed suspension of it. *)
THEOREM Removals == Spec => RemovedWasSuspended
<1>1. AInv /\ [Next]_vars => [\A u \in present : u \notin present' => u \in suspended]_vars
  <2> SUFFICES ASSUME AInv, [Next]_vars, NEW u \in present, u \notin present'
               PROVE  u \in suspended
    OBVIOUS
  <2>1. JobCommits
    BY OnlyCommits
  <2> QED
    BY <2>1 DEF JobCommits, AInv, Stamped
<1> QED
  BY <1>1, SpecInv, PTL DEF Spec, RemovedWasSuspended

(* How far the job departs from what its warning says: it suspends or      *)
(* removes an account that was not away, for the time of a suspension or   *)
(* of both delays, only if its user has logged in since the run began.     *)
OnlyTheRunIsMissed ==
    [][\A u \in present :
           /\ job # job' /\ u \in active /\ u \in present' \ active' => AwayFor(u, SuspendAt)
           /\ u \notin present' => AwayFor(u, SuspendAt + DeleteAfter)]_vars

THEOREM Missed == Spec => OnlyTheRunIsMissed
<1> DEFINE Kept(u) == /\ job # job' /\ u \in active /\ u \in present' \ active'
                             => AwayFor(u, SuspendAt)
                      /\ u \notin present' => AwayFor(u, SuspendAt + DeleteAfter)
<1>1. AInv /\ [Next]_vars => [\A u \in present : Kept(u)]_vars
  <2> SUFFICES ASSUME AInv, [Next]_vars, NEW u \in present
               PROVE  Kept(u)
    OBVIOUS
  <2>1. CASE JobCommits
    BY <2>1 DEF JobCommits, AInv, BatchIdle
  <2>2. CASE ~JobCommits
    BY <2>2, OnlyCommits
  <2> QED
    BY <2>1, <2>2
<1> QED
  BY <1>1, SpecInv, PTL DEF Spec, OnlyTheRunIsMissed

(* An account that nobody has used is never removed, nor suspended by the  *)
(* job: its NULL satisfies no threshold, and the run began on some day.    *)
THEOREM Unused == Spec => UnusedKept
<1> DEFINE Kept(u) == /\ u \in present'
                      /\ job # job' /\ u \in active => u \in active'
<1>1. AInv /\ [Next]_vars => [\A u \in present : last[u] = 0 => Kept(u)]_vars
  <2> SUFFICES ASSUME AInv, [Next]_vars, NEW u \in present, last[u] = 0
               PROVE  Kept(u)
    OBVIOUS
  <2>1. CASE JobCommits
    <3>1. job.at # 0 /\ ~AwayFor(u, SuspendAt) /\ ~AwayFor(u, SuspendAt + DeleteAfter)
      BY <2>1 DEF JobCommits, AInv, TypeOK, Stamped, AwayFor, IdleFor
    <3> QED
      BY <2>1, <3>1 DEF JobCommits, AInv, TypeOK, BatchIdle
  <2>2. CASE ~JobCommits
    BY <2>2, OnlyCommits DEF AInv, TypeOK
  <2> QED
    BY <2>1, <2>2
<1> QED
  BY <1>1, SpecInv, PTL DEF Spec, UnusedKept
=============================================================================
