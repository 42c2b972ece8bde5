-------------------------- MODULE InactiveAccounts --------------------------
(***************************************************************************)
(* task_handle_inactive_accounts, and what happens to the accounts while   *)
(* it runs.  The job makes three queries, each with a snapshot of its own, *)
(* sends an e-mail (a connection to an SMTP server) for each user of the   *)
(* first two, and commits everything at its end; its session does not      *)
(* flush before that (autoflush=False).  Deleting a User row makes the ORM *)
(* write NULL over the owner of its virtual machines and quota override,   *)
(* which NOT NULL refuses: the whole run is then rolled back.              *)
(* The clock counts days.                                                  *)
(***************************************************************************)
EXTENDS Naturals

CONSTANTS Users,
          Holders,     \* users who were granted a quota override; none is ever revoked
          SuspendAt,   \* settings.INACTIVITY_SUSPENSION_DAYS
          DeleteAfter, \* settings.DELETION_AFTER_SUSPENSION_DAYS
          MaxTime      \* bound: the clock stops

ASSUME InactiveAssumption ==
    /\ Holders \subseteq Users
    /\ SuspendAt \in Nat /\ DeleteAfter \in Nat /\ MaxTime \in Nat

VARIABLES now,
          present,    \* users that have a User row
          active,     \* users with is_active
          last,       \* last_login_at, 0 for NULL
          owns,       \* users that a virtual machine or an override refers to
          login,      \* users whose login has loaded the row and not committed
          suspended,  \* users whose suspension was committed once (history)
          job         \* the run of the job in progress

vars == <<now, present, active, last, owns, login, suspended, job>>

Idle == [pc |-> "idle", at |-> 0, suspend |-> {}, delete |-> {}]

TypeOK == /\ now \in Nat
          /\ present \subseteq Users
          /\ active \subseteq present
          /\ last \in [Users -> Nat]
          /\ owns \subseteq Users
          /\ login \subseteq Users
          /\ suspended \subseteq Users
          /\ job \in [pc : {"idle", "warned", "suspended", "deleting"}, at : Nat,
                      suspend : SUBSET Users, delete : SUBSET Users]

Init == /\ now = 1
        /\ present = Users
        /\ active = Users
        /\ last \in [Users -> {0, 1}]
        /\ owns = Holders
        /\ login = {}
        /\ suspended = {}
        /\ job = Idle

-----------------------------------------------------------------------------
(* The users and the administrators *)

Tick == /\ now < MaxTime
        /\ now' = now + 1
        /\ UNCHANGED <<present, active, last, owns, login, suspended, job>>

LoginLoads(u) ==
    /\ u \in active
    /\ login' = login \cup {u}
    /\ UNCHANGED <<now, present, active, last, owns, suspended, job>>

(* The row is written without looking at is_active again; the UPDATE of a  *)
(* row that is gone raises StaleDataError.                                 *)
LoginCommits(u) ==
    /\ u \in login
    /\ login' = login \ {u}
    /\ last' = IF u \in present THEN [last EXCEPT ![u] = now] ELSE last
    /\ UNCHANGED <<now, present, active, owns, suspended, job>>

Suspend(u) ==
    /\ u \in active
    /\ active' = active \ {u}
    /\ suspended' = suspended \cup {u}
    /\ UNCHANGED <<now, present, last, owns, login, job>>

Reactivate(u) ==
    /\ u \in present \ active
    /\ active' = active \cup {u}
    /\ UNCHANGED <<now, present, last, owns, login, suspended, job>>

(* A user creates a machine with a token, which is good for an hour.       *)
GainsRow(u) ==
    /\ u \in active \ owns
    /\ last[u] = now
    /\ owns' = owns \cup {u}
    /\ UNCHANGED <<now, present, active, last, login, suspended, job>>

(* The last machine of a user is deleted, by the user or by the jobs.      *)
LosesRow(u) ==
    /\ u \in owns \ Holders
    /\ owns' = owns \ {u}
    /\ UNCHANGED <<now, present, active, last, login, suspended, job>>

-----------------------------------------------------------------------------
(* The job: last_login_at <= now - d, which a NULL does not satisfy *)

(* Mutant: a NULL counts as the oldest date of all. *)
IdleOrUnused(u, d, at) == last[u] + d <= at

IdleFor(u, d, at) == last[u] # 0 /\ last[u] + d <= at

(* The first query and its e-mails: the run has begun. *)
JobWarns ==
    /\ job.pc = "idle"
    /\ job' = [Idle EXCEPT !.pc = "warned", !.at = now]
    /\ UNCHANGED <<now, present, active, last, owns, login, suspended>>

(* Mutant: the query has the upper bound that the warning's query has. *)
JobSuspendsInWindow ==
    /\ job.pc = "warned"
    /\ job' = [job EXCEPT !.pc = "suspended",
                          !.suspend = {u \in active :
                                          /\ IdleFor(u, SuspendAt, job.at)
                                          /\ ~IdleFor(u, SuspendAt + DeleteAfter, job.at)}]
    /\ UNCHANGED <<now, present, active, last, owns, login, suspended>>

(* The second query, whose users are told before anything is written. *)
JobSuspends ==
    /\ job.pc = "warned"
    /\ job' = [job EXCEPT !.pc = "suspended",
                          !.suspend = {u \in active : IdleFor(u, SuspendAt, job.at)}]
    /\ UNCHANGED <<now, present, active, last, owns, login, suspended>>

(* Mutant: the session flushes before its query. *)
JobDeletesAll ==
    /\ job.pc = "suspended"
    /\ job' = [job EXCEPT !.pc = "deleting",
                          !.delete = {u \in (present \ active) \cup job.suspend :
                                         IdleFor(u, SuspendAt + DeleteAfter, job.at)}]
    /\ UNCHANGED <<now, present, active, last, owns, login, suspended>>

JobDeletes ==
    /\ job.pc = "suspended"
    /\ job' = [job EXCEPT !.pc = "deleting",
                          !.delete = {u \in present \ active :
                                         IdleFor(u, SuspendAt + DeleteAfter, job.at)}]
    /\ UNCHANGED <<now, present, active, last, owns, login, suspended>>

(* Mutant: an account that was reactivated since outlives its row. *)
JobCommitsBack ==
    /\ job.pc = "deleting"
    /\ job.delete \cap owns = {}
    /\ present' = present \ job.delete
    /\ active' = active \ job.suspend
    /\ suspended' = suspended \cup ((job.suspend \cap active) \ job.delete)
    /\ job' = Idle
    /\ UNCHANGED <<now, last, owns, login>>

JobCommits ==
    /\ job.pc = "deleting"
    /\ job.delete \cap owns = {}
    /\ present' = present \ job.delete
    /\ active' = active \ (job.suspend \cup job.delete)
    /\ suspended' = suspended \cup ((job.suspend \cap active) \ job.delete)
    /\ job' = Idle
    /\ UNCHANGED <<now, last, owns, login>>

(* IntegrityError: everything the run has done is rolled back. *)
JobFails ==
    /\ job.pc = "deleting"
    /\ job.delete \cap owns # {}
    /\ job' = Idle
    /\ UNCHANGED <<now, present, active, last, owns, login, suspended>>

Restart == /\ login' = {}
           /\ job' = Idle
           /\ UNCHANGED <<now, present, active, last, owns, suspended>>

Next == \/ Tick
        \/ \E u \in Users : \/ LoginLoads(u) \/ LoginCommits(u)
                            \/ Suspend(u) \/ Reactivate(u)
                            \/ GainsRow(u) \/ LosesRow(u)
        \/ JobWarns \/ JobSuspends \/ JobDeletes \/ JobCommits \/ JobFails
        \/ Restart

Spec == Init /\ [][Next]_vars

(* The job runs to its end again and again, and the machines of a user who *)
(* does not come back are deleted one day.                                 *)
FairSpec == /\ Spec
            /\ WF_vars(JobWarns) /\ SF_vars(JobSuspends) /\ SF_vars(JobDeletes)
            /\ SF_vars(JobCommits) /\ WF_vars(JobFails)
            /\ \A u \in Users : WF_vars(LosesRow(u))

-----------------------------------------------------------------------------
(* What holds *)

(* An account is removed only if a suspension of it was committed before   *)
(* the removal: the suspensions that the removing run has pending are not  *)
(* seen by its third query, so that no run suspends and removes an account *)
(* at once.  The suspension may be an administrator's of the same minute:  *)
(* the code keeps no date of it to compare with DeleteAfter.               *)
RemovedWasSuspended == [][\A u \in present : u \notin present' => u \in suspended]_vars

(* An account that nobody has used yet, whose last_login_at is NULL, is    *)
(* never removed, nor suspended by the job, however long it waits.         *)
UnusedKept ==
    [][\A u \in present : last[u] = 0
           => /\ u \in present'
              /\ job # job' /\ u \in active => u \in active']_vars

(* A user away for long enough is suspended in the end, or has come back.  *)
IdleIsSuspended ==
    \A u \in Users : u \in active /\ IdleFor(u, SuspendAt, now)
                     ~> (u \notin active \/ ~IdleFor(u, SuspendAt, now))

-----------------------------------------------------------------------------
(* What the documents promise and the code does not *)

(* The warning of the job says that an account is suspended if no login is *)
(* detected.  The job suspends from a batch that is older than the e-mails *)
(* it sends for it, and overrides the login of a user of the batch.        *)
SuspendedWereIdle ==
    [][\A u \in active : job # job' /\ u \in present' \ active'
           => IdleFor(u, SuspendAt, now)]_vars

=============================================================================
