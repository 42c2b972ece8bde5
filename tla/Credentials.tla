---------------------------- MODULE Credentials ----------------------------
(***************************************************************************)
(* One account and those who hold, guess, change or reset its password.    *)
(*                                                                         *)
(* login, change-password, suspend, reactivate and reset-password run in   *)
(* the thread pool.  Each loads the User row (get_current_user and the     *)
(* handler share one session), takes some time to hash a password, and     *)
(* commits an UPDATE of the columns whose new value differs from the       *)
(* LOADED one: a column set to what it was at the load is not written.     *)
(***************************************************************************)
EXTENDS Naturals

CONSTANTS Threads,      \* requests served at the same time
          MaxAttempts,  \* settings.MAX_LOGIN_ATTEMPTS
          AlertAt,      \* settings.ADMIN_ALERT_ATTEMPTS
          Lockout,      \* settings.LOGIN_LOCKOUT_MINUTES
          MaxTime,      \* bound: the clock stops
          MaxWrong      \* bound: no more wrong passwords are tried

ASSUME CredentialsAssumption ==
    /\ MaxAttempts \in Nat \ {0} /\ AlertAt \in Nat \ {0}
    /\ Lockout \in Nat \ {0}
    /\ MaxTime \in Nat /\ MaxWrong \in Nat

VARIABLES now,
          active,    \* is_active
          count,     \* failed_login_count
          until,     \* locked_until, 0 for NULL
          password,  \* "own", or "temp" for one that was sent by e-mail
          must,      \* must_change_pwd
          alerted,   \* whether the administrators were told of the attempts
          wrong,     \* wrong passwords answered with 401, ever
          call       \* what each request has loaded

vars == <<now, active, count, until, password, must, alerted, wrong, call>>

row == <<active, count, until, password, must>>

Requests == {"wrong", "right", "change", "reset", "suspend", "reactivate"}

Idle == [pc |-> "idle", count |-> 0, until |-> 0, must |-> FALSE, active |-> FALSE]

TypeOK == /\ now \in Nat
          /\ active \in BOOLEAN
          /\ count \in Nat
          /\ until \in Nat
          /\ password \in {"own", "temp"}
          /\ must \in BOOLEAN
          /\ alerted \in BOOLEAN
          /\ wrong \in Nat
          /\ call \in [Threads -> [pc : Requests \cup {"idle"}, count : Nat, until : Nat,
                                   must : BOOLEAN, active : BOOLEAN]]

(* The account as approve_account_request or admin_create_user leaves it. *)
Init == /\ now = 0
        /\ active = TRUE
        /\ count = 0
        /\ until = 0
        /\ password = "temp"
        /\ must = TRUE
        /\ alerted = FALSE
        /\ wrong = 0
        /\ call = [t \in Threads |-> Idle]

-----------------------------------------------------------------------------
(* Loading *)

Tick == /\ now < MaxTime
        /\ now' = now + 1
        /\ UNCHANGED <<row, alerted, wrong, call>>

Loads(t, pc) ==
    /\ call[t] = Idle
    /\ call' = [call EXCEPT ![t] = [pc |-> pc, count |-> count, until |-> until,
                                    must |-> must, active |-> active]]
    /\ UNCHANGED <<now, row, alerted, wrong>>

(* An active account that is not locked; the password is then compared. *)
LoginLoads(t, pc) ==
    /\ active
    /\ until = 0 \/ now >= until
    /\ pc = "wrong" => wrong < MaxWrong
    /\ Loads(t, pc)

(* The owner of a token, who gives the right current password. *)
ChangeLoads(t) == active /\ Loads(t, "change")

(* An administrator; nothing is refused. *)
AdminLoads(t) == \E pc \in {"reset", "suspend", "reactivate"} : Loads(t, pc)

-----------------------------------------------------------------------------
(* Committing *)

Ends(t, pc) ==
    /\ call[t].pc = pc
    /\ call' = [call EXCEPT ![t] = Idle]

(* Mutant: an UPDATE of every column the handler assigns. *)
WriteAlways(column, loaded, new) == new

(* The column after an UPDATE that sets it to new, if new was not loaded.  *)
Write(column, loaded, new) == IF new = loaded THEN column ELSE new

(* Mutant: the account is locked one failure early. *)
WrongLocksEarly(t) ==
    /\ Ends(t, "wrong")
    /\ count' = call[t].count + 1
    /\ until' = IF count' >= MaxAttempts - 1 THEN now + Lockout ELSE until
    /\ alerted' = (alerted \/ count' = AlertAt)
    /\ wrong' = wrong + 1
    /\ UNCHANGED <<now, active, password, must>>

(* Mutant: the counter adds to the committed one, as an UPDATE in SQL would. *)
WrongAdds(t) ==
    /\ Ends(t, "wrong")
    /\ count' = count + 1
    /\ until' = IF count' >= MaxAttempts THEN now + Lockout ELSE until
    /\ alerted' = (alerted \/ call[t].count + 1 = AlertAt)
    /\ wrong' = wrong + 1
    /\ UNCHANGED <<now, active, password, must>>

(* Mutant: the counter counts the attempts that are left. *)
WrongCountsDown(t) ==
    /\ Ends(t, "wrong")
    /\ count' = call[t].count - 1
    /\ until' = IF wrong >= MaxAttempts THEN now + Lockout ELSE until
    /\ alerted' = (alerted \/ wrong = AlertAt)
    /\ wrong' = wrong + 1
    /\ UNCHANGED <<now, active, password, must>>

WrongCommits(t) ==
    /\ Ends(t, "wrong")
    /\ count' = call[t].count + 1
    /\ until' = IF count' >= MaxAttempts THEN now + Lockout ELSE until
    /\ alerted' = (alerted \/ count' = AlertAt)
    /\ wrong' = wrong + 1
    /\ UNCHANGED <<now, active, password, must>>

RightCommits(t) ==
    /\ Ends(t, "right")
    /\ count' = Write(count, call[t].count, 0)
    /\ until' = Write(until, call[t].until, 0)
    /\ UNCHANGED <<now, active, password, must, alerted, wrong>>

(* A new salt makes the hash always differ, must_change_pwd may not. *)
ChangeCommits(t) ==
    /\ Ends(t, "change")
    /\ password' = "own"
    /\ must' = Write(must, call[t].must, FALSE)
    /\ UNCHANGED <<now, active, count, until, alerted, wrong>>

ResetCommits(t) ==
    /\ Ends(t, "reset")
    /\ password' = "temp"
    /\ must' = Write(must, call[t].must, TRUE)
    /\ UNCHANGED <<now, active, count, until, alerted, wrong>>

SuspendCommits(t) ==
    /\ Ends(t, "suspend")
    /\ active' = Write(active, call[t].active, FALSE)
    /\ UNCHANGED <<now, count, until, password, must, alerted, wrong>>

ReactivateCommits(t) ==
    /\ Ends(t, "reactivate")
    /\ active' = Write(active, call[t].active, TRUE)
    /\ count' = Write(count, call[t].count, 0)
    /\ until' = Write(until, call[t].until, 0)
    /\ UNCHANGED <<now, password, must, alerted, wrong>>

Restart == /\ call' = [t \in Threads |-> Idle]
           /\ UNCHANGED <<now, row, alerted, wrong>>

Next == \/ Tick
        \/ \E t \in Threads :
               \/ \E pc \in {"wrong", "right"} : LoginLoads(t, pc)
               \/ ChangeLoads(t)
               \/ AdminLoads(t)
               \/ WrongCommits(t) \/ RightCommits(t)
               \/ ChangeCommits(t) \/ ResetCommits(t)
               \/ SuspendCommits(t) \/ ReactivateCommits(t)
        \/ Restart

Spec == Init /\ [][Next]_vars

-----------------------------------------------------------------------------
(* What holds *)

(* The administrators have been told of an account before its counter      *)
(* passes the threshold: the == of authenticate_user is never jumped over, *)
(* whatever updates are lost.                                              *)
AlertIsNotMissed == count >= AlertAt => alerted

(* Nobody is locked out before that many wrong passwords were tried: lost  *)
(* updates make the counter lag, never run ahead.                          *)
LockIsEarned == /\ count <= wrong
                /\ until # 0 => wrong >= MaxAttempts

(* Thread t has answered a request of one of these kinds.                  *)
Lifts(t, requests) == call[t].pc \in requests /\ call'[t] # call[t]

(* What an administrator or a series of failures has imposed while a       *)
(* request was served is not undone by it: a suspension, a lock or the     *)
(* duty to change the password is lifted only by a request that had loaded *)
(* one, for the others hold the column as they want it and do not write it. *)
LiftedWhenSeen ==
    [][/\ ~active /\ active' =>
              \E t \in Threads : Lifts(t, {"reactivate"}) /\ ~call[t].active
       /\ until # 0 /\ until' = 0 =>
              \E t \in Threads : Lifts(t, {"right", "reactivate"}) /\ call[t].until # 0
       /\ must /\ ~must' =>
              \E t \in Threads : Lifts(t, {"change"}) /\ call[t].must]_vars
=============================================================================
