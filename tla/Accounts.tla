------------------------------ MODULE Accounts ------------------------------
(***************************************************************************)
(* How a person becomes a user: the public request for an account, the     *)
(* decision of an administrator (or an account created directly), the name *)
(* the user gets and the e-mail that tells of it.                          *)
(*                                                                         *)
(* Every handler runs in the thread pool: it loads and checks, then writes *)
(* in one transaction under READ COMMITTED, then sends its e-mail.  Only   *)
(* the unique keys (e-mail of a request, e-mail and username of a user)    *)
(* stand between two handlers that have both passed their checks: the      *)
(* second insert raises IntegrityError, which no handler catches.          *)
(***************************************************************************)
EXTENDS Naturals, FiniteSets

CONSTANTS People,    \* e-mail addresses
          Base,      \* the username made of each person's names, before a number
          Threads,   \* requests served at the same time
          Nobody

ASSUME AccountsAssumption == Nobody \notin People /\ IsFiniteSet(People) /\ DOMAIN Base = People

VARIABLES request,   \* status of each person's AccountRequest row
          account,   \* number of the username of the person's User row, 0 for no row
          made,      \* accounts made by approving the person's request
          told,      \* what each person has been told
          call       \* what each handler has loaded

vars == <<request, account, made, told, call>>

Operations == {"submit", "approve", "reject", "create"}

(* Mutant: the receipt of a request is kept with the news of its decision. *)
NewsOfAll(op) == CASE op = "submit" -> {"received"}
                   [] op = "reject" -> {"rejected"}
                   [] OTHER -> {"credentials"}

(* What the e-mail after the commit tells; a receipt tells of no decision. *)
News(op) == CASE op = "submit" -> {}
              [] op = "reject" -> {"rejected"}
              [] OTHER -> {"credentials"}

Idle == [pc |-> "idle", op |-> "submit", who |-> Nobody, number |-> 0]

TypeOK == /\ request \in [People -> {"none", "PENDING", "APPROVED", "REJECTED"}]
          /\ account \in [People -> Nat]
          /\ made \in [People -> Nat]
          /\ told \in [People -> SUBSET {"rejected", "credentials"}]
          /\ call \in [Threads -> [pc : {"idle", "loaded", "committed"}, op : Operations,
                                   who : People \cup {Nobody}, number : Nat]]

Init == /\ request = [p \in People |-> "none"]
        /\ account = [p \in People |-> 0]
        /\ made = [p \in People |-> 0]
        /\ told = [p \in People |-> {}]
        /\ call = [t \in Threads |-> Idle]

-----------------------------------------------------------------------------
(* Names: base, base1, base2... are the numbers 1, 2, 3... of one base.    *)
(* _generate_username keeps digits: "a.dup1" is a base and the second      *)
(* name of "a.dup".  Names are taken to carry no digit; the unique key     *)
(* does not depend on it, that a number stays within the homonyms does.    *)

Numbers(b) == {account[q] : q \in {q \in People : Base[q] = b}} \ {0}

(* The first name nobody has, as the set that holds its number. *)
FirstFree(b) == {n \in 1..(Cardinality(Numbers(b)) + 1) :
                    n \notin Numbers(b) /\ 1..(n - 1) \subseteq Numbers(b)}

-----------------------------------------------------------------------------
(* Loading and checking *)

Loads(t, op, p, n) ==
    /\ call[t] = Idle
    /\ call' = [call EXCEPT ![t] = [pc |-> "loaded", op |-> op, who |-> p, number |-> n]]
    /\ UNCHANGED <<request, account, made, told>>

(* A request of the same e-mail, whatever became of it, refuses another. *)
SubmitLoads(t, p) == request[p] = "none" /\ Loads(t, "submit", p, 0)

(* Mutant: the status of the request is not looked at. *)
ApproveLoadsAny(t, p) ==
    /\ request[p] # "none"
    /\ account[p] = 0
    /\ \E n \in FirstFree(Base[p]) : Loads(t, "approve", p, n)

ApproveLoads(t, p) ==
    /\ request[p] = "PENDING"
    /\ account[p] = 0
    /\ \E n \in FirstFree(Base[p]) : Loads(t, "approve", p, n)

RejectLoads(t, p) == request[p] = "PENDING" /\ Loads(t, "reject", p, 0)

CreateLoads(t, p) ==
    /\ account[p] = 0
    /\ \E n \in FirstFree(Base[p]) : Loads(t, "create", p, n)

-----------------------------------------------------------------------------
(* Committing *)

(* Mutant: a User row of the same e-mail or username does not conflict. *)
NeverClashes(t) == call[t].op = "submit" /\ request[call[t].who] # "none"

(* A unique key that another transaction has taken since. *)
Clashes(t) ==
    LET p == call[t].who
    IN  \/ call[t].op = "submit" /\ request[p] # "none"
        \/ /\ call[t].op \in {"approve", "create"}
           /\ \/ account[p] # 0
              \/ call[t].number \in Numbers(Base[p])

Committed(t) == call' = [call EXCEPT ![t].pc = "committed"]

SubmitCommits(t) ==
    /\ call[t].pc = "loaded" /\ call[t].op = "submit" /\ ~Clashes(t)
    /\ request' = [request EXCEPT ![call[t].who] = "PENDING"]
    /\ Committed(t)
    /\ UNCHANGED <<account, made, told>>

(* The user and the status of the request, in one transaction. *)
ApproveCommits(t) ==
    /\ call[t].pc = "loaded" /\ call[t].op = "approve" /\ ~Clashes(t)
    /\ account' = [account EXCEPT ![call[t].who] = call[t].number]
    /\ request' = [request EXCEPT ![call[t].who] = "APPROVED"]
    /\ made' = [made EXCEPT ![call[t].who] = @ + 1]
    /\ Committed(t)
    /\ UNCHANGED <<told>>

RejectCommits(t) ==
    /\ call[t].pc = "loaded" /\ call[t].op = "reject"
    /\ request' = [request EXCEPT ![call[t].who] = "REJECTED"]
    /\ Committed(t)
    /\ UNCHANGED <<account, made, told>>

CreateCommits(t) ==
    /\ call[t].pc = "loaded" /\ call[t].op = "create" /\ ~Clashes(t)
    /\ account' = [account EXCEPT ![call[t].who] = call[t].number]
    /\ Committed(t)
    /\ UNCHANGED <<request, made, told>>

Crashes(t) ==
    /\ call[t].pc = "loaded" /\ Clashes(t)
    /\ call' = [call EXCEPT ![t] = Idle]
    /\ UNCHANGED <<request, account, made, told>>

-----------------------------------------------------------------------------
(* After the commit *)

(* Mutant: the e-mail leaves before the commit. *)
MailsFirst(t) ==
    /\ call[t].pc # "idle"
    /\ told' = [told EXCEPT ![call[t].who] = @ \cup News(call[t].op)]
    /\ call' = [call EXCEPT ![t] = Idle]
    /\ UNCHANGED <<request, account, made>>

Mails(t) ==
    /\ call[t].pc = "committed"
    /\ told' = [told EXCEPT ![call[t].who] = @ \cup News(call[t].op)]
    /\ call' = [call EXCEPT ![t] = Idle]
    /\ UNCHANGED <<request, account, made>>

(* _send_smtp logs the failure of the server and forgets the e-mail. *)
MailIsLost(t) ==
    /\ call[t].pc = "committed"
    /\ call' = [call EXCEPT ![t] = Idle]
    /\ UNCHANGED <<request, account, made, told>>

(* task_handle_inactive_accounts, months after the last request on p. *)
Remove(p) ==
    /\ account[p] # 0
    /\ \A t \in Threads : call[t].who # p
    /\ account' = [account EXCEPT ![p] = 0]
    /\ UNCHANGED <<request, made, told, call>>

Restart ==
    /\ call' = [t \in Threads |-> Idle]
    /\ UNCHANGED <<request, account, made, told>>

Commits(t) == SubmitCommits(t) \/ ApproveCommits(t) \/ RejectCommits(t) \/ CreateCommits(t)

Next == \/ \E t \in Threads, p \in People :
               SubmitLoads(t, p) \/ ApproveLoads(t, p) \/ RejectLoads(t, p) \/ CreateLoads(t, p)
        \/ \E p \in People : Remove(p)
        \/ \E t \in Threads : Commits(t) \/ Crashes(t) \/ Mails(t) \/ MailIsLost(t)
        \/ Restart

Spec == Init /\ [][Next]_vars

-----------------------------------------------------------------------------
(* What holds *)

(* How many people get the same name before its number. *)
Homonyms == [p \in People |-> Cardinality({q \in People : Base[q] = Base[p]})]

(* Usernames are not shared, although _generate_username only looks at the *)
(* names committed when it runs, and their numbers do not run away: there  *)
(* are never more than there are people of the same base.                  *)
UsernamesFit ==
    \A p \in People : account[p] # 0 =>
        /\ \A q \in People : Base[q] = Base[p] /\ account[q] = account[p] => q = p
        /\ account[p] <= Homonyms[p]

(* The handlers that load, check and insert are together as good as atomic *)
(* ones: names are given to one person at once, a request is decided only  *)
(* when it is there and makes one account in its life, even if the account *)
(* is removed later, and the one thing an overlap does is to overturn a    *)
(* decision.  Directory also lets a rejected person submit again, as the   *)
(* e-mail of a rejection offers; submit_account_request never does.        *)
Users == INSTANCE Directory
DirectorySpec == Users!Spec

(* Credentials only go to someone who has an account when they leave.      *)
(* Nothing like it holds of the e-mail that says a request could not be    *)
(* approved: an overlapping approval may have been committed since.        *)
NewsIsTrue ==
    [][\A p \in People : "credentials" \in told'[p] \ told[p] => account[p] # 0]_vars
=============================================================================
