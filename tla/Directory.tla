----------------------------- MODULE Directory -----------------------------
(***************************************************************************)
(* What Horizon promises about requests and users, as if every handler of  *)
(* the accounts were one step: a name is chosen and given at once, to one  *)
(* person, with a number no larger than the person's homonyms; a request   *)
(* that is there is decided, one decision may overturn another, and it     *)
(* makes one account at most.  Whoever was rejected may submit a new one.  *)
(***************************************************************************)
EXTENDS Naturals

CONSTANTS People,
          Base,    \* the username made of each person's names, before a number
          Homonyms \* how many people have each person's, the person included

VARIABLES request, \* what became of each person's request
          account, \* number of each person's username, 0 for no account
          made     \* accounts made by approving the request

dirVars == <<request, account, made>>

Alike(p) == {q \in People : Base[q] = Base[p]}

Free(p) == {n \in 1..Homonyms[p] : \A q \in Alike(p) : account[q] # n}

Init == /\ request = [p \in People |-> "none"]
        /\ account = [p \in People |-> 0]
        /\ made = [p \in People |-> 0]

Submit(p) == /\ request[p] \in {"none", "REJECTED"}
             /\ request' = [request EXCEPT ![p] = "PENDING"]
             /\ made' = [made EXCEPT ![p] = 0]
             /\ UNCHANGED account

Join(p) == /\ account[p] = 0
           /\ \E n \in Free(p) : account' = [account EXCEPT ![p] = n]

Create(p) == Join(p) /\ UNCHANGED <<request, made>>

Approve(p) == /\ request[p] \in {"PENDING", "REJECTED"} /\ made[p] = 0
              /\ Join(p)
              /\ request' = [request EXCEPT ![p] = "APPROVED"]
              /\ made' = [made EXCEPT ![p] = 1]

Reject(p) == /\ request[p] \in {"PENDING", "APPROVED"}
             /\ request' = [request EXCEPT ![p] = "REJECTED"]
             /\ UNCHANGED <<account, made>>

Remove(p) == /\ account[p] # 0
             /\ account' = [account EXCEPT ![p] = 0]
             /\ UNCHANGED <<request, made>>

Next == \E p \in People : Submit(p) \/ Create(p) \/ Approve(p) \/ Reject(p) \/ Remove(p)

Spec == Init /\ [][Next]_dirVars
=============================================================================
