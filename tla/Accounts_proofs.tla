-------------------------- MODULE Accounts_proofs --------------------------
(***************************************************************************)
(* Proofs about Accounts, for every finite set of people and every set of  *)
(* threads.                                                                *)
(***************************************************************************)
EXTENDS Accounts, FiniteSetTheorems, TLAPS

(* A handler about to insert a user has a number within the homonyms.      *)
NumbersLoaded == \A t \in Threads :
    /\ call[t].pc # "idle" => call[t].who \in People
    /\ call[t].pc = "loaded" /\ call[t].op \in {"approve", "create"} =>
           call[t].number \in 1..Homonyms[call[t].who]

(* A decision in flight is about a request that is there, and an APPROVED  *)
(* one has made its account.                                               *)
Decided == /\ \A t \in Threads : call[t].pc = "loaded" /\ call[t].op \in {"approve", "reject"}
                  => request[call[t].who] # "none"
           /\ \A p \in People : request[p] = "APPROVED" => made[p] # 0

(* A request makes one account in its life, even if the account is removed *)
(* later, and none before it is decided.                                   *)
RequestMakesOne ==
    \A p \in People : /\ made[p] <= 1
                      /\ request[p] \in {"none", "PENDING"} => made[p] = 0

(* While an approval waits to commit, an account the request has already   *)
(* made still exists, and will make it clash.                              *)
ApprovalsClash == \A t \in Threads :
    call[t].pc = "loaded" /\ call[t].op = "approve" /\ made[call[t].who] # 0 =>
        account[call[t].who] # 0

AInv == TypeOK /\ NumbersLoaded /\ ApprovalsClash /\ UsernamesFit /\ RequestMakesOne

USE DEF Operations

(* Someone without an account finds a free number within the homonyms.     *)
LEMMA FreeNumber ==
    ASSUME TypeOK, NEW p \in People, account[p] = 0, NEW n \in FirstFree(Base[p])
    PROVE  n \in 1..Homonyms[p]
<1> DEFINE Alike == {q \in People : Base[q] = Base[p]}
           Named == {q \in Alike : account[q] # 0}
           name == [q \in Named |-> account[q]]
<1>1. IsFiniteSet(Alike) /\ IsFiniteSet(Named)
  BY FS_Subset, AccountsAssumption
<1>2. p \in Alike /\ p \notin Named /\ Named \subseteq Alike \ {p}
  OBVIOUS
<1>3. Cardinality(Alike \ {p}) = Homonyms[p] - 1
  BY <1>1, <1>2, FS_RemoveElement DEF Homonyms
<1>4. IsFiniteSet(Alike \ {p}) /\ Homonyms[p] \in Nat
  BY <1>1, FS_RemoveElement, FS_CardinalityType DEF Homonyms
<1>5. Cardinality(Named) <= Homonyms[p] - 1
  BY <1>2, <1>3, <1>4, FS_Subset
<1>6. Numbers(Base[p]) = {name[q] : q \in Named}
  BY DEF Numbers
<1>7. name \in Surjection(Named, {name[q] : q \in Named})
  BY DEF Surjection
<1>8. /\ IsFiniteSet(Numbers(Base[p]))
      /\ Cardinality(Numbers(Base[p])) <= Cardinality(Named)
  BY <1>1, <1>6, <1>7, FS_Surjection
<1>9. /\ Cardinality(Numbers(Base[p])) \in Nat /\ Cardinality(Named) \in Nat
  BY <1>1, <1>8, FS_CardinalityType
<1> QED
  BY <1>4, <1>5, <1>8, <1>9 DEF FirstFree

LEMMA TypeStep == AInv /\ [Next]_vars => TypeOK'
<1> SUFFICES ASSUME AInv, [Next]_vars PROVE TypeOK'
  OBVIOUS
<1> USE DEF AInv, TypeOK
<1>1. ASSUME NEW t \in Threads, NEW p \in People, NEW op \in Operations, NEW n \in Nat,
             Loads(t, op, p, n)
      PROVE  TypeOK'
  BY <1>1 DEF Loads
<1>2. ASSUME NEW t \in Threads, NEW p \in People,
             SubmitLoads(t, p) \/ ApproveLoads(t, p) \/ RejectLoads(t, p) \/ CreateLoads(t, p)
      PROVE  TypeOK'
  <2>1. \A n \in FirstFree(Base[p]) : account[p] = 0 => n \in Nat
    BY FreeNumber DEF FirstFree
  <2> QED
    BY <1>1, <1>2, <2>1 DEF SubmitLoads, ApproveLoads, RejectLoads, CreateLoads
<1>3. ASSUME NEW t \in Threads, Commits(t) PROVE TypeOK'
  <2> USE DEF Committed, NumbersLoaded
  <2> QED
    BY <1>3 DEF Commits, SubmitCommits, ApproveCommits, RejectCommits, CreateCommits
<1>4. ASSUME NEW t \in Threads, Crashes(t) \/ Mails(t) \/ MailIsLost(t) PROVE TypeOK'
  <2>1. News(call[t].op) \subseteq {"rejected", "credentials"}
    BY DEF News
  <2>2. call' = [call EXCEPT ![t] = Idle]
    BY <1>4 DEF Crashes, Mails, MailIsLost
  <2>3. call' \in [Threads -> [pc : {"idle", "loaded", "committed"}, op : Operations,
                              who : People \cup {Nobody}, number : Nat]]
    BY <2>2 DEF Idle
  <2>4. told' \in [People -> SUBSET {"rejected", "credentials"}]
    BY <1>4, <2>1 DEF Crashes, Mails, MailIsLost, NumbersLoaded
  <2>5. UNCHANGED <<request, account, made>>
    BY <1>4 DEF Crashes, Mails, MailIsLost
  <2> QED
    BY <2>3, <2>4, <2>5
<1>5. ASSUME NEW p \in People, Remove(p) PROVE TypeOK'
  BY <1>5 DEF Remove
<1>6. CASE Restart \/ UNCHANGED vars
  BY <1>6 DEF Restart, Idle, vars
<1> QED
  BY <1>2, <1>3, <1>4, <1>5, <1>6 DEF Next

LEMMA InvInit == Init => AInv
<1> SUFFICES ASSUME Init PROVE AInv
  OBVIOUS
<1>1. TypeOK
  BY DEF Init, TypeOK, Idle
<1>2. NumbersLoaded /\ ApprovalsClash
  BY DEF Init, NumbersLoaded, ApprovalsClash, Idle
<1>3. UsernamesFit /\ RequestMakesOne
  BY DEF Init, UsernamesFit, RequestMakesOne
<1> QED
  BY <1>1, <1>2, <1>3 DEF AInv

(* A handler's checks hold when it loads. *)
LEMMA LoadStep ==
    ASSUME AInv, TypeOK', NEW t \in Threads, NEW p \in People, NEW op \in Operations,
           NEW n \in Nat, Loads(t, op, p, n),
           op \in {"approve", "create"} => n \in 1..Homonyms[p],
           op = "approve" => made[p] = 0
    PROVE  AInv'
<1> USE DEF AInv, TypeOK, Loads
<1>1. NumbersLoaded'
  BY DEF NumbersLoaded
<1>2. ApprovalsClash'
  BY DEF ApprovalsClash
<1>3. UsernamesFit' /\ RequestMakesOne'
  BY DEF UsernamesFit, RequestMakesOne
<1> QED
  BY <1>1, <1>2, <1>3

(* A user is inserted under a name nobody has, within the homonyms.        *)
LEMMA InsertFits ==
    ASSUME AInv, NEW p \in People, NEW n \in 1..Homonyms[p], n \notin Numbers(Base[p]),
           account' = [account EXCEPT ![p] = n]
    PROVE  UsernamesFit'
<1> USE DEF AInv, TypeOK
<1>1. \A q \in People : Base[q] = Base[p] => account[q] # n
  BY DEF Numbers
<1> QED
  BY <1>1 DEF UsernamesFit

LEMMA CommitStep ==
    ASSUME AInv, TypeOK', NEW t \in Threads, Commits(t)
    PROVE  AInv'
<1> USE DEF AInv, TypeOK, Committed
<1>1. PICK p \in People : p = call[t].who
  BY DEF Commits, SubmitCommits, ApproveCommits, RejectCommits, CreateCommits, NumbersLoaded
<1>2. NumbersLoaded'
  BY DEF Commits, SubmitCommits, ApproveCommits, RejectCommits, CreateCommits, NumbersLoaded
<1>3. CASE SubmitCommits(t)
  <2>1. UsernamesFit'
    BY <1>3 DEF SubmitCommits, UsernamesFit
  <2>2. request[p] = "none"
    BY <1>1, <1>3 DEF SubmitCommits, Clashes
  <2>3. request' = [request EXCEPT ![p] = "PENDING"] /\ made' = made
    BY <1>1, <1>3 DEF SubmitCommits
  <2>4. RequestMakesOne'
    BY <2>2, <2>3 DEF RequestMakesOne
  <2>5. ApprovalsClash'
    BY <1>1, <1>3, <2>2, <2>3 DEF SubmitCommits, ApprovalsClash, RequestMakesOne
  <2> QED
    BY <1>2, <2>1, <2>4, <2>5
<1>6. CASE RejectCommits(t)
  <2>1. UsernamesFit'
    BY <1>6 DEF RejectCommits, UsernamesFit
  <2>2. request' = [request EXCEPT ![p] = "REJECTED"] /\ made' = made
    BY <1>1, <1>6 DEF RejectCommits
  <2>3. RequestMakesOne'
    BY <2>2 DEF RequestMakesOne
  <2>4. ApprovalsClash'
    BY <1>1, <1>6, <2>2 DEF RejectCommits, ApprovalsClash
  <2> QED
    BY <1>2, <2>1, <2>3, <2>4
<1>4. CASE ApproveCommits(t)
  <2>1. UsernamesFit'
    BY <1>1, <1>4, InsertFits DEF ApproveCommits, Clashes, NumbersLoaded
  <2>2. made[p] = 0
    BY <1>1, <1>4 DEF ApproveCommits, Clashes, ApprovalsClash
  <2>3. call[t].number # 0
    BY <1>4 DEF ApproveCommits, NumbersLoaded
  <2>4. ApprovalsClash'
    BY <1>1, <1>4, <2>3 DEF ApproveCommits, ApprovalsClash
  <2>5. RequestMakesOne'
    BY <1>1, <1>4, <2>2 DEF ApproveCommits, RequestMakesOne
  <2> QED
    BY <1>2, <2>1, <2>4, <2>5
<1>5. CASE CreateCommits(t)
  <2>1. UsernamesFit'
    BY <1>1, <1>5, InsertFits DEF CreateCommits, Clashes, NumbersLoaded
  <2>2. call[t].number # 0
    BY <1>5 DEF CreateCommits, NumbersLoaded
  <2>3. ApprovalsClash' /\ RequestMakesOne'
    BY <1>1, <1>5, <2>2 DEF CreateCommits, ApprovalsClash, RequestMakesOne
  <2> QED
    BY <1>2, <2>1, <2>3
<1> QED
  BY <1>3, <1>4, <1>5, <1>6 DEF Commits

LEMMA InvStep == AInv /\ [Next]_vars => AInv'
<1> SUFFICES ASSUME AInv, [Next]_vars PROVE AInv'
  OBVIOUS
<1>0. TypeOK'
  BY TypeStep
<1>1. ASSUME NEW t \in Threads, NEW p \in People,
             SubmitLoads(t, p) \/ ApproveLoads(t, p) \/ RejectLoads(t, p) \/ CreateLoads(t, p)
      PROVE  AInv'
  <2>1. \A n \in FirstFree(Base[p]) : account[p] = 0 => n \in Nat /\ n \in 1..Homonyms[p]
    BY FreeNumber DEF AInv, FirstFree
  <2>2. CASE SubmitLoads(t, p) \/ RejectLoads(t, p)
    BY <1>0, <2>2, LoadStep DEF SubmitLoads, RejectLoads
  <2>3. CASE ApproveLoads(t, p)
    <3>1. made[p] = 0
      BY <2>3 DEF ApproveLoads, AInv, RequestMakesOne
    <3> QED
      BY <1>0, <2>1, <2>3, <3>1, LoadStep DEF ApproveLoads
  <2>4. CASE CreateLoads(t, p)
    BY <1>0, <2>1, <2>4, LoadStep DEF CreateLoads
  <2> QED
    BY <1>1, <2>2, <2>3, <2>4
<1>2. ASSUME NEW t \in Threads, Commits(t) PROVE AInv'
  BY <1>0, <1>2, CommitStep
<1>3. ASSUME NEW t \in Threads, Crashes(t) \/ Mails(t) \/ MailIsLost(t) PROVE AInv'
  BY <1>0, <1>3 DEF Crashes, Mails, MailIsLost, Idle, AInv, TypeOK, NumbersLoaded,
     ApprovalsClash, UsernamesFit, RequestMakesOne
<1>4. ASSUME NEW p \in People, Remove(p) PROVE AInv'
  BY <1>0, <1>4 DEF Remove, AInv, TypeOK, NumbersLoaded, ApprovalsClash,
     UsernamesFit, RequestMakesOne
<1>5. CASE Restart \/ UNCHANGED vars
  BY <1>0, <1>5 DEF Restart, Idle, vars, AInv, TypeOK, NumbersLoaded, ApprovalsClash,
     UsernamesFit, RequestMakesOne
<1> QED
  BY <1>1, <1>2, <1>3, <1>4, <1>5 DEF Next

LEMMA Invariant == Spec => []AInv
  BY InvInit, InvStep, PTL DEF Spec

(* Every variable of Accounts keeps its type. *)
THEOREM TypeCorrect == Spec => []TypeOK
<1>1. AInv => TypeOK
  BY DEF AInv
<1> QED
  BY <1>1, Invariant, PTL

(* Two users never share a username and its number never exceeds the count *)
(* of people with the same names, although _generate_username and the      *)
(* insert are not atomic.                                                  *)
THEOREM Usernames == Spec => []UsernamesFit
<1>1. AInv => UsernamesFit
  BY DEF AInv
<1> QED
  BY <1>1, Invariant, PTL

(* A request makes at most one account, however approvals overlap, and     *)
(* none while it is PENDING.                                               *)
THEOREM OneAccount == Spec => []RequestMakesOne
<1>1. AInv => RequestMakesOne
  BY DEF AInv
<1> QED
  BY <1>1, Invariant, PTL

(* A handler that has committed an account still finds it when it sends    *)
(* its e-mail.                                                             *)
WorkIsThere == \A t \in Threads :
    call[t].pc = "committed" /\ call[t].op \in {"approve", "create"} => account[call[t].who] # 0

LEMMA WorkStep == AInv /\ WorkIsThere /\ [Next]_vars => WorkIsThere'
<1> SUFFICES ASSUME AInv, WorkIsThere, [Next]_vars PROVE WorkIsThere'
  OBVIOUS
<1> USE DEF AInv, TypeOK, NumbersLoaded, WorkIsThere
<1>1. ASSUME NEW t \in Threads, NEW p \in People,
             SubmitLoads(t, p) \/ ApproveLoads(t, p) \/ RejectLoads(t, p) \/ CreateLoads(t, p)
      PROVE  WorkIsThere'
  BY <1>1 DEF SubmitLoads, ApproveLoads, RejectLoads, CreateLoads, Loads
<1>2. ASSUME NEW t \in Threads, SubmitCommits(t) PROVE WorkIsThere'
  BY <1>2 DEF SubmitCommits, Committed, Clashes
<1>3. ASSUME NEW t \in Threads, ApproveCommits(t) PROVE WorkIsThere'
  BY <1>3 DEF ApproveCommits, Committed
<1>4. ASSUME NEW t \in Threads, RejectCommits(t) PROVE WorkIsThere'
  BY <1>4 DEF RejectCommits, Committed
<1>5. ASSUME NEW t \in Threads, CreateCommits(t) PROVE WorkIsThere'
  BY <1>5 DEF CreateCommits, Committed
<1>6. ASSUME NEW t \in Threads, Crashes(t) \/ Mails(t) \/ MailIsLost(t) PROVE WorkIsThere'
  BY <1>6 DEF Crashes, Mails, MailIsLost, Idle
<1>7. ASSUME NEW p \in People, Remove(p) PROVE WorkIsThere'
  BY <1>7 DEF Remove
<1>8. CASE Restart \/ UNCHANGED vars
  BY <1>8 DEF Restart, Idle, vars
<1> QED
  BY <1>1, <1>2, <1>3, <1>4, <1>5, <1>6, <1>7, <1>8 DEF Next, Commits

(* Nobody gets credentials without an account, whatever else overlaps the  *)
(* decision and however long the e-mail takes.                             *)
THEOREM TrueNews == Spec => NewsIsTrue
<1> DEFINE A == \A p \in People : "credentials" \in told'[p] \ told[p] => account[p] # 0
<1>1. Init => WorkIsThere
  BY DEF Init, WorkIsThere, Idle
<1>2. AInv /\ WorkIsThere /\ [Next]_vars => [A]_vars
  <2> SUFFICES ASSUME AInv, WorkIsThere, [Next]_vars, NEW p \in People,
                      "credentials" \in told'[p] \ told[p]
               PROVE  account[p] # 0
    OBVIOUS
  <2>1. PICK t \in Threads : Mails(t)
    BY DEF Next, vars, Commits, SubmitLoads, ApproveLoads, RejectLoads, CreateLoads, Loads,
           SubmitCommits, ApproveCommits, RejectCommits, CreateCommits, Crashes, MailIsLost,
           Remove, Restart
  <2>2. call[t].who = p /\ told'[p] \ told[p] \subseteq News(call[t].op)
    BY <2>1 DEF Mails, AInv, TypeOK, NumbersLoaded
  <2>3. call[t].op \in Operations
    BY DEF AInv, TypeOK
  <2> QED
    BY <2>1, <2>2, <2>3 DEF Mails, News, WorkIsThere, Operations
<1> QED
  BY <1>1, <1>2, WorkStep, Invariant, PTL DEF Spec, NewsIsTrue

-----------------------------------------------------------------------------
(* Refinement of Directory: a commit is the atomic operation, everything    *)
(* else a stutter.                                                          *)

LEMMA DecidedStep == AInv /\ Decided /\ [Next]_vars => Decided'
<1> SUFFICES ASSUME AInv, Decided, [Next]_vars PROVE Decided'
  OBVIOUS
<1> USE DEF AInv, TypeOK, NumbersLoaded, Decided
<1>1. ASSUME NEW t \in Threads, NEW p \in People,
             SubmitLoads(t, p) \/ ApproveLoads(t, p) \/ RejectLoads(t, p) \/ CreateLoads(t, p)
      PROVE  Decided'
  BY <1>1 DEF SubmitLoads, ApproveLoads, RejectLoads, CreateLoads, Loads
<1>2. ASSUME NEW t \in Threads, SubmitCommits(t) PROVE Decided'
  BY <1>2 DEF SubmitCommits, Committed
<1>3. ASSUME NEW t \in Threads, ApproveCommits(t) PROVE Decided'
  BY <1>3 DEF ApproveCommits, Committed
<1>4. ASSUME NEW t \in Threads, RejectCommits(t) PROVE Decided'
  BY <1>4 DEF RejectCommits, Committed
<1>5. ASSUME NEW t \in Threads, CreateCommits(t) PROVE Decided'
  BY <1>5 DEF CreateCommits, Committed
<1>6. ASSUME NEW t \in Threads, Crashes(t) \/ Mails(t) \/ MailIsLost(t) PROVE Decided'
  BY <1>6 DEF Crashes, Mails, MailIsLost, Idle
<1>7. ASSUME NEW p \in People, Remove(p) PROVE Decided'
  BY <1>7 DEF Remove
<1>8. CASE Restart \/ UNCHANGED vars
  BY <1>8 DEF Restart, Idle, vars
<1> QED
  BY <1>1, <1>2, <1>3, <1>4, <1>5, <1>6, <1>7, <1>8 DEF Next, Commits

(* A name that does not clash at the commit is a free one of the Directory. *)
LEMMA JoinStep ==
  ASSUME AInv, NEW t \in Threads, NEW p \in People, p = call[t].who,
         call[t].pc = "loaded", call[t].op \in {"approve", "create"}, ~Clashes(t),
         account' = [account EXCEPT ![p] = call[t].number]
  PROVE  Users!Join(p)
<1> USE DEF AInv, TypeOK
<1>1. account[p] = 0 /\ call[t].number \notin Numbers(Base[p])
  BY DEF Clashes
<1>2. call[t].number \in 1..Homonyms[p] /\ call[t].number # 0
  BY DEF NumbersLoaded
<1>3. \A q \in Users!Alike(p) : account[q] # call[t].number
  BY <1>1, <1>2 DEF Users!Alike, Numbers
<1>4. call[t].number \in Users!Free(p)
  BY <1>2, <1>3 DEF Users!Free
<1> QED
  BY <1>1, <1>4 DEF Users!Join

LEMMA DirectoryStep == AInv /\ Decided /\ [Next]_vars => [Users!Next]_(Users!dirVars)
<1> SUFFICES ASSUME AInv, Decided, [Next]_vars PROVE [Users!Next]_(Users!dirVars)
  OBVIOUS
<1> USE DEF Users!dirVars
<1>1. ASSUME NEW t \in Threads, Commits(t) PROVE [Users!Next]_(Users!dirVars)
  <2>1. PICK p \in People : p = call[t].who
    BY <1>1 DEF Commits, SubmitCommits, ApproveCommits, RejectCommits, CreateCommits, AInv,
                NumbersLoaded
  <2>2. CASE SubmitCommits(t)
    <3>1. request[p] = "none" /\ made[p] = 0
      BY <2>1, <2>2 DEF SubmitCommits, Clashes, AInv, RequestMakesOne
    <3>2. made' = [made EXCEPT ![p] = 0]
      BY <2>2, <3>1 DEF SubmitCommits, AInv, TypeOK
    <3>3. Users!Submit(p)
      BY <2>1, <2>2, <3>1, <3>2 DEF SubmitCommits, Users!Submit
    <3> QED
      BY <3>3 DEF Users!Next
  <2>3. CASE ApproveCommits(t)
    <3>1. Users!Join(p)
      BY <2>1, <2>3, JoinStep DEF ApproveCommits
    <3>2. account[p] = 0 /\ made[p] = 0
      BY <2>1, <2>3 DEF ApproveCommits, Clashes, AInv, ApprovalsClash
    <3>3. request[p] \in {"PENDING", "REJECTED"}
      BY <2>1, <2>3, <3>2 DEF ApproveCommits, Decided, AInv, TypeOK
    <3>4. request' = [request EXCEPT ![p] = "APPROVED"] /\ made' = [made EXCEPT ![p] = 1]
      BY <2>1, <2>3, <3>2 DEF ApproveCommits
    <3>5. Users!Approve(p)
      BY <3>1, <3>2, <3>3, <3>4 DEF Users!Approve
    <3> QED
      BY <3>5 DEF Users!Next
  <2>4. CASE RejectCommits(t)
    <3>1. request' = [request EXCEPT ![p] = "REJECTED"] /\ UNCHANGED <<account, made>>
      BY <2>1, <2>4 DEF RejectCommits
    <3>2. request[p] \in {"PENDING", "APPROVED", "REJECTED"}
      BY <2>1, <2>4 DEF RejectCommits, Decided, AInv, TypeOK
    <3>3. CASE request[p] = "REJECTED"
      BY <3>1, <3>3 DEF AInv, TypeOK
    <3>4. CASE request[p] # "REJECTED"
      <4>1. Users!Reject(p)
        BY <3>1, <3>2, <3>4 DEF Users!Reject
      <4> QED
        BY <4>1 DEF Users!Next
    <3> QED
      BY <3>3, <3>4
  <2>5. CASE CreateCommits(t)
    <3>1. Users!Join(p)
      BY <2>1, <2>5, JoinStep DEF CreateCommits
    <3>2. Users!Create(p)
      BY <2>5, <3>1 DEF CreateCommits, Users!Create
    <3> QED
      BY <3>2 DEF Users!Next
  <2> QED
    BY <1>1, <2>2, <2>3, <2>4, <2>5 DEF Commits
<1>2. ASSUME NEW p \in People, Remove(p) PROVE Users!Next
  BY <1>2 DEF Remove, Users!Remove, Users!Next
<1>3. CASE UNCHANGED <<request, account, made>>
  BY <1>3
<1> QED
  BY <1>1, <1>2, <1>3 DEF Next, vars, SubmitLoads, ApproveLoads, RejectLoads, CreateLoads, Loads,
     Crashes, Mails, MailIsLost, Restart

(* Accounts implements Directory: with unique keys and no lock, overlapping *)
(* handlers give names, decide requests and remove users as atomic ones.    *)
THEOREM Refinement == Spec => DirectorySpec
<1>1. Init => Users!Init
  BY DEF Init, Users!Init
<1>2. Init => Decided
  BY DEF Init, Decided, Idle
<1> QED
  BY <1>1, <1>2, DecidedStep, DirectoryStep, Invariant, PTL DEF Spec, DirectorySpec, Users!Spec
=============================================================================
