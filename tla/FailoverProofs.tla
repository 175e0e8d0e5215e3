---------------------------- MODULE FailoverProofs ----------------------------
(***************************************************************************)
(* Proofs about AccountPool and Failover, for every set of keys, every     *)
(* assignment of identifiers to keys, and every number of requests; in the *)
(* last sections about how Failover goes round the accounts of a pool.     *)
(***************************************************************************)
EXTENDS Failover, SequenceTheorems, FiniteSetTheorems, WellFoundedInduction, TLAPS

USE DEF Nil

-----------------------------------------------------------------------------
(***************************************************************************)
(* Facts about the operators of the pool.                                  *)
(***************************************************************************)

(* Every nonempty set of natural numbers has a least element. *)
LEMMA NatMin ==
    ASSUME NEW T \in SUBSET Nat, T # {}
    PROVE  \E x \in T : \A y \in T : x <= y
<1>1. PICK x \in T : \A y \in T : ~(<<y, x>> \in OpToRel(<, Nat))
    BY NatLessThanWellFounded, WFMin
<1>2. ASSUME NEW y \in T PROVE x <= y
  <2>1. y < x => <<y, x>> \in {ss \in Nat \X Nat : ss[1] < ss[2]}
    OBVIOUS
  <2>2. {ss \in Nat \X Nat : ss[1] < ss[2]} = OpToRel(<, Nat)
    BY Zenon DEF OpToRel
  <2>3. <<y, x>> \notin {ss \in Nat \X Nat : ss[1] < ss[2]}
    BY Zenon, <1>1, <2>2
  <2>4. QED
    BY <2>1, <2>3
<1>3. QED
    BY <1>2

(* Dropping an element of a sequence leaves a shorter one made of the others. *)
LEMMA WithoutProperties ==
    ASSUME NEW S, NEW s \in Seq(S), NEW i \in 1..Len(s)
    PROVE  /\ Without(s, i) \in Seq(S)
           /\ Len(Without(s, i)) = Len(s) - 1
           /\ \A j \in 1..(Len(s) - 1) :
                 Without(s, i)[j] = IF j < i THEN s[j] ELSE s[j + 1]
    BY DEF Without

(* An account the pool hands out is in the pool, enabled and not cooling. *)
LEMMA AcquiredEligible ==
    ASSUME PoolTypeOK, Acquired # Nil
    PROVE  /\ \E i \in Slots : Acquired = accounts[i]
           /\ Acquired \in 1..Len(heap)
           /\ Eligible(Acquired)
<1> DEFINE n == Len(accounts)
           E == {i \in 0..(n - 1) : Eligible(Scanned(i))}
<1>1. E # {} /\ E \in SUBSET Nat
    BY DEF Acquired, PoolTypeOK
<1>2. PICK i \in E : \A j \in E : i <= j
    BY <1>1, NatMin
<1>3. \E k \in 0..(n - 1) : Eligible(Scanned(k)) /\ \A j \in 0..(k - 1) : ~Eligible(Scanned(j))
  <2>1. \A j \in 0..(i - 1) : ~Eligible(Scanned(j))
    <3> SUFFICES ASSUME NEW j \in 0..(i - 1), Eligible(Scanned(j))
                 PROVE  FALSE
        OBVIOUS
    <3>1. j \in E
        BY <1>2 DEF PoolTypeOK
    <3>2. QED
        BY <3>1, <1>2
  <2>2. QED
    BY <2>1, <1>2
<1>4. PICK k \in 0..(n - 1) : Acquired = Scanned(k) /\ Eligible(Scanned(k))
    BY <1>1, <1>3 DEF Acquired
<1>5. ((cursor + k) % n) + 1 \in Slots
    BY <1>4 DEF PoolTypeOK, Slots
<1>6. accounts[((cursor + k) % n) + 1] \in 1..Len(heap)
    BY <1>5, ElementOfSeq DEF PoolTypeOK, Slots
<1>7. QED
    BY <1>4, <1>5, <1>6 DEF Scanned

(* A multiple of n does not change the remainder. *)
LEMMA ModMultiple ==
    ASSUME NEW n \in Nat \ {0}, NEW q \in Nat, NEW t \in 0..(n - 1)
    PROVE  (n * q + t) % n = t
    OBVIOUS

(* A scan of n steps visits every slot, wherever the cursor stands. *)
LEMMA ScanCovers ==
    ASSUME NEW n \in Nat \ {0}, NEW c \in Nat, NEW t \in 0..(n - 1)
    PROVE  \E i \in 0..(n - 1) : (c + i) % n = t
<1> DEFINE m == c % n
           q == c \div n
<1>1. c = n * q + m /\ m \in 0..(n - 1) /\ q \in Nat
    OBVIOUS
<1> HIDE DEF m, q
<1>2. CASE m <= t
  <2>1. t - m \in 0..(n - 1) /\ c + (t - m) = n * q + t
    BY <1>1, <1>2
  <2>2. QED
    BY <2>1, <1>1, ModMultiple
<1>3. CASE t < m
  <2>1. t - m + n \in 0..(n - 1) /\ c + (t - m + n) = n * (q + 1) + t
    BY <1>1, <1>3
  <2>2. q + 1 \in Nat
    BY <1>1
  <2>3. (n * (q + 1) + t) % n = t
    BY <2>2, ModMultiple
  <2>4. QED
    BY <2>1, <2>3
<1>4. QED
    BY <1>1, <1>2, <1>3

(* Nil means that no account of the pool is eligible. *)
LEMMA NilMeansNone ==
    ASSUME PoolTypeOK, Acquired = Nil, NEW s \in Slots
    PROVE  ~Eligible(accounts[s])
<1> DEFINE n == Len(accounts)
<1>1. n \in Nat \ {0} /\ s - 1 \in 0..(n - 1) /\ cursor \in Nat
    BY LenProperties DEF PoolTypeOK, Slots
<1>2. PICK i \in 0..(n - 1) : (cursor + i) % n = s - 1
    BY <1>1, ScanCovers
<1>3. Scanned(i) = accounts[s]
  <2>1. ((cursor + i) % n) + 1 = s
    BY <1>2 DEF Slots
  <2>2. QED
    BY <2>1 DEF Scanned
<1>4. ~\E k \in 0..(n - 1) : Eligible(Scanned(k))
  <2> SUFFICES ASSUME \E k \in 0..(n - 1) : Eligible(Scanned(k))
               PROVE  FALSE
    OBVIOUS
  <2> DEFINE E == {k \in 0..(n - 1) : Eligible(Scanned(k))}
  <2>1. E # {} /\ E \in SUBSET Nat
    BY <1>1
  <2>2. PICK x \in E : \A y \in E : x <= y
    BY <2>1, NatMin
  <2>3. ASSUME NEW j \in 0..(x - 1) PROVE ~Eligible(Scanned(j))
    <3>1. j \in 0..(n - 1) /\ ~(x <= j)
      BY <1>1, <2>2
    <3>2. QED
      BY <2>2, <3>1
  <2>4. PICK k \in 0..(n - 1) : Acquired = Scanned(k)
    BY <2>2, <2>3 DEF Acquired
  <2>5. ((cursor + k) % n) + 1 \in 1..n
    BY <1>1
  <2>6. Scanned(k) \in 1..Len(heap)
    BY <2>5, ElementOfSeq DEF Scanned, PoolTypeOK
  <2>7. QED
    BY <2>4, <2>6
<1>5. QED
    BY <1>2, <1>3, <1>4

(* The number of enabled accounts is a natural number. *)
LEMMA EnabledCountType ==
    ASSUME PoolTypeOK
    PROVE  EnabledCount \in Nat
<1>1. IsFiniteSet(Slots)
    BY FS_Interval DEF Slots, PoolTypeOK
<1>2. IsFiniteSet({i \in Slots : At(i).enabled})
    BY <1>1, FS_Subset
<1>3. QED
    BY <1>2, FS_CardinalityType DEF EnabledCount

(* The Retry-After of the final 429 is never negative. *)
LEMMA EarliestWaitType ==
    ASSUME PoolTypeOK
    PROVE  EarliestRateLimitWait \in Nat
<1>1. CASE Recoveries = {}
    BY <1>1 DEF EarliestRateLimitWait
<1>2. CASE Recoveries # {}
  <2>1. \A t \in Recoveries : t \in Nat /\ now < t
    <3> SUFFICES ASSUME NEW i \in Slots, RateLimited(At(i))
                 PROVE  At(i).until \in Nat /\ now < At(i).until
        BY DEF Recoveries
    <3>1. accounts[i] \in 1..Len(heap)
        BY ElementOfSeq DEF PoolTypeOK, Slots
    <3>2. At(i) \in Account
        BY <3>1, ElementOfSeq DEF PoolTypeOK, At
    <3>3. QED
        BY <3>2 DEF Account, RateLimited
  <2>2. \E t \in Recoveries : \A u \in Recoveries : t <= u
    BY <2>1, <1>2, NatMin
  <2>3. QED
    BY <1>2, <2>1, <2>2 DEF EarliestRateLimitWait, PoolTypeOK
<1>3. QED
    BY <1>1, <1>2

-----------------------------------------------------------------------------
(***************************************************************************)
(* The pool.  PoolInv is inductive for every operation on the pool; IDs    *)
(* and keys of an object never change, which is why it survives Reply.     *)
(***************************************************************************)
PoolInv == PoolTypeOK /\ IDFollowsKey /\ UniqueIDs

(* What the slots of the pool hold. *)
LEMMA SlotTypes ==
    ASSUME PoolTypeOK, NEW i \in Slots
    PROVE  accounts[i] \in 1..Len(heap) /\ At(i) \in Account
<1>1. accounts[i] \in 1..Len(heap)
    BY ElementOfSeq DEF PoolTypeOK, Slots
<1>2. QED
    BY <1>1, ElementOfSeq DEF PoolTypeOK, At

LEMMA NewAccountType ==
    ASSUME NEW k \in Keys, NEW e \in BOOLEAN
    PROVE  newAccount(k, e) \in Account /\ newAccount(k, e).id = accountID[k]
                                        /\ newAccount(k, e).key = k
    BY PoolAssumption DEF newAccount, Account

LEMMA PoolInitInv == PoolInit => PoolInv
<1> SUFFICES ASSUME PoolInit PROVE PoolInv
    OBVIOUS
<1> DEFINE n == Len(InitialPool)
<1>1. n \in Nat /\ \A i \in 1..n : InitialPool[i] \in [key : Keys, enabled : BOOLEAN]
    BY PoolAssumption, LenProperties, ElementOfSeq
<1>2. \A i \in 1..n : heap[i] \in Account /\ heap[i].id = accountID[InitialPool[i].key]
                                          /\ heap[i].key = InitialPool[i].key
    BY <1>1, NewAccountType DEF PoolInit
<1>3. heap \in Seq(Account) /\ Len(heap) = n
    BY <1>1, <1>2 DEF PoolInit
<1>4. accounts \in Seq(1..Len(heap)) /\ Len(accounts) = n
    BY <1>1, <1>3 DEF PoolInit
<1>5. \A i \in 1..n : At(i) = heap[i]
    BY DEF PoolInit, At
<1>6. UniqueIDs
    BY <1>1, <1>2, <1>4, <1>5, PoolAssumption DEF UniqueIDs, Slots
<1>7. IDFollowsKey
    BY <1>2, <1>3 DEF IDFollowsKey
<1>8. QED
    BY <1>3, <1>4, <1>6, <1>7 DEF PoolInv, PoolTypeOK, PoolInit

LEMMA AddInv ==
    ASSUME PoolInv, NEW k \in Keys, NEW e \in BOOLEAN, Add(k, e)
    PROVE  PoolInv'
<1> USE DEF PoolInv, PoolTypeOK
<1> DEFINE a == newAccount(k, e)
<1>1. a \in Account /\ a.id = accountID[k] /\ a.key = k
    BY NewAccountType
<1>2. /\ heap' \in Seq(Account)
      /\ Len(heap') = Len(heap) + 1
      /\ \A p \in 1..Len(heap) : heap'[p] = heap[p]
      /\ heap'[Len(heap) + 1] = a
    BY <1>1, AppendProperties DEF Add
<1>3. accounts \in Seq(1..Len(heap')) /\ Len(heap) + 1 \in 1..Len(heap')
    BY <1>2, SeqMonotonic
<1>4. /\ accounts' \in Seq(1..Len(heap'))
      /\ Len(accounts') = Len(accounts) + 1
      /\ \A i \in Slots : accounts'[i] = accounts[i]
      /\ accounts'[Len(accounts) + 1] = Len(heap) + 1
    BY <1>3, AppendProperties DEF Add, Slots
<1>5. \A i \in Slots : At(i)' = At(i)
    BY <1>2, <1>4, SlotTypes DEF At
<1>6. heap'[accounts'[Len(accounts) + 1]] = a
    BY <1>2, <1>4
<1>7. UniqueIDs'
  <2>1. Slots' = Slots \cup {Len(accounts) + 1}
    BY <1>4 DEF Slots
  <2>2. \A i \in Slots : At(i).id # a.id
    BY <1>1 DEF Add
  <2>3. ASSUME NEW i \in Slots', NEW j \in Slots', At(i)'.id = At(j)'.id
        PROVE  i = j
    <3> HIDE DEF a
    <3>1. \A s \in Slots' : s \notin Slots => At(s)' = a
        BY <1>6, <2>1 DEF At
    <3>2. \A s \in Slots' : s \notin Slots => s = Len(accounts) + 1
        BY <2>1
    <3>3. QED
        BY <1>5, <2>2, <2>3, <3>1, <3>2 DEF UniqueIDs
  <2>4. QED
    BY <2>3 DEF UniqueIDs
<1>8. IDFollowsKey'
  <2> HIDE DEF a
  <2>1. \A p \in 1..Len(heap') : p \in 1..Len(heap) \/ p = Len(heap) + 1
    BY <1>2
  <2>2. QED
    BY <1>1, <1>2, <2>1 DEF IDFollowsKey
<1>9. QED
    BY <1>2, <1>4, <1>7, <1>8 DEF Add

LEMMA RemoveInv ==
    ASSUME PoolInv, NEW i \in Slots, Remove(i)
    PROVE  PoolInv'
<1> USE DEF PoolInv, PoolTypeOK
<1>1. /\ accounts' \in Seq(1..Len(heap))
      /\ Len(accounts') = Len(accounts) - 1
      /\ \A j \in 1..(Len(accounts) - 1) :
            accounts'[j] = IF j < i THEN accounts[j] ELSE accounts[j + 1]
    BY WithoutProperties DEF Remove, Slots
<1> DEFINE old(j) == IF j < i THEN j ELSE j + 1
<1>2. ASSUME NEW j \in Slots'
      PROVE  old(j) \in Slots /\ At(j)' = At(old(j))
  <2>1. j \in 1..(Len(accounts) - 1) /\ i \in 1..Len(accounts)
    BY <1>1 DEF Slots
  <2>2. Len(accounts) \in Nat
    OBVIOUS
  <2>3. old(j) \in Slots
    BY <2>1, <2>2 DEF Slots
  <2>4. accounts'[j] = accounts[old(j)]
    BY <1>1, <2>1
  <2>5. QED
    BY <2>3, <2>4 DEF Remove, At
<1>3. UniqueIDs'
  <2> SUFFICES ASSUME NEW j \in Slots', NEW k \in Slots', At(j)'.id = At(k)'.id
               PROVE  j = k
      BY DEF UniqueIDs
  <2>1. old(j) = old(k)
      BY <1>2 DEF UniqueIDs
  <2>2. j \in Int /\ k \in Int /\ i \in Int
      BY <1>1 DEF Slots
  <2>3. QED
      BY <2>1, <2>2
<1>4. QED
    BY <1>1, <1>3 DEF Remove, IDFollowsKey

(* Putting a well-formed account with a free identifier into a slot. *)
LEMMA ReplaceInv ==
    ASSUME PoolInv, NEW i \in Slots, NEW a \in Account, Replace(i, a),
           a.id = accountID[a.key],
           \A j \in Slots : j # i => At(j).id # a.id
    PROVE  PoolInv'
<1> USE DEF PoolInv, PoolTypeOK
<1>1. /\ heap' \in Seq(Account)
      /\ Len(heap') = Len(heap) + 1
      /\ \A p \in 1..Len(heap) : heap'[p] = heap[p]
      /\ heap'[Len(heap) + 1] = a
    BY AppendProperties DEF Replace
<1>2. accounts \in Seq(1..Len(heap')) /\ Len(heap) + 1 \in 1..Len(heap')
    BY <1>1, SeqMonotonic
<1>3. /\ accounts' \in Seq(1..Len(heap'))
      /\ Len(accounts') = Len(accounts)
      /\ \A j \in Slots : accounts'[j] = IF j = i THEN Len(heap) + 1 ELSE accounts[j]
    BY <1>2, ExceptSeq DEF Replace, Slots
<1>4. Slots' = Slots /\ \A j \in Slots : At(j)' = IF j = i THEN a ELSE At(j)
    BY <1>1, <1>3, SlotTypes DEF At, Slots
<1>5. UniqueIDs'
    BY <1>4 DEF UniqueIDs
<1>6. IDFollowsKey'
    BY <1>1 DEF IDFollowsKey
<1>7. QED
    BY <1>1, <1>3, <1>5, <1>6 DEF Replace

LEMMA SetEnabledInv ==
    ASSUME PoolInv, NEW i \in Slots, NEW e \in BOOLEAN, SetEnabled(i, e)
    PROVE  PoolInv'
<1> DEFINE a == [At(i) EXCEPT !.enabled = e]
<1>1. At(i) \in Account /\ At(i).id = accountID[At(i).key]
    BY SlotTypes DEF PoolInv, IDFollowsKey, At
<1>2. a \in Account /\ a.id = At(i).id /\ a.key = At(i).key
    BY <1>1 DEF Account
<1>3. Replace(i, a) /\ \A j \in Slots : j # i => At(j).id # a.id
    BY <1>2 DEF SetEnabled, PoolInv, UniqueIDs
<1>4. a.id = accountID[a.key]
    BY <1>1, <1>2
<1> HIDE DEF a
<1>5. QED
    BY <1>2, <1>3, <1>4, ReplaceInv

LEMMA RenameInv ==
    ASSUME PoolInv, NEW i \in Slots, Rename(i)
    PROVE  PoolInv'
<1>1. At(i) \in Account /\ At(i).id = accountID[At(i).key]
    BY SlotTypes DEF PoolInv, IDFollowsKey, At
<1>2. QED
    BY <1>1, ReplaceInv DEF Rename, PoolInv, UniqueIDs

LEMMA SetKeyInv ==
    ASSUME PoolInv, NEW i \in Slots, NEW k \in Keys, SetKey(i, k)
    PROVE  PoolInv'
<1> DEFINE a == [At(i) EXCEPT !.key = k, !.id = accountID[k]]
<1>1. At(i) \in Account /\ accountID[k] \in IDs
    BY SlotTypes, PoolAssumption DEF PoolInv
<1>2. a \in Account /\ a.id = accountID[k] /\ a.key = k
    BY <1>1 DEF Account
<1>3. Replace(i, a) /\ \A j \in Slots : j # i => At(j).id # a.id
    BY <1>2 DEF SetKey
<1>4. a.id = accountID[a.key]
    BY <1>2
<1> HIDE DEF a
<1>5. QED
    BY <1>2, <1>3, <1>4, ReplaceInv

LEMMA AdminInv ==
    ASSUME PoolInv, Admin
    PROVE  PoolInv'
    BY AddInv, RemoveInv, RenameInv, SetEnabledInv, SetKeyInv DEF Admin

-----------------------------------------------------------------------------
(***************************************************************************)
(* Requests.  IInv adds to PoolInv the types of the requests and the       *)
(* control of their loop, without which left could become negative and a   *)
(* waiting request could write to an object that does not exist.           *)
(***************************************************************************)
IInv == PoolInv /\ RequestTypeOK /\ HistoryTypeOK /\ LoopControl

(* Recording an outcome changes neither the identity nor the enabled flag *)
(* of an account, and a 429 always starts the pause it asked for.         *)
LEMMA RecordedProperties ==
    ASSUME NEW q, NEW a \in Account, NEW o, NEW c \in Nat, now \in Nat
    PROVE  LET b == Recorded(q, a, o, c) IN
           /\ b \in Account
           /\ b.id = a.id /\ b.key = a.key /\ b.enabled = a.enabled
           /\ b.until = IF o = "429" THEN now + c ELSE a.until
<1> DEFINE s == RecordSuccess(a)
           f == RecordFailure(a, o, c)
<1>1. /\ s \in Account /\ s.id = a.id /\ s.key = a.key
      /\ s.enabled = a.enabled /\ s.until = a.until
    BY DEF RecordSuccess, Account
<1>2. /\ f \in Account /\ f.id = a.id /\ f.key = a.key /\ f.enabled = a.enabled
      /\ f.until = IF o = "429" THEN now + c ELSE a.until
  <2>1. CASE o = "429"
    BY <2>1 DEF RecordFailure, Account
  <2>2. CASE o = "auth"
    BY <2>2 DEF RecordFailure, Account
  <2>3. CASE o \notin {"429", "auth"}
    BY <2>3 DEF RecordFailure, Account
  <2>4. QED
    BY <2>1, <2>2, <2>3
<1> HIDE DEF s, f
<1>3. \/ Recorded(q, a, o, c) = s /\ o # "429"
      \/ Recorded(q, a, o, c) = f
      \/ Recorded(q, a, o, c) = a /\ o # "429"
    BY DEF Recorded, Is200, shouldFailover, s, f
<1>4. QED
    BY <1>1, <1>2, <1>3

(* The control part of LoopControl for one request. *)
Controlled(q) ==
    /\ q.pc = "loop" => q.left > 0
    /\ q.pc = "anon" /\ q.lane = "responses" => q.left > 0
    /\ q.pc = "anon" => q.lane # "cmdcode"
    /\ q.pc = "sent" => q.acct \in 1..Len(heap)

(* A step that moves one request to a controlled state keeps the invariant *)
(* of all requests, as long as no object disappears from the heap.         *)
LEMMA BecomesInv ==
    ASSUME RequestTypeOK, LoopControl, NEW r \in Requests, NEW q \in Request, Becomes(r, q),
           Len(heap') = Len(heap),
           q.acct \in {Anonymous} \cup 0..Len(heap), Controlled(q)
    PROVE  RequestTypeOK' /\ LoopControl'
<1>1. /\ req' \in [Requests -> Request]
      /\ \A s \in Requests : req'[s] = IF s = r THEN q ELSE req[s]
    BY DEF Becomes, RequestTypeOK
<1>2. RequestTypeOK'
    BY <1>1 DEF RequestTypeOK
<1>3. LoopControl'
    BY <1>1 DEF LoopControl, Controlled
<1>4. QED
    BY <1>2, <1>3

LEMMA InitInv == Init => IInv
<1> SUFFICES ASSUME Init PROVE IInv
    OBVIOUS
<1>1. PoolInv
    BY PoolInitInv DEF Init
<1>2. NewRequest \in Request
    BY DEF NewRequest, Request
<1>3. RequestTypeOK
    BY <1>1, <1>2, LenProperties DEF Init, RequestTypeOK, PoolInv, PoolTypeOK, NewRequest
<1>4. HistoryTypeOK
    BY DEF Init, HistoryTypeOK
<1>5. LoopControl
    BY DEF Init, LoopControl, NewRequest
<1>6. QED
    BY <1>1, <1>3, <1>4, <1>5 DEF IInv

(* A step that leaves the pool and its heap alone. *)
LEMMA SamePool ==
    ASSUME PoolInv, UNCHANGED <<heap, accounts, now>>, cursor' \in Nat
    PROVE  PoolInv'
    BY DEF PoolInv, PoolTypeOK, IDFollowsKey, UniqueIDs, Slots, At

LEMMA StartInv ==
    ASSUME IInv, NEW r \in Requests, NEW l \in Lanes, NEW f \in FreeModels, Start(r, l, f)
    PROVE  IInv'
<1> DEFINE q == [req[r] EXCEPT !.lane = l, !.free = f,
                               !.pc = IF l = "chat" /\ f THEN "anon" ELSE "count"]
<1>1. PoolInv'
    BY SamePool DEF IInv, PoolInv, PoolTypeOK, Start
<1>2. HistoryTypeOK'
  <2>1. \A i \in Slots : At(i).key \in Keys
    BY SlotTypes DEF IInv, PoolInv, Account
  <2>2. EligibleKeys \in SUBSET Keys
    BY <2>1 DEF EligibleKeys
  <2>3. avail' \in [Requests -> SUBSET Keys]
    BY <2>2 DEF Start, IInv, HistoryTypeOK
  <2>4. QED
    BY <2>3 DEF Start, IInv, HistoryTypeOK
<1>3. req[r] \in Request /\ req[r].acct \in {Anonymous} \cup 0..Len(heap)
    BY DEF IInv, RequestTypeOK
<1>4. l \in {"cmdcode", "chat", "responses"} /\ f \in BOOLEAN
    BY FailoverAssumption
<1>5. q \in Request /\ q.acct = req[r].acct
    BY <1>3, <1>4 DEF Request
<1>6. Controlled(q)
    BY <1>3 DEF Request, Controlled
<1>7. Becomes(r, q) /\ Len(heap') = Len(heap)
    BY DEF Start
<1> HIDE DEF q
<1>8. RequestTypeOK' /\ LoopControl'
    BY <1>3, <1>5, <1>6, <1>7, BecomesInv DEF IInv
<1>9. QED
    BY <1>1, <1>2, <1>8 DEF IInv

LEMMA CountInv ==
    ASSUME IInv, NEW r \in Requests, Count(r)
    PROVE  IInv'
<1> DEFINE q1 == [req[r] EXCEPT !.pc = "done", !.outcome = "no_accounts"]
           q2 == [req[r] EXCEPT !.left = EnabledCount,
                                !.pc = IF req[r].lane = "responses" /\ req[r].free
                                       THEN "anon" ELSE "loop"]
<1>1. PoolInv'
    BY SamePool DEF IInv, PoolInv, PoolTypeOK, Count
<1>2. HistoryTypeOK'
    BY DEF Count, history, IInv, HistoryTypeOK
<1>3. req[r] \in Request /\ req[r].acct \in {Anonymous} \cup 0..Len(heap)
    BY DEF IInv, RequestTypeOK
<1>4. EnabledCount \in Nat
    BY EnabledCountType DEF IInv, PoolInv
<1>5. q1 \in Request /\ q1.acct = req[r].acct /\ Controlled(q1)
    BY <1>3 DEF Request, Controlled
<1>6. q2 \in Request /\ q2.acct = req[r].acct /\ (EnabledCount > 0 => Controlled(q2))
    BY <1>3, <1>4 DEF Request, Controlled
<1>7. (Becomes(r, q1) \/ (EnabledCount > 0 /\ Becomes(r, q2))) /\ Len(heap') = Len(heap)
    BY DEF Count
<1> HIDE DEF q1, q2
<1>8. RequestTypeOK' /\ LoopControl'
    BY <1>3, <1>5, <1>6, <1>7, BecomesInv DEF IInv
<1>9. QED
    BY <1>1, <1>2, <1>8 DEF IInv

LEMMA AnonymousReplyInv ==
    ASSUME IInv, NEW r \in Requests, NEW o \in Outcomes, AnonymousReply(r, o)
    PROVE  IInv'
<1> DEFINE q1 == [req[r] EXCEPT !.pc = "done", !.outcome = "ok", !.acct = Anonymous]
           q2 == [req[r] EXCEPT !.pc = IF req[r].lane = "chat" THEN "count" ELSE "loop"]
<1>1. PoolInv'
    BY SamePool DEF IInv, PoolInv, PoolTypeOK, AnonymousReply
<1>2. HistoryTypeOK'
    BY DEF AnonymousReply, history, IInv, HistoryTypeOK
<1>3. /\ req[r] \in Request /\ req[r].acct \in {Anonymous} \cup 0..Len(heap)
      /\ req[r].pc = "anon" /\ Controlled(req[r])
    BY DEF IInv, RequestTypeOK, LoopControl, Controlled, AnonymousReply
<1>4. q1 \in Request /\ q1.acct = Anonymous /\ Controlled(q1)
  <2>1. q1 \in Request
    <3>1. Anonymous \in Int
      BY DEF Anonymous
    <3>2. QED
      BY <1>3, <3>1 DEF Request
  <2>2. q1.acct = Anonymous /\ q1.pc = "done"
    BY <1>3 DEF Request
  <2>3. QED
    BY <2>1, <2>2 DEF Controlled
<1>5. q2 \in Request /\ q2.acct = req[r].acct /\ Controlled(q2)
    BY <1>3 DEF Request, Controlled
<1>6. (Becomes(r, q1) \/ Becomes(r, q2)) /\ Len(heap') = Len(heap)
    BY DEF AnonymousReply
<1> HIDE DEF q1, q2
<1>7. RequestTypeOK' /\ LoopControl'
    BY <1>3, <1>4, <1>5, <1>6, BecomesInv DEF IInv
<1>8. QED
    BY <1>1, <1>2, <1>7 DEF IInv

LEMMA AcquireInv ==
    ASSUME IInv, NEW r \in Requests, Acquire(r)
    PROVE  IInv'
<1> DEFINE q1 == [req[r] EXCEPT !.pc = "exhausted"]
           q2 == [req[r] EXCEPT !.pc = "sent", !.acct = Acquired, !.left = @ - 1]
<1>1. PoolInv'
    BY SamePool DEF IInv, PoolInv, PoolTypeOK, Acquire
<1>2. Acquired # Nil => Acquired \in 1..Len(heap) /\ heap[Acquired].key \in Keys
  <2>1. Acquired # Nil => Acquired \in 1..Len(heap)
    BY AcquiredEligible DEF IInv, PoolInv
  <2>2. Acquired # Nil => heap[Acquired] \in Account
    BY <2>1, ElementOfSeq DEF IInv, PoolInv, PoolTypeOK
  <2>3. QED
    BY <2>1, <2>2 DEF Account
<1>3. HistoryTypeOK'
  <2>1. uses' \in [Keys -> Nat]
    <3>1. Acquired # Nil => uses' = [uses EXCEPT ![heap[Acquired].key] = uses[heap[Acquired].key] + 1]
      BY DEF Acquire
    <3>2. Acquired = Nil => uses' = uses
      BY DEF Acquire
    <3>3. QED
      BY <1>2, <3>1, <3>2 DEF IInv, HistoryTypeOK
  <2>2. tried' \in [Requests -> SUBSET Keys]
    <3>1. tried \in [Requests -> SUBSET Keys]
      BY DEF IInv, HistoryTypeOK
    <3>2. Acquired # Nil =>
            tried' = [tried EXCEPT ![r] = tried[r] \cup {heap[Acquired].key}]
      BY DEF Acquire
    <3>3. Acquired = Nil => tried' = tried
      BY DEF Acquire
    <3>4. Acquired # Nil => tried[r] \cup {heap[Acquired].key} \in SUBSET Keys
      BY <1>2, <3>1
    <3>5. QED
      BY <3>1, <3>2, <3>3, <3>4
  <2>3. QED
    BY <2>1, <2>2 DEF Acquire, IInv, HistoryTypeOK
<1>4. /\ req[r] \in Request /\ req[r].acct \in {Anonymous} \cup 0..Len(heap)
      /\ req[r].pc = "loop" /\ Controlled(req[r])
    BY DEF IInv, RequestTypeOK, LoopControl, Controlled, Acquire
<1>5. q1 \in Request /\ q1.acct = req[r].acct /\ Controlled(q1)
    BY <1>4 DEF Request, Controlled
<1>6. Acquired # Nil => q2 \in Request /\ q2.acct = Acquired /\ Controlled(q2)
  <2> SUFFICES ASSUME Acquired # Nil
               PROVE  q2 \in Request /\ q2.acct = Acquired /\ Controlled(q2)
    OBVIOUS
  <2>1. req[r].left \in Nat /\ req[r].left - 1 \in Nat /\ Acquired \in Int
    BY <1>2, <1>4 DEF Request, Controlled
  <2>2. q2 \in Request
    BY <1>4, <2>1 DEF Request
  <2>3. q2.acct = Acquired /\ q2.pc = "sent"
    BY <1>4 DEF Request
  <2>4. QED
    BY <1>2, <2>2, <2>3 DEF Controlled
<1>7. (Becomes(r, q1) \/ (Acquired # Nil /\ Becomes(r, q2))) /\ Len(heap') = Len(heap)
    BY DEF Acquire
<1>8. Len(heap) \in Nat
    BY LenProperties DEF IInv, PoolInv, PoolTypeOK
<1> HIDE DEF q1, q2
<1>9. RequestTypeOK' /\ LoopControl'
    BY <1>2, <1>4, <1>5, <1>6, <1>7, <1>8, BecomesInv DEF IInv
<1>10. QED
    BY <1>1, <1>3, <1>9 DEF IInv

(* What a reply does to the heap: one object changes its health. *)
LEMMA ReplyHeap ==
    ASSUME IInv, NEW r \in Requests, NEW o \in Outcomes, NEW c \in Cooldowns, Reply(r, o, c)
    PROVE  LET p == req[r].acct IN
           /\ p \in 1..Len(heap)
           /\ heap' \in Seq(Account)
           /\ Len(heap') = Len(heap)
           /\ \A x \in 1..Len(heap) : /\ heap'[x].id = heap[x].id
                                      /\ heap'[x].key = heap[x].key
                                      /\ x # p => heap'[x] = heap[x]
           /\ heap'[p].until = IF o = "429" THEN now + c ELSE heap[p].until
<1> DEFINE p == req[r].acct
           b == Recorded(req[r], heap[p], o, c)
<1>1. p \in 1..Len(heap)
    BY DEF Reply, IInv, LoopControl
<1>2. heap[p] \in Account /\ heap \in Seq(Account) /\ now \in Nat
    BY <1>1, ElementOfSeq DEF IInv, PoolInv, PoolTypeOK
<1>3. c \in Nat
    BY FailoverAssumption
<1>4. /\ b \in Account /\ b.id = heap[p].id /\ b.key = heap[p].key
      /\ b.until = IF o = "429" THEN now + c ELSE heap[p].until
    BY <1>2, <1>3, RecordedProperties
<1>5. heap' = [heap EXCEPT ![p] = b]
    BY DEF Reply
<1> HIDE DEF b, p
<1>6. /\ heap' \in Seq(Account) /\ Len(heap') = Len(heap)
      /\ \A x \in 1..Len(heap) : heap'[x] = IF x = p THEN b ELSE heap[x]
    BY <1>1, <1>2, <1>4, <1>5, ExceptSeq
<1>7. QED
    BY <1>1, <1>4, <1>6 DEF p

LEMMA ReplyInv ==
    ASSUME IInv, NEW r \in Requests, NEW o \in Outcomes, NEW c \in Cooldowns, Reply(r, o, c)
    PROVE  IInv'
<1> DEFINE p == req[r].acct
           q1 == [req[r] EXCEPT !.pc = "done",
                                !.outcome = IF o = "ok" THEN "ok" ELSE "error"]
           q2 == [req[r] EXCEPT !.pc = "done", !.outcome = "error"]
           q3 == [req[r] EXCEPT !.pc = IF req[r].left = 0 THEN "exhausted" ELSE "loop",
                                !.failed = TRUE]
<1>1. /\ p \in 1..Len(heap)
      /\ heap' \in Seq(Account)
      /\ Len(heap') = Len(heap)
      /\ \A x \in 1..Len(heap) : heap'[x].id = heap[x].id /\ heap'[x].key = heap[x].key
    BY ReplyHeap
<1>2. PoolTypeOK'
    BY <1>1 DEF Reply, IInv, PoolInv, PoolTypeOK
<1>3. IDFollowsKey'
    BY <1>1 DEF IInv, PoolInv, IDFollowsKey
<1>4. UniqueIDs'
  <2>1. Slots' = Slots /\ \A i \in Slots : At(i)'.id = At(i).id
    BY <1>1, SlotTypes DEF Reply, IInv, PoolInv, Slots, At
  <2>2. QED
    BY <2>1 DEF IInv, PoolInv, UniqueIDs
<1>5. HistoryTypeOK'
  <2>1. now + c \in Nat
    BY FailoverAssumption DEF IInv, PoolInv, PoolTypeOK
  <2>2. limit' \in [Keys -> Nat]
    BY <2>1 DEF Reply, IInv, HistoryTypeOK
  <2>3. QED
    BY <2>2 DEF Reply, IInv, HistoryTypeOK
<1>6. req[r] \in Request /\ req[r].acct \in {Anonymous} \cup 0..Len(heap)
    BY DEF IInv, RequestTypeOK
<1>7. /\ q1 \in Request /\ q1.acct = req[r].acct /\ Controlled(q1)
      /\ q2 \in Request /\ q2.acct = req[r].acct /\ Controlled(q2)
      /\ q3 \in Request /\ q3.acct = req[r].acct /\ Controlled(q3)
  <2>1. q1 \in Request /\ q1.acct = req[r].acct /\ Controlled(q1)
    BY <1>6 DEF Request, Controlled
  <2>2. q2 \in Request /\ q2.acct = req[r].acct /\ Controlled(q2)
    BY <1>6 DEF Request, Controlled
  <2>3. /\ q3 \in Request /\ q3.acct = req[r].acct /\ q3.left = req[r].left
        /\ q3.pc = IF req[r].left = 0 THEN "exhausted" ELSE "loop"
    BY <1>6 DEF Request
  <2>4. Controlled(q3)
    BY <1>6, <2>3 DEF Request, Controlled
  <2>5. QED
    BY <2>1, <2>2, <2>3, <2>4
<1>8. Becomes(r, q1) \/ Becomes(r, q2) \/ Becomes(r, q3)
    BY DEF Reply
<1> HIDE DEF q1, q2, q3
<1>9. RequestTypeOK' /\ LoopControl'
    BY <1>1, <1>6, <1>7, <1>8, BecomesInv DEF IInv
<1>10. QED
    BY <1>2, <1>3, <1>4, <1>5, <1>9 DEF IInv, PoolInv

LEMMA GiveUpInv ==
    ASSUME IInv, NEW r \in Requests, GiveUp(r)
    PROVE  IInv'
<1> DEFINE q1 == [req[r] EXCEPT !.pc = "done", !.outcome = "last_error"]
           q2 == [req[r] EXCEPT !.pc = "done", !.outcome = "rate_limited",
                                !.wait = EarliestRateLimitWait]
<1>1. PoolInv'
    BY SamePool DEF IInv, PoolInv, PoolTypeOK, GiveUp
<1>2. HistoryTypeOK'
    BY DEF GiveUp, history, IInv, HistoryTypeOK
<1>3. req[r] \in Request /\ req[r].acct \in {Anonymous} \cup 0..Len(heap)
    BY DEF IInv, RequestTypeOK
<1>4. EarliestRateLimitWait \in Nat
    BY EarliestWaitType DEF IInv, PoolInv
<1>5. /\ q1 \in Request /\ q1.acct = req[r].acct /\ Controlled(q1)
      /\ q2 \in Request /\ q2.acct = req[r].acct /\ Controlled(q2)
    BY <1>3, <1>4 DEF Request, Controlled
<1>6. (Becomes(r, q1) \/ Becomes(r, q2)) /\ Len(heap') = Len(heap)
    BY DEF GiveUp
<1> HIDE DEF q1, q2
<1>7. RequestTypeOK' /\ LoopControl'
    BY <1>3, <1>5, <1>6, BecomesInv DEF IInv
<1>8. QED
    BY <1>1, <1>2, <1>7 DEF IInv

(* Admin mutations only add objects, so every held pointer stays valid. *)
LEMMA AdminStepInv ==
    ASSUME IInv, Admin, UNCHANGED <<req, history>>
    PROVE  IInv'
<1>1. PoolInv'
    BY AdminInv DEF IInv
<1>2. Len(heap) \in Nat /\ Len(heap') \in Nat
    BY <1>1, LenProperties DEF IInv, PoolInv, PoolTypeOK
<1>3. heap' = heap \/ \E a : heap' = Append(heap, a)
    BY DEF Admin, Add, Remove, Rename, SetEnabled, SetKey, Replace
<1>4. Len(heap') >= Len(heap)
    BY <1>2, <1>3 DEF IInv, PoolInv, PoolTypeOK
<1>5. RequestTypeOK'
    BY <1>2, <1>4 DEF IInv, RequestTypeOK
<1>6. LoopControl'
    BY <1>2, <1>4 DEF IInv, LoopControl
<1>7. HistoryTypeOK'
    BY DEF history, IInv, HistoryTypeOK
<1>8. QED
    BY <1>1, <1>5, <1>6, <1>7 DEF IInv

LEMMA TickInv ==
    ASSUME IInv, Tick, UNCHANGED <<req, history>>
    PROVE  IInv'
    BY DEF Tick, history, IInv, PoolInv, PoolTypeOK, IDFollowsKey, UniqueIDs, Slots, At,
           RequestTypeOK, HistoryTypeOK, LoopControl

LEMMA NextInv == IInv /\ [Next]_vars => IInv'
<1> SUFFICES ASSUME IInv, [Next]_vars PROVE IInv'
    OBVIOUS
<1>1. CASE \E r \in Requests, l \in Lanes, f \in FreeModels : Start(r, l, f)
    BY <1>1, StartInv
<1>2. CASE \E r \in Requests : Serve(r)
    BY <1>2, CountInv, AnonymousReplyInv, AcquireInv, ReplyInv, GiveUpInv DEF Serve
<1>3. CASE Admin /\ UNCHANGED <<req, history>>
    BY <1>3, AdminStepInv
<1>4. CASE Tick /\ UNCHANGED <<req, history>>
    BY <1>4, TickInv
<1>5. CASE UNCHANGED vars
    BY <1>5 DEF vars, IInv, PoolInv, PoolTypeOK, IDFollowsKey, UniqueIDs, Slots, At,
                RequestTypeOK, HistoryTypeOK, LoopControl
<1>6. QED
    BY <1>1, <1>2, <1>3, <1>4, <1>5 DEF Next

(***************************************************************************)
(* The inductive invariant holds in every reachable state.                 *)
(***************************************************************************)
THEOREM Invariant == Spec => []IInv
<1>1. Init => IInv
    BY InitInv
<1>2. IInv /\ [Next]_vars => IInv'
    BY NextInv
<1>3. QED
    BY <1>1, <1>2, PTL DEF Spec

(***************************************************************************)
(* Types are kept, for every number of accounts, requests and clones       *)
(* (accounts.go, cc.go and zen.go).                                        *)
(***************************************************************************)
THEOREM TypeCorrect == Spec => []TypeOK
<1>1. IInv => TypeOK
    BY DEF IInv, PoolInv, TypeOK
<1>2. QED
    BY <1>1, Invariant, PTL

(***************************************************************************)
(* No admin mutation ever makes two accounts of the pool share an id, even *)
(* if the truncated hash of accountID maps several keys to one id.         *)
(***************************************************************************)
THEOREM IdentifiersUnique == Spec => []UniqueIDs
<1>1. IInv => UniqueIDs
    BY DEF IInv, PoolInv
<1>2. QED
    BY <1>1, Invariant, PTL

(***************************************************************************)
(* A request in the loop has an attempt left and one that waits for its    *)
(* upstream holds an existing Account object, whatever happens to the pool *)
(* meanwhile (Send, ChatWithHeaders and chatResponses).                    *)
(***************************************************************************)
THEOREM LoopControlled == Spec => []LoopControl
<1>1. IInv => LoopControl
    BY DEF IInv
<1>2. QED
    BY <1>1, Invariant, PTL

(***************************************************************************)
(* The id of every Account object is the id of the key it sends upstream,  *)
(* also after SetKey and in objects only requests still hold.              *)
(***************************************************************************)
THEOREM IdentifiersFollowKeys == Spec => []IDFollowsKey
<1>1. IInv => IDFollowsKey
    BY DEF IInv, PoolInv
<1>2. QED
    BY <1>1, Invariant, PTL

-----------------------------------------------------------------------------
(***************************************************************************)
(* Cooldowns.  As long as no admin replaces accounts, slot i of the pool   *)
(* points to object i, so a key has one object, and the pause that was     *)
(* recorded for the key is the one the object carries.                     *)
(***************************************************************************)
CoolInv ==
    /\ Len(heap) = Len(accounts)
    /\ \A i \in Slots : accounts[i] = i
    /\ \A p \in 1..Len(heap) : limit[heap[p].key] <= heap[p].until

(* Without replacements a key belongs to one object of the heap. *)
LEMMA OneObjectPerKey ==
    ASSUME PoolInv, CoolInv, NEW p \in 1..Len(heap), NEW x \in 1..Len(heap),
           heap[p].key = heap[x].key
    PROVE  p = x
<1>1. p \in Slots /\ x \in Slots /\ At(p) = heap[p] /\ At(x) = heap[x]
    BY DEF CoolInv, Slots, At
<1>2. heap[p].id = heap[x].id
    BY DEF PoolInv, IDFollowsKey
<1>3. QED
    BY <1>1, <1>2 DEF PoolInv, UniqueIDs

LEMMA CoolInitInv == Init => CoolInv
<1> SUFFICES ASSUME Init PROVE CoolInv
    OBVIOUS
<1>1. PoolInv
    BY PoolInitInv DEF Init
<1>2. Len(InitialPool) \in Nat
    BY PoolAssumption, LenProperties
<1>3. /\ Len(heap) = Len(InitialPool) /\ Len(accounts) = Len(InitialPool)
      /\ \A i \in 1..Len(InitialPool) : accounts[i] = i
    BY <1>2 DEF Init, PoolInit
<1>4. ASSUME NEW p \in 1..Len(heap) PROVE limit[heap[p].key] <= heap[p].until
  <2>1. heap[p] \in Account
    BY <1>1, ElementOfSeq DEF PoolInv, PoolTypeOK
  <2>2. limit[heap[p].key] = 0
    BY <2>1 DEF Init, Account
  <2>3. QED
    BY <2>1, <2>2 DEF Account
<1>5. QED
    BY <1>3, <1>4 DEF CoolInv, Slots

LEMMA CoolReplyInv ==
    ASSUME IInv, CoolInv, NEW r \in Requests, NEW o \in Outcomes, NEW c \in Cooldowns,
           Reply(r, o, c)
    PROVE  CoolInv'
<1> DEFINE p == req[r].acct
           k == heap[p].key
<1>1. /\ p \in 1..Len(heap)
      /\ Len(heap') = Len(heap)
      /\ \A x \in 1..Len(heap) : heap'[x].key = heap[x].key /\ (x # p => heap'[x] = heap[x])
      /\ heap'[p].until = IF o = "429" THEN now + c ELSE heap[p].until
    BY ReplyHeap
<1>2. limit' = IF o = "429" THEN [limit EXCEPT ![k] = now + c] ELSE limit
    BY DEF Reply
<1>3. ASSUME NEW x \in 1..Len(heap) PROVE limit'[heap'[x].key] <= heap'[x].until
  <2>1. limit[heap[x].key] <= heap[x].until
    BY DEF CoolInv
  <2>2. heap[x] \in Account /\ heap[p] \in Account
    BY <1>1, ElementOfSeq DEF IInv, PoolInv, PoolTypeOK
  <2>3. heap[x].key \in Keys /\ heap[x].until \in Nat /\ heap[p].until \in Nat
    BY <2>2 DEF Account
  <2>4. limit \in [Keys -> Nat]
    BY DEF IInv, HistoryTypeOK
  <2>5. now + c \in Nat
    BY FailoverAssumption DEF IInv, PoolInv, PoolTypeOK
  <2>6. CASE x = p
    BY <1>1, <1>2, <2>1, <2>3, <2>4, <2>5, <2>6
  <2>7. CASE x # p
    <3>1. heap[x].key # k
      BY <1>1, <2>7, OneObjectPerKey DEF IInv
    <3>2. QED
      BY <1>1, <1>2, <2>1, <2>3, <2>4, <2>7, <3>1
  <2>8. QED
    BY <2>6, <2>7
<1>4. accounts' = accounts
    BY DEF Reply
<1>5. QED
    BY <1>1, <1>3, <1>4 DEF CoolInv, Slots

LEMMA CoolNextInv ==
    ASSUME AdminOps = {}
    PROVE  IInv /\ CoolInv /\ [Next]_vars => CoolInv'
<1> SUFFICES ASSUME IInv, CoolInv, [Next]_vars PROVE CoolInv'
    OBVIOUS
<1>1. CASE \E r \in Requests, o \in Outcomes, c \in Cooldowns : Reply(r, o, c)
    BY <1>1, CoolReplyInv
<1>2. CASE UNCHANGED <<heap, accounts, limit>>
    BY <1>2 DEF CoolInv, Slots
<1>3. ~Admin
    BY DEF Admin, Add, Remove, Rename, SetEnabled, SetKey
<1>4. QED
    BY <1>1, <1>2, <1>3 DEF Next, Serve, Start, Count, AnonymousReply, Acquire, GiveUp,
                            Tick, vars, history

(***************************************************************************)
(* Send and ChatWithHeaders never use a key again before the pause its     *)
(* last 429 asked for is over, as long as no admin replaces accounts.      *)
(***************************************************************************)
THEOREM CooldownKept ==
    ASSUME AdminOps = {}
    PROVE  Spec => CooldownRespected
<1>1. Init => IInv /\ CoolInv
    BY InitInv, CoolInitInv
<1>2. IInv /\ CoolInv /\ [Next]_vars => IInv' /\ CoolInv'
    BY NextInv, CoolNextInv
<1> DEFINE Respects(r) == req[r].pc = "loop" /\ req'[r].pc = "sent"
                             => now >= limit[heap[req'[r].acct].key]
<1>3. IInv /\ CoolInv /\ [Next]_vars => [\A r \in Requests : Respects(r)]_vars
  <2> SUFFICES ASSUME IInv, CoolInv, Next, NEW r \in Requests,
                      req[r].pc = "loop", req'[r].pc = "sent"
               PROVE  now >= limit[heap[req'[r].acct].key]
    OBVIOUS
  <2>1. Acquired # Nil /\ req'[r].acct = Acquired
    <3>1. ASSUME NEW s \in Requests, s # r, NEW q, Becomes(s, q) PROVE FALSE
      BY <3>1 DEF Becomes, IInv, RequestTypeOK
    <3>2. req'[r] # req[r]
      OBVIOUS
    <3>3. PICK s \in Requests :
             Serve(s) \/ \E l \in Lanes, f \in FreeModels : Start(s, l, f)
      BY <3>2 DEF Next
    <3>4. \E q : Becomes(s, q)
      BY <3>3 DEF Serve, Start, Count, AnonymousReply, Acquire, Reply, GiveUp
    <3>5. s = r
      BY <3>1, <3>4
    <3>6. Acquire(r)
      BY <3>3, <3>5 DEF Serve, Start, Count, AnonymousReply, Reply, GiveUp
    <3>7. QED
      BY <3>6 DEF Acquire, Becomes, IInv, RequestTypeOK, Request
  <2>2. Acquired \in 1..Len(heap) /\ Eligible(Acquired)
    BY <2>1, AcquiredEligible DEF IInv, PoolInv
  <2>3. heap[Acquired] \in Account
    BY <2>2, ElementOfSeq DEF IInv, PoolInv, PoolTypeOK
  <2>4. limit[heap[Acquired].key] <= heap[Acquired].until /\ ~(now < heap[Acquired].until)
    BY <2>2 DEF CoolInv, Eligible, RateLimited
  <2>5. now \in Nat /\ heap[Acquired].until \in Nat /\ limit[heap[Acquired].key] \in Nat
    BY <2>3 DEF Account, IInv, PoolInv, PoolTypeOK, HistoryTypeOK
  <2>6. QED
    BY <2>1, <2>4, <2>5
<1>4. QED
    BY <1>1, <1>2, <1>3, PTL DEF Spec, CooldownRespected

-----------------------------------------------------------------------------
(***************************************************************************)
(* A request leaves the loop without a response only when nothing in the   *)
(* pool could be acquired, or, from Reply, when its attempts are used up.  *)
(***************************************************************************)
THEOREM ExhaustionHonest == Spec => HonestExhaustion
<1> DEFINE Honest(r) == req[r].pc = "loop" /\ req'[r].pc = "exhausted"
                           => \A i \in Slots : ~At(i).enabled \/ RateLimited(At(i))
<1>1. IInv /\ [Next]_vars => [\A r \in Requests : Honest(r)]_vars
  <2> SUFFICES ASSUME IInv, Next, NEW r \in Requests,
                      req[r].pc = "loop", req'[r].pc = "exhausted"
               PROVE  \A i \in Slots : ~At(i).enabled \/ RateLimited(At(i))
    OBVIOUS
  <2>1. ASSUME NEW s \in Requests, s # r, NEW q, Becomes(s, q) PROVE FALSE
    BY <2>1 DEF Becomes, IInv, RequestTypeOK
  <2>2. PICK s \in Requests : Serve(s) \/ \E l \in Lanes, f \in FreeModels : Start(s, l, f)
    BY DEF Next
  <2>3. \E q : Becomes(s, q)
    BY <2>2 DEF Serve, Start, Count, AnonymousReply, Acquire, Reply, GiveUp
  <2>4. s = r
    BY <2>1, <2>3
  <2>5. Acquire(r)
    BY <2>2, <2>4 DEF Serve, Start, Count, AnonymousReply, Reply, GiveUp
  <2>6. Acquired = Nil
    BY <2>5 DEF Acquire, Becomes, IInv, RequestTypeOK, Request
  <2>7. QED
    BY <2>6, NilMeansNone DEF IInv, PoolInv, Eligible, At
<1>2. QED
    BY <1>1, Invariant, PTL DEF Spec, HonestExhaustion

-----------------------------------------------------------------------------
(***************************************************************************)
(* How Failover goes round the accounts of a pool: attempts are spread     *)
(* evenly, and a request that is alone tries every account before it gives *)
(* up.  Both are about a pool whose accounts are all enabled and that no   *)
(* admin changes meanwhile: the cursor moves one slot per attempt, so      *)
(* behind a disabled slot the same account is acquired twice.              *)
(***************************************************************************)

(***************************************************************************)
(* The invariants.                                                         *)
(***************************************************************************)
AllEnabled == \A i \in 1..Len(InitialPool) : InitialPool[i].enabled

\* An account waits exactly as long as the last 429 of its key asked for.
SteadyInv == \A p \in 1..Len(heap) : heap[p].enabled /\ heap[p].until = limit[heap[p].key]

\* The turns that the slot i has had when the cursor stands at c.
Turns(c, i) == (c \div Len(accounts)) + (IF i - 1 < c % Len(accounts) THEN 1 ELSE 0)

EvenInv ==
    (\A k \in Keys : limit[k] = 0) => \A i \in Slots : uses[At(i).key] = Turns(cursor, i)

\* The attempts are counted.
Looping(r) == req[r].pc \in {"loop", "sent"} \/ (req[r].pc = "anon" /\ req[r].lane = "responses")

Untried(r) == avail[r] \ tried[r]

\* What a request that is alone still has to try, the cursor will reach.
Reaches(r) ==
    /\ r \in Active => Active = {r}
    /\ r \in Active => \A i \in Slots : At(i).key \in Untried(r) => Eligible(accounts[i])
    /\ avail[r] \subseteq {At(i).key : i \in Slots}
    /\ req[r].pc = "sent" => heap[req[r].acct].key \in tried[r]
    /\ Looping(r) => \A i \in 0..(Len(accounts) - 1) : heap[Scanned(i)].key \in Untried(r) => i < req[r].left
    /\ req[r].pc = "exhausted" \/ req[r].outcome = "last_error" => Untried(r) = {}

ReachInv ==
    \A r \in Requests :
        /\ req[r].outcome # "none" => req[r].pc = "done"
        /\ avail[r] # {} => Reaches(r)

-----------------------------------------------------------------------------
(***************************************************************************)
(* The cursor and the slots.                                               *)
(***************************************************************************)
LEMMA DivMultiple ==
    ASSUME NEW n \in Nat \ {0}, NEW q \in Nat, NEW t \in 0..(n - 1)
    PROVE  (n * q + t) \div n = q
    OBVIOUS

(* One more step of the cursor: the next slot, or a new turn. *)
LEMMA CursorMoves ==
    ASSUME NEW n \in Nat \ {0}, NEW c \in Nat
    PROVE  /\ c % n \in 0..(n - 1) /\ c \div n \in Nat
           /\ (c % n) + 1 < n => (c + 1) % n = (c % n) + 1 /\ (c + 1) \div n = c \div n
           /\ (c % n) + 1 = n => (c + 1) % n = 0 /\ (c + 1) \div n = (c \div n) + 1
<1> DEFINE m == c % n
           q == c \div n
<1>1. c = n * q + m /\ m \in 0..(n - 1) /\ q \in Nat
    OBVIOUS
<1> HIDE DEF m, q
<1>2. ASSUME m + 1 < n PROVE (c + 1) % n = m + 1 /\ (c + 1) \div n = q
  <2>1. m + 1 \in 0..(n - 1) /\ c + 1 = n * q + (m + 1)
    BY <1>1, <1>2
  <2>2. (n * q + (m + 1)) % n = m + 1 /\ (n * q + (m + 1)) \div n = q
    BY <1>1, <2>1, ModMultiple, DivMultiple
  <2>3. QED
    BY <2>1, <2>2
<1>3. ASSUME m + 1 = n PROVE (c + 1) % n = 0 /\ (c + 1) \div n = q + 1
  <2>1. 0 \in 0..(n - 1) /\ q + 1 \in Nat /\ c + 1 = n * (q + 1) + 0
    BY <1>1, <1>3
  <2>2. (n * (q + 1) + 0) % n = 0 /\ (n * (q + 1) + 0) \div n = q + 1
    BY <2>1, ModMultiple, DivMultiple
  <2>3. QED
    BY <2>1, <2>2
<1>4. QED
    BY <1>1, <1>2, <1>3 DEF m, q

(* The scan of the next acquisition starts one slot later, and ends with   *)
(* the slot that this one starts with.                                     *)
LEMMA ScanShifts ==
    ASSUME NEW n \in Nat \ {0}, NEW c \in Nat
    PROVE  /\ \A i \in 0..(n - 2) : ((c + 1) + i) % n = (c + (i + 1)) % n
           /\ ((c + 1) + (n - 1)) % n = (c + 0) % n
<1>1. \A i \in 0..(n - 2) : (c + 1) + i = c + (i + 1)
    OBVIOUS
<1> DEFINE m == c % n
           q == c \div n
<1>2. c = n * q + m /\ m \in 0..(n - 1) /\ q \in Nat
    OBVIOUS
<1> HIDE DEF m, q
<1>3. (c + 1) + (n - 1) = n * (q + 1) + m /\ c + 0 = n * q + m /\ q + 1 \in Nat
    BY <1>2
<1>4. (n * (q + 1) + m) % n = m /\ (n * q + m) % n = m
    BY <1>2, <1>3, ModMultiple
<1>5. QED
    BY <1>1, <1>3, <1>4

(* If the slot under the cursor is eligible, the scan returns it. *)
LEMMA AcquiredNext ==
    ASSUME PoolTypeOK, accounts # <<>>, Eligible(Scanned(0))
    PROVE  Acquired = Scanned(0)
<1> DEFINE n == Len(accounts)
           Found(k) == Eligible(Scanned(k)) /\ \A j \in 0..(k - 1) : ~Eligible(Scanned(j))
<1>1. n \in Nat \ {0} /\ 0 \in 0..(n - 1)
    BY EmptySeq, LenProperties DEF PoolTypeOK
<1>2. Found(0)
    OBVIOUS
<1>3. \A k \in 0..(n - 1) : Found(k) => k = 0
    BY <1>1
<1> DEFINE found == CHOOSE k \in 0..(n - 1) : Found(k)
<1>4. found = 0
    BY <1>1, <1>2, <1>3
<1>5. Acquired = Scanned(found)
    BY <1>1 DEF Acquired
<1>6. QED
    BY <1>4, <1>5

(* In a pool that no admin has changed a slot is an object, and no two have *)
(* the same key.                                                           *)
LEMMA SlotObjects ==
    ASSUME IInv, CoolInv
    PROVE  /\ Slots = 1..Len(heap) /\ Len(accounts) \in Nat
           /\ \A i \in Slots : accounts[i] = i /\ At(i) = heap[i] /\ heap[i] \in Account /\ At(i).key \in Keys
           /\ \A i, j \in Slots : At(i).key = At(j).key => i = j
<1>1. Slots = 1..Len(heap) /\ Len(accounts) \in Nat
    BY LenProperties DEF CoolInv, Slots, IInv, PoolInv, PoolTypeOK
<1>2. \A i \in Slots : accounts[i] = i /\ At(i) = heap[i]
    BY DEF CoolInv, At
<1>3. \A i \in Slots : heap[i] \in Account
    BY <1>1, ElementOfSeq DEF IInv, PoolInv, PoolTypeOK
<1>4. \A i, j \in Slots : At(i).key = At(j).key => i = j
    BY <1>1, <1>2, OneObjectPerKey DEF IInv
<1>5. QED
    BY <1>1, <1>2, <1>3, <1>4 DEF Account

(* The slot under the cursor. *)
LEMMA ScannedSlot ==
    ASSUME IInv, CoolInv, NEW i \in 0..(Len(accounts) - 1)
    PROVE  /\ ((cursor + i) % Len(accounts)) + 1 \in Slots
           /\ Scanned(i) = ((cursor + i) % Len(accounts)) + 1
           /\ Scanned(i) \in Slots
<1>1. Len(accounts) \in Nat \ {0} /\ cursor + i \in Nat
    BY LenProperties DEF IInv, PoolInv, PoolTypeOK
<1>2. ((cursor + i) % Len(accounts)) + 1 \in Slots
  <2> DEFINE n == Len(accounts)
             c == cursor + i
  <2>1. n \in Nat \ {0} /\ c \in Nat
    BY <1>1
  <2> HIDE DEF c, n
  <2>2. (c % n) + 1 \in 1..n
    BY <2>1
  <2>3. QED
    BY <2>2 DEF Slots, c, n
<1>3. QED
    BY <1>2, SlotObjects DEF Scanned

-----------------------------------------------------------------------------
(***************************************************************************)
(* Without an admin only replies change accounts.                          *)
(***************************************************************************)

LEMMA SteadyInitInv ==
    ASSUME AllEnabled
    PROVE  Init => SteadyInv
<1> SUFFICES ASSUME Init, NEW p \in 1..Len(heap)
             PROVE  heap[p].enabled /\ heap[p].until = limit[heap[p].key]
    BY DEF SteadyInv
<1>1. PoolInv
    BY PoolInitInv DEF Init
<1>2. Len(InitialPool) \in Nat
    BY PoolAssumption, LenProperties
<1>3. p \in 1..Len(InitialPool) /\ heap[p] = newAccount(InitialPool[p].key, InitialPool[p].enabled)
    BY <1>2 DEF Init, PoolInit
<1>4. heap[p].key \in Keys
  <2>1. heap[p] \in Account
    BY <1>1, ElementOfSeq DEF PoolInv, PoolTypeOK
  <2>2. QED
    BY <2>1 DEF Account
<1>5. QED
    BY <1>3, <1>4 DEF AllEnabled, newAccount, Init

LEMMA RecordedEnabled ==
    ASSUME NEW q, NEW a \in Account, NEW o, NEW c \in Nat
    PROVE  Recorded(q, a, o, c).enabled = a.enabled
    BY DEF Recorded, RecordSuccess, RecordFailure, Account

LEMMA SteadyReplyInv ==
    ASSUME IInv, CoolInv, SteadyInv, NEW r \in Requests, NEW o \in Outcomes, NEW c \in Cooldowns,
           Reply(r, o, c)
    PROVE  SteadyInv'
<1> DEFINE p == req[r].acct
           k == heap[p].key
<1>1. /\ p \in 1..Len(heap)
      /\ Len(heap') = Len(heap)
      /\ \A x \in 1..Len(heap) : heap'[x].key = heap[x].key /\ (x # p => heap'[x] = heap[x])
      /\ heap'[p].until = IF o = "429" THEN now + c ELSE heap[p].until
    BY ReplyHeap
<1>2. limit' = IF o = "429" THEN [limit EXCEPT ![k] = now + c] ELSE limit
    BY DEF Reply
<1>3. heap'[p].enabled = heap[p].enabled
  <2>1. heap' = [heap EXCEPT ![p] = Recorded(req[r], heap[p], o, c)]
    BY DEF Reply
  <2>2. heap'[p] = Recorded(req[r], heap[p], o, c)
    BY <1>1, <2>1, ExceptSeq DEF IInv, PoolInv, PoolTypeOK
  <2>3. heap[p] \in Account /\ c \in Nat
    BY <1>1, ElementOfSeq, FailoverAssumption DEF IInv, PoolInv, PoolTypeOK
  <2>4. QED
    BY <2>2, <2>3, RecordedEnabled
<1>4. ASSUME NEW x \in 1..Len(heap) PROVE heap'[x].enabled /\ heap'[x].until = limit'[heap'[x].key]
  <2>1. heap[x].enabled /\ heap[x].until = limit[heap[x].key]
    BY DEF SteadyInv
  <2>2. heap[x] \in Account /\ heap[p] \in Account
    BY <1>1, ElementOfSeq DEF IInv, PoolInv, PoolTypeOK
  <2>3. heap[x].key \in Keys /\ k \in Keys
    BY <2>2 DEF Account
  <2>4. limit \in [Keys -> Nat]
    BY DEF IInv, HistoryTypeOK
  <2>5. CASE x = p
    BY <1>1, <1>2, <1>3, <2>1, <2>3, <2>4, <2>5
  <2>6. CASE x # p
    <3>1. heap[x].key # k
      BY <1>1, <2>6, OneObjectPerKey DEF IInv
    <3>2. QED
      BY <1>1, <1>2, <2>1, <2>3, <2>4, <2>6, <3>1
  <2>7. QED
    BY <2>5, <2>6
<1>5. QED
    BY <1>1, <1>4 DEF SteadyInv

LEMMA SteadyNextInv ==
    ASSUME AdminOps = {}
    PROVE  IInv /\ CoolInv /\ SteadyInv /\ [Next]_vars => SteadyInv'
<1> SUFFICES ASSUME IInv, CoolInv, SteadyInv, [Next]_vars PROVE SteadyInv'
    OBVIOUS
<1>1. CASE \E r \in Requests, o \in Outcomes, c \in Cooldowns : Reply(r, o, c)
    BY <1>1, SteadyReplyInv
<1>2. CASE UNCHANGED <<heap, limit>>
    BY <1>2 DEF SteadyInv
<1>3. ~Admin
    BY DEF Admin, Add, Remove, Rename, SetEnabled, SetKey
<1>4. QED
    BY <1>1, <1>2, <1>3 DEF Next, Serve, Start, Count, AnonymousReply, Acquire, GiveUp,
                            Tick, vars, history

-----------------------------------------------------------------------------
(***************************************************************************)
(* Even rotation.                                                          *)
(***************************************************************************)
LEMMA EvenInitInv == Init => EvenInv
<1> SUFFICES ASSUME Init, NEW i \in Slots PROVE uses[At(i).key] = Turns(cursor, i)
    BY DEF EvenInv
<1>1. IInv /\ CoolInv
    BY InitInv, CoolInitInv
<1>2. At(i).key \in Keys /\ Len(accounts) \in Nat \ {0} /\ i \in Nat \ {0}
    BY <1>1, SlotObjects DEF Slots
<1>3. uses[At(i).key] = 0 /\ cursor = 0
    BY <1>2 DEF Init, PoolInit
<1> DEFINE n == Len(accounts)
<1>4. 0 % n = 0 /\ 0 \div n = 0
    BY <1>2
<1>5. ~(i - 1 < 0)
    BY <1>2
<1>6. QED
    BY <1>3, <1>4, <1>5 DEF Turns

LEMMA EvenAcquireInv ==
    ASSUME IInv, CoolInv, SteadyInv, EvenInv, NEW r \in Requests, Acquire(r)
    PROVE  EvenInv'
<1> SUFFICES ASSUME \A k \in Keys : limit[k] = 0, NEW i \in Slots
             PROVE  uses'[At(i).key] = Turns(cursor + 1, i)
  <2>1. limit' = limit /\ accounts' = accounts /\ heap' = heap
    BY DEF Acquire
  <2>2. Slots' = Slots /\ \A i \in Slots : At(i)' = At(i)
    BY <2>1 DEF Slots, At
  <2>3. Slots # {} => accounts # <<>>
    BY DEF Slots
  <2>4. Slots # {} => cursor' = cursor + 1
    BY <2>3 DEF Acquire
  <2>5. \A i \in Slots : Turns(cursor, i)' = Turns(cursor', i)
    BY <2>1 DEF Turns
  <2>6. QED
    BY <2>1, <2>2, <2>4, <2>5 DEF EvenInv
<1> DEFINE n == Len(accounts)
           m == cursor % n
<1>1. /\ n \in Nat \ {0} /\ cursor \in Nat /\ accounts # <<>> /\ i \in 1..n
      /\ 0 \in 0..(n - 1) /\ cursor + 0 = cursor
    BY SlotObjects DEF Slots, IInv, PoolInv, PoolTypeOK
<1>2. Scanned(0) = m + 1 /\ m + 1 \in Slots
    BY <1>1, ScannedSlot
<1>3. Eligible(Scanned(0))
  <2>1. /\ heap[m + 1].enabled /\ heap[m + 1].until = limit[heap[m + 1].key]
        /\ heap[m + 1].key \in Keys
    BY <1>2, SlotObjects DEF SteadyInv
  <2>2. heap[m + 1].until = 0 /\ ~(now < 0)
    BY <2>1 DEF IInv, PoolInv, PoolTypeOK
  <2>3. QED
    BY <1>2, <2>1, <2>2 DEF Eligible, RateLimited
<1>4. Acquired = m + 1
    BY <1>1, <1>2, <1>3, AcquiredNext DEF IInv, PoolInv
<1>5. Acquired # Nil /\ heap[Acquired].key = At(m + 1).key /\ At(m + 1).key \in Keys
  <2> DEFINE x == m + 1
  <2>1. x \in Slots /\ Acquired = x
    BY <1>2, <1>4
  <2> HIDE DEF x
  <2>2. x # 0 /\ At(x) = heap[x] /\ At(x).key \in Keys
    BY <2>1, SlotObjects DEF Slots
  <2>3. Acquired # Nil /\ heap[Acquired].key = At(x).key
    BY <2>1, <2>2
  <2>4. QED
    BY <2>2, <2>3 DEF x
<1>6. uses' = [uses EXCEPT ![At(m + 1).key] = uses[At(m + 1).key] + 1]
    BY <1>5 DEF Acquire
<1>7. uses \in [Keys -> Nat] /\ At(i).key \in Keys
    BY SlotObjects DEF IInv, HistoryTypeOK
<1>8. uses[At(i).key] = Turns(cursor, i)
    BY DEF EvenInv
<1> DEFINE q == cursor \div n
<1>9. /\ m \in 0..(n - 1) /\ q \in Nat
      /\ m + 1 < n => (cursor + 1) % n = m + 1 /\ (cursor + 1) \div n = q
      /\ m + 1 = n => (cursor + 1) % n = 0 /\ (cursor + 1) \div n = q + 1
    BY <1>1, CursorMoves
<1>10. /\ Turns(cursor, i) = q + (IF i - 1 < m THEN 1 ELSE 0)
       /\ Turns(cursor + 1, i) = ((cursor + 1) \div n) + (IF i - 1 < (cursor + 1) % n THEN 1 ELSE 0)
    BY DEF Turns
<1> HIDE DEF m, n, q
<1>11. CASE i = m + 1
  <2>1. uses'[At(i).key] = uses[At(i).key] + 1
    BY <1>6, <1>7, <1>11
  <2>2. Turns(cursor, i) = q
    BY <1>1, <1>9, <1>10, <1>11
  <2>3. Turns(cursor + 1, i) = q + 1
    <3>1. CASE m + 1 < n
      BY <1>1, <1>9, <1>10, <1>11, <3>1
    <3>2. CASE m + 1 = n
      BY <1>1, <1>9, <1>10, <1>11, <3>2
    <3>3. QED
      BY <1>1, <1>9, <3>1, <3>2
  <2>4. QED
    BY <1>8, <2>1, <2>2, <2>3
<1>12. CASE i # m + 1
  <2>1. At(i).key # At(m + 1).key
    BY <1>2, <1>12, SlotObjects
  <2>2. uses'[At(i).key] = uses[At(i).key]
    BY <1>6, <1>7, <2>1
  <2>3. Turns(cursor + 1, i) = Turns(cursor, i)
    <3>1. CASE m + 1 < n
      <4>1. i - 1 < m + 1 <=> i - 1 < m
        BY <1>1, <1>9, <1>12
      <4>2. QED
        BY <1>9, <1>10, <3>1, <4>1
    <3>2. CASE m + 1 = n
      <4>1. i - 1 < m /\ ~(i - 1 < 0)
        BY <1>1, <1>9, <1>12, <3>2
      <4>2. QED
        BY <1>9, <1>10, <3>2, <4>1
    <3>3. QED
      BY <1>1, <1>9, <3>1, <3>2
  <2>4. QED
    BY <1>8, <2>2, <2>3
<1>13. QED
    BY <1>11, <1>12

LEMMA EvenReplyInv ==
    ASSUME IInv, CoolInv, SteadyInv, EvenInv, NEW r \in Requests, NEW o \in Outcomes,
           NEW c \in Cooldowns, Reply(r, o, c)
    PROVE  EvenInv'
<1> DEFINE p == req[r].acct
           k == heap[p].key
<1>1. /\ p \in 1..Len(heap) /\ Len(heap') = Len(heap)
      /\ \A x \in 1..Len(heap) : heap'[x].key = heap[x].key
    BY ReplyHeap
<1>2. UNCHANGED <<accounts, cursor, uses>>
    BY DEF Reply
<1>3. CASE o = "429"
  <2>1. heap[p] \in Account
    BY <1>1, ElementOfSeq DEF IInv, PoolInv, PoolTypeOK
  <2>2. k \in Keys
    BY <2>1 DEF Account
  <2>3. limit' = [limit EXCEPT ![k] = now + c]
    BY <1>3 DEF Reply
  <2>4. limit'[k] # 0
    BY <2>2, <2>3, FailoverAssumption DEF IInv, HistoryTypeOK, PoolInv, PoolTypeOK
  <2>5. QED
    BY <2>2, <2>4 DEF EvenInv
<1>4. CASE o # "429"
  <2>1. limit' = limit
    BY <1>4 DEF Reply
  <2>2. Slots' = Slots /\ \A i \in Slots : At(i)'.key = At(i).key
    BY <1>1, <1>2, SlotObjects DEF Slots, At
  <2>3. \A i \in Slots : Turns(cursor, i)' = Turns(cursor, i)
    BY <1>2 DEF Turns
  <2>4. QED
    BY <1>2, <2>1, <2>2, <2>3 DEF EvenInv
<1>5. QED
    BY <1>3, <1>4

LEMMA EvenNextInv ==
    ASSUME AdminOps = {}
    PROVE  IInv /\ CoolInv /\ SteadyInv /\ EvenInv /\ [Next]_vars => EvenInv'
<1> SUFFICES ASSUME IInv, CoolInv, SteadyInv, EvenInv, [Next]_vars PROVE EvenInv'
    OBVIOUS
<1>1. CASE \E r \in Requests, o \in Outcomes, c \in Cooldowns : Reply(r, o, c)
    BY <1>1, EvenReplyInv
<1>2. CASE \E r \in Requests : Acquire(r)
    BY <1>2, EvenAcquireInv
<1>3. CASE UNCHANGED <<heap, accounts, cursor, uses, limit>>
    BY <1>3 DEF EvenInv, Slots, At, Turns
<1>4. ~Admin
    BY DEF Admin, Add, Remove, Rename, SetEnabled, SetKey
<1>5. QED
    BY <1>1, <1>2, <1>3, <1>4 DEF Next, Serve, Start, Count, AnonymousReply, GiveUp,
                                 Tick, vars, history

(***************************************************************************)
(* Until a key is rate limited, Acquire hands out the accounts of a pool   *)
(* in turn, whatever the interleaving of the requests: no key is used more *)
(* than once ahead of another.                                             *)
(***************************************************************************)
THEOREM RotationEven ==
    ASSUME AdminOps = {}, AllEnabled
    PROVE  Spec => []EvenRotation
<1>1. Init => IInv /\ CoolInv /\ SteadyInv /\ EvenInv
    BY InitInv, CoolInitInv, SteadyInitInv, EvenInitInv
<1>2. IInv /\ CoolInv /\ SteadyInv /\ EvenInv /\ [Next]_vars
         => IInv' /\ CoolInv' /\ SteadyInv' /\ EvenInv'
    BY NextInv, CoolNextInv, SteadyNextInv, EvenNextInv
<1>3. IInv /\ CoolInv /\ EvenInv => EvenRotation
  <2> SUFFICES ASSUME IInv, CoolInv, EvenInv, \A k \in Keys : limit[k] = 0,
                      NEW i \in Slots, NEW j \in Slots
               PROVE  uses[At(i).key] <= uses[At(j).key] + 1
    BY DEF EvenRotation
  <2>1. uses[At(i).key] = Turns(cursor, i) /\ uses[At(j).key] = Turns(cursor, j)
    BY DEF EvenInv
  <2> DEFINE q == cursor \div Len(accounts)
  <2>2. q \in Nat
    <3>1. Len(accounts) \in Nat \ {0} /\ cursor \in Nat
      BY SlotObjects DEF Slots, IInv, PoolInv, PoolTypeOK
    <3> DEFINE n == Len(accounts)
    <3>2. n \in Nat \ {0}
      BY <3>1
    <3> HIDE DEF n
    <3>3. cursor \div n \in Nat
      BY <3>1, <3>2
    <3>4. QED
      BY <3>3 DEF n
  <2>3. Turns(cursor, i) \in {q, q + 1} /\ Turns(cursor, j) \in {q, q + 1}
    <3> HIDE DEF q
    <3>1. \A x : Turns(cursor, x) = q + (IF x - 1 < cursor % Len(accounts) THEN 1 ELSE 0)
      BY DEF Turns, q
    <3>2. QED
      BY <2>2, <3>1
  <2> HIDE DEF q
  <2>4. QED
    BY <2>1, <2>2, <2>3
<1>4. QED
    BY <1>1, <1>2, <1>3, PTL DEF Spec

-----------------------------------------------------------------------------
(***************************************************************************)
(* A request that is alone goes round the whole pool.                      *)
(***************************************************************************)

(* There are as many attempts as slots. *)
LEMMA CountsAll ==
    ASSUME IInv, CoolInv, SteadyInv
    PROVE  EnabledCount = Len(accounts)
<1>1. \A i \in Slots : At(i).enabled
    BY SlotObjects DEF SteadyInv
<1>2. {i \in Slots : At(i).enabled} = 1..Len(accounts)
    BY <1>1 DEF Slots
<1>3. Cardinality(1..Len(accounts)) = Len(accounts)
  <2> DEFINE n == Len(accounts)
  <2>1. n \in Nat
    BY SlotObjects
  <2> HIDE DEF n
  <2>2. Cardinality(1..n) = n
    BY <2>1, FS_Interval
  <2>3. QED
    BY <2>2 DEF n
<1>4. QED
    BY <1>2, <1>3 DEF EnabledCount

(* Every slot is some steps ahead of the cursor. *)
LEMMA SlotAhead ==
    ASSUME IInv, CoolInv, NEW s \in Slots
    PROVE  \E i \in 0..(Len(accounts) - 1) : Scanned(i) = s
<1> DEFINE n == Len(accounts)
           t == s - 1
<1>1. n \in Nat \ {0} /\ cursor \in Nat /\ t \in 0..(n - 1) /\ t + 1 = s
    BY SlotObjects DEF Slots, IInv, PoolInv, PoolTypeOK
<1>2. PICK i \in 0..(n - 1) : (cursor + i) % n = t
  <2> HIDE DEF n, t
  <2>1. QED
    BY <1>1, ScanCovers
<1>3. Scanned(i) = s
    BY <1>1, <1>2, ScannedSlot
<1>4. QED
    BY <1>3

(* A step of the request s leaves the others as they are: those that run   *)
(* have met s, and are not alone.                                          *)
LEMMA ServeReach ==
    ASSUME IInv, CoolInv, ReachInv, NEW s \in Requests, s \in Active, NEW q \in Request, Becomes(s, q),
           UNCHANGED <<accounts, avail>>, Len(heap') = Len(heap),
           \A x \in 1..Len(heap) : heap'[x].key = heap[x].key,
           \A r \in Requests \ {s} : tried'[r] = tried[r],
           q.outcome # "none" => q.pc = "done",
           q.pc = "sent" => q.acct \in 1..Len(heap),
           avail[s] # {} =>
              /\ q.pc \notin {"idle", "done"} =>
                    \A i \in Slots : At(i).key \in Untried(s)' => Eligible(accounts[i])'
              /\ q.pc = "sent" => heap[q.acct].key \in tried'[s]
              /\ q.pc \in {"loop", "sent"} \/ (q.pc = "anon" /\ q.lane = "responses") =>
                    \A i \in 0..(Len(accounts) - 1) : Scanned(i)' \in Slots
                       /\ (heap[Scanned(i)'].key \in Untried(s)' => i < q.left)
              /\ q.pc = "exhausted" \/ q.outcome = "last_error" => Untried(s)' = {}
    PROVE  ReachInv'
<1>1. req'[s] = q /\ \A r \in Requests \ {s} : req'[r] = req[r]
    BY DEF Becomes, IInv, RequestTypeOK
<1>2. \A r \in Requests \ {s} : r \in Active' <=> r \in Active
    BY <1>1 DEF Active
<1>3. Slots' = Slots /\ Slots = 1..Len(heap) /\ \A i \in Slots : At(i) = heap[i] /\ At(i)' = heap'[i]
    BY SlotObjects DEF Slots, At, CoolInv
<1>4. {At(i).key : i \in Slots}' = {At(i).key : i \in Slots}
    BY <1>3
<1>5. ASSUME NEW r \in Requests \ {s}, avail'[r] # {} PROVE Reaches(r)'
  <2>1. avail[r] # {} /\ Reaches(r)
    BY <1>5 DEF ReachInv
  <2>2. r \notin Active
    BY <2>1 DEF Reaches
  <2>3. r \notin Active' /\ req[r].pc \in {"idle", "done"}
    BY <1>2, <2>2 DEF Active, IInv, RequestTypeOK, Request
  <2>4. ~Looping(r)' /\ req'[r].pc \notin {"sent", "exhausted"} /\ Untried(r)' = Untried(r)
    BY <1>1, <2>3 DEF Looping, Untried
  <2>5. QED
    BY <1>1, <1>4, <2>1, <2>3, <2>4 DEF Reaches
<1>6. ASSUME avail'[s] # {} PROVE Reaches(s)'
  <2>1. avail[s] # {} /\ Reaches(s) /\ Active = {s}
    BY <1>6 DEF ReachInv, Reaches
  <2>2. s \in Active' => Active' = {s}
    BY <1>2, <2>1 DEF Active
  <2>3. s \in Active' => \A i \in Slots : At(i).key \in Untried(s)' => Eligible(accounts[i])'
    BY <1>1, <2>1 DEF Active
  <2>4. s \in Active' => \A i \in Slots' : At(i)'.key \in Untried(s)' => Eligible(accounts[i])'
    BY <1>3, <2>3
  <2>5. avail'[s] \subseteq {At(i).key : i \in Slots}'
    BY <1>4, <2>1 DEF Reaches
  <2>6. req'[s].pc = "sent" => heap'[req'[s].acct].key \in tried'[s]
    BY <1>1, <2>1
  <2>7. Looping(s)' =>
           \A i \in 0..(Len(accounts) - 1) : heap'[Scanned(i)'].key \in Untried(s)' => i < req'[s].left
    BY <1>1, <1>3, <2>1 DEF Looping
  <2>8. req'[s].pc = "exhausted" \/ req'[s].outcome = "last_error" => Untried(s)' = {}
    BY <1>1, <2>1
  <2>9. QED
    BY <2>2, <2>4, <2>5, <2>6, <2>7, <2>8 DEF Reaches
<1>7. \A r \in Requests : req'[r].outcome # "none" => req'[r].pc = "done"
    BY <1>1 DEF ReachInv
<1>8. QED
    BY <1>5, <1>6, <1>7 DEF ReachInv

LEMMA CountReach ==
    ASSUME IInv, CoolInv, SteadyInv, ReachInv, NEW s \in Requests, Count(s)
    PROVE  ReachInv'
<1> DEFINE q1 == [req[s] EXCEPT !.pc = "done", !.outcome = "no_accounts"]
           pc == IF req[s].lane = "responses" /\ req[s].free THEN "anon" ELSE "loop"
           q2 == [req[s] EXCEPT !.left = EnabledCount, !.pc = pc]
<1>1. req[s].pc = "count" /\ UNCHANGED <<heap, accounts, cursor, now, tried, avail>>
    BY DEF Count, history
<1>2. req[s] \in Request /\ s \in Active /\ req[s].outcome = "none"
    BY <1>1 DEF Active, IInv, RequestTypeOK, ReachInv
<1>3. EnabledCount = Len(accounts) /\ EnabledCount \in Nat
    BY CountsAll, SlotObjects
<1>4. /\ Slots' = Slots /\ Untried(s)' = Untried(s)
      /\ \A i \in Slots : Eligible(accounts[i])' <=> Eligible(accounts[i])
      /\ \A i : Scanned(i)' = Scanned(i)
    BY <1>1 DEF Slots, Untried, Eligible, RateLimited, Scanned
<1>5. avail[s] # {} => \A i \in Slots : At(i).key \in Untried(s)' => Eligible(accounts[i])'
    BY <1>2, <1>4 DEF ReachInv, Reaches
<1>6. \A i \in 0..(Len(accounts) - 1) : Scanned(i)' \in Slots
    BY <1>4, ScannedSlot
<1>7. CASE Becomes(s, q1)
  <2>1. q1 \in Request /\ q1.pc = "done" /\ q1.outcome = "no_accounts"
    BY <1>2 DEF Request
  <2> HIDE DEF q1
  <2>2. QED
    BY <1>1, <1>2, <1>7, <2>1, ServeReach
<1>8. CASE Becomes(s, q2)
  <2>1. q2 \in Request /\ q2.pc = pc /\ q2.outcome = "none" /\ q2.left = Len(accounts)
    BY <1>2, <1>3 DEF Request
  <2>2. pc \notin {"sent", "exhausted"}
    OBVIOUS
  <2>3. \A i \in 0..(Len(accounts) - 1) : i < q2.left
    BY <1>3, <2>1
  <2> HIDE DEF q2, pc
  <2>4. QED
    BY <1>1, <1>2, <1>5, <1>6, <1>8, <2>1, <2>2, <2>3, ServeReach
<1>9. QED
    BY <1>7, <1>8 DEF Count

LEMMA AnonymousReach ==
    ASSUME IInv, CoolInv, ReachInv, NEW s \in Requests, NEW o \in Outcomes, AnonymousReply(s, o)
    PROVE  ReachInv'
<1> DEFINE q1 == [req[s] EXCEPT !.pc = "done", !.outcome = "ok", !.acct = Anonymous]
           pc == IF req[s].lane = "chat" THEN "count" ELSE "loop"
           q2 == [req[s] EXCEPT !.pc = pc]
<1>1. req[s].pc = "anon" /\ UNCHANGED <<heap, accounts, cursor, now, tried, avail>>
    BY DEF AnonymousReply, history
<1>2. req[s] \in Request /\ s \in Active /\ req[s].outcome = "none"
    BY <1>1 DEF Active, IInv, RequestTypeOK, ReachInv
<1>3. pc = "loop" => req[s].lane = "responses"
    BY <1>1, <1>2 DEF IInv, LoopControl, Request
<1>4. /\ Slots' = Slots /\ Untried(s)' = Untried(s)
      /\ \A i \in Slots : Eligible(accounts[i])' <=> Eligible(accounts[i])
      /\ \A i : Scanned(i)' = Scanned(i)
    BY <1>1 DEF Slots, Untried, Eligible, RateLimited, Scanned
<1>5. avail[s] # {} => \A i \in Slots : At(i).key \in Untried(s)' => Eligible(accounts[i])'
    BY <1>2, <1>4 DEF ReachInv, Reaches
<1>6. \A i \in 0..(Len(accounts) - 1) : Scanned(i)' \in Slots
    BY <1>4, ScannedSlot
<1>7. CASE Becomes(s, q1)
  <2>1. q1 \in Request /\ q1.pc = "done" /\ q1.outcome = "ok"
    <3>1. Anonymous \in Int
      BY DEF Anonymous
    <3>2. QED
      BY <1>2, <3>1 DEF Request
  <2> HIDE DEF q1
  <2>2. QED
    BY <1>1, <1>2, <1>7, <2>1, ServeReach
<1>8. CASE Becomes(s, q2)
  <2>1. q2 \in Request /\ q2.pc = pc /\ q2.outcome = "none" /\ q2.left = req[s].left /\ pc \in {"count", "loop"}
    BY <1>2 DEF Request
  <2>2. avail[s] # {} /\ pc = "loop" =>
           \A i \in 0..(Len(accounts) - 1) : heap[Scanned(i)'].key \in Untried(s)' => i < q2.left
    BY <1>1, <1>3, <1>4, <2>1 DEF ReachInv, Reaches, Looping
  <2> HIDE DEF q2, pc
  <2>3. QED
    BY <1>1, <1>2, <1>5, <1>6, <1>8, <2>1, <2>2, ServeReach
<1>9. QED
    BY <1>7, <1>8 DEF AnonymousReply

LEMMA GiveUpReach ==
    ASSUME IInv, CoolInv, ReachInv, NEW s \in Requests, GiveUp(s)
    PROVE  ReachInv'
<1> DEFINE q1 == [req[s] EXCEPT !.pc = "done", !.outcome = "last_error"]
           q2 == [req[s] EXCEPT !.pc = "done", !.outcome = "rate_limited",
                                !.wait = EarliestRateLimitWait]
<1>1. req[s].pc = "exhausted" /\ UNCHANGED <<heap, accounts, cursor, now, tried, avail>>
    BY DEF GiveUp, history
<1>2. req[s] \in Request /\ s \in Active
    BY <1>1 DEF Active, IInv, RequestTypeOK
<1>3. EarliestRateLimitWait \in Nat
    BY EarliestWaitType DEF IInv, PoolInv
<1>4. q1 \in Request /\ q1.pc = "done" /\ q2 \in Request /\ q2.pc = "done"
    BY <1>2, <1>3 DEF Request
<1>5. avail[s] # {} => Untried(s)' = {}
    BY <1>1 DEF ReachInv, Reaches, Untried
<1>6. Becomes(s, q1) \/ Becomes(s, q2)
    BY DEF GiveUp
<1> HIDE DEF q1, q2
<1>7. QED
    BY <1>1, <1>2, <1>4, <1>5, <1>6, ServeReach

(* The account under the cursor, if it is still to be tried, is the one    *)
(* that is acquired.                                                       *)
LEMMA AcquireReach ==
    ASSUME IInv, CoolInv, ReachInv, NEW s \in Requests, Acquire(s)
    PROVE  ReachInv'
<1> DEFINE q1 == [req[s] EXCEPT !.pc = "exhausted"]
           q2 == [req[s] EXCEPT !.pc = "sent", !.acct = Acquired, !.left = req[s].left - 1]
<1>1. req[s].pc = "loop" /\ UNCHANGED <<heap, accounts, now, avail>>
    BY DEF Acquire
<1>2. req[s] \in Request /\ s \in Active /\ req[s].outcome = "none" /\ req[s].left \in Nat \ {0}
    BY <1>1 DEF Active, IInv, RequestTypeOK, ReachInv, LoopControl, Request
<1>3. Slots' = Slots /\ \A i \in Slots : Eligible(accounts[i])' <=> Eligible(accounts[i])
    BY <1>1 DEF Slots, Eligible, RateLimited
<1>4. CASE Acquired = Nil
  <2>1. Becomes(s, q1) /\ tried' = tried
    BY <1>4 DEF Acquire
  <2>2. q1 \in Request /\ q1.pc = "exhausted" /\ q1.outcome = "none"
    BY <1>2 DEF Request
  <2>3. \A i \in Slots : ~Eligible(accounts[i])
    BY <1>4, NilMeansNone DEF IInv, PoolInv
  <2>4. ASSUME avail[s] # {} PROVE Untried(s)' = {}
    <3>1. Reaches(s)
      BY <2>4 DEF ReachInv
    <3>2. \A i \in Slots : At(i).key \notin Untried(s)
      BY <1>2, <2>3, <3>1 DEF Reaches
    <3>3. Untried(s) = {}
      BY <3>1, <3>2 DEF Reaches, Untried
    <3>4. QED
      BY <1>1, <2>1, <3>3 DEF Untried
  <2>5. \A i \in Slots : At(i).key \notin {}
    OBVIOUS
  <2> HIDE DEF q1
  <2>6. QED
    BY <1>1, <1>2, <2>1, <2>2, <2>4, <2>5, ServeReach
<1>5. CASE Acquired # Nil
  <2> DEFINE k == heap[Acquired].key
             n == Len(accounts)
  <2>1. /\ Becomes(s, q2) /\ tried' = [tried EXCEPT ![s] = tried[s] \cup {k}]
        /\ Acquired \in 1..Len(heap)
    BY <1>5, AcquiredEligible DEF Acquire, IInv, PoolInv
  <2>2. /\ tried'[s] = tried[s] \cup {k} /\ \A r \in Requests \ {s} : tried'[r] = tried[r]
        /\ Untried(s)' = Untried(s) \ {k}
    BY <1>1, <2>1 DEF IInv, HistoryTypeOK, Untried
  <2>3. /\ q2 \in Request /\ q2.pc = "sent" /\ q2.outcome = "none" /\ q2.acct = Acquired
        /\ q2.left = req[s].left - 1
    <3>1. Acquired \in Int /\ req[s].left - 1 \in Nat
      BY <1>2, <2>1 DEF IInv, PoolInv, PoolTypeOK
    <3>2. QED
      BY <1>2, <3>1 DEF Request
  <2> HIDE DEF q2
  <2>4. ASSUME avail[s] # {}
        PROVE  /\ \A i \in Slots : At(i).key \in Untried(s)' => Eligible(accounts[i])'
               /\ \A i \in 0..(n - 1) : Scanned(i)' \in Slots
                     /\ (heap[Scanned(i)'].key \in Untried(s)' => i < q2.left)
    <3>1. Reaches(s)
      BY <2>4 DEF ReachInv
    <3>2. \A i \in Slots : At(i).key \in Untried(s) => Eligible(accounts[i])
      BY <1>2, <3>1 DEF Reaches
    <3>3. \A i \in Slots : At(i).key \in Untried(s)' => Eligible(accounts[i])'
      BY <1>3, <2>2, <3>2
    <3>4. \A i \in 0..(n - 1) : heap[Scanned(i)].key \in Untried(s) => i < req[s].left
      BY <1>1, <3>1 DEF Reaches, Looping
    <3>5. accounts # <<>> /\ n \in Nat \ {0} /\ cursor \in Nat /\ cursor' = cursor + 1
      <4>1. Slots # {}
        BY <2>4, <3>1 DEF Reaches
      <4>2. accounts # <<>> /\ n \in Nat \ {0}
        BY <4>1, SlotObjects DEF Slots
      <4>3. QED
        BY <4>2 DEF Acquire, IInv, PoolInv, PoolTypeOK
    <3>6. /\ \A i \in 0..(n - 2) : Scanned(i)' = Scanned(i + 1)
          /\ \A i \in 0..(n - 1) : i = n - 1 => Scanned(i)' = Scanned(0)
      <4>1. \A i : Scanned(i)' = accounts[(((cursor + 1) + i) % n) + 1]
        BY <1>1, <3>5 DEF Scanned
      <4>2. \A i : Scanned(i) = accounts[((cursor + i) % n) + 1]
        BY DEF Scanned
      <4> HIDE DEF n
      <4>3. /\ \A i \in 0..(n - 2) : ((cursor + 1) + i) % n = (cursor + (i + 1)) % n
            /\ ((cursor + 1) + (n - 1)) % n = (cursor + 0) % n
        BY <3>5, ScanShifts
      <4>4. ASSUME NEW i \in 0..(n - 2) PROVE Scanned(i)' = Scanned(i + 1)
        <5> DEFINE a == ((cursor + 1) + i) % n
                   b == (cursor + (i + 1)) % n
        <5>1. a = b /\ Scanned(i)' = accounts[a + 1] /\ Scanned(i + 1) = accounts[b + 1]
          BY <4>1, <4>2, <4>3
        <5> HIDE DEF a, b
        <5>2. QED
          BY <5>1
      <4>5. ASSUME NEW i \in 0..(n - 1), i = n - 1 PROVE Scanned(i)' = Scanned(0)
        <5> DEFINE a == ((cursor + 1) + i) % n
                   b == (cursor + 0) % n
        <5>1. a = b
          BY <4>3, <4>5
        <5>2. Scanned(i)' = accounts[a + 1] /\ Scanned(0) = accounts[b + 1]
          BY <4>1, <4>2
        <5> HIDE DEF a, b
        <5>3. QED
          BY <5>1, <5>2
      <4>6. QED
        BY <4>4, <4>5
    <3>7. 0 \in 0..(n - 1) /\ \A i \in 0..(n - 1) : i = n - 1 \/ (i \in 0..(n - 2) /\ i + 1 \in 0..(n - 1))
      <4> HIDE DEF n
      <4>1. QED
        BY <3>5
    <3>8. heap[Scanned(0)].key \notin Untried(s)'
      <4> SUFFICES ASSUME heap[Scanned(0)].key \in Untried(s) PROVE heap[Scanned(0)].key = k
        BY <2>2
      <4>1. Scanned(0) \in Slots /\ accounts[Scanned(0)] = Scanned(0) /\ At(Scanned(0)) = heap[Scanned(0)]
        BY <3>7, ScannedSlot, SlotObjects
      <4>2. Eligible(Scanned(0))
        BY <3>2, <4>1
      <4>3. QED
        BY <3>5, <4>2, AcquiredNext DEF IInv, PoolInv
    <3>9. ASSUME NEW i \in 0..(n - 1)
          PROVE  Scanned(i)' \in Slots /\ (heap[Scanned(i)'].key \in Untried(s)' => i < q2.left)
      <4>1. CASE i = n - 1
        BY <3>6, <3>7, <3>8, <4>1, ScannedSlot
      <4>2. CASE i \in 0..(n - 2) /\ i + 1 \in 0..(n - 1)
        <5>1. Scanned(i)' = Scanned(i + 1) /\ Scanned(i + 1) \in Slots
          BY <3>6, <4>2, ScannedSlot
        <5>2. heap[Scanned(i + 1)].key \in Untried(s) => i + 1 < req[s].left
          BY <3>4, <4>2
        <5>3. i + 1 < req[s].left => i < q2.left
          BY <1>2, <2>3, <4>2
        <5>4. QED
          BY <2>2, <5>1, <5>2, <5>3
      <4>3. QED
        BY <3>7, <4>1, <4>2
    <3>10. QED
      BY <3>3, <3>9
  <2>5. k \in tried'[s]
    BY <2>2
  <2>6. QED
    BY <1>1, <1>2, <2>1, <2>2, <2>3, <2>4, <2>5, ServeReach
<1>6. QED
    BY <1>4, <1>5

(* A reply changes an account that was tried.                              *)
LEMMA ReplyReach ==
    ASSUME IInv, CoolInv, ReachInv, NEW s \in Requests, NEW o \in Outcomes, NEW c \in Cooldowns,
           Reply(s, o, c)
    PROVE  ReachInv'
<1> DEFINE p == req[s].acct
           q1 == [req[s] EXCEPT !.pc = "done",
                                !.outcome = IF o = "ok" THEN "ok" ELSE "error"]
           q2 == [req[s] EXCEPT !.pc = "done", !.outcome = "error"]
           pc == IF req[s].left = 0 THEN "exhausted" ELSE "loop"
           q3 == [req[s] EXCEPT !.pc = pc, !.failed = TRUE]
<1>1. req[s].pc = "sent" /\ UNCHANGED <<accounts, cursor, now, tried, avail>>
    BY DEF Reply
<1>2. req[s] \in Request /\ s \in Active /\ req[s].outcome = "none" /\ req[s].left \in Nat
    BY <1>1 DEF Active, IInv, RequestTypeOK, ReachInv, Request
<1>3. /\ p \in 1..Len(heap) /\ Len(heap') = Len(heap)
      /\ \A x \in 1..Len(heap) : heap'[x].key = heap[x].key /\ (x # p => heap'[x] = heap[x])
    BY ReplyHeap
<1>4. CASE Becomes(s, q1) \/ Becomes(s, q2)
  <2>1. q1 \in Request /\ q1.pc = "done" /\ q1.outcome \in {"ok", "error"}
    <3> DEFINE outcome == IF o = "ok" THEN "ok" ELSE "error"
    <3>1. outcome \in {"ok", "error"}
      OBVIOUS
    <3> HIDE DEF outcome
    <3>2. QED
      BY <1>2, <3>1 DEF Request
  <2>2. q2 \in Request /\ q2.pc = "done" /\ q2.outcome = "error"
    BY <1>2 DEF Request
  <2> HIDE DEF q1, q2
  <2>3. QED
    BY <1>1, <1>2, <1>3, <1>4, <2>1, <2>2, ServeReach
<1>5. CASE Becomes(s, q3)
  <2>1. q3 \in Request /\ q3.pc = pc /\ q3.outcome = "none" /\ q3.left = req[s].left
    BY <1>2 DEF Request
  <2>2. \A i : Scanned(i)' = Scanned(i)
    BY <1>1 DEF Scanned
  <2>3. \A i \in 0..(Len(accounts) - 1) : Scanned(i)' \in Slots
    BY <2>2, ScannedSlot
  <2>4. Untried(s)' = Untried(s)
    BY <1>1 DEF Untried
  <2>5. ASSUME avail[s] # {}
        PROVE  /\ \A i \in Slots : At(i).key \in Untried(s)' => Eligible(accounts[i])'
               /\ \A i \in 0..(Len(accounts) - 1) : heap[Scanned(i)'].key \in Untried(s)' => i < q3.left
               /\ pc = "exhausted" => Untried(s)' = {}
    <3>1. Reaches(s)
      BY <2>5 DEF ReachInv
    <3>2. ASSUME NEW i \in Slots, At(i).key \in Untried(s) PROVE Eligible(accounts[i])'
      <4>1. accounts[i] = i /\ At(i) = heap[i] /\ i \in 1..Len(heap)
        BY SlotObjects
      <4>2. i # p
        BY <1>1, <3>1, <3>2, <4>1 DEF Reaches, Untried
      <4>3. heap'[i] = heap[i]
        BY <1>3, <4>1, <4>2
      <4>4. Eligible(accounts[i])
        BY <1>2, <3>1, <3>2 DEF Reaches
      <4>5. QED
        BY <1>1, <4>1, <4>3, <4>4 DEF Eligible, RateLimited
    <3>3. \A i \in 0..(Len(accounts) - 1) : heap[Scanned(i)].key \in Untried(s) => i < req[s].left
      BY <1>1, <3>1 DEF Reaches, Looping
    <3>4. ASSUME req[s].left = 0, NEW k \in Untried(s) PROVE FALSE
      <4>1. PICK x \in Slots : At(x).key = k
        BY <3>1 DEF Reaches, Untried
      <4>2. PICK i \in 0..(Len(accounts) - 1) : Scanned(i) = x
        BY SlotAhead
      <4>3. heap[Scanned(i)].key \in Untried(s)
        BY <4>1, <4>2, SlotObjects
      <4>4. i < 0 /\ i \in Nat
        BY <3>3, <3>4, <4>3
      <4>5. QED
        BY <4>4
    <3>5. QED
      BY <2>1, <2>2, <2>4, <3>2, <3>3, <3>4
  <2>6. pc \in {"exhausted", "loop"}
    OBVIOUS
  <2> HIDE DEF q3, pc
  <2>7. QED
    BY <1>1, <1>2, <1>3, <1>5, <2>1, <2>3, <2>5, <2>6, ServeReach
<1>6. QED
    BY <1>4, <1>5 DEF Reply

(* A request that starts alone may use every account that is eligible; one *)
(* that starts beside others ends what they were promised.                 *)
LEMMA StartReach ==
    ASSUME IInv, CoolInv, ReachInv, NEW s \in Requests, NEW l \in Lanes, NEW f \in FreeModels,
           Start(s, l, f)
    PROVE  ReachInv'
<1> DEFINE pc == IF l = "chat" /\ f THEN "anon" ELSE "count"
           q == [req[s] EXCEPT !.lane = l, !.free = f, !.pc = pc]
<1>1. /\ req[s].pc = "idle" /\ Becomes(s, q)
      /\ avail' = [r \in Requests |->
                      IF r \notin Active \cup {s} THEN avail[r]
                      ELSE IF Active = {} THEN EligibleKeys ELSE {}]
      /\ UNCHANGED <<heap, accounts, cursor, now, tried>>
    BY DEF Start
<1>2. req[s] \in Request /\ req[s].outcome = "none"
    BY <1>1 DEF IInv, RequestTypeOK, ReachInv
<1>3. q.pc = pc /\ q.outcome = "none" /\ q.lane = l
    BY <1>2 DEF Request
<1>4. pc \in {"anon", "count"} /\ (pc = "anon" => l = "chat")
    OBVIOUS
<1> HIDE DEF q, pc
<1>5. req'[s] = q /\ \A r \in Requests \ {s} : req'[r] = req[r]
    BY <1>1 DEF Becomes, IInv, RequestTypeOK
<1>6. Slots' = Slots /\ \A i \in Slots : At(i)' = At(i) /\ (Eligible(accounts[i])' <=> Eligible(accounts[i]))
    BY <1>1 DEF Slots, At, Eligible, RateLimited
<1>7. ASSUME NEW r \in Requests \ {s}, avail'[r] # {} PROVE Reaches(r)'
  <2>1. r \notin Active /\ avail'[r] = avail[r]
    <3>1. CASE r \in Active
      BY <1>1, <1>7, <3>1
    <3>2. QED
      BY <1>1, <3>1
  <2>2. Reaches(r) /\ req[r].pc \in {"idle", "done"}
    BY <1>7, <2>1 DEF ReachInv, Active, IInv, RequestTypeOK, Request
  <2>3. r \notin Active' /\ ~Looping(r)' /\ req'[r].pc \notin {"sent", "exhausted"}
    BY <1>5, <2>2 DEF Active, Looping
  <2>4. Untried(r)' = Untried(r) /\ avail'[r] \subseteq {At(i).key : i \in Slots}'
    BY <1>1, <1>6, <2>1, <2>2 DEF Untried, Reaches
  <2>5. QED
    BY <1>5, <2>2, <2>3, <2>4 DEF Reaches
<1>8. ASSUME avail'[s] # {} PROVE Reaches(s)'
  <2>1. Active = {} /\ avail'[s] = EligibleKeys
    BY <1>1, <1>8
  <2>2. Active' = {s}
    BY <1>3, <1>4, <1>5, <2>1 DEF Active
  <2>3. \A i \in Slots : At(i).key \in EligibleKeys => Eligible(accounts[i])
    BY SlotObjects DEF EligibleKeys
  <2>4. Untried(s)' \subseteq EligibleKeys
    BY <2>1 DEF Untried
  <2>5. EligibleKeys \subseteq {At(i).key : i \in Slots}'
    BY <1>6 DEF EligibleKeys
  <2>6. l = "chat" => l # "responses"
    OBVIOUS
  <2>7. ~Looping(s)' /\ req'[s].pc \notin {"sent", "exhausted"} /\ req'[s].outcome = "none"
    BY <1>3, <1>4, <1>5, <2>6 DEF Looping
  <2>8. \A i \in Slots' : At(i)'.key \in Untried(s)' => Eligible(accounts[i])'
    BY <1>6, <2>3, <2>4
  <2>9. QED
    BY <2>1, <2>2, <2>5, <2>7, <2>8 DEF Reaches
<1>9. \A r \in Requests : req'[r].outcome # "none" => req'[r].pc = "done"
    BY <1>3, <1>5 DEF ReachInv
<1>10. QED
    BY <1>7, <1>8, <1>9 DEF ReachInv

(* Time makes accounts eligible, never the contrary.                       *)
LEMMA TickReach ==
    ASSUME IInv, CoolInv, ReachInv, Tick, UNCHANGED <<req, history>>
    PROVE  ReachInv'
<1>1. now' = now + 1 /\ UNCHANGED <<heap, accounts, cursor, req, tried, avail>>
    BY DEF Tick, history
<1>2. ASSUME NEW i \in Slots, Eligible(accounts[i]) PROVE Eligible(accounts[i])'
  <2>1. accounts[i] = i /\ heap[i].until \in Nat /\ now \in Nat
    BY SlotObjects DEF Account, IInv, PoolInv, PoolTypeOK
  <2>2. QED
    BY <1>1, <1>2, <2>1 DEF Eligible, RateLimited
<1>3. Slots' = Slots /\ \A i : At(i)' = At(i) /\ Scanned(i)' = Scanned(i)
    BY <1>1 DEF Slots, At, Scanned
<1>4. Active' = Active /\ \A r : Untried(r)' = Untried(r) /\ (Looping(r)' <=> Looping(r))
    BY <1>1 DEF Active, Untried, Looping
<1>5. ASSUME NEW r \in Requests, Reaches(r) PROVE Reaches(r)'
  <2>1. r \in Active' => \A i \in Slots' : At(i)'.key \in Untried(r)' => Eligible(accounts[i])'
    BY <1>2, <1>3, <1>4, <1>5 DEF Reaches
  <2>2. avail'[r] \subseteq {At(i).key : i \in Slots}'
    BY <1>1, <1>3, <1>5 DEF Reaches
  <2>3. Looping(r)' =>
          \A i \in 0..(Len(accounts) - 1) : heap[Scanned(i)'].key \in Untried(r)' => i < req[r].left
    BY <1>3, <1>4, <1>5 DEF Reaches
  <2>4. QED
    BY <1>1, <1>4, <1>5, <2>1, <2>2, <2>3 DEF Reaches
<1>6. QED
    BY <1>1, <1>5 DEF ReachInv

LEMMA ReachInitInv == Init => ReachInv
    BY DEF Init, ReachInv, NewRequest

LEMMA ReachNextInv ==
    ASSUME AdminOps = {}
    PROVE  IInv /\ CoolInv /\ SteadyInv /\ ReachInv /\ [Next]_vars => ReachInv'
<1> SUFFICES ASSUME IInv, CoolInv, SteadyInv, ReachInv, [Next]_vars PROVE ReachInv'
    OBVIOUS
<1>1. CASE \E r \in Requests, l \in Lanes, f \in FreeModels : Start(r, l, f)
    BY <1>1, StartReach
<1>2. CASE \E r \in Requests : Serve(r)
    BY <1>2, CountReach, AnonymousReach, AcquireReach, ReplyReach, GiveUpReach DEF Serve
<1>3. CASE Tick /\ UNCHANGED <<req, history>>
    BY <1>3, TickReach
<1>4. ~Admin
    BY DEF Admin, Add, Remove, Rename, SetEnabled, SetKey
<1>5. CASE UNCHANGED vars
    BY <1>5 DEF vars, ReachInv, Reaches, Active, Slots, At, Untried, Eligible, RateLimited, Looping, Scanned
<1>6. QED
    BY <1>1, <1>2, <1>3, <1>4, <1>5 DEF Next

(***************************************************************************)
(* A request that overlaps no other one ends with the error of its last    *)
(* attempt only when it was sent with every account that was eligible when *)
(* it started, wherever the cursor stood (Send, ChatWithHeaders and        *)
(* chatResponses).                                                         *)
(***************************************************************************)
THEOREM FailoverExhausts ==
    ASSUME AdminOps = {}, AllEnabled
    PROVE  Spec => []ExhaustiveFailover
<1>1. Init => IInv /\ CoolInv /\ SteadyInv /\ ReachInv
    BY InitInv, CoolInitInv, SteadyInitInv, ReachInitInv
<1>2. IInv /\ CoolInv /\ SteadyInv /\ ReachInv /\ [Next]_vars
         => IInv' /\ CoolInv' /\ SteadyInv' /\ ReachInv'
    BY NextInv, CoolNextInv, SteadyNextInv, ReachNextInv
<1>3. ReachInv => ExhaustiveFailover
  <2> SUFFICES ASSUME ReachInv, NEW r \in Requests, req[r].outcome = "last_error"
               PROVE  avail[r] \subseteq tried[r]
    BY DEF ExhaustiveFailover
  <2>1. avail[r] # {} => Untried(r) = {}
    BY DEF ReachInv, Reaches
  <2>2. QED
    BY <2>1 DEF Untried
<1>4. QED
    BY <1>1, <1>2, <1>3, PTL DEF Spec

=============================================================================
