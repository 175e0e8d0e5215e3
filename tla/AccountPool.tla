------------------------------ MODULE AccountPool ------------------------------
(***************************************************************************)
(* The pool of upstream accounts of one gateway (accounts.go).             *)
(*                                                                         *)
(* An Account is a heap object that requests reach through a pointer.  The *)
(* pool is a slice of such pointers, and the admin mutators never write to *)
(* an object that is already in the pool: they put a clone in its slot, so *)
(* a request that is still waiting for its upstream keeps the old pointer  *)
(* and records its result there.  heap is therefore a separate variable,   *)
(* and a pointer is an index into it.                                      *)
(*                                                                         *)
(* Every operation below runs under the pool's mutex in the code, and is   *)
(* one step here.  Calls that are refused (a duplicate or an unknown id)   *)
(* change nothing and are not steps.                                       *)
(***************************************************************************)
EXTENDS Integers, Sequences, FiniteSets

CONSTANTS
    Keys,         \* upstream credentials
    IDs,          \* account identifiers
    accountID,    \* the truncated hash of a key; two keys may share an id
    InitialPool,  \* the account list of the configuration that is loaded
    AdminOps,     \* the kinds of admin mutation that may happen
    MaxObjects,   \* bound: Account objects ever allocated
    MaxNow        \* bound: the clock

ASSUME PoolAssumption ==
    /\ accountID \in [Keys -> IDs]
    /\ InitialPool \in Seq([key : Keys, enabled : BOOLEAN])
    /\ \A i, j \in 1..Len(InitialPool) :
          accountID[InitialPool[i].key] = accountID[InitialPool[j].key] => i = j
    /\ AdminOps \subseteq {"add", "remove", "enable", "rename", "setkey"}
    /\ MaxObjects \in Nat
    /\ MaxNow \in Nat

VARIABLES
    heap,      \* every Account object ever allocated
    accounts,  \* the pool: pointers into heap, in configuration order
    cursor,    \* the round-robin counter
    now        \* the wall clock

poolVars == <<heap, accounts, cursor, now>>

Nil == 0

(***************************************************************************)
(* Accounts.  until is rateLimitedUntil; the texts and times kept only for *)
(* display are left out.                                                   *)
(***************************************************************************)
Account == [id : IDs, key : Keys, enabled : BOOLEAN, until : Nat, authFailures : Nat]

newAccount(key, enabled) ==
    [id |-> accountID[key], key |-> key, enabled |-> enabled,
     until |-> 0, authFailures |-> 0]

RateLimited(a) == now < a.until

\* Mutant: a success also forgets a cooldown.
RecordSuccessAll(a) == [a EXCEPT !.authFailures = 0, !.until = 0]

\* A success forgets earlier authentication failures, not a cooldown.
RecordSuccess(a) == [a EXCEPT !.authFailures = 0]

\* cooldown is the Retry-After of a 429, or the default of one minute.
RecordFailure(a, error, cooldown) ==
    CASE error = "429"  -> [a EXCEPT !.until = now + cooldown]
      [] error = "auth" -> [a EXCEPT !.authFailures = @ + 1]
      [] OTHER          -> a

-----------------------------------------------------------------------------
(***************************************************************************)
(* Reading the pool.                                                       *)
(***************************************************************************)
Slots == 1..Len(accounts)

At(i) == heap[accounts[i]]

Eligible(p) == heap[p].enabled /\ ~RateLimited(heap[p])

EnabledCount == Cardinality({i \in Slots : At(i).enabled})

\* The i-th pointer looked at by a scan that starts at the cursor.
Scanned(i) == accounts[((cursor + i) % Len(accounts)) + 1]

\* Mutant: the scan gives up after the first slot.
AcquiredFirst ==
    IF accounts # <<>> /\ Eligible(Scanned(0)) THEN Scanned(0) ELSE Nil

\* The account the scan returns: the first eligible one, or Nil.
Acquired ==
    IF \E i \in 0..(Len(accounts) - 1) : Eligible(Scanned(i))
    THEN Scanned(CHOOSE i \in 0..(Len(accounts) - 1) :
                    /\ Eligible(Scanned(i))
                    /\ \A j \in 0..(i - 1) : ~Eligible(Scanned(j)))
    ELSE Nil

\* The moments at which enabled accounts leave their cooldown.
Recoveries == {At(i).until : i \in {j \in Slots : At(j).enabled /\ RateLimited(At(j))}}

EarliestRateLimitWait ==
    IF Recoveries = {} THEN 0
    ELSE (CHOOSE t \in Recoveries : \A u \in Recoveries : t <= u) - now

-----------------------------------------------------------------------------
(***************************************************************************)
(* Changing the pool.                                                      *)
(***************************************************************************)

\* The state NewAccountPool builds from the configuration at startup.
PoolInit ==
    /\ heap = [i \in 1..Len(InitialPool) |->
                  newAccount(InitialPool[i].key, InitialPool[i].enabled)]
    /\ accounts = [i \in 1..Len(InitialPool) |-> i]
    /\ cursor = 0
    /\ now = 0

Add(key, enabled) ==
    /\ "add" \in AdminOps
    /\ Len(heap) < MaxObjects
    /\ \A i \in Slots : At(i).id # accountID[key]
    /\ heap' = Append(heap, newAccount(key, enabled))
    /\ accounts' = Append(accounts, Len(heap) + 1)
    /\ UNCHANGED <<cursor, now>>

\* Mutant: the slot is cleared and stays.
WithoutShift(s, i) == [s EXCEPT ![i] = Nil]

\* The slice without its i-th element.
Without(s, i) == [j \in 1..(Len(s) - 1) |-> IF j < i THEN s[j] ELSE s[j + 1]]

Remove(i) ==
    /\ "remove" \in AdminOps
    /\ accounts' = Without(accounts, i)
    /\ UNCHANGED <<heap, cursor, now>>

\* The slot i now points to the object a, a modified clone of the old one.
Replace(i, a) ==
    /\ Len(heap) < MaxObjects
    /\ heap' = Append(heap, a)
    /\ accounts' = [accounts EXCEPT ![i] = Len(heap) + 1]
    /\ UNCHANGED <<cursor, now>>

SetEnabled(i, enabled) ==
    /\ "enable" \in AdminOps
    /\ Replace(i, [At(i) EXCEPT !.enabled = enabled])

Rename(i) ==
    /\ "rename" \in AdminOps
    /\ Replace(i, At(i))

\* Mutant: the new id may be taken.
SetKeyTaken(i, key) ==
    /\ "setkey" \in AdminOps
    /\ Replace(i, [At(i) EXCEPT !.key = key, !.id = accountID[key]])

\* The id follows the key, and must stay free in the rest of the pool.
SetKey(i, key) ==
    /\ "setkey" \in AdminOps
    /\ \A j \in Slots : j # i => At(j).id # accountID[key]
    /\ Replace(i, [At(i) EXCEPT !.key = key, !.id = accountID[key]])

\* The clock.
Tick ==
    /\ now < MaxNow
    /\ now' = now + 1
    /\ UNCHANGED <<heap, accounts, cursor>>

Admin ==
    \/ \E k \in Keys, e \in BOOLEAN : Add(k, e)
    \/ \E i \in Slots : Remove(i) \/ Rename(i)
    \/ \E i \in Slots, e \in BOOLEAN : SetEnabled(i, e)
    \/ \E i \in Slots, k \in Keys : SetKey(i, k)

-----------------------------------------------------------------------------
PoolTypeOK ==
    /\ heap \in Seq(Account)
    /\ accounts \in Seq(1..Len(heap))
    /\ cursor \in Nat
    /\ now \in Nat

(***************************************************************************)
(* No two slots of the pool share an identifier, whatever the order of     *)
(* additions, removals and key rotations: the admin API, the usage         *)
(* counters and the quota cache address accounts by id alone.              *)
(***************************************************************************)
UniqueIDs == \A i, j \in Slots : At(i).id = At(j).id => i = j

(***************************************************************************)
(* An identifier always belongs to the key that the object sends upstream, *)
(* also in objects that were replaced and are held only by requests.       *)
(***************************************************************************)
IDFollowsKey == \A p \in 1..Len(heap) : heap[p].id = accountID[heap[p].key]

=============================================================================
