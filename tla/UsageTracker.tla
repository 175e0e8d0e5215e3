------------------------------ MODULE UsageTracker ------------------------------
(***************************************************************************)
(* What the gateway knows about the consumption of its accounts            *)
(* (usage.go): the total, one counter per account, the aliases that lead   *)
(* from a rotated key to its successor, the cached quotas, and the file    *)
(* usage.json they are saved to.                                           *)
(*                                                                         *)
(* A counter counts tokens; a token stands for the five numbers of a       *)
(* UsageCounters, which are always added together.  An account is named by *)
(* its key: ids are hashes of keys, and UniqueIDs of AccountPool covers    *)
(* their collisions.  Only the pool of the cmdcode gateway is modelled;    *)
(* the one of zen has the same counters and no quotas.                     *)
(***************************************************************************)
EXTENDS Integers, FiniteSets

CONSTANTS
    Keys,      \* API keys of accounts
    NoKey      \* stands for the empty string

ASSUME UsageAssumption == IsFiniteSet(Keys) /\ NoKey \notin Keys

\* A counter that is absent counts zero: the first usage creates it.
NoCounts == [k \in Keys |-> 0]

\* A quota snapshot: absent, only an error, data, data and a later error.
Quota == {"none", "error", "data", "stale"}

NoQuotas == [k \in Keys |-> "none"]

Tracker ==
    [total : Nat, counters : [Keys -> Nat], alias : [Keys -> Keys \cup {NoKey}],
     quotas : [Keys -> Quota]]

\* The file may hold counters under the names used before gateways existed.
UsageFile ==
    [total : Nat, legacy : [Keys -> Nat], counters : [Keys -> Nat], quotas : [Keys -> Quota]]

\* Old names are read as names of the cmdcode gateway; aliases are not saved.
Loaded(f) ==
    [total |-> f.total,
     counters |-> [k \in Keys |-> f.legacy[k] + f.counters[k]],
     alias |-> [k \in Keys |-> NoKey],
     quotas |-> f.quotas]

Twice(f) == [x \in Keys |-> f[f[x]]]

\* The account that usage of a recorder for k is charged to: sixteen hops at most.
Charged(alias, k) ==
    LET next == [x \in Keys |-> IF alias[x] = NoKey THEN x ELSE alias[x]]
    IN  Twice(Twice(Twice(Twice(next))))[k]

RecordAccount(u, k) == [u EXCEPT !.counters[Charged(u.alias, k)] = @ + 1]

\* Mutant: the counter of the old key replaces the one of the new key.
MoveAccountOver(u, old, new) ==
    IF old = new THEN u
    ELSE [u EXCEPT !.alias[old] = new,
                   !.counters = [u.counters EXCEPT ![new] = u.counters[old], ![old] = 0]]

\* Mutant: a recorder made before the move keeps charging the old key.
MoveAccountUnlinked(u, old, new) ==
    IF old = new THEN u
    ELSE [u EXCEPT !.counters = [u.counters EXCEPT ![new] = @ + u.counters[old], ![old] = 0]]

\* The counters of an account follow its key.
MoveAccount(u, old, new) ==
    IF old = new THEN u
    ELSE [u EXCEPT !.alias[old] = new,
                   !.counters = [u.counters EXCEPT ![new] = @ + u.counters[old], ![old] = 0]]

DropAccount(u, k) == [u EXCEPT !.counters[k] = 0, !.quotas[k] = "none"]

DropQuota(u, k) == [u EXCEPT !.quotas[k] = "none"]

\* A failed check keeps the data of the snapshot before it.
QuotaError(q) == IF q \in {"data", "stale"} THEN "stale" ELSE "error"

\* What counters hold together: their units, each named apart and counted.
Units(f) == UNION {{k} \X (1..f[k]) : k \in DOMAIN f}

Sum(f) == Cardinality(Units(f))

=============================================================================
