---------------------------- MODULE AdminPlaneProofs ----------------------------
(***************************************************************************)
(* Theorems about AdminPlane, for any number of requests, refreshes,       *)
(* slots, keys and files: slots and locks are given back, quotas belong to *)
(* accounts of the pool, usage.json holds what it should, and usage is     *)
(* conserved and charged to the accounts that served it.                   *)
(***************************************************************************)
EXTENDS AdminPlane, FiniteSetTheorems, TLAPS

\* Whoever is at work holds the lock that goes with it.
Locks ==
    /\ lock = "admin" <=> admin.pc # "idle"
    /\ \A j \in Jobs : /\ lock = j <=> job[j].pc = "saving"
                       /\ saver[j].pc # "no" <=> job[j].pc = "saving"
    /\ \A r \in Requests : saver[r].pc # "no" <=> req[r].pc = "saving"
    /\ \A p \in Savers : saver[p].pc = "write" <=> saveMu = p
    /\ saver["main"].pc # "no" <=> phase \in {"final", "timeout"}

Holders == {j \in Jobs : job[j].pc \in {"fetching", "saving"}}

Slots == busy = Cardinality(Holders) /\ busy <= Workers

\* A handler has a key, and a rotation the new one; while it has changed the
\* pool and not yet the tracker, the quota of the old key may still be there.
Handlers ==
    /\ admin.pc # "idle" => admin.key \in Keys
    /\ admin.pc # "idle" /\ admin.op = "rotate" => admin.new \in Keys
    /\ \A k \in Keys : usage.quotas[k] # "none" =>
          k \in pool \cup stray \/ (admin.pc = "usage" /\ k = admin.key)

\* Usage that no snapshot of a save holds yet.
Dirty ==
    \E r \in Requests : req[r].pc = "counted" \/ (req[r].pc = "saving" /\ saver[r].pc = "want")

\* What a snapshot or the file has of the tracker.
Holds(f) == f.total = usage.total /\ f.counters = usage.counters /\ f.legacy = NoCounts

\* What is on disk, or about to be, when no request has more to save.  A refresh
\* that saves holds lock, so that no handler moves counters meanwhile.
Saved ==
    /\ ~Dirty => \A p \in Savers : saver[p].pc = "write" =>
                    /\ saver[p].snap.total = usage.total
                    /\ p \in Jobs => Holds(saver[p].snap)
    /\ (\A r \in Requests : req[r].pc \notin {"counted", "saving"}) => file.total = usage.total

\* When the server has drained nothing counts any more, and main saves last.
Last ==
    /\ phase \in {"final", "exit"} =>
          lock # "admin" /\ \A r \in Requests : req[r].pc = "idle"
    /\ phase = "final" => \A p \in Savers : saver[p].pc = "write" => Holds(saver[p].snap)
    /\ phase = "exit" => Holds(file)

IInv == TypeOK /\ Slots /\ Locks /\ Handlers /\ Saved /\ Last

-----------------------------------------------------------------------------
(***************************************************************************)
(* What counters hold together.                                            *)
(***************************************************************************)
LEMMA InUnits ==
    ASSUME NEW f \in [Keys -> Nat]
    PROVE  /\ Units(f) \subseteq Keys \X Nat
           /\ \A k \in Keys, i \in Nat : <<k, i>> \in Units(f) <=> i \in 1..f[k]
  BY DEF Units

LEMMA UnitsFinite ==
    ASSUME NEW f \in [Keys -> Nat]
    PROVE  IsFiniteSet(Units(f)) /\ Sum(f) \in Nat
  <1> DEFINE each == [k \in Keys |-> {k} \X (1..f[k])]
             parts == {{k} \X (1..f[k]) : k \in Keys}
  <1>1. each \in Surjection(Keys, parts)
    BY DEF Surjection
  <1>2. IsFiniteSet(parts)
    <2> HIDE DEF each, parts
    <2> QED
      BY <1>1, UsageAssumption, FS_Surjection
  <1>3. ASSUME NEW T \in parts PROVE IsFiniteSet(T)
    <2>1. PICK k \in Keys : T = {k} \X (1..f[k])
      OBVIOUS
    <2>2. IsFiniteSet({k}) /\ IsFiniteSet(1..f[k])
      <3>1. PICK n \in Nat : n = f[k]
        OBVIOUS
      <3>2. IsFiniteSet(1..n)
        BY FS_Interval
      <3> QED
        BY <3>1, <3>2, FS_Singleton
    <2> QED
      BY <2>1, <2>2, FS_Product
  <1>4. Units(f) = UNION parts
    BY DEF Units
  <1> HIDE DEF parts
  <1>5. IsFiniteSet(Units(f))
    BY <1>2, <1>3, <1>4, FS_UNION
  <1> QED
    BY <1>5, FS_CardinalityType DEF Sum

\* One counter counts for what it holds.
LEMMA SumOne ==
    ASSUME NEW f \in [Keys -> Nat], NEW k \in Keys, NEW n \in Nat
    PROVE  Sum([f EXCEPT ![k] = n]) = Sum([f EXCEPT ![k] = 0]) + n
  <1> DEFINE g == [f EXCEPT ![k] = n]
             h == [f EXCEPT ![k] = 0]
             own == {k} \X (1..n)
  <1>1. /\ g \in [Keys -> Nat] /\ h \in [Keys -> Nat]
        /\ g[k] = n /\ h[k] = 0 /\ \A j \in Keys \ {k} : g[j] = h[j]
    OBVIOUS
  <1> HIDE DEF g, h
  <1>2. Units(g) = Units(h) \cup own
    <2>1. ASSUME NEW j \in Keys, NEW i \in Nat
          PROVE  <<j, i>> \in Units(g) <=> <<j, i>> \in Units(h) \/ <<j, i>> \in own
      <3>1. (<<j, i>> \in Units(g) <=> i \in 1..g[j]) /\ (<<j, i>> \in Units(h) <=> i \in 1..h[j])
        BY <1>1, InUnits
      <3>2. <<j, i>> \in own <=> j = k /\ i \in 1..n
        OBVIOUS
      <3>3. CASE j = k
        BY <1>1, <3>1, <3>2, <3>3
      <3>4. CASE j # k
        BY <1>1, <3>1, <3>2, <3>4
      <3> QED
        BY <3>3, <3>4
    <2>2. /\ Units(g) \subseteq Keys \X Nat /\ Units(h) \subseteq Keys \X Nat
          /\ own \subseteq Keys \X Nat
      BY <1>1, InUnits
    <2> HIDE DEF own
    <2> QED
      BY <2>1, <2>2
  <1>3. Units(h) \cap own = {}
    <2>1. \A i \in Nat : <<k, i>> \notin Units(h)
      BY <1>1, InUnits
    <2> QED
      BY <2>1
  <1>4. IsFiniteSet(own) /\ Cardinality(own) = n
    <2>1. IsFiniteSet({k}) /\ Cardinality({k}) = 1
      BY FS_Singleton
    <2>2. IsFiniteSet(1..n) /\ Cardinality(1..n) = n
      BY FS_Interval
    <2> QED
      BY <2>1, <2>2, FS_Product
  <1>5. IsFiniteSet(Units(h)) /\ Sum(h) \in Nat
    BY <1>1, UnitsFinite
  <1> HIDE DEF own
  <1>6. Cardinality(Units(h) \cup own) = Cardinality(Units(h)) + Cardinality(own) - Cardinality({})
    BY <1>3, <1>4, <1>5, FS_Union
  <1>7. Sum(g) = Sum(h) + n
    BY <1>2, <1>4, <1>5, <1>6, FS_EmptySet DEF Sum
  <1> QED
    BY <1>7 DEF g, h

\* A counter that grows.
LEMMA SumMore ==
    ASSUME NEW f \in [Keys -> Nat], NEW k \in Keys, NEW n \in Nat
    PROVE  /\ Sum([f EXCEPT ![k] = f[k] + n]) = Sum(f) + n
           /\ Sum(f) = Sum([f EXCEPT ![k] = 0]) + f[k]
  <1>1. PICK a \in Nat, b \in Nat : a = f[k] /\ b = a + n
    OBVIOUS
  <1>2. [f EXCEPT ![k] = a] = f
    BY <1>1
  <1>3. Sum([f EXCEPT ![k] = a]) = Sum([f EXCEPT ![k] = 0]) + a
    BY SumOne
  <1>4. Sum([f EXCEPT ![k] = b]) = Sum([f EXCEPT ![k] = 0]) + b
    BY SumOne
  <1>5. Sum([f EXCEPT ![k] = 0]) \in Nat
    BY UnitsFinite
  <1>6. [f EXCEPT ![k] = f[k] + n] = [f EXCEPT ![k] = b]
    BY <1>1
  <1>7. PICK s, t, z : /\ s = Sum([f EXCEPT ![k] = b]) /\ t = Sum(f)
                       /\ z = Sum([f EXCEPT ![k] = 0])
    OBVIOUS
  <1>8. s = z + b /\ t = z + a /\ z \in Nat
    BY <1>2, <1>3, <1>4, <1>5, <1>7
  <1>9. s = t + n /\ t = z + f[k]
    BY <1>1, <1>8
  <1> QED
    BY <1>6, <1>7, <1>9

\* Counters that are added, one by one.
LEMMA SumBoth ==
    ASSUME NEW f \in [Keys -> Nat], NEW g \in [Keys -> Nat]
    PROVE  Sum([k \in Keys |-> f[k] + g[k]]) = Sum(f) + Sum(g)
  <1> DEFINE h == [k \in Keys |-> f[k] + g[k]]
             over == {u \in Keys \X Nat : f[u[1]] < u[2] /\ u[2] <= h[u[1]]}
             up == [u \in Units(g) |-> <<u[1], u[2] + f[u[1]]>>]
  <1>1. h \in [Keys -> Nat] /\ \A k \in Keys : h[k] = f[k] + g[k] /\ f[k] \in Nat /\ g[k] \in Nat
    OBVIOUS
  <1> HIDE DEF h
  <1>2. \A k \in Keys, i \in Nat : <<k, i>> \in over <=> f[k] < i /\ i <= h[k]
    OBVIOUS
  <1>3. over \subseteq Keys \X Nat
    OBVIOUS
  <1>4. \A u \in Units(g) :
           /\ u[1] \in Keys /\ u[2] \in Nat /\ u = <<u[1], u[2]>> /\ 1 <= u[2] /\ u[2] <= g[u[1]]
    <2> SUFFICES ASSUME NEW u \in Units(g)
                 PROVE  /\ u[1] \in Keys /\ u[2] \in Nat /\ u = <<u[1], u[2]>>
                        /\ 1 <= u[2] /\ u[2] <= g[u[1]]
      OBVIOUS
    <2>1. PICK k \in Keys, i \in Nat : u = <<k, i>>
      BY InUnits
    <2>2. i \in 1..g[k]
      BY <2>1, InUnits
    <2> QED
      BY <1>1, <2>1, <2>2
  <1> HIDE DEF over
  <1>5. up \in Bijection(Units(g), over)
    <2>1. up \in [Units(g) -> over]
      <3>1. ASSUME NEW u \in Units(g) PROVE <<u[1], u[2] + f[u[1]]>> \in over
        <4>1. PICK k \in Keys, i \in Nat : k = u[1] /\ i = u[2]
          BY <1>4
        <4>2. 1 <= i /\ i <= g[k]
          BY <1>4, <4>1
        <4>3. i + f[k] \in Nat /\ f[k] < i + f[k] /\ i + f[k] <= h[k]
          BY <1>1, <4>2
        <4> QED
          BY <1>2, <4>1, <4>3
      <3> QED
        BY <3>1
    <2>2. ASSUME NEW u \in Units(g), NEW v \in Units(g), up[u] = up[v]
          PROVE  u = v
      <3>1. u[1] = v[1] /\ u[2] + f[u[1]] = v[2] + f[v[1]]
        BY <2>2
      <3>2. u[1] \in Keys /\ v[1] \in Keys /\ u[2] \in Nat /\ v[2] \in Nat
        BY <1>4
      <3>3. f[u[1]] \in Nat /\ f[u[1]] = f[v[1]]
        BY <1>1, <3>1, <3>2
      <3>4. u[2] = v[2]
        BY <3>1, <3>2, <3>3
      <3> QED
        BY <1>4, <3>1, <3>4
    <2>3. ASSUME NEW w \in over PROVE \E u \in Units(g) : up[u] = w
      <3>1. PICK k \in Keys, i \in Nat : w = <<k, i>> /\ f[k] < i /\ i <= h[k]
        BY <1>2, <1>3
      <3>2. PICK d \in Nat : d = i - f[k] /\ 1 <= d /\ d <= g[k] /\ d + f[k] = i
        BY <1>1, <3>1
      <3>3. <<k, d>> \in Units(g)
        BY <1>1, <3>2, InUnits
      <3>4. up[<<k, d>>] = w
        BY <3>1, <3>2, <3>3
      <3> QED
        BY <3>3, <3>4
    <2> HIDE DEF up
    <2> QED
      BY <2>1, <2>2, <2>3 DEF Bijection, Injection, Surjection, IsInjective
  <1>6. IsFiniteSet(over) /\ Cardinality(over) = Sum(g)
    <2>1. IsFiniteSet(Units(g)) /\ ExistsBijection(Units(g), over)
      BY <1>5, UnitsFinite DEF ExistsBijection
    <2> QED
      BY <2>1, FS_Bijection DEF Sum
  <1>7. Units(h) = Units(f) \cup over
    <2>1. ASSUME NEW k \in Keys, NEW i \in Nat
          PROVE  <<k, i>> \in Units(h) <=> <<k, i>> \in Units(f) \/ <<k, i>> \in over
      <3>1. (<<k, i>> \in Units(h) <=> i \in 1..h[k]) /\ (<<k, i>> \in Units(f) <=> i \in 1..f[k])
        BY <1>1, InUnits
      <3> QED
        BY <1>1, <1>2, <3>1
    <2>2. Units(h) \subseteq Keys \X Nat /\ Units(f) \subseteq Keys \X Nat
      BY <1>1, InUnits
    <2> QED
      BY <1>3, <2>1, <2>2
  <1>8. Units(f) \cap over = {}
    <2>1. ASSUME NEW k \in Keys, NEW i \in Nat, <<k, i>> \in Units(f), <<k, i>> \in over PROVE FALSE
      <3>1. i \in 1..f[k] /\ f[k] < i
        BY <1>2, <2>1, InUnits
      <3> QED
        BY <1>1, <3>1
    <2> QED
      BY <1>3, <2>1
  <1>9. IsFiniteSet(Units(f)) /\ Sum(f) \in Nat /\ Sum(g) \in Nat
    BY UnitsFinite
  <1>10. Cardinality(Units(f) \cup over) = Cardinality(Units(f)) + Cardinality(over) - Cardinality({})
    BY <1>6, <1>8, <1>9, FS_Union
  <1>11. Sum(h) = Sum(f) + Sum(g)
    BY <1>6, <1>7, <1>9, <1>10, FS_EmptySet DEF Sum
  <1> QED
    BY <1>11 DEF h

-----------------------------------------------------------------------------
(***************************************************************************)
(* The operations of the tracker keep its type, and leave what they do not *)
(* name alone.                                                             *)
(***************************************************************************)
LEMMA NothingSaved ==
    /\ NoCounts \in [Keys -> Nat] /\ NoQuotas \in [Keys -> Quota]
    /\ NoSave \in SaverState
    /\ NoSave.pc = "no"
  BY DEF NoCounts, NoQuotas, Quota, NoSave, UsageFile, SaverState

LEMMA LoadedType ==
    ASSUME NEW f \in UsageFile
    PROVE  /\ Loaded(f) \in Tracker
           /\ Loaded(f).total = f.total
           /\ f.legacy = NoCounts => Loaded(f).counters = f.counters
  <1>1. [k \in Keys |-> f.legacy[k] + f.counters[k]] \in [Keys -> Nat]
    BY DEF UsageFile
  <1>2. f.legacy = NoCounts => [k \in Keys |-> f.legacy[k] + f.counters[k]] = f.counters
    BY DEF UsageFile, NoCounts
  <1> QED
    BY <1>1, <1>2 DEF Loaded, Tracker, UsageFile

LEMMA RecordType ==
    ASSUME NEW u \in Tracker, NEW k
    PROVE  /\ RecordAccount(u, k) \in Tracker
           /\ RecordAccount(u, k).total = u.total
           /\ RecordAccount(u, k).quotas = u.quotas
  BY DEF RecordAccount, Tracker

LEMMA MoveType ==
    ASSUME NEW u \in Tracker, NEW old \in Keys, NEW new \in Keys
    PROVE  /\ MoveAccount(u, old, new) \in Tracker
           /\ MoveAccount(u, old, new).total = u.total
           /\ MoveAccount(u, old, new).quotas = u.quotas
  <1>1. CASE old = new
    BY <1>1 DEF MoveAccount
  <1>2. CASE old # new
    <2> DEFINE c == [[u.counters EXCEPT ![new] = @ + u.counters[old]] EXCEPT ![old] = 0]
    <2>1. c \in [Keys -> Nat]
      BY DEF Tracker
    <2>2. [u.alias EXCEPT ![old] = new] \in [Keys -> Keys \cup {NoKey}]
      BY DEF Tracker
    <2>3. MoveAccount(u, old, new) =
             [total |-> u.total, counters |-> c, alias |-> [u.alias EXCEPT ![old] = new],
              quotas |-> u.quotas]
      BY <1>2 DEF MoveAccount, Tracker
    <2> HIDE DEF c
    <2> QED
      BY <2>1, <2>2, <2>3 DEF Tracker
  <1> QED
    BY <1>1, <1>2

LEMMA DropType ==
    ASSUME NEW u \in Tracker, NEW k \in Keys
    PROVE  /\ DropAccount(u, k) \in Tracker /\ DropQuota(u, k) \in Tracker
           /\ DropAccount(u, k).total = u.total /\ DropQuota(u, k).total = u.total
           /\ DropAccount(u, k).quotas = [u.quotas EXCEPT ![k] = "none"]
           /\ DropQuota(u, k).quotas = [u.quotas EXCEPT ![k] = "none"]
  BY DEF DropAccount, DropQuota, Tracker, Quota

LEMMA SnapshotType ==
    ASSUME usage \in Tracker
    PROVE  LET s == [total |-> usage.total, legacy |-> NoCounts,
                     counters |-> usage.counters, quotas |-> usage.quotas]
           IN  s \in UsageFile /\ Holds(s)
  BY NothingSaved DEF Tracker, UsageFile, Holds

(***************************************************************************)
(* The slots: a refresh that takes one or gives one back.                  *)
(***************************************************************************)
LEMMA HoldersFinite == IsFiniteSet(Holders) /\ Cardinality(Holders) \in Nat
  <1>1. Holders \in SUBSET Jobs
    BY DEF Holders
  <1> QED
    BY <1>1, FS_Subset, FS_CardinalityType, AdminAssumption

LEMMA SlotTaken ==
    ASSUME Slots, NEW j \in Jobs, j \notin Holders, busy < Workers,
           busy' = busy + 1, Holders' = Holders \cup {j}
    PROVE  Slots'
  <1>1. Cardinality(Holders \cup {j}) =
          IF j \in Holders THEN Cardinality(Holders) ELSE Cardinality(Holders) + 1
    BY HoldersFinite, FS_AddElement, Zenon
  <1> QED
    BY <1>1, HoldersFinite, AdminAssumption DEF Slots

LEMMA SlotGivenBack ==
    ASSUME Slots, NEW j \in Holders,
           busy' = busy - 1, Holders' = Holders \ {j}
    PROVE  Slots' /\ busy' \in Nat
  <1>1. Cardinality(Holders \ {j}) =
          IF j \in Holders THEN Cardinality(Holders) - 1 ELSE Cardinality(Holders)
    BY HoldersFinite, FS_RemoveElement, Zenon
  <1>2. Cardinality(Holders \ {j}) \in Nat
    BY HoldersFinite, FS_RemoveElement, FS_CardinalityType
  <1> QED
    BY <1>1, <1>2, HoldersFinite, AdminAssumption DEF Slots

LEMMA SlotsSame ==
    ASSUME Slots, busy' = busy, Holders' = Holders
    PROVE  Slots'
  BY DEF Slots

-----------------------------------------------------------------------------
LEMMA SaverWants ==
    ASSUME saver \in [Savers -> SaverState], NEW p \in Savers,
           saver' = [saver EXCEPT ![p].pc = "want"]
    PROVE  /\ saver' \in [Savers -> SaverState]
           /\ saver'[p].pc = "want"
           /\ \A o \in Savers \ {p} : saver'[o] = saver[o]
  BY DEF SaverState

LEMMA BootedParts ==
    /\ IdleAdmin \in AdminState /\ IdleJob \in JobState /\ IdleRequest \in RequestState
    /\ IdleAdmin.pc = "idle" /\ IdleJob.pc = "idle" /\ IdleRequest.pc = "idle"
  BY DEF IdleAdmin, IdleJob, IdleRequest, AdminState, JobState, RequestState

LEMMA SaverNames ==
    /\ Requests \subseteq Savers /\ Jobs \subseteq Savers /\ "main" \in Savers
    /\ "free" \notin Savers /\ "main" \notin Jobs /\ "main" \notin Requests
    /\ \A j \in Jobs : j \notin Requests /\ j # "free" /\ j # "admin"
  BY AdminAssumption DEF Savers

(***************************************************************************)
(* A process that has just started, with the tracker of a file.            *)
(***************************************************************************)
Fresh ==
    /\ Booted(Loaded(file)) /\ file \in UsageFile
    /\ pool \subseteq Keys /\ config \subseteq Keys
    /\ ops \in Bounds
    /\ earned \in [Keys -> Nat] /\ tangled \in BOOLEAN
    /\ stray = {k \in Keys \ pool : usage.quotas[k] # "none"}

LEMMA FreshInv == Fresh => IInv
  <1> SUFFICES ASSUME Fresh PROVE IInv
    OBVIOUS
  <1> USE BootedParts, NothingSaved, SaverNames, LoadedType DEF Fresh, Booted
  <1>1. TypeOK
    BY DEF TypeOK
  <1>2. Slots
    <2>1. Holders = {}
      BY DEF Holders
    <2> QED
      BY <2>1, FS_EmptySet, AdminAssumption DEF Slots
  <1>3. Locks
    BY DEF Locks
  <1>4. Handlers
    BY DEF Handlers
  <1>5. Saved
    BY DEF Saved
  <1>6. Last
    BY DEF Last
  <1> QED
    BY <1>1, <1>2, <1>3, <1>4, <1>5, <1>6 DEF IInv

LEMMA InitInv == Init => IInv
  <1> SUFFICES ASSUME Init PROVE IInv
    OBVIOUS
  <1>1. file \in UsageFile /\ pool \subseteq Keys /\ config \subseteq Keys
    BY AdminAssumption DEF Init
  <1>2. earned \in [Keys -> Nat]
    BY <1>1 DEF Init, UsageFile
  <1>3. stray = {k \in Keys \ pool : usage.quotas[k] # "none"}
    BY DEF Init, Booted, Loaded
  <1>4. ops \in Bounds
    BY AdminAssumption DEF Init, Bounds
  <1> QED
    BY <1>1, <1>2, <1>3, <1>4, FreshInv DEF Init, Fresh

-----------------------------------------------------------------------------
(***************************************************************************)
(* The account handlers.  They hold lock, so that no refresh saves; what   *)
(* they change of the tracker is never its total.                          *)
(***************************************************************************)
LEMMA BeginInv ==
    ASSUME IInv, NEW op \in {"add", "rotate", "delete"}, NEW k \in Keys,
           NEW new \in Keys \cup {NoKey}, op = "rotate" => new \in Keys,
           Begin(op, k, new)
    PROVE  IInv'
  <1> USE SaverNames DEF IInv, Begin, mem, past
  <1>1. TypeOK'
    <2>1. ops' \in Bounds
      BY AdminAssumption DEF TypeOK, Bounds
    <2>2. admin' \in AdminState
      BY DEF AdminState
    <2> QED
      BY <2>1, <2>2 DEF TypeOK
  <1>2. Slots'
    BY SlotsSame DEF Holders
  <1>3. Locks'
    BY DEF Locks
  <1>4. Handlers'
    BY DEF Handlers, Locks
  <1>5. Saved'
    BY DEF Saved, Dirty, Holds
  <1>6. Last'
    BY DEF Last
  <1> QED
    BY <1>1, <1>2, <1>3, <1>4, <1>5, <1>6

LEMMA ApplyAddInv == IInv /\ ApplyAdd => IInv'
  <1> SUFFICES ASSUME IInv, ApplyAdd PROVE IInv'
    OBVIOUS
  <1> USE SaverNames, BootedParts DEF IInv, ApplyAdd, Refuse
  <1>1. TypeOK'
    <2>1. admin' \in AdminState
      BY DEF TypeOK, AdminState
    <2>2. earned' \in [Keys -> Nat] /\ pool' \subseteq Keys
      BY DEF TypeOK, Handlers
    <2> QED
      BY <2>1, <2>2 DEF TypeOK
  <1>2. Slots'
    BY SlotsSame DEF Holders
  <1>3. Locks'
    BY DEF Locks, TypeOK, AdminState
  <1>4. Handlers'
    BY DEF Handlers, TypeOK, AdminState
  <1>5. Saved'
    BY DEF Saved, Dirty, Holds
  <1>6. Last'
    BY DEF Last, Locks
  <1> QED
    BY <1>1, <1>2, <1>3, <1>4, <1>5, <1>6

LEMMA ApplyRotateInv == IInv /\ ApplyRotate => IInv'
  <1> SUFFICES ASSUME IInv, ApplyRotate PROVE IInv'
    OBVIOUS
  <1> USE SaverNames, BootedParts DEF IInv, ApplyRotate, Refuse
  <1>1. req' \in [Requests -> RequestState] /\ \A r \in Requests : req'[r].pc = req[r].pc
    <2>1. CASE UNCHANGED req
      BY <2>1 DEF TypeOK
    <2>2. CASE /\ admin.new \in Keys
               /\ req' = [r \in Requests |->
                            IF req[r].home = admin.key THEN [req[r] EXCEPT !.home = admin.new]
                                                       ELSE req[r]]
      BY <2>2 DEF TypeOK, RequestState
    <2> QED
      BY <2>1, <2>2 DEF Handlers
  <1>2. TypeOK'
    <2>1. admin' \in AdminState
      BY DEF TypeOK, AdminState
    <2>2. earned' \in [Keys -> Nat] /\ pool' \subseteq Keys
      BY DEF TypeOK, Handlers
    <2> QED
      BY <1>1, <2>1, <2>2 DEF TypeOK
  <1>3. Slots'
    BY SlotsSame DEF Holders
  <1>4. Locks'
    BY <1>1 DEF Locks, TypeOK, AdminState
  <1>5. Handlers'
    BY DEF Handlers, TypeOK, AdminState
  <1>6. Saved'
    BY <1>1 DEF Saved, Dirty, Holds
  <1>7. Last'
    BY <1>1 DEF Last, Locks
  <1> QED
    BY <1>2, <1>3, <1>4, <1>5, <1>6, <1>7

LEMMA ApplyDeleteInv == IInv /\ ApplyDelete => IInv'
  <1> SUFFICES ASSUME IInv, ApplyDelete PROVE IInv'
    OBVIOUS
  <1> USE SaverNames, BootedParts DEF IInv, ApplyDelete, Refuse
  <1>1. req' \in [Requests -> RequestState] /\ \A r \in Requests : req'[r].pc = req[r].pc
    BY DEF TypeOK, RequestState
  <1>2. TypeOK'
    <2>1. admin' \in AdminState
      BY DEF TypeOK, AdminState
    <2>2. earned' \in [Keys -> Nat] /\ pool' \subseteq Keys
      BY DEF TypeOK
    <2> QED
      BY <1>1, <2>1, <2>2 DEF TypeOK
  <1>3. Slots'
    BY SlotsSame DEF Holders
  <1>4. Locks'
    BY <1>1 DEF Locks, TypeOK, AdminState
  <1>5. Handlers'
    BY DEF Handlers, TypeOK, AdminState
  <1>6. Saved'
    BY <1>1 DEF Saved, Dirty, Holds
  <1>7. Last'
    BY <1>1 DEF Last, Locks
  <1> QED
    BY <1>2, <1>3, <1>4, <1>5, <1>6, <1>7

\* The counters change under a save of a request, the total does not.
LEMMA MoveUsageInv == IInv /\ MoveUsage => IInv'
  <1> SUFFICES ASSUME IInv, MoveUsage PROVE IInv'
    OBVIOUS
  <1> USE SaverNames DEF IInv, MoveUsage, mem
  <1> DEFINE dropped_(q) == [q EXCEPT ![admin.key] = "none"]
  <1>1. usage \in Tracker /\ admin.key \in Keys
        /\ (admin.op = "rotate" => admin.new \in Keys)
    BY DEF TypeOK, Handlers
  <1>2. usage' \in Tracker /\ usage'.total = usage.total
        /\ usage'.quotas = dropped_(usage.quotas)
    <2>1. CASE admin.op = "rotate"
      <3> DEFINE m == MoveAccount(usage, admin.key, admin.new)
      <3>1. m \in Tracker /\ m.total = usage.total /\ m.quotas = usage.quotas
        BY <1>1, <2>1, MoveType
      <3>2. usage' = DropQuota(m, admin.key)
        BY <2>1
      <3> HIDE DEF m, MoveUsage, IInv
      <3>3. /\ DropQuota(m, admin.key) \in Tracker /\ DropQuota(m, admin.key).total = m.total
            /\ DropQuota(m, admin.key).quotas = [m.quotas EXCEPT ![admin.key] = "none"]
        BY <1>1, <3>1, DropType
      <3> QED
        BY <3>1, <3>2, <3>3
    <2>2. CASE admin.op = "delete"
      BY <1>1, <2>2, DropType
    <2> QED
      BY <2>1, <2>2
  <1>3. TypeOK'
    <2>1. admin' \in AdminState
      BY DEF TypeOK, AdminState
    <2> QED
      BY <1>2, <2>1 DEF TypeOK
  <1>4. Slots'
    BY SlotsSame DEF Holders
  <1>5. Locks'
    BY DEF Locks, TypeOK, AdminState
  <1>6. Handlers'
    BY <1>1, <1>2 DEF Handlers, TypeOK, AdminState, Tracker
  <1>7. lock = "admin" /\ \A j \in Jobs : saver[j].pc # "write"
    BY DEF Locks
  <1>8. Saved'
    BY <1>2, <1>7 DEF Saved, Dirty
  <1>9. Last'
    BY <1>7 DEF Last
  <1> QED
    BY <1>3, <1>4, <1>5, <1>6, <1>8, <1>9

LEMMA PersistInv == IInv /\ Persist => IInv'
  <1> SUFFICES ASSUME IInv, Persist PROVE IInv'
    OBVIOUS
  <1> USE SaverNames, BootedParts DEF IInv, Persist, past
  <1>1. /\ job' \in [Jobs -> JobState]
        /\ \A j \in Jobs : job'[j] = job[j] \/ (job[j].pc = "idle" /\ job'[j].pc = "queued")
    <2>1. CASE ~NoneIdle
      <3>1. IdleOne \in Jobs /\ job[IdleOne].pc = "idle"
        BY <2>1 DEF IdleOne, NoneIdle
      <3> DEFINE r == [pc |-> "queued", bound |-> FALSE,
                       key |-> IF admin.op = "add" THEN admin.key ELSE admin.new]
      <3>2. r \in JobState /\ r.pc = "queued"
        BY DEF TypeOK, JobState, AdminState
      <3>3. job' = job \/ job' = [job EXCEPT ![IdleOne] = r]
        BY <2>1
      <3> HIDE DEF r
      <3> QED
        BY <3>1, <3>2, <3>3 DEF TypeOK
    <2>2. CASE NoneIdle
      BY <2>2 DEF TypeOK
    <2> QED
      BY <2>1, <2>2
  <1>2. TypeOK'
    BY <1>1 DEF TypeOK
  <1>3. Slots'
    BY <1>1, SlotsSame DEF Holders
  <1>4. Locks'
    BY <1>1 DEF Locks, TypeOK
  <1>5. Handlers'
    BY DEF Handlers
  <1>6. Saved'
    BY DEF Saved, Dirty, Holds
  <1>7. Last'
    BY DEF Last, Locks
  <1> QED
    BY <1>2, <1>3, <1>4, <1>5, <1>6, <1>7

-----------------------------------------------------------------------------
(***************************************************************************)
(* The refreshes.                                                          *)
(***************************************************************************)
LEMMA StartRefreshInv ==
    ASSUME IInv, NEW k \in Keys, NEW bound \in BOOLEAN, StartRefresh(k, bound)
    PROVE  IInv'
  <1> USE SaverNames DEF IInv, StartRefresh, mem, past
  <1>1. /\ job' \in [Jobs -> JobState]
        /\ \A j \in Jobs : job'[j] = job[j] \/ (job[j].pc = "idle" /\ job'[j].pc = "queued")
    <2> DEFINE r == [pc |-> "queued", key |-> k, bound |-> bound]
    <2>1. IdleOne \in Jobs /\ job[IdleOne].pc = "idle"
      BY DEF IdleOne, NoneIdle
    <2>2. r \in JobState /\ r.pc = "queued"
      BY DEF JobState
    <2>3. job' = [job EXCEPT ![IdleOne] = r]
      OBVIOUS
    <2> HIDE DEF r
    <2> QED
      BY <2>1, <2>2, <2>3 DEF TypeOK
  <1>2. ops' \in Bounds
    BY AdminAssumption DEF TypeOK, Bounds
  <1>3. TypeOK'
    BY <1>1, <1>2 DEF TypeOK
  <1>4. Slots'
    BY <1>1, SlotsSame DEF Holders
  <1>5. Locks'
    BY <1>1 DEF Locks, TypeOK
  <1>6. Handlers' /\ Saved' /\ Last'
    BY DEF Handlers, Saved, Dirty, Holds, Last
  <1> QED
    BY <1>3, <1>4, <1>5, <1>6

LEMMA TakeSlotInv ==
    ASSUME IInv, NEW j \in Jobs, TakeSlot(j)
    PROVE  IInv'
  <1> USE SaverNames DEF IInv, TakeSlot, mem, past
  <1>1. /\ job' \in [Jobs -> JobState] /\ job'[j].pc = "fetching"
        /\ \A i \in Jobs \ {j} : job'[i] = job[i]
    BY DEF TypeOK, JobState
  <1>2. TypeOK'
    BY <1>1 DEF TypeOK
  <1>3. Slots'
    <2>1. j \notin Holders /\ Holders' = Holders \cup {j}
      BY <1>1 DEF Holders
    <2> QED
      BY <2>1, SlotTaken
  <1>4. Locks'
    BY <1>1 DEF Locks, TypeOK
  <1>5. Handlers' /\ Saved' /\ Last'
    BY DEF Handlers, Saved, Dirty, Holds, Last
  <1> QED
    BY <1>2, <1>3, <1>4, <1>5

LEMMA GiveUpInv ==
    ASSUME IInv, NEW j \in Jobs, GiveUp(j)
    PROVE  IInv'
  <1> USE SaverNames, BootedParts DEF IInv, GiveUp, mem, past
  <1>1. /\ job' \in [Jobs -> JobState] /\ job'[j].pc = "idle"
        /\ \A i \in Jobs \ {j} : job'[i] = job[i]
    BY DEF TypeOK
  <1>2. TypeOK'
    BY <1>1 DEF TypeOK
  <1>3. Slots'
    BY <1>1, SlotsSame DEF Holders
  <1>4. Locks'
    BY <1>1 DEF Locks, TypeOK
  <1>5. Handlers' /\ Saved' /\ Last'
    BY DEF Handlers, Saved, Dirty, Holds, Last
  <1> QED
    BY <1>2, <1>3, <1>4, <1>5

\* An answer is stored for a key of the pool only; lock is free, so that no
\* handler is between its change of the pool and that of the tracker.
LEMMA PublishInv ==
    ASSUME IInv, NEW j \in Jobs, NEW ok \in BOOLEAN, Publish(j, ok)
    PROVE  IInv'
  <1> USE SaverNames, BootedParts DEF IInv, mem, past
  <1>1. CASE job[j].key \notin pool
    <2> USE <1>1
    <2>1. /\ job' \in [Jobs -> JobState] /\ job'[j].pc = "idle"
          /\ \A i \in Jobs \ {j} : job'[i] = job[i]
      BY DEF TypeOK, Publish
    <2>2. Slots' /\ busy' \in Nat
      <3>1. j \in Holders /\ Holders' = Holders \ {j}
        BY <2>1 DEF Holders, Publish
      <3> QED
        BY <3>1, SlotGivenBack DEF Publish
    <2>3. TypeOK'
      BY <2>1, <2>2 DEF TypeOK, Publish
    <2>4. Locks'
      BY <2>1 DEF Locks, TypeOK, Publish
    <2>5. Handlers' /\ Saved' /\ Last'
      BY DEF Handlers, Saved, Dirty, Holds, Last, Publish
    <2> QED
      BY <2>2, <2>3, <2>4, <2>5
  <1>2. CASE job[j].key \in pool
    <2> DEFINE q == IF ok THEN "data" ELSE QuotaError(usage.quotas[job[j].key])
    <2>1. /\ job' \in [Jobs -> JobState] /\ job'[j].pc = "saving"
          /\ \A i \in Jobs \ {j} : job'[i] = job[i]
      BY <1>2 DEF TypeOK, JobState, Publish
    <2>2. /\ saver' \in [Savers -> SaverState] /\ saver'[j].pc = "want"
          /\ \A p \in Savers \ {j} : saver'[p] = saver[p]
      BY <1>2, SaverWants DEF TypeOK, Publish
    <2>3. usage' = [usage EXCEPT !.quotas = [@ EXCEPT ![job[j].key] = q]]
      BY <1>2 DEF Publish
    <2>4. q \in Quota
      BY DEF Quota, QuotaError
    <2>5. /\ usage' \in Tracker
          /\ usage'.total = usage.total /\ usage'.counters = usage.counters
          /\ \A k \in Keys \ {job[j].key} : usage'.quotas[k] = usage.quotas[k]
      <3> HIDE DEF q
      <3> QED
        BY <2>3, <2>4 DEF TypeOK, Tracker
    <2>6. lock = "free" /\ lock' = j /\ busy' = busy
      BY <1>2 DEF Publish
    <2>7. TypeOK'
      BY <2>1, <2>2, <2>5, <2>6 DEF TypeOK, Publish
    <2>8. Slots'
      BY <2>1, <2>6, SlotsSame DEF Holders, Publish
    <2>9. Locks'
      BY <2>1, <2>2, <2>6 DEF Locks, TypeOK, Publish
    <2>10. Handlers'
      BY <1>2, <2>5, <2>6 DEF Handlers, Publish
    <2>11. Saved'
      BY <2>2, <2>5 DEF Saved, Dirty, Holds, Publish
    <2>12. Last'
      BY <2>2, <2>5, <2>6 DEF Last, Holds, Publish
    <2> QED
      BY <2>7, <2>8, <2>9, <2>10, <2>11, <2>12
  <1> QED
    BY <1>1, <1>2

-----------------------------------------------------------------------------
(***************************************************************************)
(* The requests.                                                           *)
(***************************************************************************)
LEMMA ServeInv ==
    ASSUME IInv, NEW r \in Requests, Serve(r)
    PROVE  IInv'
  <1> USE SaverNames DEF IInv, mem, past
  <1>1. PICK k \in pool : req' = [req EXCEPT ![r] = [pc |-> "served", key |-> k, home |-> k]]
    BY DEF Serve
  <1>2. /\ req' \in [Requests -> RequestState] /\ req'[r].pc = "served" /\ req[r].pc = "idle"
        /\ \A o \in Requests \ {r} : req'[o] = req[o]
    BY <1>1 DEF TypeOK, RequestState, Serve
  <1>3. ops' \in Bounds
    BY AdminAssumption DEF TypeOK, Bounds, Serve
  <1>4. TypeOK'
    BY <1>2, <1>3 DEF TypeOK, Serve
  <1>5. Slots'
    BY SlotsSame DEF Holders, Serve
  <1>6. Locks'
    BY <1>2 DEF Locks, Serve
  <1>7. Handlers'
    BY DEF Handlers, Serve
  <1>8. Saved'
    BY <1>2 DEF Saved, Dirty, Holds, Serve
  <1>9. Last'
    BY DEF Last, Serve
  <1> QED
    BY <1>4, <1>5, <1>6, <1>7, <1>8, <1>9

LEMMA CountTotalInv ==
    ASSUME IInv, NEW r \in Requests, CountTotal(r)
    PROVE  IInv'
  <1> USE SaverNames DEF IInv, CountTotal, mem, past
  <1>1. /\ req' \in [Requests -> RequestState] /\ req'[r].pc = "counted" /\ req[r].pc = "served"
        /\ \A o \in Requests \ {r} : req'[o] = req[o]
    BY DEF TypeOK, RequestState
  <1>2. usage' \in Tracker /\ usage'.quotas = usage.quotas
    BY DEF TypeOK, Tracker
  <1>3. TypeOK'
    BY <1>1, <1>2 DEF TypeOK
  <1>4. Slots'
    BY SlotsSame DEF Holders
  <1>5. Locks'
    BY <1>1 DEF Locks
  <1>6. Handlers'
    BY <1>2 DEF Handlers
  <1>7. Saved'
    BY <1>1 DEF Saved, Dirty
  <1>8. Last'
    BY <1>1 DEF Last
  <1> QED
    BY <1>3, <1>4, <1>5, <1>6, <1>7, <1>8

LEMMA CountAccountInv ==
    ASSUME IInv, NEW r \in Requests, CountAccount(r)
    PROVE  IInv'
  <1> USE SaverNames DEF IInv, mem, past
  <1>1. /\ req' \in [Requests -> RequestState] /\ req'[r].pc = "saving" /\ req[r].pc = "counted"
        /\ \A o \in Requests \ {r} : req'[o] = req[o]
    BY DEF TypeOK, RequestState, CountAccount
  <1>2. usage' \in Tracker /\ usage'.quotas = usage.quotas /\ usage'.total = usage.total
    BY RecordType DEF TypeOK, CountAccount
  <1>3. /\ saver' \in [Savers -> SaverState] /\ saver'[r].pc = "want"
        /\ \A p \in Savers \ {r} : saver'[p] = saver[p]
    BY SaverWants DEF TypeOK, CountAccount
  <1>4. earned' \in [Keys -> Nat]
    BY DEF TypeOK, CountAccount
  <1>5. TypeOK'
    BY <1>1, <1>2, <1>3, <1>4 DEF TypeOK, CountAccount
  <1>6. Slots'
    BY SlotsSame DEF Holders, CountAccount
  <1>7. Locks'
    BY <1>1, <1>3 DEF Locks, CountAccount
  <1>8. Handlers'
    BY <1>2 DEF Handlers, CountAccount
  <1>9. Saved'
    <2>1. Dirty'
      BY <1>1, <1>3 DEF Dirty
    <2> QED
      BY <2>1, <1>1 DEF Saved
  <1>10. Last'
    BY <1>1 DEF Last, CountAccount
  <1> QED
    BY <1>5, <1>6, <1>7, <1>8, <1>9, <1>10

-----------------------------------------------------------------------------
(***************************************************************************)
(* The saves.  saveMu lets one process write at a time, so that a snapshot *)
(* is never written over a later one.                                      *)
(***************************************************************************)
LEMMA SnapshotInv ==
    ASSUME IInv, NEW p \in Savers, Snapshot(p)
    PROVE  IInv'
  <1> USE SaverNames DEF IInv, mem, past
  <1> DEFINE s == [total |-> usage.total, legacy |-> NoCounts,
                   counters |-> usage.counters, quotas |-> usage.quotas]
  <1>1. s \in UsageFile /\ Holds(s)
    BY SnapshotType DEF TypeOK
  <1>2. saver' = [saver EXCEPT ![p] = [pc |-> "write", snap |-> s]]
    BY DEF Snapshot
  <1> HIDE DEF s
  <1>3. /\ saver' \in [Savers -> SaverState]
        /\ saver'[p].pc = "write" /\ saver'[p].snap = s /\ saver[p].pc = "want"
        /\ \A o \in Savers \ {p} : saver'[o] = saver[o]
    BY <1>1, <1>2 DEF TypeOK, SaverState, Snapshot
  <1>4. TypeOK'
    BY <1>3 DEF TypeOK, Snapshot
  <1>5. Slots'
    BY SlotsSame DEF Holders, Snapshot
  <1>6. \A o \in Savers : saver[o].pc # "write"
    BY DEF Locks, Snapshot
  <1>7. Locks'
    BY <1>3, <1>6 DEF Locks, Snapshot
  <1>8. Handlers'
    BY DEF Handlers, Snapshot
  <1>9. Saved'
    BY <1>1, <1>3, <1>6 DEF Saved, Holds, Snapshot
  <1>10. Last'
    BY <1>1, <1>3, <1>6 DEF Last, Holds, Snapshot
  <1> QED
    BY <1>4, <1>5, <1>7, <1>8, <1>9, <1>10

LEMMA SaveWriteInv ==
    ASSUME IInv, Alive, NEW p \in Savers, SaveWrite(p)
    PROVE  IInv'
  <1> USE SaverNames, BootedParts, NothingSaved DEF IInv, mem, past
  <1>1. /\ saver' \in [Savers -> SaverState]
        /\ saver'[p].pc = "no" /\ saver[p].pc = "write"
        /\ \A o \in Savers \ {p} : saver'[o] = saver[o] /\ saver[o].pc # "write"
    BY DEF TypeOK, SaveWrite, Locks
  <1>2. file' = saver[p].snap /\ file' \in UsageFile /\ saveMu' = "free"
    BY DEF TypeOK, SaverState, SaveWrite
  <1>3. \A o \in Savers : saver'[o].pc # "write"
    BY <1>1
  <1>4. Handlers'
    BY DEF Handlers, SaveWrite
  <1>5. ~Dirty => file'.total = usage'.total
    BY <1>1, <1>2 DEF Saved, SaveWrite
  <1>6. CASE p \in Requests
    <2>1. /\ req' \in [Requests -> RequestState] /\ req'[p].pc = "idle" /\ req[p].pc = "saving"
          /\ \A o \in Requests \ {p} : req'[o] = req[o]
          /\ UNCHANGED <<lock, job, busy, phase>>
      BY <1>1, <1>6 DEF TypeOK, SaveWrite, Locks
    <2>2. TypeOK' /\ Slots'
      BY <1>1, <1>2, <2>1, SlotsSame DEF TypeOK, Holders, SaveWrite
    <2>3. Locks'
      BY <1>1, <1>6, <2>1 DEF Locks, SaveWrite
    <2>4. Saved'
      BY <1>1, <1>3, <1>5, <2>1 DEF Saved, Dirty
    <2>5. Last'
      BY <1>3, <2>1, <1>6 DEF Last, SaveWrite
    <2> QED
      BY <1>4, <2>2, <2>3, <2>4, <2>5
  <1>7. CASE p \in Jobs
    <2>1. /\ job' \in [Jobs -> JobState] /\ job'[p].pc = "idle" /\ job[p].pc = "saving"
          /\ \A o \in Jobs \ {p} : job'[o] = job[o]
          /\ lock' = "free" /\ lock = p /\ busy' = busy - 1 /\ UNCHANGED <<req, phase>>
      BY <1>1, <1>7 DEF TypeOK, SaveWrite, Locks
    <2>2. Slots' /\ busy' \in Nat
      <3>1. p \in Holders /\ Holders' = Holders \ {p}
        BY <1>7, <2>1 DEF Holders
      <3> QED
        BY <2>1, <3>1, SlotGivenBack
    <2>3. TypeOK'
      BY <1>1, <1>2, <2>1, <2>2 DEF TypeOK, SaveWrite
    <2>4. Locks'
      BY <1>1, <1>7, <2>1 DEF Locks, SaveWrite
    <2>5. Saved'
      BY <1>1, <1>3, <1>5, <2>1 DEF Saved, Dirty
    <2>6. Last'
      BY <1>2, <1>3, <1>7, <2>1 DEF Last, SaveWrite, Alive
    <2> QED
      BY <1>4, <2>2, <2>3, <2>4, <2>5, <2>6
  <1>8. CASE p = "main"
    <2>1. /\ UNCHANGED <<req, lock, job, busy, usage>>
          /\ phase \in {"final", "timeout"}
          /\ phase' = IF phase = "final" THEN "exit" ELSE "killed"
      BY <1>1, <1>8 DEF TypeOK, SaveWrite, Locks
    <2>2. TypeOK' /\ Slots'
      BY <1>1, <1>2, <2>1, SlotsSame DEF TypeOK, Holders, SaveWrite
    <2>3. Locks'
      BY <1>1, <1>8, <2>1 DEF Locks, SaveWrite
    <2>4. Saved'
      BY <1>3, <1>5, <2>1 DEF Saved, Dirty
    <2>5. Last'
      BY <1>1, <1>2, <1>3, <1>8, <2>1 DEF Last, Holds
    <2> QED
      BY <1>4, <2>2, <2>3, <2>4, <2>5
  <1> QED
    BY <1>6, <1>7, <1>8 DEF Savers

-----------------------------------------------------------------------------
(***************************************************************************)
(* The process.                                                            *)
(***************************************************************************)
LEMMA StopInv == IInv /\ Stop => IInv'
  <1> SUFFICES ASSUME IInv, Stop PROVE IInv'
    OBVIOUS
  <1> USE SaverNames DEF IInv, Stop, mem, past
  <1>1. ops' \in Bounds
    BY AdminAssumption DEF TypeOK, Bounds
  <1>2. TypeOK' /\ Slots'
    BY <1>1, SlotsSame DEF TypeOK, Holders
  <1>3. Locks' /\ Handlers' /\ Saved' /\ Last'
    BY DEF Locks, Handlers, Saved, Dirty, Holds, Last
  <1> QED
    BY <1>2, <1>3

\* When nobody works, a save that is under way is one of a refresh, which holds
\* what the tracker has: the save of main that follows cannot be overtaken.
LEMMA DrainedInv == IInv /\ Drained => IInv'
  <1> SUFFICES ASSUME IInv, Drained PROVE IInv'
    OBVIOUS
  <1> USE SaverNames DEF IInv, Drained, mem, past
  <1>1. /\ saver' \in [Savers -> SaverState] /\ saver'["main"].pc = "want"
        /\ saver["main"].pc = "no"
        /\ \A p \in Savers \ {"main"} : saver'[p] = saver[p]
    BY SaverWants DEF TypeOK, Locks
  <1>2. TypeOK' /\ Slots'
    BY <1>1, SlotsSame DEF TypeOK, Holders
  <1>3. Locks'
    BY <1>1 DEF Locks
  <1>4. Handlers'
    BY DEF Handlers
  <1>5. Saved'
    BY <1>1 DEF Saved, Dirty, Holds
  <1>6. Last'
    <2>1. CASE Working
      BY <2>1 DEF Last
    <2>2. CASE ~Working
      <3>1. ~Dirty
        BY <2>2 DEF Working, Dirty
      <3>2. \A p \in Savers : saver[p].pc = "write" => p \in Jobs
        BY <1>1, <2>2 DEF Working, Locks, Savers
      <3>3. \A p \in Savers : saver'[p].pc = "write" => Holds(saver[p].snap)'
        BY <1>1, <3>1, <3>2 DEF Saved, Holds
      <3> QED
        BY <2>2, <3>3 DEF Last, Working
    <2> QED
      BY <2>1, <2>2
  <1> QED
    BY <1>2, <1>3, <1>4, <1>5, <1>6

\* FreshInv is about the state of the new process, which a step leads to.
LEMMA BootInv ==
    ASSUME IInv, Boot, ops' \in Bounds
    PROVE  IInv'
  <1>1. (file \in UsageFile)' /\ (pool \subseteq Keys)' /\ (config \subseteq Keys)'
    BY DEF IInv, TypeOK, Boot
  <1>2. Booted(Loaded(file))'
    BY DEF Boot, Booted
  <1>3. (earned \in [Keys -> Nat])'
    <2>1. usage' \in Tracker
      BY <1>1, LoadedType DEF Boot
    <2> QED
      BY <2>1 DEF Boot, Tracker
  <1>4. (tangled \in BOOLEAN)' /\ (stray = {k \in Keys \ pool : usage.quotas[k] # "none"})'
    BY DEF Boot
  <1>5. Fresh'
    BY <1>1, <1>2, <1>3, <1>4 DEF Fresh
  <1> QED
    BY <1>5, FreshInv, PTL

LEMMA NextInv == IInv /\ [Next]_vars => IInv'
  <1> SUFFICES ASSUME IInv, [Next]_vars PROVE IInv'
    OBVIOUS
  <1>1. CASE UNCHANGED vars
    BY <1>1, SlotsSame DEF vars, IInv, TypeOK, Holders, Locks, Handlers, Saved, Dirty, Holds, Last
  <1>2. ASSUME NEW op \in {"add", "delete"}, NEW k \in Keys, Begin(op, k, NoKey) PROVE IInv'
    BY <1>2, BeginInv
  <1>3. ASSUME NEW k \in Keys, NEW new \in Keys, Begin("rotate", k, new) PROVE IInv'
    BY <1>3, BeginInv
  <1>4. CASE Handle
    BY <1>4, ApplyAddInv, ApplyRotateInv, ApplyDeleteInv, MoveUsageInv, PersistInv DEF Handle
  <1>5. ASSUME NEW k \in Keys, NEW bound \in BOOLEAN, StartRefresh(k, bound) PROVE IInv'
    BY <1>5, StartRefreshInv
  <1>6. ASSUME NEW j \in Jobs, Refresh(j) PROVE IInv'
    BY <1>6, TakeSlotInv, GiveUpInv, PublishInv DEF Refresh
  <1>7. ASSUME NEW r \in Requests, Serve(r) \/ CountTotal(r) \/ CountAccount(r) PROVE IInv'
    BY <1>7, ServeInv, CountTotalInv, CountAccountInv
  <1>8. ASSUME Alive, NEW p \in Savers, Save(p) PROVE IInv'
    BY <1>8, SnapshotInv, SaveWriteInv DEF Save
  <1>9. CASE Restart
    BY <1>9, BootInv DEF Restart, IInv, TypeOK
  <1>10. CASE Crash
    <2>1. ops' \in Bounds
      BY <1>10, AdminAssumption DEF Crash, IInv, TypeOK, Bounds
    <2> QED
      BY <1>10, <2>1, BootInv DEF Crash
  <1> QED
    BY <1>1, <1>2, <1>3, <1>4, <1>5, <1>6, <1>7, <1>8, <1>9, <1>10, StopInv, DrainedInv DEF Next

(***************************************************************************)
(* The invariant, and what it implies.                                     *)
(***************************************************************************)
THEOREM Invariant == Spec => []IInv
  BY InitInv, NextInv, PTL DEF Spec

(***************************************************************************)
(* The semaphore of the quota service bounds the queries in flight and     *)
(* counts exactly the refreshes that have a slot, whichever way they end.  *)
(***************************************************************************)
THEOREM SlotsGivenBack == Spec => []RefreshInvariant
  <1>1. IInv => RefreshInvariant
    BY SaverNames DEF IInv, Slots, Holders, Locks, RefreshInvariant, SlotsCounted, LockHeld
  <1> QED
    BY <1>1, Invariant, PTL

(***************************************************************************)
(* No quota of a removed account or of a rotated key is left behind,       *)
(* however long its answer took.                                           *)
(***************************************************************************)
THEOREM QuotasBelong == Spec => []QuotaOfPool
  <1>1. IInv => QuotaOfPool
    BY DEF IInv, Locks, Handlers, QuotaOfPool
  <1> QED
    BY <1>1, Invariant, PTL

(***************************************************************************)
(* Once a request has ended its usage is on disk, whatever saves           *)
(* overlapped its own.                                                     *)
(***************************************************************************)
THEOREM EndedSaved == Spec => []EndedIsSaved
  <1>1. IInv => EndedIsSaved
    BY DEF IInv, Saved, EndedIsSaved
  <1> QED
    BY <1>1, Invariant, PTL

(***************************************************************************)
(* The next process starts with the usage a drained shutdown ended with.   *)
(***************************************************************************)
THEOREM UsageSurvives == Spec => ShutdownKeepsUsage
  <1> DEFINE Kept == phase = "exit" /\ phase' = "up" =>
                       usage'.total = usage.total /\ usage'.counters = usage.counters
  <1>1. IInv /\ [Next]_vars => Kept
    <2> SUFFICES ASSUME IInv, [Next]_vars, phase = "exit", phase' = "up"
                 PROVE  usage'.total = usage.total /\ usage'.counters = usage.counters
      OBVIOUS
    <2>1. Boot
      BY DEF Next, vars, Alive, Restart, Stop, Drained, Crash
    <2>2. Holds(file) /\ file \in UsageFile
      BY DEF IInv, Last, TypeOK
    <2> QED
      BY <2>1, <2>2, LoadedType DEF Boot, Holds
  <1>2. Kept => [Kept]_vars
    OBVIOUS
  <1> QED
    BY <1>1, Invariant, PTL DEF Spec, ShutdownKeepsUsage

-----------------------------------------------------------------------------
(***************************************************************************)
(* Usage is conserved: what is recorded, moved or dropped changes both     *)
(* sides of the account alike.                                             *)
(***************************************************************************)
Counting == {r \in Requests : req[r].pc = "counted"}

Conserved ==
    /\ UsageConserved
    /\ dropped \in Int
    /\ \A r \in Requests : req[r].pc # "idle" => req[r].key \in Keys

LEMMA CountingFinite == IsFiniteSet(Counting) /\ Cardinality(Counting) \in Nat
  <1>1. Counting \subseteq Requests
    BY DEF Counting
  <1> QED
    BY <1>1, AdminAssumption, FS_Subset, FS_CardinalityType

LEMMA TrackerParts ==
    ASSUME NEW u \in Tracker
    PROVE  /\ u.total \in Nat /\ u.counters \in [Keys -> Nat] /\ Sum(u.counters) \in Nat
           /\ u.alias \in [Keys -> Keys \cup {NoKey}]
  <1>1. u.total \in Nat /\ u.counters \in [Keys -> Nat] /\ u.alias \in [Keys -> Keys \cup {NoKey}]
    BY DEF Tracker
  <1> QED
    BY <1>1, UnitsFinite

\* An alias leads to a key.
LEMMA ChargedKey ==
    ASSUME NEW alias \in [Keys -> Keys \cup {NoKey}], NEW k \in Keys
    PROVE  Charged(alias, k) \in Keys
  <1> DEFINE next == [x \in Keys |-> IF alias[x] = NoKey THEN x ELSE alias[x]]
  <1>1. next \in [Keys -> Keys]
    OBVIOUS
  <1>2. \A f \in [Keys -> Keys] : Twice(f) \in [Keys -> Keys]
    BY DEF Twice
  <1> HIDE DEF next
  <1>3. Twice(Twice(Twice(Twice(next)))) \in [Keys -> Keys]
    BY <1>1, <1>2
  <1>4. Charged(alias, k) = Twice(Twice(Twice(Twice(next))))[k]
    BY DEF Charged, next
  <1> QED
    BY <1>3, <1>4

LEMMA RecordSum ==
    ASSUME NEW u \in Tracker, NEW k \in Keys
    PROVE  Sum(RecordAccount(u, k).counters) = Sum(u.counters) + 1
  <1>1. PICK c \in Keys : c = Charged(u.alias, k)
    BY ChargedKey, TrackerParts
  <1>2. RecordAccount(u, k).counters = [u.counters EXCEPT ![c] = u.counters[c] + 1]
    BY <1>1 DEF RecordAccount, Tracker
  <1>3. PICK f \in [Keys -> Nat], n \in Nat : f = u.counters /\ n = 1
    BY TrackerParts
  <1>4. Sum([f EXCEPT ![c] = f[c] + n]) = Sum(f) + n
    BY SumMore
  <1> QED
    BY <1>2, <1>3, <1>4

LEMMA MoveSum ==
    ASSUME NEW u \in Tracker, NEW old \in Keys, NEW new \in Keys
    PROVE  Sum(MoveAccount(u, old, new).counters) = Sum(u.counters)
  <1>1. CASE old = new
    BY <1>1 DEF MoveAccount
  <1>2. CASE old # new
    <2>1. PICK f \in [Keys -> Nat] : f = u.counters
      BY TrackerParts
    <2>2. PICK f0 \in [Keys -> Nat] : f0 = [f EXCEPT ![old] = 0]
      OBVIOUS
    <2>3. PICK n \in Nat : n = f[old]
      OBVIOUS
    <2>4. MoveAccount(u, old, new).counters = [[f EXCEPT ![new] = f[new] + n] EXCEPT ![old] = 0]
      BY <1>2, <2>1, <2>3 DEF MoveAccount, Tracker
    <2>5. [[f EXCEPT ![new] = f[new] + n] EXCEPT ![old] = 0] = [f0 EXCEPT ![new] = f0[new] + n]
      BY <1>2, <2>2
    <2>6. Sum([f0 EXCEPT ![new] = f0[new] + n]) = Sum(f0) + n
      BY SumMore
    <2>7. Sum(f) = Sum(f0) + n
      BY <2>2, <2>3, SumMore
    <2> QED
      BY <2>1, <2>4, <2>5, <2>6, <2>7
  <1> QED
    BY <1>1, <1>2

LEMMA DropSum ==
    ASSUME NEW u \in Tracker, NEW k \in Keys
    PROVE  Sum(u.counters) = Sum(DropAccount(u, k).counters) + u.counters[k]
  <1>1. DropAccount(u, k).counters = [u.counters EXCEPT ![k] = 0]
    BY DEF DropAccount, Tracker
  <1> QED
    BY <1>1, SumMore, TrackerParts

\* A file counts under old and new names.
LEMMA LoadedSum ==
    ASSUME NEW f \in UsageFile
    PROVE  Sum(Loaded(f).counters) = Sum(f.legacy) + Sum(f.counters)
  <1>1. f.legacy \in [Keys -> Nat] /\ f.counters \in [Keys -> Nat]
    BY DEF UsageFile
  <1>2. Loaded(f).counters = [k \in Keys |-> f.legacy[k] + f.counters[k]]
    BY DEF Loaded
  <1> QED
    BY <1>1, <1>2, SumBoth

LEMMA InitConserved == Init => Conserved
  <1> SUFFICES ASSUME Init PROVE Conserved
    OBVIOUS
  <1>1. PICK f \in InitialFiles :
           /\ Booted(Loaded(f))
           /\ dropped = f.total - Sum(f.legacy) - Sum(f.counters)
    BY DEF Init
  <1>2. f \in UsageFile
    BY AdminAssumption
  <1>3. usage = Loaded(f) /\ \A r \in Requests : req[r].pc = "idle"
    BY <1>1 DEF Booted, IdleRequest
  <1>4. Counting = {}
    BY <1>3 DEF Counting
  <1>5. PICK a \in Nat, b \in Nat, t \in Nat :
           a = Sum(f.legacy) /\ b = Sum(f.counters) /\ t = f.total
    BY <1>2, UnitsFinite DEF UsageFile
  <1>6. usage.total = t /\ Sum(usage.counters) = a + b /\ dropped = t - a - b
    BY <1>1, <1>2, <1>3, <1>5, LoadedSum, LoadedType
  <1>7. Cardinality(Counting) = 0
    BY <1>4, FS_EmptySet
  <1>8. dropped \in Int /\ usage.total = Sum(usage.counters) + dropped + Cardinality(Counting)
    BY <1>5, <1>6, <1>7
  <1> QED
    BY <1>3, <1>8 DEF Conserved, UsageConserved, Counting

\* Steps that count nothing.
LEMMA SameConserved ==
    ASSUME Conserved, usage'.total = usage.total, usage'.counters = usage.counters,
           UNCHANGED dropped,
           \A r \in Requests :
              /\ req'[r].pc = "counted" <=> req[r].pc = "counted"
              /\ req'[r].pc # "idle" => req'[r].key \in Keys
    PROVE  Conserved'
  <1>1. Counting' = Counting
    BY DEF Counting
  <1> QED
    BY <1>1 DEF Conserved, UsageConserved, Counting

LEMMA MoveUsageConserved ==
    ASSUME IInv, Conserved, MoveUsage
    PROVE  Conserved'
  <1>1. usage \in Tracker /\ admin.key \in Keys /\ (admin.op = "rotate" => admin.new \in Keys)
    BY DEF IInv, TypeOK, Handlers, MoveUsage
  <1>2. UNCHANGED req
    BY DEF MoveUsage
  <1>3. Counting' = Counting
    BY <1>2 DEF Counting
  <1>4. PICK u \in Tracker, k \in Keys : u = usage /\ k = admin.key
    BY <1>1
  <1>5. CASE admin.op = "rotate"
    <2>1. PICK new \in Keys : new = admin.new
      BY <1>1, <1>5
    <2>2. PICK m \in Tracker : m = MoveAccount(u, k, new)
      BY MoveType
    <2>3. usage' = DropQuota(m, k) /\ dropped' = dropped
      BY <1>4, <1>5, <2>1, <2>2 DEF MoveUsage
    <2>4. usage'.counters = m.counters /\ usage'.total = m.total
      BY <2>3 DEF DropQuota, Tracker
    <2>5. Sum(usage'.counters) = Sum(usage.counters) /\ usage'.total = usage.total
      BY <1>4, <2>2, <2>4, MoveSum, MoveType
    <2> QED
      BY <1>2, <1>3, <2>3, <2>5 DEF Conserved, UsageConserved, Counting
  <1>6. CASE admin.op = "delete"
    <2>1. usage' = DropAccount(u, k) /\ dropped' = dropped + u.counters[k]
      BY <1>4, <1>6 DEF MoveUsage
    <2>a. Sum(usage.counters) \in Int /\ Sum(usage'.counters) \in Int /\ u.counters[k] \in Int
      <3>1. PICK v \in Tracker : v = usage'
        BY <2>1, DropType
      <3>2. Sum(u.counters) \in Int /\ u.counters \in [Keys -> Nat]
        BY TrackerParts
      <3>3. Sum(v.counters) \in Int
        BY TrackerParts
      <3>4. u.counters[k] \in Int
        BY <3>2
      <3> QED
        BY <1>4, <3>1, <3>2, <3>3, <3>4
    <2>2. PICK s \in Int, t \in Int, n \in Int :
             s = Sum(usage.counters) /\ t = Sum(usage'.counters) /\ n = u.counters[k]
      BY <2>a
    <2>3. s = t + n
      BY <1>4, <2>1, <2>2, DropSum
    <2>4. usage'.total = usage.total
      BY <1>4, <2>1, DropType
    <2>5. PICK d \in Int, c \in Int : d = dropped /\ c = Cardinality(Counting)
      BY CountingFinite DEF Conserved
    <2>6. usage.total = s + d + c
      BY <2>2, <2>5 DEF Conserved, UsageConserved, Counting
    <2>7. usage'.total = t + (d + n) + c /\ dropped' = d + n
      BY <2>1, <2>2, <2>3, <2>4, <2>5, <2>6
    <2>8. usage'.total = Sum(usage'.counters) + dropped' + Cardinality(Counting')
      BY <1>3, <2>2, <2>5, <2>7
    <2>9. dropped' \in Int
      BY <2>2, <2>5, <2>7
    <2> QED
      BY <1>2, <2>8, <2>9 DEF Conserved, UsageConserved, Counting
  <1> QED
    BY <1>5, <1>6 DEF MoveUsage

LEMMA CountTotalConserved ==
    ASSUME IInv, Conserved, NEW r \in Requests, CountTotal(r)
    PROVE  Conserved'
  <1>1. /\ req'[r].pc = "counted" /\ req[r].pc = "served" /\ req'[r].key = req[r].key
        /\ \A o \in Requests \ {r} : req'[o] = req[o]
    BY DEF CountTotal, IInv, TypeOK, RequestState
  <1>2. usage \in Tracker /\ usage'.counters = usage.counters /\ usage'.total = usage.total + 1
        /\ dropped' = dropped
    BY DEF CountTotal, IInv, TypeOK, Tracker, past
  <1>3. Counting' = Counting \cup {r} /\ r \notin Counting
    BY <1>1 DEF Counting
  <1>4. Cardinality(Counting') = Cardinality(Counting) + 1
    BY <1>3, CountingFinite, FS_AddElement
  <1>5. PICK s \in Int, d \in Int, c \in Int :
           s = Sum(usage.counters) /\ d = dropped /\ c = Cardinality(Counting)
    BY <1>2, TrackerParts, CountingFinite DEF Conserved
  <1>6. usage.total = s + d + c
    BY <1>5 DEF Conserved, UsageConserved, Counting
  <1>7. usage'.total = Sum(usage'.counters) + dropped' + Cardinality(Counting')
    BY <1>2, <1>4, <1>5, <1>6
  <1>8. \A o \in Requests : req'[o].pc # "idle" => req'[o].key \in Keys
    BY <1>1 DEF Conserved
  <1> QED
    BY <1>2, <1>7, <1>8 DEF Conserved, UsageConserved, Counting

LEMMA CountAccountConserved ==
    ASSUME IInv, Conserved, NEW r \in Requests, CountAccount(r)
    PROVE  Conserved'
  <1>1. /\ req'[r].pc = "saving" /\ req[r].pc = "counted" /\ req'[r].key = req[r].key
        /\ \A o \in Requests \ {r} : req'[o] = req[o]
    BY DEF CountAccount, IInv, TypeOK, RequestState
  <1>2. PICK u \in Tracker, k \in Keys : u = usage /\ k = req[r].key
    BY <1>1 DEF IInv, TypeOK, Conserved
  <1>3. usage' = RecordAccount(u, k) /\ dropped' = dropped
    BY <1>2 DEF CountAccount
  <1>4. Sum(usage'.counters) = Sum(usage.counters) + 1 /\ usage'.total = usage.total
    BY <1>2, <1>3, RecordSum, RecordType
  <1>5. Counting' = Counting \ {r} /\ r \in Counting
    BY <1>1 DEF Counting
  <1>6. Cardinality(Counting') = Cardinality(Counting) - 1
    BY <1>5, CountingFinite, FS_RemoveElement
  <1>7. PICK s \in Int, d \in Int, c \in Int :
           s = Sum(usage.counters) /\ d = dropped /\ c = Cardinality(Counting)
    BY <1>2, TrackerParts, CountingFinite DEF Conserved
  <1>8. usage.total = s + d + c
    BY <1>7 DEF Conserved, UsageConserved, Counting
  <1>9. usage'.total = Sum(usage'.counters) + dropped' + Cardinality(Counting')
    BY <1>3, <1>4, <1>6, <1>7, <1>8
  <1>10. \A o \in Requests : req'[o].pc # "idle" => req'[o].key \in Keys
    BY <1>1 DEF Conserved
  <1>11. dropped' \in Int
    BY <1>3 DEF Conserved
  <1> QED
    BY <1>9, <1>10, <1>11 DEF Conserved, UsageConserved, Counting

LEMMA BootConserved ==
    ASSUME IInv, Boot
    PROVE  Conserved'
  <1>1. PICK u \in Tracker : u = usage'
    BY LoadedType DEF Boot, IInv, TypeOK
  <1>2. dropped' = u.total - Sum(u.counters) /\ \A r \in Requests : req'[r].pc = "idle"
    BY <1>1 DEF Boot, IdleRequest
  <1>3. Counting' = {}
    BY <1>2 DEF Counting
  <1>4. Cardinality(Counting') = 0
    BY <1>3, FS_EmptySet
  <1>5. u.total \in Int /\ Sum(u.counters) \in Int
    BY TrackerParts
  <1>6. dropped' \in Int /\ u.total = Sum(u.counters) + dropped' + Cardinality(Counting')
    BY <1>2, <1>4, <1>5
  <1> QED
    BY <1>1, <1>2, <1>6 DEF Conserved, UsageConserved, Counting

LEMMA NextConserved == IInv /\ Conserved /\ [Next]_vars => Conserved'
  <1> SUFFICES ASSUME IInv, Conserved, [Next]_vars PROVE Conserved'
    OBVIOUS
  <1>1. CASE UNCHANGED vars
    BY <1>1, SameConserved DEF vars, Conserved
  <1>2. ASSUME UNCHANGED <<usage, dropped, req>> PROVE Conserved'
    BY <1>2, SameConserved DEF Conserved
  <1>3. CASE Handle
    <2>1. CASE ApplyAdd
      BY <1>2, <2>1 DEF ApplyAdd, Refuse
    <2>2. ASSUME ApplyRotate \/ ApplyDelete PROVE Conserved'
      <3>1. usage' = usage /\ dropped' = dropped /\ req \in [Requests -> RequestState]
        BY <2>2 DEF ApplyRotate, ApplyDelete, Refuse, IInv, TypeOK
      <3>2. \A r \in Requests : req'[r].pc = req[r].pc /\ req'[r].key = req[r].key
        BY <2>2, <3>1 DEF ApplyRotate, ApplyDelete, Refuse, RequestState
      <3> QED
        BY <3>1, <3>2, SameConserved DEF Conserved
    <2>3. CASE Persist
      BY <1>2, <2>3 DEF Persist, past
    <2> QED
      BY <1>3, <2>1, <2>2, <2>3, MoveUsageConserved DEF Handle
  <1>4. ASSUME NEW op, NEW k, NEW new, Begin(op, k, new) PROVE Conserved'
    BY <1>2, <1>4 DEF Begin, past
  <1>5. ASSUME NEW k, NEW bound, StartRefresh(k, bound) PROVE Conserved'
    BY <1>2, <1>5 DEF StartRefresh, past
  <1>6. ASSUME NEW j \in Jobs, Refresh(j) PROVE Conserved'
    <2>1. ASSUME TakeSlot(j) \/ GiveUp(j) PROVE Conserved'
      BY <1>2, <2>1 DEF TakeSlot, GiveUp, past
    <2>2. ASSUME NEW ok \in BOOLEAN, Publish(j, ok) PROVE Conserved'
      <3>1. /\ usage'.total = usage.total /\ usage'.counters = usage.counters
            /\ dropped' = dropped /\ req' = req
        BY <2>2 DEF Publish, past, IInv, TypeOK, Tracker
      <3> QED
        BY <3>1, SameConserved DEF Conserved
    <2> QED
      BY <1>6, <2>1, <2>2 DEF Refresh
  <1>7. ASSUME NEW r \in Requests, Serve(r) PROVE Conserved'
    <2>1. PICK k \in pool : req' = [req EXCEPT ![r] = [pc |-> "served", key |-> k, home |-> k]]
      BY <1>7 DEF Serve
    <2>2. usage' = usage /\ dropped' = dropped /\ req[r].pc = "idle" /\ k \in Keys
          /\ req \in [Requests -> RequestState]
      BY <1>7, <2>1 DEF Serve, past, IInv, TypeOK
    <2>3. /\ req'[r].pc = "served" /\ req'[r].key = k
          /\ \A o \in Requests \ {r} : req'[o] = req[o]
      BY <2>1, <2>2
    <2> QED
      BY <2>2, <2>3, SameConserved DEF Conserved
  <1>8. ASSUME NEW p \in Savers, Save(p) PROVE Conserved'
    <2>1. CASE Snapshot(p)
      BY <1>2, <2>1 DEF Snapshot, past
    <2>2. CASE SaveWrite(p)
      <3>1. usage' = usage /\ dropped' = dropped /\ req \in [Requests -> RequestState]
        BY <2>2 DEF SaveWrite, past, IInv, TypeOK
      <3>2. CASE req' = req
        BY <1>2, <3>1, <3>2
      <3>3. CASE p \in Requests /\ req' = [req EXCEPT ![p] = IdleRequest]
        <4>1. req[p].pc = "saving"
          BY <2>2, <3>3 DEF SaveWrite, IInv, Locks
        <4>2. req'[p].pc = "idle" /\ \A o \in Requests \ {p} : req'[o] = req[o]
          BY <3>1, <3>3 DEF IdleRequest
        <4> QED
          BY <3>1, <4>1, <4>2, SameConserved DEF Conserved
      <3> QED
        BY <2>2, <3>2, <3>3 DEF SaveWrite
    <2> QED
      BY <1>8, <2>1, <2>2 DEF Save
  <1>9. CASE Stop \/ Drained
    BY <1>2, <1>9 DEF Stop, Drained, past
  <1>10. CASE Restart \/ Crash
    BY <1>10, BootConserved DEF Restart, Crash
  <1> QED
    BY <1>1, <1>3, <1>4, <1>5, <1>6, <1>7, <1>8, <1>9, <1>10,
       CountTotalConserved, CountAccountConserved DEF Next

LEMMA ConservedKept == Spec => []Conserved
  <1>1. IInv /\ IInv' /\ Conserved /\ [Next]_vars => Conserved'
    BY NextConserved
  <1> QED
    BY <1>1, Invariant, InitConserved, PTL DEF Spec

(***************************************************************************)
(* Usage is neither lost nor counted twice, for any number of requests,    *)
(* rotations, removals and restarts.                                       *)
(***************************************************************************)
THEOREM UsageKept == Spec => []UsageConserved
  <1>1. Conserved => UsageConserved
    BY DEF Conserved
  <1> QED
    BY <1>1, ConservedKept, PTL

-----------------------------------------------------------------------------
(***************************************************************************)
(* Chains of aliases.  root leads every key to the end of its chain, and   *)
(* depth bounds the hops to it.                                            *)
(***************************************************************************)
Rooted(alias, root, depth, n) ==
    /\ root \in [Keys -> Keys] /\ depth \in [Keys -> Nat]
    /\ \A x \in Keys :
          /\ depth[x] <= n
          /\ alias[x] = NoKey => root[x] = x
          /\ alias[x] # NoKey => root[x] = root[alias[x]] /\ depth[alias[x]] < depth[x]

\* f goes up the chains, by m hops or to the end.
Climbs(f, alias, root, depth, m) ==
    /\ f \in [Keys -> Keys]
    /\ \A x \in Keys :
          /\ root[f[x]] = root[x]
          /\ alias[x] = NoKey => f[x] = x
          /\ alias[f[x]] = NoKey \/ depth[f[x]] + m <= depth[x]

LEMMA ClimbsTwice ==
    ASSUME NEW alias, NEW root, NEW depth \in [Keys -> Nat], NEW m \in Nat, NEW f,
           Climbs(f, alias, root, depth, m)
    PROVE  Climbs(Twice(f), alias, root, depth, m + m)
  <1>1. f \in [Keys -> Keys]
    BY DEF Climbs
  <1>2. PICK g : g = Twice(f)
    OBVIOUS
  <1>3. g \in [Keys -> Keys] /\ \A x \in Keys : g[x] = f[f[x]]
    BY <1>1, <1>2 DEF Twice
  <1>4. ASSUME NEW x \in Keys
        PROVE  /\ root[g[x]] = root[x]
               /\ alias[x] = NoKey => g[x] = x
               /\ alias[g[x]] = NoKey \/ depth[g[x]] + (m + m) <= depth[x]
    <2>1. PICK y \in Keys, z \in Keys : y = f[x] /\ z = f[y] /\ z = g[x]
      BY <1>1, <1>3
    <2>2. root[z] = root[x] /\ (alias[x] = NoKey => z = x)
      BY <2>1 DEF Climbs
    <2>3. CASE alias[y] = NoKey
      BY <2>1, <2>2, <2>3 DEF Climbs
    <2>4. CASE alias[y] # NoKey /\ alias[z] # NoKey
      <3>1. depth[z] + m <= depth[y] /\ depth[y] + m <= depth[x]
        BY <2>1, <2>4 DEF Climbs
      <3>2. depth[x] \in Nat /\ depth[y] \in Nat /\ depth[z] \in Nat
        OBVIOUS
      <3>3. depth[z] + (m + m) <= depth[x]
        BY <3>1, <3>2
      <3> QED
        BY <2>1, <2>2, <3>3
    <2> QED
      BY <2>1, <2>2, <2>3, <2>4
  <1> QED
    BY <1>2, <1>3, <1>4 DEF Climbs

\* Sixteen hops are enough for chains that are no longer.
LEMMA ChargedRoot ==
    ASSUME NEW alias \in [Keys -> Keys \cup {NoKey}], NEW root, NEW depth, NEW n \in Int, n <= 16,
           Rooted(alias, root, depth, n), NEW k \in Keys
    PROVE  Charged(alias, k) = root[k]
  <1>0. root \in [Keys -> Keys] /\ depth \in [Keys -> Nat]
    BY DEF Rooted
  <1>1. PICK next : next = [x \in Keys |-> IF alias[x] = NoKey THEN x ELSE alias[x]]
    OBVIOUS
  <1>2. Climbs(next, alias, root, depth, 1)
    <2>1. next \in [Keys -> Keys]
      BY <1>1
    <2>2. ASSUME NEW x \in Keys
          PROVE  /\ root[next[x]] = root[x]
                 /\ alias[x] = NoKey => next[x] = x
                 /\ alias[next[x]] = NoKey \/ depth[next[x]] + 1 <= depth[x]
      <3>1. CASE alias[x] = NoKey
        BY <1>1, <3>1
      <3>2. CASE alias[x] # NoKey
        <4>1. next[x] = alias[x] /\ alias[x] \in Keys
          BY <1>1, <3>2
        <4>2. root[x] = root[alias[x]] /\ depth[alias[x]] < depth[x]
          BY <3>2 DEF Rooted
        <4>3. depth[x] \in Nat /\ depth[alias[x]] \in Nat
          BY <1>0, <4>1
        <4> QED
          BY <3>2, <4>1, <4>2, <4>3
      <3> QED
        BY <3>1, <3>2
    <2> QED
      BY <2>1, <2>2 DEF Climbs
  <1>3. PICK f : f = Twice(Twice(Twice(Twice(next))))
    OBVIOUS
  <1>4. Climbs(f, alias, root, depth, 16)
    <2>1. PICK a, b, c : a = Twice(next) /\ b = Twice(a) /\ c = Twice(b) /\ f = Twice(c)
      BY <1>3
    <2>2. Climbs(a, alias, root, depth, 2)
      <3>1. Climbs(a, alias, root, depth, 1 + 1)
        BY <1>0, <1>2, <2>1, ClimbsTwice
      <3> QED
        BY <3>1
    <2>3. Climbs(b, alias, root, depth, 4)
      <3>1. Climbs(b, alias, root, depth, 2 + 2)
        BY <1>0, <2>1, <2>2, ClimbsTwice
      <3> QED
        BY <3>1
    <2>4. Climbs(c, alias, root, depth, 8)
      <3>1. Climbs(c, alias, root, depth, 4 + 4)
        BY <1>0, <2>1, <2>3, ClimbsTwice
      <3> QED
        BY <3>1
    <2>5. Climbs(f, alias, root, depth, 8 + 8)
      BY <1>0, <2>1, <2>4, ClimbsTwice
    <2> QED
      BY <2>5
  <1>5. PICK y \in Keys : y = f[k]
    BY <1>4 DEF Climbs
  <1>6. root[y] = root[k] /\ (alias[y] = NoKey \/ depth[y] + 16 <= depth[k])
    BY <1>4, <1>5 DEF Climbs
  <1>7. alias[y] = NoKey
    <2> SUFFICES ASSUME alias[y] # NoKey PROVE FALSE
      OBVIOUS
    <2>1. PICK z \in Keys : z = alias[y]
      OBVIOUS
    <2>2. depth[z] < depth[y] /\ depth[k] <= n
      BY <2>1 DEF Rooted
    <2>3. depth[z] \in Nat /\ depth[y] \in Nat /\ depth[k] \in Nat
      BY <1>0
    <2> QED
      BY <1>6, <2>2, <2>3
  <1>8. root[y] = y
    BY <1>7 DEF Rooted
  <1>9. Charged(alias, k) = f[k]
    BY <1>1, <1>3 DEF Charged
  <1> QED
    BY <1>5, <1>6, <1>8, <1>9

Linked(alias, old, new) == [alias EXCEPT ![old] = new]

Rerooted(root, old, new) == [x \in Keys |-> IF root[x] = old THEN new ELSE root[x]]

Deeper(depth, new) == [x \in Keys |-> IF x = new THEN 0 ELSE depth[x] + 1]

\* A rotation makes the chains that end in the old key one hop longer.
LEMMA MovedRoots ==
    ASSUME NEW alias \in [Keys -> Keys \cup {NoKey}], NEW root, NEW depth, NEW n \in Int,
           Rooted(alias, root, depth, n), NEW old \in Keys, NEW new \in Keys, old # new,
           alias[old] = NoKey, alias[new] = NoKey
    PROVE  Rooted(Linked(alias, old, new), Rerooted(root, old, new), Deeper(depth, new), n + 1)
  <1>1. PICK a, r, d : /\ a = [alias EXCEPT ![old] = new]
                       /\ r = [x \in Keys |-> IF root[x] = old THEN new ELSE root[x]]
                       /\ d = [x \in Keys |-> IF x = new THEN 0 ELSE depth[x] + 1]
    OBVIOUS
  <1>2. root \in [Keys -> Keys] /\ depth \in [Keys -> Nat]
    BY DEF Rooted
  <1>3. r \in [Keys -> Keys] /\ d \in [Keys -> Nat]
    <2>1. ASSUME NEW x \in Keys
          PROVE  /\ (IF root[x] = old THEN new ELSE root[x]) \in Keys
                 /\ (IF x = new THEN 0 ELSE depth[x] + 1) \in Nat
      BY <1>2
    <2>2. r \in [Keys -> Keys]
      BY <1>1, <2>1
    <2>3. d \in [Keys -> Nat]
      BY <1>1, <2>1
    <2> QED
      BY <2>2, <2>3
  <1>4. ASSUME NEW x \in Keys
        PROVE  /\ d[x] <= n + 1
               /\ a[x] = NoKey => r[x] = x
               /\ a[x] # NoKey => r[x] = r[a[x]] /\ d[a[x]] < d[x]
    <2>1. depth[x] \in Nat /\ depth[x] <= n
      BY <1>2 DEF Rooted
    <2>2. d[x] <= n + 1
      BY <1>1, <2>1
    <2>3. root[old] = old /\ root[new] = new
      BY DEF Rooted
    <2>4. CASE x = old
      <3>1. a[x] = new /\ new # NoKey
        BY <1>1, <2>4, UsageAssumption
      <3>2. r[x] = new /\ r[new] = new
        BY <1>1, <2>3, <2>4
      <3>3. d[new] = 0 /\ d[x] = depth[x] + 1
        BY <1>1, <2>4
      <3> QED
        BY <2>1, <2>2, <3>1, <3>2, <3>3
    <2>5. CASE x # old /\ alias[x] = NoKey
      <3>1. a[x] = NoKey /\ root[x] = x
        BY <1>1, <2>5 DEF Rooted
      <3> QED
        BY <1>1, <2>2, <2>5, <3>1
    <2>6. CASE x # old /\ alias[x] # NoKey
      <3>1. PICK y \in Keys : y = alias[x] /\ y = a[x]
        BY <1>1, <2>6
      <3>2. root[x] = root[y] /\ depth[y] < depth[x] /\ depth[y] \in Nat
        BY <1>2, <2>6, <3>1 DEF Rooted
      <3>3. r[x] = r[y]
        BY <1>1, <3>2
      <3>4. x # new
        BY <2>6
      <3>5. d[x] = depth[x] + 1 /\ d[y] \in {0, depth[y] + 1}
        BY <1>1, <3>4
      <3>6. d[y] < d[x]
        BY <2>1, <3>2, <3>5
      <3> QED
        BY <2>2, <2>6, <3>1, <3>3, <3>6
    <2> QED
      BY <2>4, <2>5, <2>6
  <1>5. Rooted(a, r, d, n + 1)
    BY <1>3, <1>4 DEF Rooted
  <1> QED
    BY <1>1, <1>5 DEF Linked, Rerooted, Deeper

LEMMA MovedCharge ==
    ASSUME NEW alias \in [Keys -> Keys \cup {NoKey}], NEW root, NEW depth,
           Rooted(alias, root, depth, 15), NEW old \in Keys, NEW new \in Keys, old # new,
           alias[old] = NoKey, alias[new] = NoKey, NEW k \in Keys
    PROVE  /\ Charged(alias, k) = old => Charged(Linked(alias, old, new), k) = new
           /\ Charged(alias, k) # old => Charged(Linked(alias, old, new), k) = Charged(alias, k)
  <1>1. PICK a, r, d : /\ a = Linked(alias, old, new)
                       /\ r = Rerooted(root, old, new) /\ d = Deeper(depth, new)
    OBVIOUS
  <1>2. Rooted(a, r, d, 16)
    <2>1. Rooted(Linked(alias, old, new), Rerooted(root, old, new), Deeper(depth, new), 16)
      <3>1. PICK n \in Int : n = 15
        OBVIOUS
      <3>2. Rooted(alias, root, depth, n)
        BY <3>1
      <3>3. Rooted(Linked(alias, old, new), Rerooted(root, old, new), Deeper(depth, new), n + 1)
        BY <3>2, MovedRoots
      <3> QED
        BY <3>1, <3>3
    <2> QED
      BY <1>1, <2>1
  <1>3. a \in [Keys -> Keys \cup {NoKey}]
    BY <1>1 DEF Linked
  <1>4. Charged(a, k) = r[k]
    BY <1>2, <1>3, ChargedRoot
  <1>6. Charged(alias, k) = root[k]
    BY ChargedRoot
  <1>7. r[k] = IF root[k] = old THEN new ELSE root[k]
    BY <1>1 DEF Rerooted
  <1> QED
    BY <1>1, <1>4, <1>6, <1>7

-----------------------------------------------------------------------------
(***************************************************************************)
(* What was served is charged.  A rotation has moved the account in the    *)
(* pool and not yet its counter while the handler is in between.           *)
(***************************************************************************)
Rotating == admin.pc = "usage" /\ admin.op = "rotate" /\ admin.key # admin.new

\* Rotations whose alias is set, at most.
Rotations == ops.handlers - (IF admin.pc \in {"apply", "usage"} THEN 1 ELSE 0)

Followed ==
    \E root \in [Keys -> Keys], depth \in [Keys -> Nat] :
        Rooted(usage.alias, root, depth, Rotations)

\* No alias leads away from a key of the pool.
Unaliased ==
    /\ \A k \in pool : usage.alias[k] = NoKey
    /\ admin.pc = "usage" /\ admin.op = "delete" => admin.key \notin pool
    /\ Rotating => admin.key \notin pool /\ usage.alias[admin.key] = NoKey /\ admin.new \in pool

\* Usage still to be counted will go to the account that served it.
Homes ==
    \A r \in Requests :
        req[r].pc \in {"served", "counted"} /\ req[r].home # NoKey =>
            /\ req[r].home \in pool
            /\ \/ Charged(usage.alias, req[r].key) = req[r].home
               \/ Rotating /\ req[r].home = admin.new /\ Charged(usage.alias, req[r].key) = admin.key

Paid ==
    \A k \in pool :
        earned[k] <= usage.counters[k] + (IF Rotating /\ k = admin.new
                                          THEN usage.counters[admin.key] ELSE 0)

Earned == ~tangled => Followed /\ Unaliased /\ Homes /\ Paid

LEMMA RotationsBounded ==
    ASSUME IInv, MaxOps <= 16
    PROVE  /\ Rotations \in Int /\ Rotations <= 16
           /\ admin.pc = "usage" => Rotations + 1 = ops.handlers /\ Rotations + 1 <= 16
  <1>1. ops.handlers \in Nat /\ ops.handlers <= MaxOps /\ MaxOps \in Nat
    BY AdminAssumption DEF IInv, TypeOK, Bounds
  <1> QED
    BY <1>1 DEF Rotations

LEMMA FollowedMore ==
    ASSUME Followed, usage'.alias = usage.alias, Rotations \in Int, Rotations' \in Int,
           Rotations <= Rotations'
    PROVE  Followed'
  <1>1. PICK root \in [Keys -> Keys], depth \in [Keys -> Nat] :
           Rooted(usage.alias, root, depth, Rotations)
    BY DEF Followed
  <1>2. PICK m, n, a : /\ m = Rotations /\ n = Rotations' /\ a = usage.alias
                       /\ m \in Int /\ n \in Int /\ m <= n
    OBVIOUS
  <1>3. \A x \in Keys : depth[x] <= m
    BY <1>1, <1>2 DEF Rooted
  <1>4. \A x \in Keys : depth[x] <= n
    BY <1>2, <1>3
  <1>5. Rooted(a, root, depth, n)
    BY <1>1, <1>2, <1>4 DEF Rooted
  <1> QED
    BY <1>2, <1>5 DEF Followed

\* Steps that serve, charge and move nothing.
LEMMA SameEarned ==
    ASSUME IInv, IInv', Earned, MaxOps <= 16,
           UNCHANGED <<pool, earned, tangled>>,
           usage'.alias = usage.alias, usage'.counters = usage.counters,
           admin' = admin \/ (~Rotating /\ admin'.pc # "usage"),
           Rotations <= Rotations',
           \A r \in Requests :
              req'[r].pc \in {"served", "counted"} =>
                  /\ req[r].pc \in {"served", "counted"}
                  /\ req'[r].key = req[r].key /\ req'[r].home = req[r].home
    PROVE  Earned'
  <1> SUFFICES ASSUME ~tangled' PROVE Followed' /\ Unaliased' /\ Homes' /\ Paid'
    BY DEF Earned
  <1>1. Followed /\ Unaliased /\ Homes /\ Paid
    BY DEF Earned
  <1>2. Rotations \in Int
    BY RotationsBounded
  <1>3. Rotations' \in Int
    BY DEF IInv, TypeOK, Bounds, Rotations
  <1>4. Followed'
    BY <1>1, <1>2, <1>3, FollowedMore
  <1>5. CASE admin' = admin
    <2>1. Rotating' = Rotating
      BY <1>5 DEF Rotating
    <2> QED
      BY <1>1, <1>4, <1>5, <2>1 DEF Unaliased, Homes, Paid
  <1>6. CASE ~Rotating /\ admin'.pc # "usage"
    <2>1. ~Rotating'
      BY <1>6 DEF Rotating
    <2>2. Unaliased' /\ Homes'
      BY <1>1, <1>6, <2>1 DEF Unaliased, Homes
    <2>3. Paid'
      BY <1>1, <1>6, <2>1 DEF Paid
    <2> QED
      BY <1>4, <2>2, <2>3
  <1> QED
    BY <1>5, <1>6

LEMMA FreshRoots ==
    ASSUME NEW alias, alias = [k \in Keys |-> NoKey], NEW n \in Nat
    PROVE  \E root \in [Keys -> Keys], depth \in [Keys -> Nat] : Rooted(alias, root, depth, n)
  <1> DEFINE root == [k \in Keys |-> k]
             depth == [k \in Keys |-> 0]
  <1>1. root \in [Keys -> Keys] /\ depth \in [Keys -> Nat]
    OBVIOUS
  <1>2. \A k \in Keys : depth[k] <= n /\ alias[k] = NoKey /\ root[k] = k
    OBVIOUS
  <1> HIDE DEF root, depth
  <1>3. Rooted(alias, root, depth, n)
    BY <1>1, <1>2 DEF Rooted
  <1> QED
    BY <1>1, <1>3

\* A process that has just started owes nothing.
JustStarted ==
    /\ usage.alias = [k \in Keys |-> NoKey] /\ admin = IdleAdmin
    /\ ops.handlers \in Nat /\ pool \subseteq Keys
    /\ \A r \in Requests : req[r].pc = "idle"
    /\ \A k \in pool : earned[k] = usage.counters[k] /\ usage.counters[k] \in Nat

LEMMA StartedEarned == JustStarted => Earned
  <1> SUFFICES ASSUME JustStarted PROVE Earned
    OBVIOUS
  <1>1. admin.pc = "idle"
    BY DEF IdleAdmin, JustStarted
  <1>2. ~Rotating /\ Rotations = ops.handlers
    BY <1>1 DEF Rotating, Rotations, JustStarted
  <1>3. Followed
    <2>1. PICK n, a : n = Rotations /\ n \in Nat /\ a = usage.alias
      BY <1>2 DEF JustStarted
    <2>2. \E root \in [Keys -> Keys], depth \in [Keys -> Nat] : Rooted(a, root, depth, n)
      BY <2>1, FreshRoots DEF JustStarted
    <2> QED
      BY <2>1, <2>2 DEF Followed, JustStarted
  <1>4. Unaliased /\ Homes
    BY <1>1, <1>2 DEF Unaliased, Homes, JustStarted
  <1>5. Paid
    BY <1>2 DEF Paid, JustStarted
  <1> QED
    BY <1>3, <1>4, <1>5 DEF Earned

LEMMA InitEarned == Init => Earned
  <1> SUFFICES ASSUME Init PROVE Earned
    OBVIOUS
  <1>1. PICK f \in InitialFiles :
           /\ Booted(Loaded(f)) /\ pool = InitialPool
           /\ earned = [k \in Keys |-> IF k \in InitialPool THEN f.legacy[k] + f.counters[k] ELSE 0]
    BY DEF Init
  <1>2. /\ usage = Loaded(f) /\ admin = IdleAdmin /\ \A r \in Requests : req[r].pc = "idle"
    BY <1>1 DEF Booted, IdleRequest
  <1>3. usage.alias = [k \in Keys |-> NoKey] /\ ops.handlers = 0
    BY <1>2 DEF Loaded, Init
  <1>4. f \in UsageFile /\ pool \subseteq Keys
    BY <1>1, AdminAssumption
  <1>5. ASSUME NEW k \in pool PROVE earned[k] = usage.counters[k] /\ usage.counters[k] \in Nat
    <2>1. usage.counters[k] = f.legacy[k] + f.counters[k] /\ k \in Keys
      BY <1>2, <1>4 DEF Loaded
    <2>2. f.legacy[k] \in Nat /\ f.counters[k] \in Nat
      BY <1>4, <2>1 DEF UsageFile
    <2> QED
      BY <1>1, <2>1, <2>2
  <1>6. JustStarted
    BY <1>2, <1>3, <1>4, <1>5 DEF JustStarted
  <1> QED
    BY <1>6, StartedEarned

LEMMA BootEarned ==
    ASSUME IInv, IInv', Boot
    PROVE  Earned'
  <1>1. usage'.alias = [k \in Keys |-> NoKey] /\ admin' = IdleAdmin
    BY DEF Boot, Loaded
  <1>2. ops'.handlers \in Nat /\ pool' \subseteq Keys /\ usage' \in Tracker
    BY DEF IInv, TypeOK, Bounds
  <1>3. \A r \in Requests : req'[r].pc = "idle"
    BY DEF Boot, IdleRequest
  <1>4. \A k \in pool' : earned'[k] = usage'.counters[k] /\ usage'.counters[k] \in Nat
    BY <1>2 DEF Boot, Tracker
  <1>5. JustStarted'
    BY <1>1, <1>2, <1>3, <1>4 DEF JustStarted
  <1> QED
    BY <1>5, StartedEarned, PTL

LEMMA ApplyAddEarned ==
    ASSUME IInv, IInv', Earned, MaxOps <= 16, ApplyAdd
    PROVE  Earned'
  <1>1. /\ admin.pc = "apply" /\ ~Rotating /\ UNCHANGED <<usage, ops, req>>
        /\ Rotations \in Int /\ Rotations = ops.handlers - 1 /\ ops.handlers \in Nat
    BY RotationsBounded DEF ApplyAdd, Refuse, Rotating, Rotations, IInv, TypeOK, Bounds
  <1>2. admin'.pc \in {"idle", "persist"} /\ Rotations' = ops.handlers
    BY <1>1 DEF ApplyAdd, Refuse, IdleAdmin, Rotations, IInv, TypeOK, AdminState
  <1>3. CASE Refuse
    BY <1>1, <1>2, <1>3, SameEarned DEF Refuse
  <1>4. CASE ~Refuse
    <2>1. PICK k \in Keys : k = admin.key
      BY <1>1 DEF IInv, Handlers
    <2>2. /\ pool' = pool \cup {k} /\ earned' = [earned EXCEPT ![k] = 0]
          /\ tangled' = (tangled \/ usage.alias[k] # NoKey)
      BY <1>4, <2>1 DEF ApplyAdd
    <2> SUFFICES ASSUME ~tangled' PROVE Followed' /\ Unaliased' /\ Homes' /\ Paid'
      BY DEF Earned
    <2>3. Followed /\ Unaliased /\ Homes /\ Paid /\ usage.alias[k] = NoKey
      BY <2>2 DEF Earned
    <2>4. ~Rotating' /\ admin'.pc # "usage"
      BY <1>2 DEF Rotating
    <2>5. Followed'
      BY <1>1, <1>2, <2>3, FollowedMore
    <2>6. Unaliased'
      BY <1>1, <2>2, <2>3, <2>4 DEF Unaliased
    <2>7. Homes'
      BY <1>1, <2>2, <2>3, <2>4 DEF Homes
    <2>8. usage.counters \in [Keys -> Nat] /\ earned \in [Keys -> Nat] /\ pool \subseteq Keys
      BY DEF IInv, TypeOK, Tracker
    <2>9. ASSUME NEW j \in pool' PROVE earned'[j] <= usage.counters[j] + 0
      <3>1. CASE j = k
        BY <2>2, <2>8, <3>1
      <3>2. CASE j # k
        <4>1. j \in pool /\ earned'[j] = earned[j]
          BY <2>2, <2>8, <3>2
        <4> QED
          BY <1>1, <2>3, <4>1 DEF Paid
      <3> QED
        BY <3>1, <3>2
    <2>10. Paid'
      BY <1>1, <2>4, <2>9 DEF Paid
    <2> QED
      BY <2>5, <2>6, <2>7, <2>10
  <1> QED
    BY <1>3, <1>4

\* What a handler that removes the key of an account has to work with.
LEMMA ApplyBasics ==
    ASSUME IInv, IInv', MaxOps <= 16, ApplyRotate \/ ApplyDelete
    PROVE  /\ ~Rotating /\ UNCHANGED <<usage, ops>>
           /\ admin.key \in Keys /\ Rotations \in Int /\ Rotations' \in Int
           /\ Rotations <= Rotations'
           /\ usage.counters \in [Keys -> Nat] /\ earned \in [Keys -> Nat] /\ pool \subseteq Keys
           /\ req \in [Requests -> RequestState] /\ NoKey \notin pool
           /\ Refuse => admin'.pc = "idle" /\ ~Rotating'
  <1>1. admin.pc = "apply" /\ UNCHANGED <<usage, ops>> /\ admin \in AdminState
    BY DEF ApplyRotate, ApplyDelete, Refuse, IInv, TypeOK
  <1>2. ~Rotating /\ admin.key \in Keys
    BY <1>1 DEF Rotating, IInv, Handlers
  <1>3. Rotations = ops.handlers - 1 /\ ops.handlers \in Nat
    BY <1>1 DEF Rotations, IInv, TypeOK, Bounds
  <1>4. Rotations' \in {ops.handlers, ops.handlers - 1}
    BY <1>1, <1>3 DEF Rotations
  <1>5. usage.counters \in [Keys -> Nat] /\ earned \in [Keys -> Nat] /\ pool \subseteq Keys
        /\ req \in [Requests -> RequestState] /\ NoKey \notin pool
    BY UsageAssumption DEF IInv, TypeOK, Tracker
  <1>6. Refuse => admin'.pc = "idle" /\ ~Rotating'
    BY DEF Refuse, IdleAdmin, Rotating
  <1> QED
    BY <1>1, <1>2, <1>3, <1>4, <1>5, <1>6

LEMMA ApplyDeleteEarned ==
    ASSUME IInv, IInv', Earned, MaxOps <= 16, ApplyDelete
    PROVE  Earned'
  <1>1. CASE Refuse
    BY <1>1, ApplyBasics, SameEarned DEF Refuse, ApplyDelete
  <1>2. CASE ~Refuse
    <2>1. PICK k \in pool : k = admin.key
      BY <1>2 DEF ApplyDelete
    <2>2. /\ pool' = pool \ {k} /\ earned' = [earned EXCEPT ![k] = 0] /\ tangled' = tangled
          /\ req' = [r \in Requests |-> IF req[r].home = k THEN [req[r] EXCEPT !.home = NoKey]
                                                           ELSE req[r]]
          /\ admin' = [admin EXCEPT !.pc = "usage"] /\ admin.op = "delete"
      BY <1>2, <2>1 DEF ApplyDelete
    <2>3. admin' = [pc |-> "usage", op |-> "delete", key |-> k, new |-> admin.new]
      BY <2>1, <2>2 DEF IInv, TypeOK, AdminState
    <2>4. ~Rotating' /\ admin'.key = k /\ ~Rotating
      BY <2>3, ApplyBasics DEF Rotating
    <2> SUFFICES ASSUME ~tangled' PROVE Followed' /\ Unaliased' /\ Homes' /\ Paid'
      BY DEF Earned
    <2>5. Followed /\ Unaliased /\ Homes /\ Paid
      BY <2>2 DEF Earned
    <2>6. Followed'
      BY <2>5, ApplyBasics, FollowedMore
    <2>7. Unaliased'
      BY <2>2, <2>4, <2>5, ApplyBasics DEF Unaliased
    <2>8. ASSUME NEW r \in Requests, req'[r].pc \in {"served", "counted"}, req'[r].home # NoKey
          PROVE  req'[r].home \in pool' /\ Charged(usage'.alias, req'[r].key) = req'[r].home
      <3>1. req[r].home # k /\ req'[r] = req[r]
        <4>1. req[r].home = k => req'[r].home = NoKey
          BY <2>2, ApplyBasics DEF RequestState
        <4> QED
          BY <2>2, <2>8, <4>1
      <3>2. req[r].home \in pool /\ Charged(usage.alias, req[r].key) = req[r].home
        BY <2>4, <2>5, <2>8, <3>1 DEF Homes
      <3> QED
        BY <2>2, <3>1, <3>2, ApplyBasics
    <2>9. Homes'
      BY <2>8 DEF Homes
    <2>10. ASSUME NEW j \in pool' PROVE earned'[j] <= usage'.counters[j] + 0
      <3>1. j \in pool /\ j # k /\ earned'[j] = earned[j] /\ usage' = usage
        BY <2>2, ApplyBasics
      <3> QED
        BY <2>4, <2>5, <3>1 DEF Paid
    <2>11. Paid'
      BY <2>4, <2>10 DEF Paid
    <2> QED
      BY <2>6, <2>7, <2>9, <2>11
  <1> QED
    BY <1>1, <1>2

LEMMA ApplyRotateEarned ==
    ASSUME IInv, IInv', Earned, MaxOps <= 16, ApplyRotate
    PROVE  Earned'
  <1>1. CASE Refuse
    BY <1>1, ApplyBasics, SameEarned DEF Refuse, ApplyRotate
  <1>2. CASE ~Refuse
    <2>1. PICK old \in pool, new \in Keys : old = admin.key /\ new = admin.new
      BY <1>2 DEF ApplyRotate, IInv, Handlers
    <2>2. /\ new \notin pool \ {old} /\ pool' = (pool \ {old}) \cup {new}
          /\ earned' = [earned EXCEPT ![old] = 0, ![new] = earned[old]]
          /\ tangled' = (tangled \/ usage.alias[new] # NoKey)
          /\ req' = [r \in Requests |-> IF req[r].home = old THEN [req[r] EXCEPT !.home = new]
                                                             ELSE req[r]]
          /\ admin' = [admin EXCEPT !.pc = "usage"] /\ admin.op = "rotate"
      BY <1>2, <2>1 DEF ApplyRotate
    <2>3. admin' = [pc |-> "usage", op |-> "rotate", key |-> old, new |-> new]
      BY <2>1, <2>2 DEF IInv, TypeOK, AdminState
    <2>4. (Rotating' <=> old # new) /\ ~Rotating /\ admin'.key = old /\ admin'.new = new
      BY <2>3, ApplyBasics DEF Rotating
    <2> SUFFICES ASSUME ~tangled' PROVE Followed' /\ Unaliased' /\ Homes' /\ Paid'
      BY DEF Earned
    <2>5. Followed /\ Unaliased /\ Homes /\ Paid /\ usage.alias[new] = NoKey
      BY <2>2 DEF Earned
    <2>6. Followed'
      BY <2>5, ApplyBasics, FollowedMore
    <2>7. Unaliased'
      <3>1. \A k \in pool' : usage'.alias[k] = NoKey
        BY <2>2, <2>5, ApplyBasics DEF Unaliased
      <3>2. usage'.alias[old] = NoKey
        BY <2>1, <2>5, ApplyBasics DEF Unaliased
      <3> QED
        BY <2>2, <2>3, <2>4, <3>1, <3>2 DEF Unaliased
    <2>8. ASSUME NEW r \in Requests, req'[r].pc \in {"served", "counted"}, req'[r].home # NoKey
          PROVE  /\ req'[r].home \in pool'
                 /\ \/ Charged(usage'.alias, req'[r].key) = req'[r].home
                    \/ Rotating' /\ req'[r].home = new /\ Charged(usage'.alias, req'[r].key) = old
      <3>1. /\ req'[r].pc = req[r].pc /\ req'[r].key = req[r].key
            /\ req'[r].home = (IF req[r].home = old THEN new ELSE req[r].home)
        BY <2>2, ApplyBasics DEF RequestState
      <3>2. req[r].home # NoKey
        BY <2>8, <3>1, ApplyBasics
      <3>3. req[r].home \in pool /\ Charged(usage'.alias, req'[r].key) = req[r].home
        BY <2>4, <2>5, <2>8, <3>1, <3>2, ApplyBasics DEF Homes
      <3> QED
        BY <2>2, <2>4, <3>1, <3>3
    <2>9. Homes'
      BY <2>4, <2>8 DEF Homes
    <2>10. \A k \in pool : earned[k] <= usage.counters[k]
      <3> TAKE k \in pool
      <3>1. earned[k] <= usage.counters[k] + 0
        BY <2>4, <2>5 DEF Paid
      <3>2. usage.counters[k] \in Nat
        BY ApplyBasics
      <3> QED
        BY <3>1, <3>2
    <2>11. ASSUME NEW j \in pool'
           PROVE  earned'[j] <= usage'.counters[j] + (IF Rotating' /\ j = new
                                                      THEN usage'.counters[old] ELSE 0)
      <3>1. usage' = usage /\ usage.counters[j] \in Nat /\ usage.counters[old] \in Nat
            /\ earned[old] \in Nat /\ old \in Keys /\ earned \in [Keys -> Nat] /\ j \in Keys
        BY <2>2, ApplyBasics
      <3>2. CASE j = new
        <4>1. earned'[j] = earned[old] /\ earned[old] <= usage.counters[old]
          BY <2>2, <2>10, <3>1, <3>2
        <4>2. CASE old = new
          BY <2>4, <3>1, <3>2, <4>1, <4>2
        <4>3. CASE old # new
          BY <2>4, <3>1, <3>2, <4>1, <4>3
        <4> QED
          BY <4>2, <4>3
      <3>3. CASE j # new
        <4>1. j \in pool /\ j # old /\ earned'[j] = earned[j]
          BY <2>2, <3>1, <3>3
        <4> QED
          BY <2>10, <3>1, <3>3, <4>1
      <3> QED
        BY <3>2, <3>3
    <2>12. Paid'
      BY <2>4, <2>11 DEF Paid
    <2> QED
      BY <2>6, <2>7, <2>9, <2>12
  <1> QED
    BY <1>1, <1>2

\* The counter follows the key, and so does whoever was to be charged to it.
LEMMA MovedEarned ==
    ASSUME IInv, IInv', Conserved, Earned, MaxOps <= 16, MoveUsage, Rotating
    PROVE  Earned'
  <1>1. PICK old, new : old = admin.key /\ new = admin.new /\ old \in Keys /\ new \in Keys
    BY DEF IInv, Handlers, MoveUsage, Rotating
  <1>2. PICK u \in Tracker : u = usage
    BY DEF IInv, TypeOK
  <1>3. PICK a, c : a = u.alias /\ c = u.counters
    OBVIOUS
  <1>4. a \in [Keys -> Keys \cup {NoKey}] /\ c \in [Keys -> Nat] /\ old # new
    BY <1>1, <1>2, <1>3 DEF Tracker, Rotating
  <1>5. /\ usage'.alias = [a EXCEPT ![old] = new]
        /\ usage'.counters = [[c EXCEPT ![new] = c[new] + c[old]] EXCEPT ![old] = 0]
    <2>1. PICK m \in Tracker : m = MoveAccount(u, old, new)
      BY <1>1, MoveType
    <2>2. usage' = DropQuota(m, old)
      BY <1>1, <1>2, <2>1 DEF MoveUsage, Rotating
    <2>3. usage'.alias = m.alias /\ usage'.counters = m.counters
      BY <2>2 DEF DropQuota, Tracker
    <2> QED
      BY <1>2, <1>3, <1>4, <2>1, <2>3 DEF MoveAccount, Tracker
  <1>6. UNCHANGED <<pool, earned, tangled, req, ops>> /\ admin'.pc = "persist" /\ ~Rotating'
    BY DEF MoveUsage, mem, Rotating, IInv, TypeOK, AdminState
  <1> SUFFICES ASSUME ~tangled' PROVE Followed' /\ Unaliased' /\ Homes' /\ Paid'
    BY DEF Earned
  <1>7. Followed /\ Unaliased /\ Homes /\ Paid
    BY <1>6 DEF Earned
  <1>8. old \notin pool /\ a[old] = NoKey /\ new \in pool /\ a[new] = NoKey
        /\ \A k \in pool : a[k] = NoKey
    BY <1>1, <1>2, <1>3, <1>7 DEF Unaliased
  <1>9. PICK n : n = Rotations /\ n \in Int /\ n + 1 <= 16 /\ n + 1 = Rotations'
    <2>1. Rotations + 1 = ops.handlers /\ Rotations + 1 <= 16 /\ Rotations \in Int
      BY RotationsBounded DEF Rotating
    <2>2. Rotations' = ops.handlers
      BY <1>6 DEF Rotations, IInv, TypeOK, Bounds
    <2> QED
      BY <2>1, <2>2
  <1>10. PICK root, depth : Rooted(a, root, depth, n)
    BY <1>2, <1>3, <1>7, <1>9 DEF Followed
  <1>11. PICK b : b = Linked(a, old, new) /\ b = [a EXCEPT ![old] = new]
    BY DEF Linked
  <1>12. Followed'
    <2>1. Rooted(Linked(a, old, new), Rerooted(root, old, new), Deeper(depth, new), n + 1)
      BY <1>1, <1>4, <1>8, <1>9, <1>10, MovedRoots
    <2>2. PICK r, d : r = Rerooted(root, old, new) /\ d = Deeper(depth, new)
      OBVIOUS
    <2>3. Rooted(b, r, d, n + 1)
      BY <1>11, <2>1, <2>2
    <2>4. r \in [Keys -> Keys] /\ d \in [Keys -> Nat]
      BY <2>3 DEF Rooted
    <2>5. Rooted(usage'.alias, r, d, Rotations')
      BY <1>5, <1>9, <1>11, <2>3
    <2> QED
      BY <2>4, <2>5 DEF Followed
  <1>13. Unaliased'
    <2>1. \A k \in pool' : usage'.alias[k] = NoKey
      BY <1>4, <1>5, <1>6, <1>8
    <2> QED
      BY <1>6, <2>1 DEF Unaliased
  <1>14. ASSUME NEW k \in Keys
         PROVE  Charged(b, k) = IF Charged(a, k) = old THEN new ELSE Charged(a, k)
    <2>1. /\ a \in [Keys -> Keys \cup {NoKey}] /\ old \in Keys /\ new \in Keys /\ old # new
          /\ a[old] = NoKey /\ a[new] = NoKey
      BY <1>1, <1>4, <1>8
    <2>a. Rooted(a, root, depth, 15)
      <3>1. \A x \in Keys : depth[x] \in Nat /\ depth[x] <= n
        BY <1>10 DEF Rooted
      <3>2. \A x \in Keys : depth[x] <= 15
        BY <1>9, <3>1
      <3> QED
        BY <1>10, <3>2 DEF Rooted
    <2>2. /\ Charged(a, k) = old => Charged(Linked(a, old, new), k) = new
          /\ Charged(a, k) # old => Charged(Linked(a, old, new), k) = Charged(a, k)
      BY <2>1, <2>a, MovedCharge
    <2> QED
      BY <1>11, <2>2
  <1>15. ASSUME NEW r \in Requests, req[r].pc \in {"served", "counted"}, req[r].home # NoKey
         PROVE  req[r].home \in pool /\ Charged(b, req[r].key) = req[r].home
    <2>1. PICK k \in Keys : k = req[r].key
      BY <1>15 DEF Conserved
    <2>2. req[r].home \in pool
      BY <1>7, <1>15 DEF Homes
    <2>3. Charged(a, k) = req[r].home \/ (req[r].home = new /\ Charged(a, k) = old)
      BY <1>1, <1>2, <1>3, <1>7, <1>15, <2>1 DEF Homes
    <2>4. Charged(b, k) = IF Charged(a, k) = old THEN new ELSE Charged(a, k)
      BY <1>14
    <2> QED
      BY <1>8, <2>1, <2>2, <2>3, <2>4
  <1>16. Homes'
    BY <1>5, <1>6, <1>11, <1>15 DEF Homes
  <1>17. ASSUME NEW k \in pool PROVE earned[k] <= usage'.counters[k] + 0
    <2>1. k \in Keys /\ c[k] \in Nat /\ c[old] \in Nat
      BY <1>1, <1>4 DEF IInv, TypeOK
    <2>2. CASE k = new
      <3>1. earned[k] <= c[new] + c[old]
        BY <1>1, <1>2, <1>3, <1>7, <2>2 DEF Paid
      <3>2. usage'.counters[k] = c[new] + c[old]
        BY <1>1, <1>4, <1>5, <2>2
      <3> QED
        BY <2>1, <2>2, <3>1, <3>2
    <2>3. CASE k # new
      <3>1. earned[k] <= c[k] + 0
        BY <1>1, <1>2, <1>3, <1>7, <2>3 DEF Paid
      <3>2. usage'.counters[k] = c[k]
        BY <1>4, <1>5, <1>8, <2>3, <2>1
      <3> QED
        BY <3>1, <3>2
    <2> QED
      BY <2>2, <2>3
  <1>18. Paid'
    BY <1>6, <1>17 DEF Paid
  <1> QED
    BY <1>12, <1>13, <1>16, <1>18

\* A removal, or a rotation to the same key.
LEMMA DroppedEarned ==
    ASSUME IInv, IInv', Earned, MaxOps <= 16, MoveUsage, ~Rotating
    PROVE  Earned'
  <1>1. PICK k \in Keys, u \in Tracker : k = admin.key /\ u = usage
    BY DEF IInv, TypeOK, Handlers, MoveUsage
  <1>2. /\ UNCHANGED <<pool, earned, tangled, req, ops>> /\ admin.pc = "usage"
        /\ admin'.pc = "persist" /\ ~Rotating'
    BY DEF MoveUsage, mem, Rotating, IInv, TypeOK, AdminState
  <1>3. Rotations \in Int /\ Rotations' = Rotations + 1
    BY <1>2, RotationsBounded DEF Rotations, IInv, TypeOK, Bounds
  <1>4. CASE admin.op = "rotate"
    <2>1. admin.new = k
      BY <1>1, <1>2, <1>4 DEF Rotating
    <2>2. usage' = DropQuota(u, k)
      BY <1>1, <1>2, <1>4, <2>1 DEF MoveUsage, MoveAccount
    <2>3. usage'.alias = usage.alias /\ usage'.counters = usage.counters
      BY <1>1, <2>2 DEF DropQuota, Tracker
    <2> QED
      BY <1>2, <1>3, <2>3, SameEarned
  <1>5. CASE admin.op = "delete"
    <2>1. usage' = DropAccount(u, k)
      BY <1>1, <1>5 DEF MoveUsage
    <2>2. usage'.alias = usage.alias /\ usage'.counters = [usage.counters EXCEPT ![k] = 0]
      BY <1>1, <2>1 DEF DropAccount, Tracker
    <2> SUFFICES ASSUME ~tangled' PROVE Followed' /\ Unaliased' /\ Homes' /\ Paid'
      BY DEF Earned
    <2>3. Followed /\ Unaliased /\ Homes /\ Paid /\ k \notin pool
      BY <1>1, <1>2, <1>5 DEF Earned, Unaliased
    <2>4. Followed'
      BY <1>3, <2>2, <2>3, FollowedMore
    <2>5. Unaliased'
      BY <1>2, <2>2, <2>3 DEF Unaliased
    <2>6. Homes'
      BY <1>2, <2>2, <2>3 DEF Homes
    <2>7. ASSUME NEW j \in pool PROVE earned[j] <= usage'.counters[j] + 0
      <3>1. usage'.counters[j] = usage.counters[j]
        BY <1>1, <2>2, <2>3 DEF Tracker, IInv, TypeOK
      <3> QED
        BY <2>3, <3>1 DEF Paid
    <2>8. Paid'
      BY <1>2, <2>7 DEF Paid
    <2> QED
      BY <2>4, <2>5, <2>6, <2>8
  <1> QED
    BY <1>4, <1>5 DEF MoveUsage

LEMMA ServeEarned ==
    ASSUME IInv, IInv', Earned, MaxOps <= 16, NEW r \in Requests, Serve(r)
    PROVE  Earned'
  <1>1. PICK k \in pool : req' = [req EXCEPT ![r] = [pc |-> "served", key |-> k, home |-> k]]
    BY DEF Serve
  <1>2. /\ UNCHANGED <<usage, pool, earned, tangled, admin>> /\ k \in Keys
        /\ ops'.handlers = ops.handlers /\ req \in [Requests -> RequestState]
    BY DEF Serve, past, mem, IInv, TypeOK, Bounds
  <1>3. /\ req'[r].key = k /\ req'[r].home = k
        /\ \A o \in Requests \ {r} : req'[o] = req[o]
    BY <1>1, <1>2
  <1>4. Rotating' = Rotating /\ Rotations' = Rotations /\ Rotations \in Int /\ Rotations <= 16
    BY <1>2, RotationsBounded DEF Rotating, Rotations
  <1> SUFFICES ASSUME ~tangled' PROVE Followed' /\ Unaliased' /\ Homes' /\ Paid'
    BY DEF Earned
  <1>5. Followed /\ Unaliased /\ Homes /\ Paid
    BY <1>2 DEF Earned
  <1>6. Followed' /\ Unaliased' /\ Paid'
    BY <1>2, <1>4, <1>5 DEF Followed, Unaliased, Paid
  <1>7. PICK a, n : a = usage.alias /\ n = Rotations
    OBVIOUS
  <1>8. PICK root, depth : Rooted(a, root, depth, n)
    BY <1>5, <1>7 DEF Followed
  <1>9. Charged(a, k) = root[k]
    <2>1. a \in [Keys -> Keys \cup {NoKey}] /\ n \in Int /\ n <= 16
      BY <1>4, <1>7 DEF IInv, TypeOK, Tracker
    <2> QED
      BY <1>2, <1>8, <2>1, ChargedRoot
  <1>10. root[k] = k
    BY <1>2, <1>5, <1>7, <1>8 DEF Rooted, Unaliased
  <1>11. Charged(usage.alias, k) = k
    BY <1>7, <1>9, <1>10
  <1>12. Homes'
    BY <1>2, <1>3, <1>4, <1>5, <1>11 DEF Homes
  <1> QED
    BY <1>6, <1>12

LEMMA CountAccountEarned ==
    ASSUME IInv, IInv', Conserved, Earned, MaxOps <= 16, NEW r \in Requests, CountAccount(r)
    PROVE  Earned'
  <1>1. PICK u \in Tracker, key \in Keys : u = usage /\ key = req[r].key
    BY DEF IInv, TypeOK, Conserved, CountAccount
  <1>2. PICK c \in Keys : c = Charged(u.alias, key)
    BY ChargedKey, TrackerParts
  <1>3. usage'.alias = usage.alias /\ usage'.counters = [u.counters EXCEPT ![c] = u.counters[c] + 1]
    BY <1>1, <1>2 DEF CountAccount, RecordAccount, Tracker
  <1>4. /\ UNCHANGED <<pool, tangled, admin, ops>> /\ req[r].pc = "counted" /\ req'[r].pc = "saving"
        /\ earned' = [k \in Keys |-> IF k = req[r].home THEN earned[k] + 1 ELSE earned[k]]
        /\ \A o \in Requests \ {r} : req'[o] = req[o]
    BY DEF CountAccount, mem, IInv, TypeOK, RequestState
  <1>5. Rotating' = Rotating /\ Rotations' = Rotations
    BY <1>4 DEF Rotating, Rotations
  <1> SUFFICES ASSUME ~tangled' PROVE Followed' /\ Unaliased' /\ Homes' /\ Paid'
    BY DEF Earned
  <1>6. Followed /\ Unaliased /\ Homes /\ Paid
    BY <1>4 DEF Earned
  <1>7. Followed' /\ Unaliased'
    BY <1>3, <1>4, <1>5, <1>6 DEF Followed, Unaliased
  <1>8. Homes'
    BY <1>3, <1>4, <1>5, <1>6 DEF Homes
  <1>9. u.counters \in [Keys -> Nat] /\ earned \in [Keys -> Nat] /\ pool \subseteq Keys
        /\ NoKey \notin Keys
    BY UsageAssumption DEF IInv, TypeOK, Tracker
  <1>10. \A k \in Keys : /\ usage'.counters[k] \in Nat /\ u.counters[k] <= usage'.counters[k]
                         /\ k = c => usage'.counters[k] = u.counters[k] + 1
    BY <1>3, <1>9
  <1>11. Rotating => admin.key \in Keys /\ admin.new \in Keys
    BY DEF Rotating, IInv, Handlers
  <1>12. ASSUME NEW k \in pool
         PROVE  earned'[k] <= usage'.counters[k] + (IF Rotating' /\ k = admin'.new
                                                    THEN usage'.counters[admin'.key] ELSE 0)
    <2>1. k \in Keys /\ earned[k] \in Nat /\ u.counters[k] \in Nat /\ usage'.counters[k] \in Nat
          /\ u.counters[k] <= usage'.counters[k]
      BY <1>9, <1>10
    <2>2. earned'[k] = IF k = req[r].home THEN earned[k] + 1 ELSE earned[k]
      BY <1>4, <2>1
    <2>3. CASE Rotating /\ k = admin.new
      <3>1. PICK old \in Keys : old = admin.key
        BY <1>11, <2>3
      <3>2. earned[k] <= u.counters[k] + u.counters[old]
        BY <1>1, <1>6, <2>3, <3>1 DEF Paid
      <3>3. u.counters[old] \in Nat /\ usage'.counters[old] \in Nat
            /\ u.counters[old] <= usage'.counters[old]
        BY <1>9, <1>10
      <3>4. k = req[r].home => c = k \/ c = old
        BY <1>1, <1>2, <1>4, <1>6, <1>9, <2>1, <3>1 DEF Homes
      <3>5. earned'[k] <= usage'.counters[k] + usage'.counters[old]
        <4>1. CASE k # req[r].home
          BY <2>1, <2>2, <3>2, <3>3, <4>1
        <4>2. CASE c = k
          <5>1. usage'.counters[k] = u.counters[k] + 1
            BY <1>10, <4>2
          <5> QED
            BY <2>1, <2>2, <3>2, <3>3, <5>1
        <4>3. CASE c = old
          <5>1. usage'.counters[old] = u.counters[old] + 1
            BY <1>10, <4>3
          <5> QED
            BY <2>1, <2>2, <3>2, <3>3, <5>1
        <4> QED
          BY <3>4, <4>1, <4>2, <4>3
      <3> QED
        BY <1>4, <1>5, <2>3, <3>1, <3>5
    <2>4. CASE ~(Rotating /\ k = admin.new)
      <3>1. earned[k] <= u.counters[k] + 0
        BY <1>1, <1>6, <2>4 DEF Paid
      <3>2. k = req[r].home => c = k
        BY <1>1, <1>2, <1>4, <1>6, <1>9, <2>1, <2>4 DEF Homes
      <3>3. k = req[r].home => usage'.counters[k] = u.counters[k] + 1
        BY <1>10, <3>2
      <3>4. earned'[k] <= usage'.counters[k]
        BY <2>1, <2>2, <3>1, <3>3
      <3> QED
        BY <1>4, <1>5, <2>1, <2>4, <3>4
    <2> QED
      BY <2>3, <2>4
  <1>13. Paid'
    BY <1>4, <1>12 DEF Paid
  <1> QED
    BY <1>7, <1>8, <1>13

LEMMA NextEarned ==
    ASSUME MaxOps <= 16, IInv, IInv', Conserved, Earned, [Next]_vars
    PROVE  Earned'
  <1>1. ASSUME UNCHANGED <<pool, earned, tangled, admin>>, usage'.alias = usage.alias,
               usage'.counters = usage.counters, ops'.handlers = ops.handlers,
               \A r \in Requests :
                  req'[r].pc \in {"served", "counted"} =>
                      /\ req[r].pc \in {"served", "counted"}
                      /\ req'[r].key = req[r].key /\ req'[r].home = req[r].home
        PROVE  Earned'
    <2>1. Rotations' = Rotations /\ Rotations \in Int
      BY <1>1, RotationsBounded DEF Rotations
    <2> QED
      BY <1>1, <2>1, SameEarned
  <1>2. CASE UNCHANGED vars
    BY <1>1, <1>2 DEF vars
  <1>3. ASSUME NEW op, NEW k, NEW new, Begin(op, k, new) PROVE Earned'
    <2>1. admin.pc = "idle"
      BY <1>3 DEF Begin, IInv, Locks, TypeOK, AdminState
    <2>2. UNCHANGED <<pool, usage, earned, tangled, req>> /\ admin'.pc = "apply"
          /\ ops'.handlers = ops.handlers + 1 /\ ~Rotating
      BY <1>3, <2>1 DEF Begin, past, mem, Rotating, IInv, TypeOK, Bounds
    <2>3. Rotations' = Rotations /\ Rotations \in Int
      BY <2>1, <2>2 DEF Rotations, IInv, TypeOK, Bounds
    <2> QED
      BY <2>2, <2>3, SameEarned
  <1>4. CASE Persist
    <2>1. UNCHANGED <<pool, usage, earned, tangled, req, ops>> /\ admin.pc = "persist"
          /\ admin'.pc = "idle" /\ ~Rotating
      BY <1>4 DEF Persist, past, Rotating, IdleAdmin
    <2>2. Rotations' = Rotations /\ Rotations \in Int
      BY <2>1 DEF Rotations, IInv, TypeOK, Bounds
    <2> QED
      BY <2>1, <2>2, SameEarned
  <1>5. CASE MoveUsage
    BY <1>5, MovedEarned, DroppedEarned
  <1>6. ASSUME NEW k, NEW bound, StartRefresh(k, bound) PROVE Earned'
    BY <1>1, <1>6 DEF StartRefresh, past, mem, IInv, TypeOK, Bounds
  <1>7. ASSUME NEW j \in Jobs, Refresh(j) PROVE Earned'
    <2>1. ASSUME TakeSlot(j) \/ GiveUp(j) PROVE Earned'
      BY <1>1, <2>1 DEF TakeSlot, GiveUp, past, mem
    <2>2. ASSUME NEW ok \in BOOLEAN, Publish(j, ok) PROVE Earned'
      <3>1. /\ usage'.alias = usage.alias /\ usage'.counters = usage.counters
            /\ UNCHANGED <<pool, earned, tangled, admin, ops, req>>
        BY <2>2 DEF Publish, past, mem, IInv, TypeOK, Tracker
      <3> QED
        BY <1>1, <3>1
    <2> QED
      BY <1>7, <2>1, <2>2 DEF Refresh
  <1>8. ASSUME NEW r \in Requests, CountTotal(r) PROVE Earned'
    <2>1. /\ usage'.alias = usage.alias /\ usage'.counters = usage.counters
          /\ UNCHANGED <<pool, earned, tangled, admin, ops>>
      BY <1>8 DEF CountTotal, past, mem, IInv, TypeOK, Tracker
    <2>2. /\ req[r].pc = "served" /\ req'[r].key = req[r].key /\ req'[r].home = req[r].home
          /\ \A o \in Requests \ {r} : req'[o] = req[o]
      BY <1>8 DEF CountTotal, IInv, TypeOK, RequestState
    <2> QED
      BY <1>1, <2>1, <2>2
  <1>9. ASSUME NEW p \in Savers, Save(p) PROVE Earned'
    <2>1. CASE Snapshot(p)
      BY <1>1, <2>1 DEF Snapshot, past, mem
    <2>2. CASE SaveWrite(p)
      <3>1. UNCHANGED <<pool, usage, earned, tangled, admin, ops>>
            /\ req \in [Requests -> RequestState]
        BY <2>2 DEF SaveWrite, past, mem, IInv, TypeOK
      <3>2. req' = req \/ (p \in Requests /\ req' = [req EXCEPT ![p] = IdleRequest])
        BY <2>2 DEF SaveWrite
      <3>3. \A r \in Requests : req'[r].pc \in {"served", "counted"} => req'[r] = req[r]
        BY <3>1, <3>2 DEF IdleRequest
      <3> QED
        BY <1>1, <3>1, <3>3
    <2> QED
      BY <1>9, <2>1, <2>2 DEF Save
  <1>10. CASE Stop \/ Drained
    BY <1>1, <1>10 DEF Stop, Drained, past, mem, IInv, TypeOK, Bounds
  <1>11. CASE Restart \/ Crash
    BY <1>11, BootEarned DEF Restart, Crash
  <1> QED
    BY <1>2, <1>3, <1>4, <1>5, <1>6, <1>7, <1>8, <1>9, <1>10, <1>11, ApplyAddEarned,
       ApplyRotateEarned, ApplyDeleteEarned, ServeEarned, CountAccountEarned DEF Next, Handle

(***************************************************************************)
(* Every account is charged for what it served, for any number of requests *)
(* and keys, whatever rotations, removals and restarts overlap them, as    *)
(* long as there are no more handlers than recordAccount follows aliases:  *)
(* a request that outlives a seventeenth rotation is charged to a key that *)
(* has gone.                                                               *)
(***************************************************************************)
THEOREM ServedCharged ==
    ASSUME MaxOps <= 16
    PROVE  Spec => []ServedIsCharged
  <1>1. IInv /\ IInv' /\ Conserved /\ Earned /\ [Next]_vars => Earned'
    BY NextEarned
  <1>2. IInv /\ Earned => ServedIsCharged
    <2> SUFFICES ASSUME IInv, Earned, lock = "free", ~tangled, NEW k \in pool
                 PROVE  usage.counters[k] >= earned[k]
      BY DEF ServedIsCharged
    <2>1. ~Rotating
      BY DEF IInv, Locks, Rotating
    <2>2. earned[k] <= usage.counters[k] + 0
      BY <2>1 DEF Earned, Paid
    <2>3. earned[k] \in Nat /\ usage.counters[k] \in Nat
      BY DEF IInv, TypeOK, Tracker
    <2> QED
      BY <2>2, <2>3
  <1> QED
    BY <1>1, <1>2, Invariant, InitEarned, ConservedKept, PTL DEF Spec

=============================================================================
