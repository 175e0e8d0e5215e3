---------------------------- MODULE AdminEdgeProofs ----------------------------
(***************************************************************************)
(* Proofs about AdminEdge, for any number of addresses and requests, every *)
(* limit and capacity: the map of failures is bounded, lockouts hold, the  *)
(* guesses of a window are bounded, the log page skips no line, and the    *)
(* ring implements the tail of the log.                                    *)
(***************************************************************************)
EXTENDS AdminEdge, FiniteSetTheorems, SequenceTheorems, TLAPS

-----------------------------------------------------------------------------
(***************************************************************************)
(* The limiter.                                                            *)
(***************************************************************************)

\* l is m with some of its records dropped.
Shrunk(l, m) ==
    /\ DOMAIN l.fails \subseteq DOMAIN m.fails
    /\ \A ip \in DOMAIN l.fails : l.fails[ip] = m.fails[ip]

LEMMA ZeroTime == Zero \in Int /\ Zero < 0 /\ Zero \notin Time
  BY LimiterAssumption DEF Zero, Time

LEMMA RecordTypes ==
    ASSUME NEW l, IsLimiter(l), NEW ip \in DOMAIN l.fails
    PROVE  /\ l.fails[ip] \in Failure
           /\ l.fails[ip].start \in Int /\ l.fails[ip].until \in Int /\ l.fails[ip].count \in Nat
  BY ZeroTime, EdgeAssumption, LimiterAssumption DEF IsLimiter, Failure, Time

\* A sweep drops expired records only.
LEMMA PrunedFacts ==
    ASSUME NEW l, IsLimiter(l), NEW t \in 0..MaxTime
    PROVE  /\ IsLimiter(Pruned(l, t))
           /\ Shrunk(Pruned(l, t), l)
           /\ \A ip \in DOMAIN l.fails \ DOMAIN Pruned(l, t).fails : Expired(l.fails[ip], t)
<1> DEFINE keep == {ip \in DOMAIN l.fails : ~Expired(l.fails[ip], t)}
           q == [fails |-> Restrict(l.fails, keep), sweep |-> t]
<1>1. Pruned(l, t) = l \/ Pruned(l, t) = q
  BY DEF Pruned
<1>2. CASE Pruned(l, t) = l
  BY <1>2 DEF Shrunk
<1>3. CASE Pruned(l, t) = q
  <2>1. DOMAIN q.fails = keep /\ \A ip \in keep : q.fails[ip] = l.fails[ip]
    BY DEF Restrict
  <2>2. q.fails \in [keep -> Failure]
    BY RecordTypes DEF Restrict
  <2>3. IsLimiter(q)
    BY <2>1, <2>2 DEF IsLimiter
  <2> QED
    BY <1>3, <2>1, <2>3 DEF Shrunk
<1> QED
  BY <1>1, <1>2, <1>3

LEMMA WithoutFacts ==
    ASSUME NEW l, IsLimiter(l), NEW ip
    PROVE  /\ IsLimiter(Without(l, ip))
           /\ Shrunk(Without(l, ip), l)
           /\ DOMAIN Without(l, ip).fails = DOMAIN l.fails \ {ip}
<1> DEFINE keep == DOMAIN l.fails \ {ip}
<1>1. Without(l, ip) = [fails |-> Restrict(l.fails, keep), sweep |-> l.sweep]
  BY DEF Without, IsLimiter
<1>2. Restrict(l.fails, keep) \in [keep -> Failure]
  BY RecordTypes DEF Restrict
<1>3. \A j \in keep : Restrict(l.fails, keep)[j] = l.fails[j]
  BY DEF Restrict
<1> QED
  BY <1>1, <1>2, <1>3 DEF IsLimiter, Shrunk

LEMMA ShrunkAgain ==
    ASSUME NEW l, NEW m, NEW k, Shrunk(l, m), Shrunk(m, k)
    PROVE  Shrunk(l, k)
  BY DEF Shrunk

\* A record that is locked is not expired.
LEMMA LockedStays ==
    ASSUME NEW l, IsLimiter(l), NEW t \in 0..MaxTime, NEW ip, Locked(l, ip, t)
    PROVE  /\ ip \in DOMAIN Pruned(l, t).fails
           /\ Locked(Pruned(l, t), ip, t)
<1>1. ip \in DOMAIN l.fails /\ ~Expired(l.fails[ip], t)
  BY RecordTypes, EdgeAssumption DEF Locked, Expired
<1>2. ip \in DOMAIN Pruned(l, t).fails /\ Pruned(l, t).fails[ip] = l.fails[ip]
  BY <1>1, PrunedFacts DEF Shrunk
<1> QED
  BY <1>2 DEF Locked

\* Allow drops expired records and that of its address when it is over.
LEMMA AllowedFacts ==
    ASSUME NEW l, IsLimiter(l), NEW t \in 0..MaxTime, NEW ip
    PROVE  /\ IsLimiter(Allowed(l, ip, t))
           /\ Shrunk(Allowed(l, ip, t), l)
           /\ \A j : Locked(l, j, t) => Locked(Allowed(l, ip, t), j, t)
<1> DEFINE p == Pruned(l, t)
<1>1. IsLimiter(p) /\ Shrunk(p, l)
  BY PrunedFacts
<1>2. \/ Allowed(l, ip, t) = p
      \/ Allowed(l, ip, t) = Without(p, ip) /\ ~Locked(p, ip, t)
  BY DEF Allowed
<1>3. \A j : Locked(l, j, t) => Locked(p, j, t)
  BY LockedStays
<1> HIDE DEF p
<1>4. CASE Allowed(l, ip, t) = p
  BY <1>1, <1>3, <1>4
<1>5. CASE Allowed(l, ip, t) = Without(p, ip) /\ ~Locked(p, ip, t)
  <2>1. /\ IsLimiter(Without(p, ip)) /\ Shrunk(Without(p, ip), p)
        /\ DOMAIN Without(p, ip).fails = DOMAIN p.fails \ {ip}
    BY <1>1, WithoutFacts
  <2>2. \A j : Locked(p, j, t) => Locked(Without(p, ip), j, t)
    BY <1>5, <2>1 DEF Locked, Shrunk
  <2> QED
    BY <1>1, <1>3, <1>5, <2>1, <2>2, ShrunkAgain
<1> QED
  BY <1>2, <1>4, <1>5

\* The record that a failure at time t is counted in, if p is swept.
Current(p, ip, t) ==
    IF ip \in DOMAIN p.fails /\ Windowed(p.fails[ip], t) THEN p.fails[ip]
    ELSE [count |-> 0, start |-> t, until |-> Zero]

LEMMA CountedTypes ==
    ASSUME NEW rec \in Failure, NEW t \in 0..MaxTime
    PROVE  /\ Counted(rec, t) \in Failure
           /\ Counted(rec, t).until \in {rec.until, t + Lockout}
           /\ Counted(rec, t).start = rec.start
<1> DEFINE new == IF rec.count + 1 >= Limit THEN t + Lockout ELSE rec.until
<1>1. Counted(rec, t) = [count |-> rec.count + 1, start |-> rec.start, until |-> new]
  <2>1. Counted(rec, t) = [rec EXCEPT !.count = rec.count + 1, !.until = new]
    BY DEF Counted
  <2> HIDE DEF new
  <2> QED
    BY <2>1 DEF Failure
<1>2. t + Lockout \in Time
  BY LimiterAssumption, EdgeAssumption DEF Time
<1>3. new \in {rec.until, t + Lockout}
  OBVIOUS
<1>4. new \in Time \cup {Zero} /\ rec.count + 1 \in Nat /\ rec.start \in 0..MaxTime
  BY <1>2, <1>3 DEF Failure
<1> HIDE DEF new
<1> QED
  BY <1>1, <1>3, <1>4 DEF Failure

LEMMA CurrentTypes ==
    ASSUME NEW p, IsLimiter(p), NEW ip, NEW t \in 0..MaxTime
    PROVE  Current(p, ip, t) \in Failure
<1>1. [count |-> 0, start |-> t, until |-> Zero] \in Failure
  BY DEF Failure
<1> QED
  BY <1>1, RecordTypes DEF Current

\* Fail keeps what the sweep left, but for a victim if there is no room, and
\* counts the failure of its address.
LEMMA FailedFacts ==
    ASSUME NEW l, IsLimiter(l), NEW t \in 0..MaxTime, NEW ip \in IPs, NEW victim,
           Evicts(l, ip, t) => victim \in Oldest(Pruned(l, t))
    PROVE  LET p == Pruned(l, t)
               f == Failed(l, ip, t, victim)
               gone == IF Evicts(l, ip, t) THEN {victim} ELSE {}
           IN  /\ IsLimiter(f)
               /\ DOMAIN f.fails = (DOMAIN p.fails \ gone) \cup {ip}
               /\ \A j \in DOMAIN f.fails \ {ip} : f.fails[j] = p.fails[j]
               /\ f.fails[ip] = Counted(Current(p, ip, t), t)
               /\ ip \in DOMAIN p.fails => gone = {}
<1> DEFINE p == Pruned(l, t)
           gone == IF Evicts(l, ip, t) THEN {victim} ELSE {}
           kept == IF Evicts(l, ip, t) THEN Without(p, victim).fails ELSE p.fails
           rec == IF ip \in DOMAIN kept /\ Windowed(kept[ip], t) THEN kept[ip]
                  ELSE [count |-> 0, start |-> t, until |-> Zero]
           fails == [j \in DOMAIN kept \cup {ip} |-> IF j = ip THEN Counted(rec, t) ELSE kept[j]]
<1>1. IsLimiter(p)
  BY PrunedFacts
<1>2. ip \in DOMAIN p.fails => ~Evicts(l, ip, t)
  BY DEF Evicts
<1>3. DOMAIN kept = DOMAIN p.fails \ gone /\ \A j \in DOMAIN kept : kept[j] = p.fails[j]
  <2> HIDE DEF p
  <2>1. CASE Evicts(l, ip, t)
    BY <1>1, <2>1, WithoutFacts DEF Shrunk
  <2>2. CASE ~Evicts(l, ip, t)
    BY <2>2
  <2> QED
    BY <2>1, <2>2
<1>4. ip \in DOMAIN kept <=> ip \in DOMAIN p.fails
  <2>1. Evicts(l, ip, t) => victim \in DOMAIN p.fails
    BY DEF Oldest
  <2> QED
    BY <1>2, <1>3, <2>1
<1>5. rec = Current(p, ip, t)
  BY <1>3, <1>4 DEF Current
<1>6. Failed(l, ip, t, victim) = [p EXCEPT !.fails = fails]
  BY DEF Failed
<1>7. rec \in Failure
  BY <1>1, <1>5, CurrentTypes
<1> HIDE DEF rec, kept, p, gone
<1>8. Counted(rec, t) \in Failure
  BY <1>7, CountedTypes
<1>9. /\ DOMAIN fails = (DOMAIN p.fails \ gone) \cup {ip}
      /\ \A j \in DOMAIN fails \ {ip} : fails[j] = p.fails[j]
      /\ fails[ip] = Counted(rec, t)
  BY <1>3
<1>10. fails \in [DOMAIN fails -> Failure]
  <2>1. \A j \in DOMAIN fails : fails[j] \in Failure
    BY <1>1, <1>8, <1>9, RecordTypes
  <2> QED
    BY <2>1
<1> HIDE DEF fails
<1>11. Failed(l, ip, t, victim) = [fails |-> fails, sweep |-> p.sweep]
  BY <1>1, <1>6 DEF IsLimiter
<1>12. IsLimiter(Failed(l, ip, t, victim))
  BY <1>1, <1>9, <1>10, <1>11 DEF IsLimiter
<1> QED
  BY <1>2, <1>5, <1>9, <1>11, <1>12 DEF p, gone

\* There is room for the record of a failure.
LEMMA FailedRoom ==
    ASSUME NEW l, IsLimiter(l), NEW t \in 0..MaxTime, NEW ip \in IPs, NEW victim,
           Evicts(l, ip, t) => victim \in Oldest(Pruned(l, t)),
           Cardinality(DOMAIN l.fails) <= Threshold
    PROVE  Cardinality(DOMAIN Failed(l, ip, t, victim).fails) <= Threshold
<1> DEFINE D == DOMAIN Pruned(l, t).fails
           F == DOMAIN Failed(l, ip, t, victim).fails
<1>1. IsFiniteSet(DOMAIN l.fails)
  BY LimiterAssumption, FS_Subset DEF IsLimiter
<1>2. D \subseteq DOMAIN l.fails
  BY PrunedFacts DEF Shrunk
<1>3. IsFiniteSet(D) /\ Cardinality(D) <= Cardinality(DOMAIN l.fails)
      /\ Cardinality(D) \in Nat /\ Cardinality(DOMAIN l.fails) \in Nat
  BY <1>1, <1>2, FS_Subset, FS_CardinalityType
<1>4. Cardinality(D) <= Threshold /\ Threshold \in Nat
  BY <1>3, LimiterAssumption
<1>5. CASE Evicts(l, ip, t)
  <2>1. F = (D \ {victim}) \cup {ip}
    BY <1>5, FailedFacts
  <2>2. victim \in D /\ ip \notin D
    BY <1>5 DEF Oldest, Evicts
  <2> HIDE DEF D, F
  <2>3. IsFiniteSet(D \ {victim}) /\ Cardinality(D \ {victim}) = Cardinality(D) - 1
    BY <1>3, <2>2, FS_RemoveElement
  <2>4. Cardinality((D \ {victim}) \cup {ip}) = Cardinality(D \ {victim}) + 1
    BY <2>2, <2>3, FS_AddElement
  <2> QED
    BY <1>3, <1>4, <2>1, <2>3, <2>4 DEF F
<1>6. CASE ~Evicts(l, ip, t) /\ ip \in D
  <2>1. F = (D \ {}) \cup {ip}
    BY <1>6, FailedFacts
  <2>2. F = D
    BY <1>6, <2>1
  <2> QED
    BY <1>4, <2>2
<1>7. CASE ~Evicts(l, ip, t) /\ ip \notin D
  <2>1. F = D \cup {ip}
    BY <1>7, FailedFacts
  <2>2. Cardinality(D) < Threshold
    BY <1>3, <1>4, <1>7 DEF Evicts
  <2> HIDE DEF D, F
  <2>3. Cardinality(D \cup {ip}) = Cardinality(D) + 1
    BY <1>3, <1>7, FS_AddElement
  <2> QED
    BY <1>3, <1>4, <2>1, <2>2, <2>3 DEF F
<1> QED
  BY <1>5, <1>6, <1>7

-----------------------------------------------------------------------------
(***************************************************************************)
(* The guesses.  A record counts those since its start; a lockout and what *)
(* overlaps with it bound them, and the last record is over, or all but    *)
(* its first guess can be near the next one.                               *)
(***************************************************************************)
\* The guesses from a time on.
Since(times, t) == {i \in 1..Len(times) : t <= times[i]}

\* The requests of an address whose passwords are still to be compared.
Comparing(ip) == {p \in Procs : req[p].pc = "check" /\ req[p].ip = ip}

\* What a record that is over can leave in the window before the next one.
Spare == Limit + Cardinality(Procs) - 3

Most == 2 * (Limit - 1) + 2 * (Cardinality(Procs) - 1)

\* The record rec counts the guesses since its start; n requests overlap.
Counts(rec, times, n, t) ==
    /\ Cardinality(Since(times, rec.start)) = rec.count
    /\ rec.start <= t
    /\ \E i \in 1..Len(times) : times[i] = rec.start
    /\ \A i \in Since(times, rec.start) : times[i] <= rec.start + Window
    /\ rec.until = Zero => rec.count < Limit
    /\ rec.until # Zero =>
          /\ rec.count >= Limit
          /\ rec.until > rec.start + Window
          /\ \A i \in 1..Len(times) : times[i] + Lockout <= rec.until
    /\ t < rec.until => rec.count + n <= Limit + Cardinality(Procs) - 1
    /\ Cardinality(Within(times, rec.start - Window, rec.start - 1)) <= Spare

\* Without a record a new one may start: it is not crowded by the last.
Quiet(times, t) ==
    /\ \A i \in 1..Len(times) : times[i] < t
    /\ Cardinality(Since(times, t - Window)) <= Spare

\* GuessesBounded for the guesses of one address.
Windows(times) ==
    \A t \in 0..MaxTime : Cardinality(Within(times, t, t + Window)) <= Most

\* The guesses of an address are bounded, by its record in l or without one.
Accounted(ip, l, times, n, t) ==
    /\ \A i \in 1..Len(times) : times[i] <= t
    /\ Windows(times)
    /\ IF ip \in DOMAIN l.fails THEN Counts(l.fails[ip], times, n, t) ELSE Quiet(times, t)

GuessesCounted ==
    \A ip \in IPs : Accounted(ip, limiter, guesses[ip], Cardinality(Comparing(ip)), now)

\* More than one guess is free, and a lockout outlasts the window.
Strict == Limit > 1 /\ Window < Lockout

LEMMA Sizes ==
    ASSUME Strict
    PROVE  /\ Cardinality(Procs) \in Nat /\ Cardinality(Procs) > 0
           /\ Limit \in Nat /\ Limit > 1 /\ MaxTime \in Nat
           /\ Window \in Nat /\ Window > 0 /\ Lockout \in Nat /\ Window < Lockout
           /\ Spare \in Nat /\ Most \in Nat
           /\ Spare + 1 <= Most
           /\ Most = Spare + Limit + Cardinality(Procs) - 1
<1>1. Cardinality(Procs) \in Nat /\ Cardinality(Procs) # 0
  BY EdgeAssumption, FS_CardinalityType, FS_EmptySet
<1> QED
  BY <1>1, EdgeAssumption, LimiterAssumption DEF Strict, Spare, Most

\* Sets of guesses are finite, and a part of one is no larger.
LEMMA Parts ==
    ASSUME NEW times \in Seq(0..MaxTime), NEW B, B \subseteq 1..Len(times), NEW A, A \subseteq B
    PROVE  /\ IsFiniteSet(A) /\ IsFiniteSet(B)
           /\ Cardinality(A) \in Nat /\ Cardinality(B) \in Nat
           /\ Cardinality(A) <= Cardinality(B)
<1>1. IsFiniteSet(1..Len(times))
  BY FS_Interval
<1>2. IsFiniteSet(B)
  BY <1>1, FS_Subset
<1> QED
  BY <1>2, FS_Subset, FS_CardinalityType

LEMMA GuessTypes ==
    ASSUME NEW times \in Seq(0..MaxTime), NEW i \in 1..Len(times)
    PROVE  times[i] \in Int /\ 0 <= times[i] /\ times[i] <= MaxTime
  BY EdgeAssumption

LEMMA SinceWithin ==
    ASSUME NEW times, NEW t, NEW u
    PROVE  Since(times, t) \subseteq 1..Len(times) /\ Within(times, t, u) \subseteq 1..Len(times)
  BY DEF Since, Within

\* new is times with a guess more, which is in the sets it falls in.
Longer(new, times, t) ==
    /\ new \in Seq(0..MaxTime)
    /\ Len(new) \in Nat /\ Len(times) \in Nat /\ Len(new) = Len(times) + 1
    /\ new[Len(new)] = t
    /\ \A i \in 1..Len(times) : new[i] = times[i]
    /\ \A u \in Int : u <= t => Cardinality(Since(new, u)) = Cardinality(Since(times, u)) + 1
    /\ \A u, v \in Int :
          IF u <= t /\ t <= v
          THEN Cardinality(Within(new, u, v)) = Cardinality(Within(times, u, v)) + 1
          ELSE Within(new, u, v) = Within(times, u, v)

LEMMA OneMore ==
    ASSUME NEW times \in Seq(0..MaxTime), NEW t \in 0..MaxTime
    PROVE  Longer(Append(times, t), times, t)
<1> DEFINE new == Append(times, t)
           k == Len(times) + 1
<1>1. /\ new \in Seq(0..MaxTime) /\ Len(new) = Len(times) + 1 /\ new[Len(times) + 1] = t
      /\ \A i \in 1..Len(times) : new[i] = times[i]
  BY AppendProperties
<1>2. /\ Len(times) \in Nat /\ Len(new) = k /\ new[k] = t /\ k \notin 1..Len(times)
      /\ 1..Len(new) = 1..Len(times) \cup {k}
  BY <1>1, LenProperties
<1> HIDE DEF k, new
<1>3. ASSUME NEW u \in Int, u <= t
      PROVE  Cardinality(Since(new, u)) = Cardinality(Since(times, u)) + 1
  <2>1. Since(new, u) = Since(times, u) \cup {k}
    BY <1>1, <1>2, <1>3 DEF Since
  <2>2. IsFiniteSet(Since(times, u)) /\ k \notin Since(times, u)
    BY <1>2, SinceWithin, Parts
  <2> QED
    BY <2>1, <2>2, FS_AddElement
<1>4. ASSUME NEW u \in Int, NEW v \in Int, u <= t, t <= v
      PROVE  Cardinality(Within(new, u, v)) = Cardinality(Within(times, u, v)) + 1
  <2>1. Within(new, u, v) = Within(times, u, v) \cup {k}
    BY <1>1, <1>2, <1>4 DEF Within
  <2>2. IsFiniteSet(Within(times, u, v)) /\ k \notin Within(times, u, v)
    BY <1>2, SinceWithin, Parts
  <2> QED
    BY <2>1, <2>2, FS_AddElement
<1>5. ASSUME NEW u \in Int, NEW v \in Int, ~(u <= t /\ t <= v)
      PROVE  Within(new, u, v) = Within(times, u, v)
  BY <1>1, <1>2, <1>5 DEF Within
<1>6. Len(new) \in Nat
  BY <1>2 DEF k
<1> QED
  BY <1>1, <1>2, <1>3, <1>4, <1>5, <1>6 DEF Longer, new

\* A guess more keeps the windows, if those with it have room.
LEMMA WindowsKept ==
    ASSUME Strict, NEW times \in Seq(0..MaxTime), NEW t \in 0..MaxTime, Windows(times),
           \A u \in 0..MaxTime : u <= t /\ t <= u + Window =>
               Cardinality(Within(times, u, u + Window)) < Most
    PROVE  Windows(Append(times, t))
<1>1. PICK new : new = Append(times, t) /\ Longer(new, times, t)
  BY OneMore
<1>2. ASSUME NEW u \in 0..MaxTime
      PROVE  Cardinality(Within(new, u, u + Window)) <= Most
  <2>1. u \in Int /\ u + Window \in Int /\ Most \in Int
    BY Sizes
  <2>2. Cardinality(Within(times, u, u + Window)) \in Nat
    BY SinceWithin, Parts
  <2>3. CASE u <= t /\ t <= u + Window
    <3>1. Cardinality(Within(times, u, u + Window)) < Most
      BY <2>3
    <3>2. Cardinality(Within(new, u, u + Window)) = Cardinality(Within(times, u, u + Window)) + 1
      BY <1>1, <2>1, <2>3 DEF Longer
    <3> QED
      BY <2>1, <2>2, <3>1, <3>2
  <2>4. CASE ~(u <= t /\ t <= u + Window)
    BY <1>1, <2>1, <2>4 DEF Longer, Windows
  <2> QED
    BY <2>3, <2>4
<1> QED
  BY <1>1, <1>2 DEF Windows

\* When a record is over, a new one may start.
LEMMA OverIsQuiet ==
    ASSUME Strict, NEW times \in Seq(0..MaxTime), NEW t \in 0..MaxTime, NEW rec \in Failure,
           NEW n \in Nat, Counts(rec, times, n, t),
           \/ rec.until # Zero /\ t >= rec.until
           \/ ~Windowed(rec, t) /\ (rec.until = Zero \/ n > 0)
    PROVE  Quiet(times, t)
<1> DEFINE P == Cardinality(Procs)
           since == Since(times, t - Window)
<1>0. /\ Window \in Int /\ Window > 0 /\ Lockout \in Int /\ Window < Lockout
      /\ Limit \in Int /\ Limit > 1 /\ Spare \in Int /\ Spare >= 0 /\ MaxTime \in Int
  BY Sizes
<1>1. /\ rec.start \in Int /\ rec.until \in Int /\ rec.count \in Nat
      /\ t \in Int /\ Zero \in Int
  BY ZeroTime, <1>0 DEF Failure, Time
<1>2. \A i \in 1..Len(times) : times[i] \in Int
  BY GuessTypes
<1>3. P \in Nat /\ P > 0 /\ Spare = Limit + P - 3
  BY Sizes DEF Spare
<1>4. CASE rec.until # Zero /\ t >= rec.until
  <2>1. \A i \in 1..Len(times) : times[i] + Lockout <= rec.until
    BY <1>4 DEF Counts
  <2>2. ASSUME NEW i \in 1..Len(times) PROVE times[i] < t /\ times[i] < t - Window
    <3>1. times[i] \in Int /\ times[i] + Lockout <= rec.until
      BY <1>2, <2>1
    <3> QED
      BY <1>0, <1>1, <1>4, <3>1
  <2>3. since = {}
    BY <1>1, <1>2, <2>2, <1>0 DEF Since
  <2>4. Cardinality(since) = 0
    BY <2>3, FS_EmptySet
  <2> QED
    BY <2>2, <2>4, <1>0 DEF Quiet
<1>5. CASE ~Windowed(rec, t) /\ (rec.until = Zero \/ (n > 0 /\ t < rec.until))
  <2> DEFINE counted == Since(times, rec.start)
  <2>1. t - Window > rec.start
    BY <1>1, <1>5, <1>0 DEF Windowed
  <2>2. PICK first \in 1..Len(times) : times[first] = rec.start
    BY DEF Counts
  <2>3. first \in counted /\ first \notin since
    BY <1>1, <2>1, <2>2, <1>0 DEF Since
  <2>4. since \subseteq counted \ {first}
    BY <1>1, <1>2, <2>1, <2>3, <1>0 DEF Since
  <2>5. IsFiniteSet(counted) /\ counted \subseteq 1..Len(times)
    BY SinceWithin, Parts
  <2>6. Cardinality(counted \ {first}) = Cardinality(counted) - 1
    BY <2>3, <2>5, FS_RemoveElement
  <2>7. Cardinality(counted) = rec.count
    BY DEF Counts
  <2>8. Cardinality(since) \in Nat /\ Cardinality(since) <= Cardinality(counted \ {first})
    <3>1. counted \ {first} \subseteq 1..Len(times)
      BY <2>5
    <3> HIDE DEF since, counted
    <3> QED
      BY <2>4, <3>1, Parts
  <2>9. rec.count <= Spare + 1
    <3>1. CASE rec.until = Zero
      <4>1. rec.count < Limit
        BY <3>1 DEF Counts
      <4> QED
        BY <1>1, <1>3, <4>1, <1>0
    <3>2. CASE n > 0 /\ t < rec.until
      <4>1. rec.count + n <= Limit + P - 1
        BY <3>2 DEF Counts
      <4> QED
        <5> HIDE DEF P
        <5> QED
          BY <1>0, <1>1, <1>3, <3>2, <4>1
    <3> QED
      BY <1>5, <3>1, <3>2
  <2>10. Cardinality(since) <= Spare
    <3> HIDE DEF since, counted
    <3> QED
      BY <1>1, <2>6, <2>7, <2>8, <2>9, <1>0
  <2>11. ASSUME NEW i \in 1..Len(times) PROVE times[i] < t
    <3>1. CASE i \in counted
      <4>1. times[i] <= rec.start + Window
        BY <3>1 DEF Counts
      <4> QED
        BY <1>1, <1>2, <2>1, <4>1, <1>0
    <3>2. CASE i \notin counted
      <4>1. ~(rec.start <= times[i])
        BY <3>2 DEF Since
      <4> QED
        BY <1>1, <1>2, <2>1, <4>1, <1>0
    <3> QED
      BY <3>1, <3>2
  <2> QED
    BY <2>10, <2>11 DEF Quiet
<1> QED
  BY <1>1, <1>4, <1>5

\* A guess that starts a record.
LEMMA NewRecord ==
    ASSUME Strict, NEW times \in Seq(0..MaxTime), NEW t \in 0..MaxTime, NEW n,
           Quiet(times, t), Windows(times), NEW rec, rec.count = 1, rec.start = t, rec.until = Zero
    PROVE  Counts(rec, Append(times, t), n, t) /\ Windows(Append(times, t))
<1>a. PICK new : new = Append(times, t) /\ Longer(new, times, t)
  BY OneMore
<1>0. /\ Window \in Int /\ Window > 0 /\ Lockout \in Int /\ Window < Lockout
      /\ Limit \in Int /\ Limit > 1 /\ Spare \in Int /\ Spare >= 0 /\ MaxTime \in Int
  BY Sizes
<1>1. t \in Int /\ t - Window \in Int /\ t - 1 \in Int /\ Zero \in Int /\ Zero < 0
  BY ZeroTime, <1>0
<1>2. \A i \in 1..Len(times) : times[i] \in Int /\ times[i] < t
  BY GuessTypes DEF Quiet
<1>3. /\ new \in Seq(0..MaxTime) /\ Len(new) = Len(times) + 1 /\ new[Len(new)] = t
      /\ Len(times) \in Nat
      /\ \A i \in 1..Len(times) : new[i] = times[i]
      /\ Cardinality(Since(new, t)) = Cardinality(Since(times, t)) + 1
      /\ Within(new, t - Window, t - 1) = Within(times, t - Window, t - 1)
  <2>1. t <= t /\ ~(t <= t - 1)
    BY <1>1
  <2> QED
    BY <1>a, <1>1, <2>1 DEF Longer
<1>4. Since(times, t) = {}
  BY <1>1, <1>2 DEF Since
<1>5. Cardinality(Since(new, t)) = 1
  BY <1>3, <1>4, FS_EmptySet
<1>6. Cardinality(Since(times, t - Window)) \in Nat /\ Cardinality(Since(times, t - Window)) <= Spare
  BY SinceWithin, Parts DEF Quiet
<1>7. Cardinality(Within(times, t - Window, t - 1)) <= Spare
  <2>1. Within(times, t - Window, t - 1) \subseteq Since(times, t - Window)
    BY DEF Within, Since
  <2>2. /\ Cardinality(Within(times, t - Window, t - 1)) \in Nat
        /\ Cardinality(Within(times, t - Window, t - 1)) <= Cardinality(Since(times, t - Window))
    BY <2>1, SinceWithin, Parts
  <2> QED
    BY <1>6, <2>2, <1>0
<1>8. Counts(rec, new, n, t)
  <2>1. \A i \in 1..Len(new) : new[i] <= t
    BY <1>1, <1>2, <1>3
  <2>2. Len(new) \in 1..Len(new) /\ Since(new, t) \subseteq 1..Len(new)
    <3>1. Len(new) \in 1..Len(new)
      BY <1>3
    <3> QED
      BY <3>1, SinceWithin
  <2>3. \A i \in Since(new, t) : new[i] <= t + Window
    BY <1>1, <1>3, <2>1, <2>2, GuessTypes, <1>0
  <2>4. ~(t < Zero) /\ 1 < Limit /\ t <= t
    BY <1>1, <1>0
  <2> QED
    BY <1>3, <1>5, <1>7, <2>2, <2>3, <2>4 DEF Counts
<1>9. ASSUME NEW u \in 0..MaxTime, u <= t, t <= u + Window
      PROVE  Cardinality(Within(times, u, u + Window)) < Most
  <2>1. Within(times, u, u + Window) \subseteq Since(times, t - Window)
    <3>1. \A i \in 1..Len(times) : u <= times[i] => t - Window <= times[i]
      BY <1>1, <1>2, <1>9, <1>0
    <3> QED
      BY <3>1 DEF Within, Since
  <2>2. /\ Cardinality(Within(times, u, u + Window)) \in Nat
        /\ Cardinality(Within(times, u, u + Window)) <= Cardinality(Since(times, t - Window))
    BY <2>1, SinceWithin, Parts
  <2>3. Most \in Int /\ Spare + 1 <= Most
    BY Sizes
  <2> QED
    BY <1>0, <1>6, <2>2, <2>3
<1>10. Windows(Append(times, t))
  BY <1>9, WindowsKept
<1> QED
  BY <1>a, <1>8, <1>10

\* A guess that is counted in the record of its window.
LEMMA CountedOn ==
    ASSUME Strict, NEW times \in Seq(0..MaxTime), NEW t \in 0..MaxTime, NEW rec \in Failure,
           NEW n \in Nat, n > 0, n <= Cardinality(Procs), Counts(rec, times, n, t),
           Windowed(rec, t), \A i \in 1..Len(times) : times[i] <= t, Windows(times)
    PROVE  Counts(Counted(rec, t), Append(times, t), n - 1, t) /\ Windows(Append(times, t))
<1> DEFINE P == Cardinality(Procs)
<1>a. PICK new : new = Append(times, t) /\ Longer(new, times, t)
  BY OneMore
<1>0. /\ Window \in Int /\ Window > 0 /\ Lockout \in Int /\ Window < Lockout
      /\ Limit \in Int /\ Limit > 1 /\ Spare \in Int /\ Spare >= 0
      /\ P \in Int /\ P > 0 /\ Most = Spare + Limit + P - 1
  BY Sizes
<1>b. PICK more : more = Counted(rec, t)
  OBVIOUS
<1>1. /\ more.count = rec.count + 1 /\ more.start = rec.start
      /\ more.until = IF rec.count + 1 >= Limit THEN t + Lockout ELSE rec.until
  BY <1>b DEF Counted, Failure
<1> HIDE DEF P
<1>2. /\ rec.start \in Int /\ rec.until \in Int /\ rec.count \in Nat
      /\ t \in Int /\ t >= 0 /\ Zero \in Int /\ Zero < 0
  BY ZeroTime, Sizes DEF Failure, Time
<1>3. t - rec.start <= Window /\ rec.start <= t
  BY DEF Windowed, Counts
<1>4. \A i \in 1..Len(times) : times[i] \in Int /\ times[i] <= t
  BY GuessTypes
<1>5. /\ Len(new) \in 1..Len(new) /\ Len(times) \in Nat /\ Len(new) = Len(times) + 1
      /\ new[Len(new)] = t /\ \A i \in 1..Len(times) : new[i] = times[i]
  BY <1>a DEF Longer
<1>6. \A i \in 1..Len(new) : i \in 1..Len(times) \/ i = Len(new)
  BY <1>5
<1>7. Cardinality(Since(new, rec.start)) = rec.count + 1
  BY <1>a, <1>2, <1>3 DEF Longer, Counts
<1>8. Within(new, rec.start - Window, rec.start - 1) = Within(times, rec.start - Window, rec.start - 1)
  <2>1. /\ rec.start - Window \in Int /\ rec.start - 1 \in Int
        /\ ~(rec.start - Window <= t /\ t <= rec.start - 1)
    BY <1>0, <1>2, <1>3
  <2> QED
    BY <1>a, <2>1 DEF Longer
\* The record locks now or was locked before.
<1>9. more.until # Zero => more.count >= Limit /\ more.until = t + Lockout
  <2>1. CASE rec.count + 1 >= Limit
    BY <1>1, <2>1
  <2>2. CASE ~(rec.count + 1 >= Limit)
    <3>1. rec.until = Zero
      BY <1>0, <1>2, <2>2 DEF Counts
    <3> QED
      BY <1>1, <2>2, <3>1
  <2> QED
    BY <2>1, <2>2
<1>10. rec.count + 1 <= Limit + P - 1 /\ (more.until # Zero => rec.count + n <= Limit + P - 1)
  <2>0. n \in Int /\ n > 0 /\ n <= P
    BY DEF P
  <2>1. CASE rec.until = Zero
    <3>1. rec.count < Limit
      BY <2>1 DEF Counts
    <3> QED
      BY <1>0, <1>2, <2>0, <3>1
  <2>2. CASE rec.until # Zero
    <3>1. rec.until > rec.start + Window
      BY <2>2 DEF Counts
    <3>2. t < rec.until
      BY <1>0, <1>2, <1>3, <3>1
    <3>3. rec.count + n <= Limit + P - 1
      BY <3>2 DEF Counts, P
    <3> QED
      BY <1>0, <1>2, <2>0, <3>3
  <2> QED
    BY <2>1, <2>2
<1>11. Counts(more, new, n - 1, t)
  <2>1. \E i \in 1..Len(new) : new[i] = more.start
    <3>1. PICK i \in 1..Len(times) : times[i] = rec.start
      BY DEF Counts
    <3>2. i \in 1..Len(new)
      BY <1>5
    <3> QED
      BY <1>1, <1>5, <3>1, <3>2
  <2>2. \A i \in 1..Len(new) : new[i] \in Int /\ new[i] <= t
    BY <1>2, <1>4, <1>5, <1>6
  <2>3. ASSUME NEW i \in Since(new, more.start) PROVE new[i] <= more.start + Window
    <3>1. new[i] \in Int /\ new[i] <= t
      BY <2>2, SinceWithin
    <3> QED
      BY <1>0, <1>1, <1>2, <1>3, <3>1
  <2>4. more.until = Zero => more.count < Limit
    <3>1. t + Lockout # Zero
      BY <1>0, <1>2
    <3> QED
      BY <1>0, <1>1, <1>2, <3>1
  <2>5. more.until # Zero =>
          /\ more.count >= Limit
          /\ more.until > more.start + Window
          /\ \A i \in 1..Len(new) : new[i] + Lockout <= more.until
    <3> SUFFICES ASSUME more.until # Zero
                 PROVE  /\ more.until > more.start + Window
                        /\ \A i \in 1..Len(new) : new[i] + Lockout <= more.until
      BY <1>9
    <3>1. more.until = t + Lockout
      BY <1>9
    <3>2. more.until > more.start + Window
      BY <1>0, <1>1, <1>2, <1>3, <3>1
    <3>3. ASSUME NEW i \in 1..Len(new) PROVE new[i] + Lockout <= more.until
      <4>1. new[i] \in Int /\ new[i] <= t
        BY <2>2
      <4> QED
        BY <1>0, <1>2, <3>1, <4>1
    <3> QED
      BY <3>2, <3>3
  <2>6. t < more.until => more.count + (n - 1) <= Limit + Cardinality(Procs) - 1
    <3> SUFFICES ASSUME t < more.until PROVE more.count + (n - 1) <= Limit + P - 1
      BY DEF P
    <3>1. more.until # Zero
      BY <1>2
    <3>2. rec.count + n <= Limit + P - 1
      BY <1>10, <3>1
    <3>3. n \in Int /\ more.count = rec.count + 1
      BY <1>1
    <3> QED
      BY <1>0, <1>2, <3>2, <3>3
  <2>7. Cardinality(Within(new, more.start - Window, more.start - 1)) <= Spare
    BY <1>1, <1>8 DEF Counts
  <2>8. Cardinality(Since(new, more.start)) = more.count /\ more.start <= t
    BY <1>1, <1>3, <1>7
  <2> QED
    BY <2>1, <2>3, <2>4, <2>5, <2>6, <2>7, <2>8 DEF Counts
<1>12. ASSUME NEW u \in 0..MaxTime, u <= t, t <= u + Window
       PROVE  Cardinality(Within(times, u, u + Window)) < Most
  <2> DEFINE A == Within(times, u, u + Window)
             B == Within(times, rec.start - Window, rec.start - 1)
             C == Since(times, rec.start)
  <2>0. u \in Int
    BY Sizes
  <2>1. ASSUME NEW i \in A PROVE i \in B \cup C
    <3>1. i \in 1..Len(times) /\ u <= times[i]
      BY DEF Within
    <3>2. times[i] \in Int
      BY <1>4, <3>1
    <3>3. rec.start - Window <= times[i]
      BY <1>0, <1>2, <1>3, <1>12, <2>0, <3>1, <3>2
    <3>4. CASE rec.start <= times[i]
      BY <3>1, <3>4 DEF Since
    <3>5. CASE times[i] <= rec.start - 1
      BY <3>1, <3>3, <3>5 DEF Within
    <3> QED
      BY <1>2, <3>2, <3>4, <3>5
  <2>2. B \subseteq 1..Len(times) /\ C \subseteq 1..Len(times)
    BY SinceWithin
  <2> HIDE DEF A, B, C
  <2>3. A \subseteq B \cup C /\ B \cup C \subseteq 1..Len(times)
    BY <2>1, <2>2
  <2>4. /\ Cardinality(A) \in Nat /\ Cardinality(B \cup C) \in Nat
        /\ Cardinality(A) <= Cardinality(B \cup C)
        /\ IsFiniteSet(B) /\ IsFiniteSet(C)
        /\ Cardinality(B) \in Nat /\ Cardinality(C) \in Nat
    BY <2>2, <2>3, Parts
  <2>5. Cardinality(B \cup C) <= Cardinality(B) + Cardinality(C)
    <3>1. /\ Cardinality(B \cup C) = Cardinality(B) + Cardinality(C) - Cardinality(B \cap C)
          /\ IsFiniteSet(B \cap C)
      BY <2>4, FS_Union, FS_Intersection
    <3>2. Cardinality(B \cap C) \in Nat
      BY <3>1, FS_CardinalityType
    <3> QED
      BY <2>4, <3>1, <3>2
  <2>6. Cardinality(B) <= Spare /\ Cardinality(C) = rec.count
    BY DEF Counts, B, C
  <2>7. rec.count < Limit + P - 1
    BY <1>0, <1>2, <1>10
  <2> QED
    BY <1>0, <1>2, <2>4, <2>5, <2>6, <2>7 DEF A
<1>13. Windows(Append(times, t))
  BY <1>12, WindowsKept
<1> QED
  BY <1>a, <1>b, <1>11, <1>13

\* Time passes.
LEMMA CountsLater ==
    ASSUME Strict, NEW times \in Seq(0..MaxTime), NEW t \in 0..MaxTime, NEW rec \in Failure,
           NEW n \in Nat, Counts(rec, times, n, t)
    PROVE  Counts(rec, times, n, t + 1)
<1>1. t \in Int /\ rec.start \in Int /\ rec.until \in Int
  BY ZeroTime, Sizes DEF Failure, Time
<1>2. (t + 1 < rec.until => t < rec.until) /\ rec.start <= t + 1
  BY <1>1 DEF Counts
<1> QED
  BY <1>2 DEF Counts

LEMMA QuietLater ==
    ASSUME Strict, NEW times \in Seq(0..MaxTime), NEW t \in 0..MaxTime, Quiet(times, t)
    PROVE  Quiet(times, t + 1)
<1>1. t \in Int /\ Window \in Int
  BY Sizes
<1>2. \A i \in 1..Len(times) : times[i] \in Int /\ times[i] < t
  BY GuessTypes DEF Quiet
<1>3. PICK u : u = t + 1
  OBVIOUS
<1>4. u - Window \in Int /\ u \in Int /\ u = t + 1
  BY <1>1, <1>3
<1>5. Since(times, u - Window) \subseteq Since(times, t - Window)
  BY <1>1, <1>2, <1>4 DEF Since
<1>6. /\ Cardinality(Since(times, u - Window)) \in Nat
      /\ Cardinality(Since(times, t - Window)) \in Nat
      /\ Cardinality(Since(times, u - Window)) <= Cardinality(Since(times, t - Window))
  BY <1>5, SinceWithin, Parts
<1>7. Cardinality(Since(times, t - Window)) <= Spare /\ Spare \in Int
  BY Sizes DEF Quiet
<1>8. Cardinality(Since(times, u - Window)) <= Spare
  BY <1>6, <1>7
<1>9. \A i \in 1..Len(times) : times[i] < u
  BY <1>1, <1>2, <1>4
<1> QED
  BY <1>3, <1>8, <1>9 DEF Quiet

\* As long as a record is not locked, any number of requests may overlap.
LEMMA CountsAnyone ==
    ASSUME NEW rec, NEW times, NEW n, NEW m, NEW t \in 0..MaxTime,
           Counts(rec, times, n, t), rec.until = Zero
    PROVE  Counts(rec, times, m, t)
<1>1. ~(t < rec.until)
  BY ZeroTime, EdgeAssumption
<1> QED
  BY <1>1 DEF Counts

\* No guess is accounted for without a record.
LEMMA NoneAccounted ==
    ASSUME Strict, NEW ip, NEW l, ip \notin DOMAIN l.fails, NEW n, NEW t
    PROVE  Accounted(ip, l, <<>>, n, t)
<1>1. PICK none : none = <<>> /\ 1..Len(none) = {}
  OBVIOUS
<1>a. Cardinality({}) = 0
  BY FS_EmptySet
<1>2. Windows(none)
  <2>1. ASSUME NEW u \in 0..MaxTime PROVE Cardinality(Within(none, u, u + Window)) = 0
    BY <1>1, <1>a DEF Within
  <2> QED
    BY <2>1, Sizes DEF Windows
<1>3. Quiet(none, t)
  <2>1. Cardinality(Since(none, t - Window)) = 0
    BY <1>1, <1>a DEF Since
  <2> QED
    BY <1>1, <2>1, Sizes DEF Quiet
<1> QED
  BY <1>1, <1>2, <1>3 DEF Accounted

\* A record that goes when it is over leaves the guesses accounted for.
LEMMA DroppedAccounted ==
    ASSUME Strict, NEW l, IsLimiter(l), NEW m, Shrunk(m, l), NEW t \in 0..MaxTime,
           NEW times \in Seq(0..MaxTime), NEW n \in Nat, NEW ip, Accounted(ip, l, times, n, t),
           ip \in DOMAIN l.fails \ DOMAIN m.fails =>
              \/ l.fails[ip].until # Zero /\ t >= l.fails[ip].until
              \/ ~Windowed(l.fails[ip], t) /\ l.fails[ip].until = Zero
    PROVE  Accounted(ip, m, times, n, t)
<1>1. CASE ip \in DOMAIN l.fails /\ ip \in DOMAIN m.fails
  BY <1>1 DEF Accounted, Shrunk
<1>2. CASE ip \notin DOMAIN l.fails
  BY <1>2 DEF Accounted, Shrunk
<1>3. CASE ip \in DOMAIN l.fails /\ ip \notin DOMAIN m.fails
  <2>1. PICK rec : rec = l.fails[ip]
    OBVIOUS
  <2>2. rec \in Failure /\ Counts(rec, times, n, t)
    BY <1>3, <2>1, RecordTypes DEF Accounted
  <2>3. \/ rec.until # Zero /\ t >= rec.until
        \/ ~Windowed(rec, t) /\ (rec.until = Zero \/ n > 0)
    BY <1>3, <2>1
  <2>4. Quiet(times, t)
    BY <2>2, <2>3, OverIsQuiet
  <2> QED
    BY <1>3, <2>4 DEF Accounted
<1> QED
  BY <1>1, <1>2, <1>3

LEMMA PrunedAccounted ==
    ASSUME Strict, NEW l, IsLimiter(l), NEW t \in 0..MaxTime,
           NEW times \in Seq(0..MaxTime), NEW n \in Nat, NEW ip, Accounted(ip, l, times, n, t)
    PROVE  Accounted(ip, Pruned(l, t), times, n, t)
<1>1. PICK m : m = Pruned(l, t)
  OBVIOUS
<1>2. Shrunk(m, l)
  BY <1>1, PrunedFacts
<1>3. ASSUME ip \in DOMAIN l.fails \ DOMAIN m.fails
      PROVE  \/ l.fails[ip].until # Zero /\ t >= l.fails[ip].until
             \/ ~Windowed(l.fails[ip], t) /\ l.fails[ip].until = Zero
  <2>1. Expired(l.fails[ip], t)
    BY <1>1, <1>3, PrunedFacts
  <2>2. l.fails[ip].until \in Int /\ t \in Int
    BY <1>3, RecordTypes, EdgeAssumption
  <2> QED
    BY <2>1, <2>2 DEF Expired
<1> QED
  BY <1>1, <1>2, <1>3, DroppedAccounted

\* Allow: whoever it lets in meets no record, or one that is not locked.
LEMMA AllowedAccounted ==
    ASSUME Strict, NEW l, IsLimiter(l), NEW t \in 0..MaxTime, NEW a,
           NEW times \in Seq(0..MaxTime), NEW n \in Nat, NEW ip, Accounted(ip, l, times, n, t)
    PROVE  /\ Accounted(ip, Allowed(l, a, t), times, n, t)
           /\ a = ip /\ ~Locked(Pruned(l, t), a, t) =>
                 \A m \in Nat : Accounted(ip, Allowed(l, a, t), times, m, t)
<1>1. PICK p : p = Pruned(l, t)
  OBVIOUS
<1>2. IsLimiter(p) /\ Accounted(ip, p, times, n, t)
  BY <1>1, PrunedFacts, PrunedAccounted
<1>3. PICK q : q = Allowed(l, a, t)
  OBVIOUS
<1> DEFINE over == a \in DOMAIN p.fails /\ ~Locked(p, a, t)
                   /\ (p.fails[a].until # Zero \/ ~Windowed(p.fails[a], t))
<1>4. q = IF over THEN Without(p, a) ELSE p
  BY <1>1, <1>3 DEF Allowed
<1>5. CASE over
  <2>1. Shrunk(q, p) /\ DOMAIN q.fails = DOMAIN p.fails \ {a}
    BY <1>2, <1>4, <1>5, WithoutFacts
  <2>2. \/ p.fails[a].until # Zero /\ t >= p.fails[a].until
        \/ ~Windowed(p.fails[a], t) /\ p.fails[a].until = Zero
    <3>1. p.fails[a].until \in Int /\ t \in Int
      BY <1>2, <1>5, RecordTypes, EdgeAssumption
    <3> QED
      BY <1>5, <3>1 DEF Locked
  <2>3. Accounted(ip, q, times, n, t)
    BY <1>2, <2>1, <2>2, DroppedAccounted
  <2>4. a = ip => \A m \in Nat : Accounted(ip, q, times, m, t)
    BY <2>1, <2>3 DEF Accounted
  <2> QED
    BY <1>3, <2>3, <2>4
<1>6. CASE ~over
  <2>1. q = p
    BY <1>4, <1>6
  <2>2. ASSUME a = ip, ~Locked(p, a, t), NEW m \in Nat PROVE Accounted(ip, q, times, m, t)
    <3>1. CASE ip \notin DOMAIN p.fails
      BY <1>2, <2>1, <3>1 DEF Accounted
    <3>2. CASE ip \in DOMAIN p.fails
      <4>1. p.fails[ip].until = Zero
        BY <1>6, <2>2, <3>2
      <4>2. Counts(p.fails[ip], times, m, t)
        BY <1>2, <3>2, <4>1, CountsAnyone DEF Accounted
      <4> QED
        BY <1>2, <2>1, <3>2, <4>2 DEF Accounted
    <3> QED
      BY <3>1, <3>2
  <2> QED
    BY <1>1, <1>2, <1>3, <2>1, <2>2
<1> QED
  BY <1>5, <1>6

\* Fail: the guess is counted in the record of its window, or starts one.
LEMMA FailedAccounted ==
    ASSUME Strict, NEW l, IsLimiter(l), NEW t \in 0..MaxTime, NEW ip \in IPs,
           NEW times \in Seq(0..MaxTime), NEW n \in Nat, n > 0, n <= Cardinality(Procs),
           Accounted(ip, l, times, n, t),
           NEW f, ip \in DOMAIN f.fails,
           f.fails[ip] = Counted(Current(Pruned(l, t), ip, t), t)
    PROVE  Accounted(ip, f, Append(times, t), n - 1, t)
<1>1. PICK p : p = Pruned(l, t)
  OBVIOUS
<1>2. IsLimiter(p) /\ Accounted(ip, p, times, n, t)
  BY <1>1, PrunedFacts, PrunedAccounted
<1>3. (\A i \in 1..Len(times) : times[i] <= t) /\ Windows(times)
  BY <1>2 DEF Accounted
<1>4. PICK new : new = Append(times, t) /\ Longer(new, times, t)
  BY OneMore
<1>5. \A i \in 1..Len(new) : new[i] <= t
  <2>1. Len(new) = Len(times) + 1 /\ Len(times) \in Nat /\ new[Len(new)] = t
        /\ \A i \in 1..Len(times) : new[i] = times[i]
    BY <1>4 DEF Longer
  <2>2. \A i \in 1..Len(new) : i \in 1..Len(times) \/ i = Len(new)
    BY <2>1
  <2>3. t <= t
    BY EdgeAssumption
  <2> QED
    BY <1>3, <2>1, <2>2, <2>3
<1>6. CASE ip \in DOMAIN p.fails /\ Windowed(p.fails[ip], t)
  <2>1. PICK rec : rec = p.fails[ip]
    OBVIOUS
  <2>2. rec \in Failure /\ Counts(rec, times, n, t) /\ Windowed(rec, t)
    BY <1>2, <1>6, <2>1, RecordTypes DEF Accounted
  <2>3. Counts(Counted(rec, t), new, n - 1, t) /\ Windows(new)
    BY <1>3, <1>4, <2>2, CountedOn
  <2>4. f.fails[ip] = Counted(rec, t)
    BY <1>1, <1>6, <2>1 DEF Current
  <2> QED
    BY <1>4, <1>5, <2>3, <2>4 DEF Accounted
<1>7. CASE ~(ip \in DOMAIN p.fails /\ Windowed(p.fails[ip], t))
  <2>1. Quiet(times, t)
    <3>1. CASE ip \notin DOMAIN p.fails
      BY <1>2, <3>1 DEF Accounted
    <3>2. CASE ip \in DOMAIN p.fails
      <4>1. PICK rec : rec = p.fails[ip]
        OBVIOUS
      <4>2. rec \in Failure /\ Counts(rec, times, n, t) /\ ~Windowed(rec, t)
        BY <1>2, <1>7, <3>2, <4>1, RecordTypes DEF Accounted
      <4> QED
        BY <4>2, OverIsQuiet
    <3> QED
      BY <3>1, <3>2
  <2>2. PICK first : first = [count |-> 0, start |-> t, until |-> Zero]
    OBVIOUS
  <2>3. f.fails[ip] = Counted(first, t)
    BY <1>1, <1>7, <2>2 DEF Current
  <2>4. PICK rec : rec = f.fails[ip]
    OBVIOUS
  <2>5. rec.count = 1 /\ rec.start = t /\ rec.until = Zero
    <3>1. ~(0 + 1 >= Limit)
      BY Sizes
    <3> QED
      BY <2>2, <2>3, <2>4, <3>1 DEF Counted
  <2>6. Counts(rec, new, n - 1, t) /\ Windows(new)
    BY <1>3, <1>4, <2>1, <2>5, NewRecord
  <2> QED
    BY <1>4, <1>5, <2>4, <2>6 DEF Accounted
<1> QED
  BY <1>6, <1>7

-----------------------------------------------------------------------------
(***************************************************************************)
(* The ring.                                                               *)
(***************************************************************************)

\* What the slots hold: the newest line is before next, and the lines get
\* older from there downwards, round the end of a ring that is full.
Numbered(r) ==
    /\ r \in Ring
    /\ r.filled < Capacity => r.next = r.filled /\ r.seq = r.filled
    /\ r.filled <= r.seq
    /\ \A s \in Slots : s < r.next => r.entries[s] = r.seq - r.next + s + 1
    /\ r.filled = Capacity =>
          \A s \in Slots : s >= r.next => r.entries[s] = r.seq - r.next - Capacity + s + 1

LEMMA RingTypes ==
    ASSUME NEW r, Numbered(r)
    PROVE  /\ r.next \in Int /\ 0 <= r.next /\ r.next < Capacity
           /\ r.filled \in Nat /\ r.filled <= Capacity
           /\ r.seq \in Nat /\ r.filled <= r.seq
           /\ Capacity \in Nat /\ Capacity > 0
  BY CapacityAssumption DEF Numbered, Ring, Slots

LEMMA NewRingNumbered == Numbered(NewRing)
<1>1. NewRing \in Ring
  BY CapacityAssumption DEF NewRing, Ring, Slots
<1> QED
  BY <1>1, CapacityAssumption DEF Numbered, NewRing, Slots

\* The next slot of a ring.
LEMMA NextSlot ==
    ASSUME NEW x \in Slots
    PROVE  (x + 1) % Capacity = IF x = Capacity - 1 THEN 0 ELSE x + 1
  BY CapacityAssumption DEF Slots

LEMMA WrittenNumbered ==
    ASSUME NEW r, Numbered(r)
    PROVE  Numbered(Written(r))
<1> DEFINE w == Written(r)
           n == (r.next + 1) % Capacity
           f == IF r.filled < Capacity THEN r.filled + 1 ELSE r.filled
           es == [r.entries EXCEPT ![r.next] = r.seq + 1]
<1>1. w = [entries |-> es, next |-> n, filled |-> f, seq |-> r.seq + 1]
  BY DEF Written
<1>2. n = IF r.next = Capacity - 1 THEN 0 ELSE r.next + 1
  BY NextSlot DEF Numbered, Ring
<1>3. n \in Slots /\ f \in 0..Capacity /\ r.seq + 1 \in Nat
  BY <1>2, RingTypes DEF Slots
<1>4. es \in [Slots -> Nat]
  BY RingTypes DEF Numbered, Ring
<1>5. \A s \in Slots : es[s] = IF s = r.next THEN r.seq + 1 ELSE r.entries[s]
  BY DEF Numbered, Ring
<1> HIDE DEF es, n
<1>6. w \in Ring
  BY <1>1, <1>3, <1>4 DEF Ring
<1>7. (f < Capacity => n = f /\ r.seq + 1 = f) /\ f <= r.seq + 1
  BY <1>2, RingTypes DEF Numbered
<1>8. ASSUME NEW s \in Slots, s < n
      PROVE  es[s] = r.seq + 1 - n + s + 1
  <2>1. r.next # Capacity - 1 /\ n = r.next + 1
    BY <1>2, <1>8 DEF Slots
  <2>2. CASE s = r.next
    BY <2>1, <2>2, <1>5, RingTypes
  <2>3. CASE s < r.next
    BY <2>1, <2>3, <1>5, RingTypes DEF Numbered, Slots
  <2> QED
    BY <2>1, <2>2, <2>3, <1>8, RingTypes DEF Slots
<1>9. ASSUME f = Capacity, NEW s \in Slots, s >= n
      PROVE  es[s] = r.seq + 1 - n - Capacity + s + 1
  <2>1. CASE r.next = Capacity - 1
    <3>1. n = 0
      BY <2>1, <1>2
    <3>2. CASE s = r.next
      BY <3>1, <3>2, <2>1, <1>5, RingTypes
    <3>3. CASE s # r.next
      BY <3>1, <3>3, <2>1, <1>5, RingTypes DEF Numbered, Slots
    <3> QED
      BY <3>2, <3>3
  <2>2. CASE r.next # Capacity - 1
    <3>1. n = r.next + 1 /\ s > r.next
      BY <2>2, <1>2, <1>9, RingTypes DEF Slots
    <3>2. r.filled = Capacity
      BY <2>2, <1>9, RingTypes DEF Numbered
    <3> QED
      BY <3>1, <3>2, <1>5, RingTypes DEF Numbered, Slots
  <2> QED
    BY <2>1, <2>2
<1>10. w.entries = es /\ w.next = n /\ w.filled = f /\ w.seq = r.seq + 1
  BY <1>1
<1> HIDE DEF w, f
<1>11. ASSUME NEW s \in Slots, s < w.next
       PROVE  w.entries[s] = w.seq - w.next + s + 1
  <2>1. es[s] = r.seq + 1 - n + s + 1
    BY <1>8, <1>10, <1>11
  <2>2. r.seq \in Int /\ n \in Int /\ s \in Int /\ Capacity \in Int
    BY <1>3, RingTypes DEF Slots
  <2> QED
    BY <1>10, <2>1, <2>2
<1>12. ASSUME w.filled = Capacity, NEW s \in Slots, s >= w.next
       PROVE  w.entries[s] = w.seq - w.next - Capacity + s + 1
  <2>1. es[s] = r.seq + 1 - n - Capacity + s + 1
    BY <1>9, <1>10, <1>12
  <2>2. r.seq \in Int /\ n \in Int /\ s \in Int /\ Capacity \in Int
    BY <1>3, RingTypes DEF Slots
  <2> QED
    BY <1>10, <2>1, <2>2
<1>13. (w.filled < Capacity => w.next = w.filled /\ w.seq = w.filled) /\ w.filled <= w.seq
  BY ONLY <1>7, <1>10
<1>14. Numbered(w)
  BY <1>6, <1>11, <1>12, <1>13 DEF Numbered
<1> QED
  BY <1>14 DEF w

\* The lines from the oldest to the newest are numbered without gaps.
LEMMA InOrderNumbers ==
    ASSUME NEW r, Numbered(r)
    PROVE  /\ InOrder(r) \in Seq(Nat)
           /\ Len(InOrder(r)) = r.filled
           /\ \A i \in 1..r.filled : InOrder(r)[i] = r.seq - r.filled + i
<1>1. ASSUME NEW i \in 1..r.filled
      PROVE  r.entries[(r.next - r.filled + (i - 1) + Capacity) % Capacity] = r.seq - r.filled + i
  <2> DEFINE x == r.next - r.filled + (i - 1)
             s == IF x < 0 THEN x + Capacity ELSE x
  <2>1. x \in Int /\ x < Capacity /\ -Capacity <= x
    BY RingTypes
  <2>2. s \in Slots
    BY <2>1, RingTypes DEF Slots
  <2>3. (x + Capacity) % Capacity = s
    <3> HIDE DEF x
    <3>1. CASE x < 0
      BY <2>1, <3>1, CapacityAssumption
    <3>2. CASE x >= 0
      BY <2>1, <3>2, CapacityAssumption
    <3> QED
      BY <2>1, <3>1, <3>2
  <2>4. r.entries[s] = r.seq - r.filled + i
    <3>1. CASE r.filled < Capacity
      <4>1. s = i - 1 /\ s < r.next
        BY <3>1, RingTypes DEF Numbered
      <4> QED
        BY <2>2, <3>1, <4>1, RingTypes DEF Numbered
    <3>2. CASE r.filled = Capacity /\ x < 0
      <4>1. s = r.next + (i - 1) /\ s >= r.next
        BY <3>2, RingTypes
      <4> QED
        BY <2>2, <3>2, <4>1, RingTypes DEF Numbered
    <3>3. CASE r.filled = Capacity /\ x >= 0
      <4>1. s = r.next - r.filled + (i - 1) /\ s < r.next
        BY <3>3, RingTypes
      <4> QED
        BY <2>2, <3>3, <4>1, RingTypes DEF Numbered
    <3>4. r.filled < Capacity \/ r.filled = Capacity
      BY RingTypes
    <3> HIDE DEF x, s
    <3>5. x < 0 \/ x >= 0
      BY <2>1
    <3> QED
      BY <3>1, <3>2, <3>3, <3>4, <3>5
  <2> QED
    BY <2>3, <2>4
<1>2. \A i \in 1..r.filled : InOrder(r)[i] = r.seq - r.filled + i
  BY <1>1 DEF InOrder
<1>3. \A i \in 1..r.filled : InOrder(r)[i] \in Nat
  BY <1>2, RingTypes
<1>4. InOrder(r) \in [1..r.filled -> Nat]
  BY <1>3 DEF InOrder
<1>5. InOrder(r) \in Seq(Nat)
  BY <1>4, RingTypes, SeqDef
<1>6. Len(InOrder(r)) = r.filled
  BY <1>4, <1>5, RingTypes, LenProperties
<1> QED
  BY <1>2, <1>5, <1>6

\* A ring without room drops its oldest line.
LEMMA InOrderWritten ==
    ASSUME NEW r, Numbered(r)
    PROVE  LET all == Append(InOrder(r), r.seq + 1)
           IN  InOrder(Written(r)) = IF Len(all) > Capacity THEN Tail(all) ELSE all
<1> DEFINE old == InOrder(r)
           new == InOrder(Written(r))
           all == Append(old, r.seq + 1)
<1>1. /\ old \in Seq(Nat) /\ Len(old) = r.filled
      /\ \A i \in 1..r.filled : old[i] = r.seq - r.filled + i
  BY InOrderNumbers
<1>2. Numbered(Written(r))
  BY WrittenNumbered
<1>3. /\ Written(r).seq = r.seq + 1
      /\ Written(r).filled = IF r.filled < Capacity THEN r.filled + 1 ELSE r.filled
  BY DEF Written
<1>4. /\ new \in Seq(Nat) /\ Len(new) = Written(r).filled
      /\ \A i \in 1..Written(r).filled : new[i] = Written(r).seq - Written(r).filled + i
  BY <1>2, InOrderNumbers
<1>5. r.seq \in Nat /\ r.filled \in Nat /\ r.filled <= Capacity /\ Capacity \in Nat /\ Capacity > 0
  BY RingTypes
<1> HIDE DEF old, new
<1>6. /\ all \in Seq(Nat) /\ Len(all) = r.filled + 1
      /\ \A i \in 1..r.filled + 1 : all[i] = r.seq - r.filled + i
  BY <1>1, <1>5
<1> HIDE DEF all
<1>7. CASE r.filled < Capacity
  <2>a. Written(r).filled = r.filled + 1
    BY <1>3, <1>7
  <2>b. ASSUME NEW i \in 1..r.filled + 1
        PROVE  new[i] = all[i]
    <3> DEFINE w == Written(r)
    <3>a. w.seq = r.seq + 1 /\ w.filled = r.filled + 1 /\ i \in 1..w.filled
      BY <1>3, <2>a
    <3>b. new[i] = w.seq - w.filled + i
      BY <1>4, <3>a
    <3> HIDE DEF w
    <3>1. new[i] = r.seq - r.filled + i
      BY <1>5, <3>a, <3>b
    <3>2. all[i] = r.seq - r.filled + i
      BY <1>6
    <3> QED
      BY <1>5, <3>1, <3>2
  <2>1. Len(new) = Len(all) /\ \A i \in 1..Len(new) : new[i] = all[i]
    BY <1>4, <1>6, <2>a, <2>b
  <2>2. new = all
    BY <1>4, <1>6, <2>1, SeqEqual
  <2> QED
    BY <1>5, <1>6, <1>7, <2>2 DEF all, new, old
<1>8. CASE r.filled = Capacity
  <2>1. /\ Tail(all) \in Seq(Nat) /\ Len(Tail(all)) = r.filled
        /\ \A i \in 1..r.filled : Tail(all)[i] = all[i + 1]
    BY <1>5, <1>6
  <2>a. Written(r).filled = r.filled
    BY <1>3, <1>5, <1>8
  <2>b. ASSUME NEW i \in 1..r.filled
        PROVE  new[i] = Tail(all)[i]
    <3>1. new[i] = r.seq + 1 - r.filled + i
      BY <1>3, <1>4, <1>5, <2>a
    <3>2. Tail(all)[i] = all[i + 1] /\ i + 1 \in 1..r.filled + 1
      BY <1>5, <2>1
    <3>3. all[i + 1] = r.seq - r.filled + (i + 1)
      BY <1>6, <3>2
    <3>4. r.seq - r.filled + (i + 1) = r.seq + 1 - r.filled + i
      BY <1>5
    <3> QED
      BY <3>1, <3>2, <3>3, <3>4
  <2>2. Len(new) = Len(Tail(all)) /\ \A i \in 1..Len(new) : new[i] = Tail(all)[i]
    BY <1>4, <2>1, <2>a, <2>b
  <2>3. new = Tail(all)
    BY <1>4, <2>1, <2>2, SeqEqual
  <2> QED
    BY <1>5, <1>6, <1>8, <2>3 DEF all, new, old
<1> QED
  BY <1>5, <1>7, <1>8

-----------------------------------------------------------------------------
(***************************************************************************)
(* The inductive invariant.                                                *)
(***************************************************************************)

\* The numbers of the lines that are kept.
Kept(r) == r.seq - r.filled + 1..r.seq

\* A record's lockout began when its last failure was counted.
LockoutsSet == \A ip \in DOMAIN limiter.fails : limiter.fails[ip].until <= now + Lockout

\* An address that was told of a lockout has its record, unless a late failure replaced it.
LockoutsStand ==
    \A ip \in IPs \ late :
        now < hot[ip] => ip \in DOMAIN limiter.fails /\ limiter.fails[ip].until >= hot[ip]

\* A request that passed Allow has an address and has read nothing.
Checked == \A p \in Procs : req[p].pc = "check" => req[p].ip \in IPs /\ req[p].entries = {}

\* What the page and each answer under way pass over was shown, or is in the answer.
PageReads == \A n \in Kept(ring) : n <= cursor => n \in shown

AnswerReads ==
    \A p \in Procs :
        /\ req[p].last <= ring.seq /\ req[p].entries \subseteq 1..ring.seq
        /\ \A n \in Kept(ring) : n <= req[p].last => n \in shown \cup req[p].entries

IInv ==
    /\ TypeOK
    /\ Cardinality(DOMAIN limiter.fails) <= Threshold
    /\ Numbered(ring)
    /\ LockoutsSet /\ LockoutsStand
    /\ Checked /\ PageReads /\ AnswerReads

LEMMA NoGuesses == <<>> \in Seq(0..MaxTime)
  OBVIOUS

LEMMA IdleTypes == IdleRequest \in Request
  BY DEF IdleRequest, Request

\* An empty map is within every bound.
LEMMA InitInv == Init => IInv
<1> SUFFICES ASSUME Init PROVE IInv
  OBVIOUS
<1>1. DOMAIN limiter.fails = {} /\ IsLimiter(limiter)
  <2>1. limiter = [fails |-> [ip \in {} |-> 0], sweep |-> Zero]
    BY DEF Init, NewLimiter
  <2>2. limiter.fails \in [{} -> Failure] /\ DOMAIN limiter.fails = {}
    BY <2>1
  <2> QED
    BY <2>1, <2>2 DEF IsLimiter
<1>2. Numbered(ring)
  BY NewRingNumbered DEF Init
<1>3. TypeOK
  <2>1. ring \in Ring /\ ring.seq = 0
    BY <1>2 DEF Init, Numbered, NewRing
  <2>2. cursor \in 0..ring.seq /\ shown \subseteq 1..ring.seq
    BY <2>1 DEF Init
  <2>3. req \in [Procs -> Request]
    BY IdleTypes DEF Init
  <2>4. now \in 0..MaxTime /\ made \in 0..MaxRequests
    BY EdgeAssumption DEF Init
  <2>5. hot \in [IPs -> Time] /\ late \subseteq IPs /\ guesses \in [IPs -> Seq(0..MaxTime)]
    BY NoGuesses, EdgeAssumption, LimiterAssumption DEF Init, Time
  <2> QED
    BY <1>1, <2>1, <2>2, <2>3, <2>4, <2>5 DEF TypeOK
<1>4. Cardinality(DOMAIN limiter.fails) <= Threshold
  BY <1>1, LimiterAssumption, FS_EmptySet
<1>5. LockoutsSet /\ LockoutsStand
  BY <1>1 DEF Init, LockoutsSet, LockoutsStand
<1>6. Kept(ring) = {}
  BY DEF Init, Kept, NewRing
<1>7. Checked /\ PageReads /\ AnswerReads
  BY <1>6 DEF Init, Checked, PageReads, AnswerReads, IdleRequest, NewRing
<1> QED
  BY <1>2, <1>3, <1>4, <1>5, <1>7 DEF IInv

\* A map with fewer records is within the bound.
LEMMA FewerRecords ==
    ASSUME NEW l, NEW m, IsLimiter(m), Shrunk(l, m), Cardinality(DOMAIN m.fails) <= Threshold
    PROVE  Cardinality(DOMAIN l.fails) <= Threshold
<1>1. IsFiniteSet(DOMAIN m.fails)
  BY LimiterAssumption, FS_Subset DEF IsLimiter
<1>2. /\ Cardinality(DOMAIN l.fails) \in Nat /\ Cardinality(DOMAIN m.fails) \in Nat
      /\ Cardinality(DOMAIN l.fails) <= Cardinality(DOMAIN m.fails)
  BY <1>1, FS_Subset, FS_CardinalityType DEF Shrunk
<1> QED
  BY <1>2, LimiterAssumption

\* What Arrive, Wrong, Right, Answer and Tick keep of the reads.
LEMMA ReadsKept ==
    ASSUME IInv, UNCHANGED ring, shown \subseteq shown',
           \A n \in Kept(ring) : n <= cursor' => n \in shown',
           \A p \in Procs :
              \/ req'[p].last = req[p].last /\ req'[p].entries = req[p].entries
              \/ req'[p].last = 0 /\ req'[p].entries = {}
              \/ req'[p].last = cursor /\ req'[p].entries = {}
    PROVE  PageReads' /\ AnswerReads'
<1>1. Kept(ring') = Kept(ring)
  OBVIOUS
<1>2. PageReads'
  BY DEF PageReads
<1>3. cursor \in 0..ring.seq /\ ring.seq \in Nat /\ \A n \in Kept(ring) : n > 0 /\ n \in Int
  BY RingTypes DEF IInv, TypeOK, Kept
<1>4. ASSUME NEW p \in Procs
      PROVE  /\ req'[p].last <= ring.seq /\ req'[p].entries \subseteq 1..ring.seq
             /\ \A n \in Kept(ring) : n <= req'[p].last => n \in shown' \cup req'[p].entries
  <2>1. CASE req'[p].last = req[p].last /\ req'[p].entries = req[p].entries
    BY <2>1 DEF IInv, AnswerReads
  <2>2. CASE req'[p].last = 0 /\ req'[p].entries = {}
    BY <1>3, <2>2
  <2>3. CASE req'[p].last = cursor /\ req'[p].entries = {}
    BY <1>3, <2>3 DEF IInv, PageReads
  <2> QED
    BY <2>1, <2>2, <2>3
<1> QED
  BY <1>2, <1>4 DEF AnswerReads

\* Allow, or the clearing of a record, drops records only; the lockouts that
\* are running stand, but for the address that is let in.
LEMMA DroppedKeepsLockouts ==
    ASSUME IInv, Shrunk(limiter', limiter), IsLimiter(limiter'), now' = now,
           NEW cleared, late' = late \ cleared,
           \A ip \in IPs : hot'[ip] = IF ip \in cleared THEN 0 ELSE hot[ip],
           \A ip \in IPs \ cleared : Locked(limiter, ip, now) => Locked(limiter', ip, now)
    PROVE  LockoutsSet' /\ LockoutsStand' /\ Cardinality(DOMAIN limiter'.fails) <= Threshold
<1>1. Cardinality(DOMAIN limiter'.fails) <= Threshold
  BY FewerRecords DEF IInv, TypeOK
<1>2. LockoutsSet'
  BY DEF IInv, LockoutsSet, Shrunk
<1>3. ASSUME NEW ip \in IPs, ip \notin late', now < hot'[ip]
      PROVE  ip \in DOMAIN limiter'.fails /\ limiter'.fails[ip].until >= hot'[ip]
  <2>1. now \in Int /\ now >= 0 /\ hot'[ip] # 0
    BY <1>3, EdgeAssumption DEF IInv, TypeOK
  <2>2. hot'[ip] = hot[ip] /\ ip \notin late /\ ip \notin cleared
    BY <1>3, <2>1
  <2>3. ip \in DOMAIN limiter.fails /\ limiter.fails[ip].until >= hot[ip]
    BY <1>3, <2>2 DEF IInv, LockoutsStand
  <2>4. limiter.fails[ip].until \in Int /\ hot[ip] \in Int
    BY <2>3, RecordTypes, LimiterAssumption, EdgeAssumption DEF IInv, TypeOK, Time
  <2>5. Locked(limiter, ip, now)
    BY <1>3, <2>1, <2>2, <2>3, <2>4, ZeroTime DEF Locked
  <2>6. ip \in DOMAIN limiter'.fails
    BY <2>1, <2>5 DEF Locked
  <2> QED
    BY <2>2, <2>3, <2>6 DEF Shrunk
<1> QED
  BY <1>1, <1>2, <1>3 DEF LockoutsStand

LEMMA ArriveInv ==
    ASSUME IInv, NEW p \in Procs, NEW ip \in IPs, NEW right \in BOOLEAN, Arrive(p, ip, right)
    PROVE  IInv'
<1> DEFINE pc == IF Locked(Pruned(limiter, now), ip, now) THEN "log" ELSE "check"
           new == [IdleRequest EXCEPT !.pc = pc, !.ip = ip, !.right = right, !.last = cursor]
<1>1. now \in 0..MaxTime /\ IsLimiter(limiter) /\ cursor \in Nat /\ ring.seq \in Nat
  BY RingTypes DEF IInv, TypeOK
<1>2. /\ IsLimiter(limiter') /\ Shrunk(limiter', limiter)
      /\ \A j : Locked(limiter, j, now) => Locked(limiter', j, now)
  BY <1>1, AllowedFacts DEF Arrive
<1>4. req' = [req EXCEPT ![p] = new] /\ req \in [Procs -> Request]
  BY DEF Arrive, IInv, TypeOK
<1>5. pc \in {"log", "check"}
  OBVIOUS
<1> HIDE DEF pc
<1>6. new \in Request /\ new.last = cursor /\ new.entries = {} /\ new.ip = ip
  <2>1. new \in Request
    BY <1>1, <1>5, IdleTypes DEF Request
  <2>2. new.last = cursor /\ new.entries = {} /\ new.ip = ip
    BY DEF IdleRequest
  <2> QED
    BY <2>1, <2>2
<1> HIDE DEF new
<1>7. TypeOK'
  <2>1. req' \in [Procs -> Request]
    BY <1>4, <1>6
  <2>2. made' \in 0..MaxRequests
    BY EdgeAssumption DEF Arrive, IInv, TypeOK
  <2> QED
    BY <1>2, <2>1, <2>2 DEF Arrive, IInv, TypeOK
<1>8. PageReads' /\ AnswerReads'
  BY <1>4, <1>6, ReadsKept DEF Arrive, IInv, PageReads
<1>9. Checked'
  BY <1>4, <1>6 DEF Checked, IInv
<1>10. LockoutsSet' /\ LockoutsStand' /\ Cardinality(DOMAIN limiter'.fails) <= Threshold
  <2> DEFINE cleared == {}
  <2>1. late' = late \ cleared /\ now' = now /\ hot' = hot
    BY DEF Arrive
  <2>2. \A j \in IPs : hot'[j] = IF j \in cleared THEN 0 ELSE hot[j]
    BY <2>1
  <2> HIDE DEF cleared
  <2>3. \A j \in IPs \ cleared : Locked(limiter, j, now) => Locked(limiter', j, now)
    BY <1>2
  <2> QED
    BY <1>2, <2>1, <2>2, <2>3, DroppedKeepsLockouts
<1> QED
  BY <1>7, <1>8, <1>9, <1>10 DEF IInv, Arrive

LEMMA RightInv ==
    ASSUME IInv, NEW p \in Procs, Right(p)
    PROVE  IInv'
<1> DEFINE ip == req[p].ip
           read == After(ring, req[p].last)
           new == [req[p] EXCEPT !.pc = "log", !.last = ring.seq, !.entries = read]
<1>1. now \in 0..MaxTime /\ IsLimiter(limiter) /\ ring.seq \in Nat /\ req[p] \in Request
  BY RingTypes DEF IInv, TypeOK
<1>2. ip \in IPs
  BY DEF IInv, Checked, Right
<1>3. /\ IsLimiter(limiter') /\ Shrunk(limiter', limiter)
      /\ DOMAIN limiter'.fails = DOMAIN limiter.fails \ {ip}
  BY <1>1, WithoutFacts DEF Right
<1>4. read = {n \in Kept(ring) : n > req[p].last}
  <2>1. \A i \in 1..ring.filled : InOrder(ring)[i] = ring.seq - ring.filled + i
    BY InOrderNumbers DEF IInv
  <2>2. ring.filled \in Nat /\ req[p].last \in Nat
    BY <1>1, RingTypes DEF IInv, Request
  <2>3. ASSUME NEW n \in read
        PROVE  n \in Kept(ring) /\ n > req[p].last
    <3>1. PICK i \in 1..ring.filled : n = InOrder(ring)[i] /\ InOrder(ring)[i] > req[p].last
      BY <2>3 DEF After
    <3>2. n = ring.seq - ring.filled + i
      BY <2>1, <3>1
    <3> QED
      BY <1>1, <2>2, <3>1, <3>2 DEF Kept
  <2>4. ASSUME NEW n \in Kept(ring), n > req[p].last
        PROVE  n \in read
    <3>1. n - (ring.seq - ring.filled) \in 1..ring.filled
      BY <1>1, <2>2 DEF Kept
    <3>2. InOrder(ring)[n - (ring.seq - ring.filled)] = ring.seq - ring.filled + (n - (ring.seq - ring.filled))
      BY <2>1, <3>1
    <3>3. InOrder(ring)[n - (ring.seq - ring.filled)] = n
      BY <1>1, <2>2, <3>2 DEF Kept
    <3> QED
      BY <2>4, <3>1, <3>3 DEF After
  <2> QED
    BY <2>3, <2>4
<1>5. read \subseteq 1..ring.seq
  BY <1>1, <1>4, RingTypes DEF Kept, IInv
<1> HIDE DEF read
<1>7. req' = [req EXCEPT ![p] = new] /\ req \in [Procs -> Request]
  BY DEF Right, IInv, TypeOK, read
<1>8. /\ new \in Request /\ new.last = ring.seq /\ new.entries = read /\ new.pc = "log"
  <2>1. read \in SUBSET Nat
    BY <1>1, <1>5
  <2>2. new \in Request
    BY <1>1, <2>1 DEF Request
  <2>3. new.last = ring.seq /\ new.entries = read /\ new.pc = "log"
    BY <1>1 DEF Request
  <2> QED
    BY <2>2, <2>3
<1> HIDE DEF new
<1>9. TypeOK'
  <2>1. req' \in [Procs -> Request]
    BY <1>7, <1>8
  <2>a. 0 \in Time
    BY LimiterAssumption, EdgeAssumption DEF Time
  <2>2. hot' \in [IPs -> Time] /\ guesses' \in [IPs -> Seq(0..MaxTime)] /\ late' \subseteq IPs
    BY <2>a, NoGuesses DEF Right, IInv, TypeOK
  <2> QED
    BY <1>3, <2>1, <2>2 DEF Right, IInv, TypeOK
<1>10. PageReads' /\ AnswerReads'
  <2>1. ring' = ring /\ cursor' = cursor /\ shown' = shown
    BY DEF Right
  <2>2. PageReads'
    BY <2>1 DEF IInv, PageReads
  <2>3. ASSUME NEW n \in Kept(ring)
        PROVE  n \in shown \cup read
    <3>1. CASE n > req[p].last
      BY <1>4, <3>1
    <3>2. CASE n <= req[p].last
      BY <3>2 DEF IInv, AnswerReads, Checked, Right
    <3>3. n \in Int /\ req[p].last \in Int
      BY <1>1, RingTypes DEF Kept, Request
    <3> QED
      BY <3>1, <3>2, <3>3
  <2>4. \A q \in Procs : IF q = p THEN req'[q] = new ELSE req'[q] = req[q]
    BY <1>7
  <2>5. \A n \in Kept(ring') : n \in shown' \cup read
    BY <2>1, <2>3
  <2>6. ASSUME NEW q \in Procs
        PROVE  /\ req'[q].last <= ring'.seq /\ req'[q].entries \subseteq 1..ring'.seq
               /\ \A n \in Kept(ring') : n <= req'[q].last => n \in shown' \cup req'[q].entries
    <3>1. CASE q = p
      <4>1. req'[q].last = ring.seq /\ req'[q].entries = read
        BY <1>8, <2>4, <3>1
      <4> QED
        BY <1>1, <1>5, <2>1, <2>5, <4>1
    <3>2. CASE q # p
      BY <2>1, <2>4, <3>2 DEF IInv, AnswerReads
    <3> QED
      BY <3>1, <3>2
  <2>7. AnswerReads'
    BY <2>6 DEF AnswerReads
  <2> QED
    BY <2>2, <2>7
<1>11. Checked'
  BY <1>7, <1>8 DEF Checked, IInv
<1>12. LockoutsSet' /\ LockoutsStand' /\ Cardinality(DOMAIN limiter'.fails) <= Threshold
  <2>1. late' = late \ {ip} /\ now' = now
    BY DEF Right
  <2>2. \A j \in IPs : hot'[j] = IF j \in {ip} THEN 0 ELSE hot[j]
    BY DEF Right, IInv, TypeOK
  <2>3. \A j \in IPs \ {ip} : Locked(limiter, j, now) => Locked(limiter', j, now)
    BY <1>3 DEF Locked, Shrunk
  <2> QED
    BY <1>3, <2>1, <2>2, <2>3, DroppedKeepsLockouts
<1> QED
  BY <1>9, <1>10, <1>11, <1>12 DEF IInv, Right

LEMMA WrongInv ==
    ASSUME IInv, NEW p \in Procs, Wrong(p)
    PROVE  IInv'
<1> DEFINE ip == req[p].ip
           before == Pruned(limiter, now)
           new == [req[p] EXCEPT !.pc = "log"]
<1>1. now \in 0..MaxTime /\ IsLimiter(limiter) /\ req[p] \in Request /\ ip \in IPs
  BY DEF IInv, TypeOK, Checked, Wrong
<1>2. PICK victim \in IF Evicts(limiter, ip, now) THEN Oldest(before) ELSE {"none"} :
         /\ limiter' = Failed(limiter, ip, now, victim)
         /\ hot' = [j \in IPs |->
                      IF j = victim THEN 0
                      ELSE IF j = ip /\ Locked(limiter', ip, now) THEN limiter'.fails[ip].until
                      ELSE hot[j]]
         /\ guesses' = [j \in IPs |->
                          IF j = victim THEN <<>>
                          ELSE IF j = ip THEN Append(guesses[j], now)
                          ELSE guesses[j]]
  BY DEF Wrong
<1> DEFINE gone == IF Evicts(limiter, ip, now) THEN {victim} ELSE {}
<1>3. Evicts(limiter, ip, now) => victim \in Oldest(before)
  BY <1>2
<1>4. IsLimiter(before) /\ Shrunk(before, limiter)
  BY <1>1, PrunedFacts
<1>5. /\ IsLimiter(limiter')
      /\ DOMAIN limiter'.fails = (DOMAIN before.fails \ gone) \cup {ip}
      /\ \A j \in DOMAIN limiter'.fails \ {ip} : limiter'.fails[j] = before.fails[j]
      /\ limiter'.fails[ip] = Counted(Current(before, ip, now), now)
      /\ ip \in DOMAIN before.fails => gone = {}
  <2> HIDE DEF gone, before
  <2> QED
    BY <1>1, <1>2, <1>3, FailedFacts DEF gone, before
<1>6. Cardinality(DOMAIN limiter'.fails) <= Threshold
  BY <1>1, <1>2, <1>3, FailedRoom DEF IInv
<1>7. \A j : Locked(limiter, j, now) => Locked(before, j, now)
  BY <1>1, LockedStays
<1> HIDE DEF before, gone
<1>8. /\ late' = late \cup {j \in {ip} : Locked(before, ip, now) /\ ~Windowed(before.fails[ip], now)}
      /\ req' = [req EXCEPT ![p] = new]
      /\ UNCHANGED <<now, ring, cursor, shown, made>>
  BY DEF Wrong, before
<1>9. req \in [Procs -> Request]
  BY DEF IInv, TypeOK
<1>10. new \in Request /\ new.last = req[p].last /\ new.entries = req[p].entries /\ new.pc = "log"
  BY <1>1 DEF Request
<1> HIDE DEF new
<1>11. Current(before, ip, now) \in Failure
  BY <1>1, <1>4, CurrentTypes
<1>12. /\ limiter'.fails[ip] \in Failure
       /\ limiter'.fails[ip].until \in {Current(before, ip, now).until, now + Lockout}
  BY <1>1, <1>5, <1>11, CountedTypes
<1>13. TypeOK'
  <2>1. req' \in [Procs -> Request]
    BY <1>8, <1>9, <1>10
  <2>2. 0 \in Time
    BY LimiterAssumption, EdgeAssumption DEF Time
  <2>3. Locked(limiter', ip, now) => limiter'.fails[ip].until \in Time
    BY <1>12 DEF Locked, Failure
  <2>4. hot' \in [IPs -> Time]
    BY <1>2, <2>2, <2>3 DEF IInv, TypeOK
  <2>5. \A j \in IPs : Append(guesses[j], now) \in Seq(0..MaxTime)
    BY <1>1, AppendProperties DEF IInv, TypeOK
  <2>6. guesses' \in [IPs -> Seq(0..MaxTime)]
    BY <1>2, <2>5, NoGuesses DEF IInv, TypeOK
  <2>7. late' \subseteq IPs
    BY <1>1, <1>8 DEF IInv, TypeOK
  <2> QED
    BY <1>5, <1>8, <2>1, <2>4, <2>6, <2>7 DEF IInv, TypeOK
<1>14. PageReads' /\ AnswerReads'
  BY <1>8, <1>9, <1>10, ReadsKept DEF IInv, PageReads
<1>15. Checked'
  BY <1>8, <1>9, <1>10 DEF Checked, IInv
<1>16. LockoutsSet'
  <2>1. ASSUME NEW j \in DOMAIN limiter'.fails
        PROVE  limiter'.fails[j].until <= now + Lockout
    <3>1. CASE j # ip
      BY <1>4, <1>5, <3>1 DEF IInv, LockoutsSet, Shrunk
    <3>2. CASE j = ip
      <4>1. Current(before, ip, now).until <= now + Lockout
        <5>1. CASE Current(before, ip, now).until = Zero
          BY <1>1, <5>1, ZeroTime, LimiterAssumption, EdgeAssumption
        <5>2. CASE Current(before, ip, now) = before.fails[ip] /\ ip \in DOMAIN before.fails
          BY <1>4, <5>2 DEF IInv, LockoutsSet, Shrunk
        <5> QED
          BY <5>1, <5>2 DEF Current
      <4> QED
        BY <1>1, <1>12, <3>2, <4>1, LimiterAssumption, EdgeAssumption
    <3> QED
      BY <3>1, <3>2
  <2> QED
    BY <1>8, <2>1 DEF LockoutsSet
<1>17. LockoutsStand'
  <2>1. ASSUME NEW j \in IPs, j \notin late', now < hot'[j]
        PROVE  j \in DOMAIN limiter'.fails /\ limiter'.fails[j].until >= hot'[j]
    <3>1. now \in Int /\ now >= 0 /\ hot'[j] # 0
      BY <1>1, <2>1, EdgeAssumption
    <3>2. CASE j = ip /\ Locked(limiter', ip, now)
      <4>1. hot'[j] = limiter'.fails[j].until
        BY <1>2, <3>1, <3>2
      <4>2. limiter'.fails[j].until \in Int
        BY <1>5, <3>2, RecordTypes
      <4> QED
        BY <1>5, <3>2, <4>1, <4>2
    <3>3. CASE ~(j = ip /\ Locked(limiter', ip, now))
      <4>1. hot'[j] = hot[j] /\ j # victim /\ j \notin late
        BY <1>2, <1>8, <2>1, <3>1, <3>3
      <4>2. j \in DOMAIN limiter.fails /\ limiter.fails[j].until >= hot[j]
        BY <2>1, <4>1 DEF IInv, LockoutsStand
      <4>3. limiter.fails[j].until \in Int /\ hot[j] \in Int
        BY <1>1, <4>2, RecordTypes, LimiterAssumption, EdgeAssumption DEF IInv, TypeOK, Time
      <4>4. Locked(limiter, j, now)
        BY <2>1, <3>1, <4>1, <4>2, <4>3, ZeroTime DEF Locked
      <4>5. j \in DOMAIN before.fails /\ before.fails[j] = limiter.fails[j]
        BY <1>4, <1>7, <4>4 DEF Locked, Shrunk
      <4>6. CASE j # ip
        BY <1>5, <4>1, <4>2, <4>5, <4>6 DEF gone
      <4>7. CASE j = ip
        <5>1. Windowed(before.fails[ip], now)
          BY <1>7, <1>8, <2>1, <4>4, <4>7
        <5>2. Current(before, ip, now) = limiter.fails[ip]
          BY <4>5, <4>7, <5>1 DEF Current
        <5>3. limiter.fails[ip].until <= now + Lockout
          BY <4>2, <4>7 DEF IInv, LockoutsSet
        <5>4. limiter'.fails[ip].until >= limiter.fails[ip].until
          BY <1>12, <4>3, <4>7, <5>2, <5>3, <3>1, LimiterAssumption
        <5>5. limiter'.fails[ip].until \in Int
          BY <1>5, RecordTypes
        <5> QED
          BY <1>5, <4>1, <4>2, <4>3, <4>7, <5>4, <5>5
      <4> QED
        BY <4>6, <4>7
    <3> QED
      BY <3>2, <3>3
  <2> QED
    BY <1>8, <2>1 DEF LockoutsStand
<1> QED
  BY <1>6, <1>8, <1>13, <1>14, <1>15, <1>16, <1>17 DEF IInv

LEMMA LogInv ==
    ASSUME IInv, NEW p \in Procs, Log(p)
    PROVE  IInv'
<1> DEFINE new == IF req[p].right THEN [req[p] EXCEPT !.pc = "answer"] ELSE IdleRequest
<1>1. req' = [req EXCEPT ![p] = new] /\ req \in [Procs -> Request]
  BY DEF Log, IInv, TypeOK
<1>2. UNCHANGED <<now, limiter, cursor, shown, made, hot, late, guesses>>
  BY DEF Log
<1>3. /\ new \in Request /\ new.pc # "check"
      /\ \/ new.last = req[p].last /\ new.entries = req[p].entries
         \/ new.last = 0 /\ new.entries = {}
  <2>1. req[p] \in Request
    BY <1>1
  <2>2. CASE req[p].right
    BY <2>1, <2>2 DEF Request
  <2>3. CASE ~req[p].right
    BY <2>3, IdleTypes DEF IdleRequest
  <2> QED
    BY <2>2, <2>3
<1> HIDE DEF new
<1>4. Numbered(ring') /\ ring'.seq = ring.seq + 1
  BY WrittenNumbered DEF Log, IInv, Written
<1>5. ring.seq \in Nat /\ ring.filled \in Nat /\ ring.filled <= ring.seq
  BY RingTypes DEF IInv
<1>6. \A n \in Kept(ring') : n \in Kept(ring) \/ n = ring.seq + 1
  <2>1. ring'.filled <= ring.filled + 1 /\ ring'.filled \in Int
    BY <1>4, <1>5, RingTypes DEF Log, Written
  <2> QED
    BY <1>4, <1>5, <2>1 DEF Kept
<1>7. TypeOK'
  <2>1. req' \in [Procs -> Request]
    BY <1>1, <1>3
  <2>2. cursor' \in 0..ring'.seq /\ shown' \subseteq 1..ring'.seq
    BY <1>2, <1>4, <1>5 DEF IInv, TypeOK
  <2> QED
    BY <1>2, <1>4, <2>1, <2>2 DEF IInv, TypeOK, Numbered
<1>8. PageReads'
  BY <1>2, <1>5, <1>6 DEF IInv, PageReads, TypeOK
<1>9. AnswerReads'
  <2>1. ASSUME NEW q \in Procs
        PROVE  /\ req'[q].last <= ring'.seq /\ req'[q].entries \subseteq 1..ring'.seq
               /\ \A n \in Kept(ring') : n <= req'[q].last => n \in shown' \cup req'[q].entries
    <3>1. req[q].last \in Nat /\ req[q].last <= ring.seq /\ req[q].entries \subseteq 1..ring.seq
      BY <1>1 DEF Request, IInv, AnswerReads
    <3>2. \/ req'[q].last = req[q].last /\ req'[q].entries = req[q].entries
          \/ req'[q].last = 0 /\ req'[q].entries = {}
      BY <1>1, <1>3
    <3>3. CASE req'[q].last = req[q].last /\ req'[q].entries = req[q].entries
      <4>1. \A n \in Kept(ring') : n <= req[q].last => n \in Kept(ring)
        BY <1>5, <1>6, <3>1
      <4> QED
        BY <1>2, <1>4, <1>5, <3>1, <3>3, <4>1 DEF IInv, AnswerReads
    <3>4. CASE req'[q].last = 0 /\ req'[q].entries = {}
      BY <1>4, <1>5, <3>4, RingTypes DEF Kept
    <3> QED
      BY <3>2, <3>3, <3>4
  <2> QED
    BY <2>1 DEF AnswerReads
<1>10. Checked'
  BY <1>1, <1>3 DEF IInv, Checked
<1>11. LockoutsSet' /\ LockoutsStand'
  BY <1>2 DEF IInv, LockoutsSet, LockoutsStand
<1> QED
  BY <1>2, <1>4, <1>7, <1>8, <1>9, <1>10, <1>11 DEF IInv

LEMMA AnswerInv ==
    ASSUME IInv, NEW p \in Procs, Answer(p)
    PROVE  IInv'
<1>1. req' = [req EXCEPT ![p] = IdleRequest] /\ req \in [Procs -> Request]
  BY DEF Answer, IInv, TypeOK
<1>2. UNCHANGED <<now, limiter, ring, made, hot, late, guesses>>
  BY DEF Answer
<1>3. \/ cursor' = req[p].last /\ shown' = shown \cup req[p].entries
      \/ UNCHANGED <<cursor, shown>>
  BY DEF Answer
<1>4. req[p].last \in Nat /\ req[p].last <= ring.seq /\ req[p].entries \subseteq 1..ring.seq
  BY <1>1 DEF Request, IInv, AnswerReads
<1>5. TypeOK'
  <2>1. req' \in [Procs -> Request]
    BY <1>1, IdleTypes
  <2>2. cursor' \in 0..ring.seq /\ shown' \subseteq 1..ring.seq
    <3>1. ring.seq \in Nat /\ cursor \in 0..ring.seq /\ shown \subseteq 1..ring.seq
      BY RingTypes DEF IInv, TypeOK
    <3>2. CASE UNCHANGED <<cursor, shown>>
      BY <3>1, <3>2
    <3>3. CASE cursor' = req[p].last /\ shown' = shown \cup req[p].entries
      <4>1. req[p].last \in 0..ring.seq
        BY <1>4, <3>1
      <4>2. shown \cup req[p].entries \subseteq 1..ring.seq
        BY <1>4, <3>1
      <4> QED
        BY <3>3, <4>1, <4>2
    <3> QED
      BY <1>3, <3>2, <3>3
  <2> QED
    BY <1>2, <2>1, <2>2 DEF IInv, TypeOK
<1>6. PageReads' /\ AnswerReads'
  <2>1. \A n \in Kept(ring) : n <= cursor' => n \in shown'
    BY <1>3 DEF IInv, PageReads, AnswerReads
  <2>2. shown \subseteq shown'
    BY <1>3
  <2>3. \A q \in Procs :
           \/ req'[q].last = req[q].last /\ req'[q].entries = req[q].entries
           \/ req'[q].last = 0 /\ req'[q].entries = {}
    BY <1>1 DEF IdleRequest
  <2> QED
    BY <1>2, <2>1, <2>2, <2>3, ReadsKept
<1>7. Checked'
  BY <1>1 DEF IInv, Checked, IdleRequest
<1>8. LockoutsSet' /\ LockoutsStand'
  BY <1>2 DEF IInv, LockoutsSet, LockoutsStand
<1> QED
  BY <1>2, <1>5, <1>6, <1>7, <1>8 DEF IInv

LEMMA TickInv ==
    ASSUME IInv, Tick
    PROVE  IInv'
<1>1. now \in 0..MaxTime /\ now' = now + 1 /\ now' \in 0..MaxTime
  BY EdgeAssumption DEF IInv, TypeOK, Tick
<1>2. UNCHANGED <<limiter, ring, req, cursor, shown, made, hot, late, guesses>>
  BY DEF Tick
<1>3. TypeOK'
  BY <1>1, <1>2 DEF IInv, TypeOK
<1>4. LockoutsSet'
  <2>1. ASSUME NEW ip \in DOMAIN limiter.fails
        PROVE  limiter.fails[ip].until <= now' + Lockout
    <3>1. limiter.fails[ip].until \in Int /\ limiter.fails[ip].until <= now + Lockout
      BY RecordTypes DEF IInv, TypeOK, LockoutsSet
    <3> QED
      BY <1>1, <3>1, EdgeAssumption, LimiterAssumption
  <2> QED
    BY <1>2, <2>1 DEF LockoutsSet
<1>5. LockoutsStand'
  <2>1. \A ip \in IPs : now' < hot[ip] => now < hot[ip]
    BY <1>1, EdgeAssumption, LimiterAssumption DEF IInv, TypeOK, Time
  <2> QED
    BY <1>2, <2>1 DEF IInv, LockoutsStand
<1>6. Checked' /\ PageReads' /\ AnswerReads'
  BY <1>2 DEF IInv, Checked, PageReads, AnswerReads, Kept
<1> QED
  BY <1>2, <1>3, <1>4, <1>5, <1>6 DEF IInv

LEMMA StepInv == IInv /\ [Next]_vars => IInv'
<1> SUFFICES ASSUME IInv, [Next]_vars PROVE IInv'
  OBVIOUS
<1>1. ASSUME NEW p \in Procs, NEW ip \in IPs, NEW right \in BOOLEAN, Arrive(p, ip, right)
      PROVE  IInv'
  BY <1>1, ArriveInv
<1>2. ASSUME NEW p \in Procs, Wrong(p) PROVE IInv'
  BY <1>2, WrongInv
<1>3. ASSUME NEW p \in Procs, Right(p) PROVE IInv'
  BY <1>3, RightInv
<1>4. ASSUME NEW p \in Procs, Log(p) PROVE IInv'
  BY <1>4, LogInv
<1>5. ASSUME NEW p \in Procs, Answer(p) PROVE IInv'
  BY <1>5, AnswerInv
<1>6. CASE Tick
  BY <1>6, TickInv
<1>7. CASE UNCHANGED vars
  BY <1>7 DEF vars, IInv, TypeOK, LockoutsSet, LockoutsStand, Checked, PageReads, AnswerReads
<1> QED
  BY <1>1, <1>2, <1>3, <1>4, <1>5, <1>6, <1>7 DEF Next

THEOREM Invariant == Spec => []IInv
BY InitInv, StepInv, PTL DEF Spec

-----------------------------------------------------------------------------
(***************************************************************************)
(* The properties.                                                         *)
(***************************************************************************)

(***************************************************************************)
(* The types, and never more records of failures than adminPruneThreshold, *)
(* however many addresses fail at the same time.                           *)
(***************************************************************************)
THEOREM LimiterBounded == Spec => []LimiterInvariant
<1>1. IInv => LimiterInvariant
  BY DEF IInv, LimiterInvariant
<1> QED
  BY <1>1, Invariant, PTL

(***************************************************************************)
(* The log page skips no line that is still kept, whatever answers are     *)
(* lost or overtaken.                                                      *)
(***************************************************************************)
THEOREM PageSkipsNothing == Spec => []NoLineSkipped
<1>1. ASSUME IInv PROVE NoLineSkipped
  <2>1. ASSUME NEW i \in 1..ring.filled, InOrder(ring)[i] <= cursor
        PROVE  InOrder(ring)[i] \in shown
    <3>1. InOrder(ring)[i] = ring.seq - ring.filled + i
      BY <1>1, InOrderNumbers DEF IInv
    <3>2. InOrder(ring)[i] \in Kept(ring)
      BY <1>1, <3>1, RingTypes DEF IInv, Kept
    <3> QED
      BY <1>1, <2>1, <3>2 DEF IInv, PageReads
  <2> QED
    BY <2>1 DEF NoLineSkipped
<1> QED
  BY <1>1, Invariant, PTL

(***************************************************************************)
(* An address that was locked out is not let in before its time, unless a  *)
(* success under way, an eviction or a late failure ended its record.      *)
(***************************************************************************)
THEOREM LockoutHolds == Spec => LockoutKept
<1> DEFINE Kept2 ==
      \A p \in Procs :
         req[p].pc = "idle" /\ req'[p].pc = "check" =>
            \/ req'[p].ip \in late
            \/ now >= hot[req'[p].ip]
<1>1. IInv /\ [Next]_vars => Kept2
  <2> SUFFICES ASSUME IInv, [Next]_vars, NEW p \in Procs,
                      req[p].pc = "idle", req'[p].pc = "check"
               PROVE  req'[p].ip \in late \/ now >= hot[req'[p].ip]
    OBVIOUS
  <2>1. req \in [Procs -> Request] /\ now \in 0..MaxTime /\ IsLimiter(limiter)
    BY DEF IInv, TypeOK
  <2>2. ASSUME NEW q \in Procs, NEW ip \in IPs, NEW right \in BOOLEAN, Arrive(q, ip, right)
        PROVE  req'[p].ip \in late \/ now >= hot[req'[p].ip]
    <3>1. p = q
      BY <2>1, <2>2 DEF Arrive
    <3>2. req'[p].ip = ip /\ ~Locked(Pruned(limiter, now), ip, now)
      <4>1. req'[p] = [IdleRequest EXCEPT
                 !.pc = IF Locked(Pruned(limiter, now), ip, now) THEN "log" ELSE "check",
                 !.ip = ip, !.right = right, !.last = cursor]
        BY <2>1, <2>2, <3>1 DEF Arrive
      <4> QED
        BY <4>1 DEF IdleRequest
    <3>3. ~Locked(limiter, ip, now)
      BY <2>1, <3>2, LockedStays
    <3>4. now \in Int /\ hot[ip] \in Int /\ hot[ip] >= 0
      BY <2>1, EdgeAssumption, LimiterAssumption DEF IInv, TypeOK, Time
    <3>5. ASSUME ip \notin late, now < hot[ip] PROVE FALSE
      <4>1. ip \in DOMAIN limiter.fails /\ limiter.fails[ip].until >= hot[ip]
        BY <3>5 DEF IInv, LockoutsStand
      <4>2. limiter.fails[ip].until \in Int
        BY <2>1, <4>1, RecordTypes
      <4> QED
        BY <2>1, <3>3, <3>4, <3>5, <4>1, <4>2, ZeroTime DEF Locked
    <3> QED
      BY <3>2, <3>4, <3>5
  <2>3. ASSUME NEW q \in Procs, Wrong(q) \/ Right(q) \/ Log(q) \/ Answer(q) PROVE FALSE
    <3>1. CASE Wrong(q)
      BY <2>1, <3>1 DEF Wrong
    <3>2. CASE Right(q)
      BY <2>1, <3>2 DEF Right
    <3>3. CASE Log(q)
      BY <2>1, <3>3 DEF Log, IdleRequest
    <3>4. CASE Answer(q)
      BY <2>1, <3>4 DEF Answer, IdleRequest
    <3> QED
      BY <2>3, <3>1, <3>2, <3>3, <3>4
  <2>4. ~Tick /\ ~UNCHANGED vars
    BY DEF Tick, vars
  <2> QED
    BY <2>2, <2>3, <2>4 DEF Next
<1>2. Spec => [][Kept2]_vars
  BY <1>1, Invariant, PTL DEF Spec
<1> QED
  BY <1>2 DEF LockoutKept

(***************************************************************************)
(* The ring with its wrapping index implements the tail of the log.        *)
(***************************************************************************)
THEOREM RingIsTail == Spec => ImplementsTail
<1>1. Init => Tailed!Init
  <2>1. ASSUME Init PROVE ring.seq = 0 /\ InOrder(ring) = <<>>
    <3>1. Numbered(ring) /\ ring.seq = 0 /\ ring.filled = 0
      BY <2>1, NewRingNumbered DEF Init, NewRing
    <3>2. InOrder(ring) \in Seq(Nat) /\ Len(InOrder(ring)) = 0
      BY <3>1, InOrderNumbers
    <3> QED
      BY <3>1, <3>2, EmptySeq
  <2> QED
    BY <2>1 DEF Tailed!Init
<1>2. IInv /\ [Next]_vars => [Tailed!Next]_(Tailed!tailVars)
  <2> SUFFICES ASSUME IInv, [Next]_vars PROVE [Tailed!Next]_(Tailed!tailVars)
    OBVIOUS
  <2>1. ASSUME NEW p \in Procs, Log(p) PROVE Tailed!Next
    <3>1. ring' = Written(ring)
      BY <2>1 DEF Log
    <3>2. ring'.seq = ring.seq + 1
      BY <3>1 DEF Written
    <3>3. LET all == Append(InOrder(ring), ring.seq + 1)
          IN  InOrder(ring') = IF Len(all) > Capacity THEN Tail(all) ELSE all
      BY <3>1, InOrderWritten DEF IInv
    <3> QED
      BY <3>2, <3>3 DEF Tailed!Next, Tailed!Append1
  <2>2. ASSUME UNCHANGED ring PROVE UNCHANGED Tailed!tailVars
    BY <2>2 DEF Tailed!tailVars
  <2>3. ASSUME [Next]_vars, \A p \in Procs : ~Log(p) PROVE UNCHANGED ring
    BY <2>3 DEF Next, Arrive, Wrong, Right, Answer, Tick, vars
  <2> QED
    BY <2>1, <2>2, <2>3
<1> QED
  BY <1>1, <1>2, Invariant, PTL DEF Spec, ImplementsTail, Tailed!Spec

-----------------------------------------------------------------------------
(***************************************************************************)
(* The guesses of every address are accounted for.                         *)
(***************************************************************************)

GInv == IInv /\ GuessesCounted

LEMMA ComparingTypes ==
    ASSUME NEW ip
    PROVE  /\ IsFiniteSet(Comparing(ip)) /\ Cardinality(Comparing(ip)) \in Nat
           /\ Cardinality(Comparing(ip)) <= Cardinality(Procs)
<1>1. Comparing(ip) \subseteq Procs
  BY DEF Comparing
<1> QED
  BY <1>1, EdgeAssumption, FS_Subset, FS_CardinalityType

LEMMA GuessesInit ==
    ASSUME Strict, Init
    PROVE  GInv
<1>1. IInv
  BY InitInv
<1>2. DOMAIN limiter.fails = {} /\ \A ip \in IPs : guesses[ip] = <<>>
  BY DEF Init, NewLimiter
<1>3. GuessesCounted
  BY <1>2, NoneAccounted DEF GuessesCounted
<1> QED
  BY <1>1, <1>3 DEF GInv

\* Who is compared changes by the request that moves only.
LEMMA ComparingMoves ==
    ASSUME req \in [Procs -> Request], NEW p \in Procs, NEW new, req' = [req EXCEPT ![p] = new], NEW ip
    PROVE  Comparing(ip)' = (Comparing(ip) \ {p}) \cup {q \in {p} : new.pc = "check" /\ new.ip = ip}
  BY DEF Comparing

LEMMA ArriveGuesses ==
    ASSUME Strict, GInv, NEW p \in Procs, NEW a \in IPs, NEW right \in BOOLEAN, Arrive(p, a, right)
    PROVE  GuessesCounted'
<1> DEFINE pc == IF Locked(Pruned(limiter, now), a, now) THEN "log" ELSE "check"
           new == [IdleRequest EXCEPT !.pc = pc, !.ip = a, !.right = right, !.last = cursor]
<1>1. /\ now \in 0..MaxTime /\ IsLimiter(limiter) /\ req \in [Procs -> Request]
      /\ guesses \in [IPs -> Seq(0..MaxTime)]
  BY DEF GInv, IInv, TypeOK
<1>2. /\ req' = [req EXCEPT ![p] = new] /\ req[p].pc = "idle"
      /\ limiter' = Allowed(limiter, a, now) /\ now' = now /\ guesses' = guesses
  BY DEF Arrive
<1>3. new.pc = pc /\ new.ip = a
  BY DEF IdleRequest
<1> HIDE DEF new
<1>4. ASSUME NEW ip \in IPs
      PROVE  Accounted(ip, limiter', guesses[ip], Cardinality(Comparing(ip)'), now)
  <2>1. PICK n \in Nat : n = Cardinality(Comparing(ip))
    BY ComparingTypes
  <2>2. Accounted(ip, limiter, guesses[ip], n, now)
    BY <2>1 DEF GInv, GuessesCounted
  <2>3. PICK now0, l : now0 = now /\ l = limiter /\ limiter' = Allowed(l, a, now0)
    BY <1>2
  <2>4. PICK times \in Seq(0..MaxTime) : times = guesses[ip]
    BY <1>1
  <2>5. /\ Accounted(ip, limiter', times, n, now)
        /\ a = ip /\ ~Locked(Pruned(l, now0), a, now0) =>
              \A m \in Nat : Accounted(ip, limiter', times, m, now)
    BY <1>1, <2>2, <2>3, <2>4, AllowedAccounted
  <2>6. CASE a = ip /\ ~Locked(Pruned(limiter, now), a, now)
    <3>1. Comparing(ip)' = Comparing(ip) \cup {p}
      BY <1>1, <1>2, <1>3, <2>6, ComparingMoves DEF Comparing
    <3>2. Cardinality(Comparing(ip)') \in Nat
      BY <3>1, ComparingTypes, FS_AddElement, FS_CardinalityType
    <3> QED
      BY <2>3, <2>4, <2>5, <2>6, <3>2
  <2>7. CASE ~(a = ip /\ ~Locked(Pruned(limiter, now), a, now))
    <3>1. Comparing(ip)' = Comparing(ip)
      BY <1>1, <1>2, <1>3, <2>7, ComparingMoves DEF Comparing
    <3> QED
      BY <2>1, <2>4, <2>5, <3>1
  <2> QED
    BY <2>6, <2>7
<1> QED
  BY <1>2, <1>4 DEF GuessesCounted

LEMMA RightGuesses ==
    ASSUME Strict, GInv, NEW p \in Procs, Right(p)
    PROVE  GuessesCounted'
<1> DEFINE a == req[p].ip
<1>1. /\ now \in 0..MaxTime /\ IsLimiter(limiter) /\ req \in [Procs -> Request]
      /\ guesses \in [IPs -> Seq(0..MaxTime)]
  BY DEF GInv, IInv, TypeOK
<1>2. PICK new : req' = [req EXCEPT ![p] = new] /\ new.pc = "log"
  <2> DEFINE new == [req[p] EXCEPT !.pc = "log", !.last = ring.seq, !.entries = After(ring, req[p].last)]
  <2>1. req' = [req EXCEPT ![p] = new]
    BY <1>1 DEF Right
  <2>2. new.pc = "log"
    BY <1>1 DEF Request
  <2> HIDE DEF new
  <2> QED
    BY <2>1, <2>2
<1>3. /\ limiter' = Without(limiter, a) /\ now' = now
      /\ guesses' = [guesses EXCEPT ![a] = <<>>]
  BY DEF Right
<1>4. Shrunk(limiter', limiter) /\ DOMAIN limiter'.fails = DOMAIN limiter.fails \ {a}
  BY <1>1, <1>3, WithoutFacts
<1> HIDE DEF a
<1>5. ASSUME NEW ip \in IPs
      PROVE  Accounted(ip, limiter', guesses'[ip], Cardinality(Comparing(ip)'), now)
  <2>1. CASE ip = a
    BY <1>1, <1>3, <1>4, <2>1, NoneAccounted
  <2>2. CASE ip # a
    <3>1. guesses'[ip] = guesses[ip]
      BY <1>1, <1>3, <2>2
    <3>2. Comparing(ip)' = Comparing(ip)
      BY <1>1, <1>2, <2>2, ComparingMoves DEF Comparing, a
    <3>a. PICK m, l : m = limiter' /\ l = limiter
      OBVIOUS
    <3>b. PICK n \in Nat : n = Cardinality(Comparing(ip))
      BY ComparingTypes
    <3>3. PICK times \in Seq(0..MaxTime) : times = guesses[ip]
      BY <1>1
    <3>4. Accounted(ip, l, times, n, now) /\ Shrunk(m, l) /\ IsLimiter(l)
      BY <1>1, <1>4, <3>a, <3>b, <3>3 DEF GInv, GuessesCounted
    <3>5. ip \in DOMAIN l.fails => ip \in DOMAIN m.fails
      BY <1>4, <2>2, <3>a
    <3>6. Accounted(ip, m, times, n, now)
      BY <1>1, <3>4, <3>5, DroppedAccounted
    <3> QED
      BY <3>1, <3>2, <3>a, <3>b, <3>3, <3>6
  <2> QED
    BY <2>1, <2>2
<1> QED
  BY <1>3, <1>5 DEF GuessesCounted

LEMMA WrongGuesses ==
    ASSUME Strict, GInv, NEW p \in Procs, Wrong(p)
    PROVE  GuessesCounted'
<1> DEFINE a == req[p].ip
           before == Pruned(limiter, now)
<1>1. /\ now \in 0..MaxTime /\ IsLimiter(limiter) /\ req \in [Procs -> Request]
      /\ guesses \in [IPs -> Seq(0..MaxTime)]
      /\ req[p].pc = "check" /\ a \in IPs
  BY DEF GInv, IInv, TypeOK, Checked, Wrong
<1>2. PICK victim \in IF Evicts(limiter, a, now) THEN Oldest(before) ELSE {"none"} :
         /\ limiter' = Failed(limiter, a, now, victim)
         /\ guesses' = [j \in IPs |->
                          IF j = victim THEN <<>>
                          ELSE IF j = a THEN Append(guesses[j], now)
                          ELSE guesses[j]]
  BY DEF Wrong
<1> DEFINE gone == IF Evicts(limiter, a, now) THEN {victim} ELSE {}
<1>3. Evicts(limiter, a, now) => victim \in Oldest(before)
  BY <1>2
<1>4. IsLimiter(before) /\ Shrunk(before, limiter)
  BY <1>1, PrunedFacts
<1>5. /\ DOMAIN limiter'.fails = (DOMAIN before.fails \ gone) \cup {a}
      /\ \A j \in DOMAIN limiter'.fails \ {a} : limiter'.fails[j] = before.fails[j]
      /\ limiter'.fails[a] = Counted(Current(before, a, now), now)
  <2> HIDE DEF gone, before, a
  <2> QED
    BY <1>1, <1>2, <1>3, FailedFacts DEF gone, before
<1>6. /\ victim # a
      /\ \A j \in IPs : j \in gone <=> j = victim
  <2>1. CASE Evicts(limiter, a, now)
    <3>1. victim \in DOMAIN before.fails /\ a \notin DOMAIN before.fails
      BY <1>3, <2>1 DEF Oldest, Evicts
    <3> QED
      BY <2>1, <3>1
  <2>2. CASE ~Evicts(limiter, a, now)
    BY <1>1, <1>2, <2>2, EdgeAssumption
  <2> QED
    BY <2>1, <2>2
<1>7. PICK new : req' = [req EXCEPT ![p] = new] /\ new.pc = "log"
  <2> DEFINE new == [req[p] EXCEPT !.pc = "log"]
  <2>1. req' = [req EXCEPT ![p] = new]
    BY DEF Wrong
  <2>2. new.pc = "log"
    BY <1>1 DEF Request
  <2> HIDE DEF new
  <2> QED
    BY <2>1, <2>2
<1>8. now' = now
  BY DEF Wrong
<1> HIDE DEF a, before, gone
<1>9. ASSUME NEW ip \in IPs
      PROVE  Accounted(ip, limiter', guesses'[ip], Cardinality(Comparing(ip)'), now)
  <2>a. PICK m, l : m = limiter' /\ l = limiter
    OBVIOUS
  <2>b. PICK n \in Nat : n = Cardinality(Comparing(ip))
    BY ComparingTypes
  <2>c. PICK times \in Seq(0..MaxTime) : times = guesses[ip]
    BY <1>1
  <2>d. PICK t \in 0..MaxTime : t = now
    BY <1>1
  <2>1. /\ m = limiter' /\ l = limiter /\ n = Cardinality(Comparing(ip))
        /\ times = guesses[ip] /\ t = now
    BY <2>a, <2>b, <2>c, <2>d
  <2>2. Accounted(ip, l, times, n, t) /\ IsLimiter(l)
    BY <1>1, <2>1 DEF GInv, GuessesCounted
  <2>3. CASE ip = victim
    <3>1. guesses'[ip] = <<>>
      BY <1>2, <2>3
    <3>2. ip \notin DOMAIN m.fails
      BY <1>5, <1>6, <2>1, <2>3
    <3> QED
      BY <2>1, <3>1, <3>2, NoneAccounted
  <2>4. CASE ip = a
    <3>1. guesses'[ip] = Append(times, t)
      BY <1>2, <1>6, <2>1, <2>4
    <3>2. Comparing(ip)' = Comparing(ip) \ {p} /\ p \in Comparing(ip)
      BY <1>1, <1>7, <2>4, ComparingMoves DEF Comparing, a
    <3>3. n > 0 /\ n <= Cardinality(Procs) /\ Cardinality(Comparing(ip)') = n - 1
      <4>1. Cardinality(Comparing(ip) \ {p}) = n - 1
        BY <2>1, <3>2, ComparingTypes, FS_RemoveElement
      <4>2. Cardinality(Comparing(ip) \ {p}) \in Nat
        BY ComparingTypes, FS_RemoveElement, FS_CardinalityType
      <4>3. n <= Cardinality(Procs)
        BY <2>1, ComparingTypes
      <4> QED
        BY <3>2, <4>1, <4>2, <4>3
    <3>4. ip \in DOMAIN m.fails /\ m.fails[ip] = Counted(Current(Pruned(l, t), ip, t), t)
      BY <1>5, <2>1, <2>4 DEF before
    <3>5. Accounted(ip, m, Append(times, t), n - 1, t)
      BY <2>2, <3>3, <3>4, FailedAccounted
    <3> QED
      BY <2>1, <3>1, <3>3, <3>5
  <2>5. CASE ip # victim /\ ip # a
    <3>1. guesses'[ip] = times
      BY <1>2, <2>1, <2>5
    <3>2. Comparing(ip)' = Comparing(ip)
      BY <1>1, <1>7, <2>5, ComparingMoves DEF Comparing, a
    <3>3. PICK q : q = Pruned(l, t) /\ q = before
      BY <2>1 DEF before
    <3>4. Accounted(ip, q, times, n, t)
      BY <2>2, <3>3, PrunedAccounted
    <3>5. /\ ip \in DOMAIN m.fails <=> ip \in DOMAIN q.fails
          /\ ip \in DOMAIN m.fails => m.fails[ip] = q.fails[ip]
      BY <1>5, <1>6, <2>1, <2>5, <3>3
    <3>6. Accounted(ip, m, times, n, t)
      BY <3>4, <3>5 DEF Accounted
    <3> QED
      BY <2>1, <3>1, <3>2, <3>6
  <2> QED
    BY <2>3, <2>4, <2>5
<1> QED
  BY <1>8, <1>9 DEF GuessesCounted

\* What leaves the limiter and the guesses alone.
LEMMA OtherGuesses ==
    ASSUME GInv, UNCHANGED <<now, limiter, guesses>>,
           \A ip \in IPs : Comparing(ip)' = Comparing(ip)
    PROVE  GuessesCounted'
  BY DEF GInv, GuessesCounted

LEMMA LogGuesses ==
    ASSUME GInv, NEW p \in Procs, Log(p) \/ Answer(p)
    PROVE  GuessesCounted'
<1>1. req \in [Procs -> Request] /\ req[p].pc # "check"
  BY DEF GInv, IInv, TypeOK, Log, Answer
<1>2. PICK new : req' = [req EXCEPT ![p] = new] /\ new.pc # "check"
  <2>1. [req[p] EXCEPT !.pc = "answer"].pc = "answer" /\ IdleRequest.pc = "idle"
    BY <1>1 DEF Request, IdleRequest
  <2>2. CASE Log(p)
    <3> DEFINE new == IF req[p].right THEN [req[p] EXCEPT !.pc = "answer"] ELSE IdleRequest
    <3>1. req' = [req EXCEPT ![p] = new] /\ new.pc # "check"
      BY <2>1, <2>2 DEF Log
    <3> QED
      BY <3>1
  <2>3. CASE Answer(p)
    BY <2>1, <2>3 DEF Answer
  <2> QED
    BY <2>2, <2>3
<1>3. \A ip \in IPs : Comparing(ip)' = Comparing(ip)
  BY <1>1, <1>2, ComparingMoves DEF Comparing
<1>4. UNCHANGED <<now, limiter, guesses>>
  BY DEF Log, Answer
<1> QED
  BY <1>3, <1>4, OtherGuesses

LEMMA TickGuesses ==
    ASSUME Strict, GInv, Tick
    PROVE  GuessesCounted'
<1>1. /\ now \in 0..MaxTime /\ IsLimiter(limiter) /\ guesses \in [IPs -> Seq(0..MaxTime)]
      /\ now' = now + 1 /\ UNCHANGED <<limiter, guesses, req>>
  BY DEF GInv, IInv, TypeOK, Tick
<1>2. \A ip : Comparing(ip)' = Comparing(ip)
  BY <1>1 DEF Comparing
<1>3. ASSUME NEW ip \in IPs
      PROVE  Accounted(ip, limiter, guesses[ip], Cardinality(Comparing(ip)), now + 1)
  <2>b. PICK n \in Nat : n = Cardinality(Comparing(ip))
    BY ComparingTypes
  <2>c. PICK times \in Seq(0..MaxTime) : times = guesses[ip]
    BY <1>1
  <2>d. PICK t \in 0..MaxTime : t = now
    BY <1>1
  <2>1. n = Cardinality(Comparing(ip)) /\ times = guesses[ip] /\ t = now
    BY <2>b, <2>c, <2>d
  <2>2. Accounted(ip, limiter, times, n, t)
    BY <2>1 DEF GInv, GuessesCounted
  <2>3. \A i \in 1..Len(times) : times[i] <= t + 1
    BY <2>2, GuessTypes, EdgeAssumption DEF Accounted
  <2>4. CASE ip \in DOMAIN limiter.fails
    <3>1. PICK rec : rec = limiter.fails[ip]
      OBVIOUS
    <3>2. rec \in Failure /\ Counts(rec, times, n, t)
      BY <1>1, <2>2, <2>4, <3>1, RecordTypes DEF Accounted
    <3>3. Counts(rec, times, n, t + 1)
      BY <3>2, CountsLater
    <3> QED
      BY <2>1, <2>2, <2>3, <2>4, <3>1, <3>3 DEF Accounted
  <2>5. CASE ip \notin DOMAIN limiter.fails
    <3>1. Quiet(times, t + 1)
      BY <2>2, <2>5, QuietLater DEF Accounted
    <3> QED
      BY <2>1, <2>2, <2>3, <2>5, <3>1 DEF Accounted
  <2> QED
    BY <2>4, <2>5
<1> QED
  BY <1>1, <1>2, <1>3 DEF GuessesCounted

LEMMA NextGuesses ==
    ASSUME Strict, GInv, [Next]_vars
    PROVE  GInv'
<1>1. IInv'
  BY StepInv DEF GInv
<1>2. GuessesCounted'
  <2>1. CASE UNCHANGED vars
    <3>1. \A ip \in IPs : Comparing(ip)' = Comparing(ip)
      BY <2>1 DEF vars, Comparing
    <3> QED
      BY <2>1, <3>1, OtherGuesses DEF vars
  <2>2. CASE Next
    BY <2>2, ArriveGuesses, WrongGuesses, RightGuesses, LogGuesses, TickGuesses DEF Next
  <2> QED
    BY <2>1, <2>2
<1> QED
  BY <1>1, <1>2 DEF GInv

(***************************************************************************)
(* In the length of a window an address has no more wrong passwords        *)
(* compared than two records admit, each with what overlaps when it is     *)
(* locked.  The code allows five and locks for longer than its window, as  *)
(* the theorem asks of the constants.                                      *)
(***************************************************************************)
THEOREM GuessesLimited ==
    ASSUME Limit > 1, Window < Lockout
    PROVE  Spec => []GuessesBounded
<1>1. Strict
  BY DEF Strict
<1>2. Init => GInv
  BY <1>1, GuessesInit
<1>3. GInv /\ [Next]_vars => GInv'
  BY <1>1, NextGuesses
<1>4. GInv => GuessesBounded
  BY DEF GInv, GuessesCounted, Accounted, Windows, GuessesBounded, Most
<1> QED
  BY <1>2, <1>3, <1>4, PTL DEF Spec

===============================================================================
