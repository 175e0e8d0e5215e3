---------------------------- MODULE AdminRateLimiter ----------------------------
(***************************************************************************)
(* The limiter of failed admin passwords (ratelimit.go): per address a     *)
(* record with the failures of a window and, from a limit on, a lockout;   *)
(* and a bound on the number of records.  Times are in whole units.        *)
(***************************************************************************)
EXTENDS Integers, FiniteSets, Functions

CONSTANTS
    IPs,       \* client addresses
    Limit,     \* adminFailLimit
    Window,    \* adminFailWindow
    Lockout,   \* adminLockoutTime
    Threshold  \* adminPruneThreshold

ASSUME LimiterAssumption ==
    /\ IsFiniteSet(IPs)
    /\ Limit \in Nat \ {0} /\ Window \in Nat \ {0} /\ Lockout \in Nat \ {0}
    /\ Threshold \in Nat \ {0}

\* The zero time: no lockout, or never swept.
Zero == -Window - 1

NewLimiter == [fails |-> [ip \in {} |-> 0], sweep |-> Zero]

Windowed(rec, now) == now - rec.start <= Window

\* Mutant: a lockout is dropped with the window it was set in.
ExpiredWindow(rec, now) == ~Windowed(rec, now)

Expired(rec, now) == IF rec.until # Zero THEN now > rec.until ELSE ~Windowed(rec, now)

\* pruneLocked: a sweep once per window, or when the map is full.
Pruned(l, now) ==
    IF DOMAIN l.fails = {} \/ (now - l.sweep < Window /\ Cardinality(DOMAIN l.fails) < Threshold)
    THEN l
    ELSE [fails |-> Restrict(l.fails, {ip \in DOMAIN l.fails : ~Expired(l.fails[ip], now)}),
          sweep |-> now]

Without(l, ip) == [l EXCEPT !.fails = Restrict(@, DOMAIN @ \ {ip})]

Locked(l, ip, now) ==
    /\ ip \in DOMAIN l.fails
    /\ l.fails[ip].until # Zero
    /\ now < l.fails[ip].until

\* What Allow leaves behind: a record that is over goes.
Allowed(l, ip, now) ==
    LET p == Pruned(l, now)
    IN  IF ip \in DOMAIN p.fails /\ ~Locked(p, ip, now)
           /\ (p.fails[ip].until # Zero \/ ~Windowed(p.fails[ip], now))
        THEN Without(p, ip) ELSE p

\* The records with the oldest window; of several any may be evicted.
Oldest(l) == {ip \in DOMAIN l.fails : \A j \in DOMAIN l.fails : l.fails[ip].start <= l.fails[j].start}

Counted(rec, now) ==
    [rec EXCEPT !.count = @ + 1, !.until = IF rec.count + 1 >= Limit THEN now + Lockout ELSE @]

\* The map is full and the failure is the first of its address.
Evicts(l, ip, now) ==
    ip \notin DOMAIN Pruned(l, now).fails /\ Cardinality(DOMAIN Pruned(l, now).fails) >= Threshold

\* Mutant: a new record is made without room for it.
FailedCrowding(l, ip, now, victim) ==
    LET p == Pruned(l, now)
        rec == IF ip \in DOMAIN p.fails /\ Windowed(p.fails[ip], now) THEN p.fails[ip]
               ELSE [count |-> 0, start |-> now, until |-> Zero]
    IN  [p EXCEPT !.fails = [j \in DOMAIN @ \cup {ip} |-> IF j = ip THEN Counted(rec, now) ELSE @[j]]]

\* Mutant: every failure begins a window.
FailedAnew(l, ip, now, victim) ==
    LET p == Pruned(l, now)
        kept == IF Evicts(l, ip, now) THEN Without(p, victim).fails ELSE p.fails
        rec == [count |-> 0, start |-> now, until |-> Zero]
    IN  [p EXCEPT !.fails = [j \in DOMAIN kept \cup {ip} |->
                               IF j = ip THEN Counted(rec, now) ELSE kept[j]]]

\* Fail: the failure is counted in the record of its window, or in a new one.
Failed(l, ip, now, victim) ==
    LET p == Pruned(l, now)
        kept == IF Evicts(l, ip, now) THEN Without(p, victim).fails ELSE p.fails
        rec == IF ip \in DOMAIN kept /\ Windowed(kept[ip], now) THEN kept[ip]
               ELSE [count |-> 0, start |-> now, until |-> Zero]
    IN  [p EXCEPT !.fails = [j \in DOMAIN kept \cup {ip} |->
                               IF j = ip THEN Counted(rec, now) ELSE kept[j]]]

=============================================================================
