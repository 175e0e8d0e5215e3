-------------------------------- MODULE AdminEdge --------------------------------
(***************************************************************************)
(* The way into the admin API: adminAuth (server.go) with the limiter of   *)
(* failed passwords, loggingMiddleware that writes a line per request, and *)
(* the log page of the WebUI, which polls what was written (admin.go,      *)
(* web/index.html).  Requests overlap; Allow, the comparison of the        *)
(* password with Fail or Reset, and the log line are steps of their own.   *)
(***************************************************************************)
EXTENDS AdminRateLimiter, LogRing

CONSTANTS
    Procs,       \* requests in progress
    MaxTime,     \* bound: the clock
    MaxRequests  \* bound: requests that are made

ASSUME EdgeAssumption ==
    /\ IsFiniteSet(Procs) /\ Procs # {}
    /\ "none" \notin IPs
    /\ MaxTime \in Nat /\ MaxRequests \in Nat

VARIABLES
    now,      \* time.Now
    limiter,  \* the ipRateLimiter
    ring,     \* the logRing
    req,      \* the requests
    cursor,   \* logsSeq of the log page
    shown,    \* the lines the page has shown
    made,     \* bound: requests made
    hot,      \* history: the end of the lockout each address was told
    late,     \* history: a failure from before a lockout came when its window was over
    guesses   \* history: when wrong passwords were compared, since the record was forgotten

vars == <<now, limiter, ring, req, cursor, shown, made, hot, late, guesses>>

IdleRequest == [pc |-> "idle", ip |-> "none", right |-> FALSE, entries |-> {}, last |-> 0]

Init ==
    /\ now = 0
    /\ limiter = NewLimiter
    /\ ring = NewRing
    /\ req = [p \in Procs |-> IdleRequest]
    /\ cursor = 0 /\ shown = {} /\ made = 0
    /\ hot = [ip \in IPs |-> 0]
    /\ late = {}
    /\ guesses = [ip \in IPs |-> <<>>]

\* A request with the right password polls the log from the cursor of the page.
Arrive(p, ip, right) ==
    /\ req[p].pc = "idle" /\ made < MaxRequests
    /\ made' = made + 1
    /\ limiter' = Allowed(limiter, ip, now)
    /\ req' = [req EXCEPT ![p] = [IdleRequest EXCEPT
                 !.pc = IF Locked(Pruned(limiter, now), ip, now) THEN "log" ELSE "check",
                 !.ip = ip, !.right = right, !.last = cursor]]
    /\ UNCHANGED <<now, ring, cursor, shown, hot, late, guesses>>

Wrong(p) ==
    LET ip == req[p].ip
        before == Pruned(limiter, now)
    IN  /\ req[p].pc = "check" /\ ~req[p].right
        /\ \E victim \in IF Evicts(limiter, ip, now) THEN Oldest(before) ELSE {"none"} :
              /\ limiter' = Failed(limiter, ip, now, victim)
              /\ hot' = [j \in IPs |->
                           IF j = victim THEN 0
                           ELSE IF j = ip /\ Locked(limiter', ip, now) THEN limiter'.fails[ip].until
                           ELSE hot[j]]
              /\ guesses' = [j \in IPs |->
                               IF j = victim THEN <<>>
                               ELSE IF j = ip THEN Append(guesses[j], now)
                               ELSE guesses[j]]
        /\ late' = late \cup {j \in {ip} : Locked(before, ip, now) /\ ~Windowed(before.fails[ip], now)}
        /\ req' = [req EXCEPT ![p].pc = "log"]
        /\ UNCHANGED <<now, ring, cursor, shown, made>>

\* The password is right: the record is cleared and the log is read.
Right(p) ==
    LET ip == req[p].ip
    IN  /\ req[p].pc = "check" /\ req[p].right
        /\ limiter' = Without(limiter, ip)
        /\ hot' = [hot EXCEPT ![ip] = 0]
        /\ guesses' = [guesses EXCEPT ![ip] = <<>>]
        /\ late' = late \ {ip}
        /\ req' = [req EXCEPT ![p].pc = "log", ![p].last = ring.seq,
                               ![p].entries = After(ring, req[p].last)]
        /\ UNCHANGED <<now, ring, cursor, shown, made>>

\* loggingMiddleware, when the handler has returned.
Log(p) ==
    /\ req[p].pc = "log"
    /\ ring' = Written(ring)
    /\ req' = [req EXCEPT ![p] = IF @.right THEN [@ EXCEPT !.pc = "answer"] ELSE IdleRequest]
    /\ UNCHANGED <<now, limiter, cursor, shown, made, hot, late, guesses>>

\* The answer of a poll arrives or is lost; that of an older poll may come later.
Answer(p) ==
    /\ req[p].pc = "answer"
    /\ \/ cursor' = req[p].last /\ shown' = shown \cup req[p].entries
       \/ UNCHANGED <<cursor, shown>>
    /\ req' = [req EXCEPT ![p] = IdleRequest]
    /\ UNCHANGED <<now, limiter, ring, made, hot, late, guesses>>

Tick ==
    /\ now < MaxTime
    /\ now' = now + 1
    /\ UNCHANGED <<limiter, ring, req, cursor, shown, made, hot, late, guesses>>

Next ==
    \/ \E p \in Procs, ip \in IPs, right \in BOOLEAN : Arrive(p, ip, right)
    \/ \E p \in Procs : Wrong(p) \/ Right(p) \/ Log(p) \/ Answer(p)
    \/ Tick

Spec == Init /\ [][Next]_vars

-----------------------------------------------------------------------------
Time == 0..MaxTime + Lockout

Failure == [count : Nat, start : 0..MaxTime, until : Time \cup {Zero}]

IsLimiter(l) ==
    /\ l \in [fails : [DOMAIN l.fails -> Failure], sweep : 0..MaxTime \cup {Zero}]
    /\ DOMAIN l.fails \subseteq IPs

Ring == [entries : [Slots -> Nat], next : Slots, filled : 0..Capacity, seq : Nat]

Request ==
    [pc : {"idle", "check", "log", "answer"}, ip : IPs \cup {"none"}, right : BOOLEAN,
     entries : SUBSET Nat, last : Nat]

TypeOK ==
    /\ now \in 0..MaxTime
    /\ IsLimiter(limiter)
    /\ ring \in Ring
    /\ req \in [Procs -> Request]
    /\ cursor \in 0..ring.seq /\ shown \subseteq 1..ring.seq
    /\ made \in 0..MaxRequests
    /\ hot \in [IPs -> Time] /\ late \subseteq IPs
    /\ guesses \in [IPs -> Seq(0..MaxTime)]

(***************************************************************************)
(* The map of failures never has more than Threshold records, however many *)
(* addresses fail at the same time.                                        *)
(***************************************************************************)
LimiterInvariant == TypeOK /\ Cardinality(DOMAIN limiter.fails) <= Threshold

(***************************************************************************)
(* An address that was locked out is not let in again before its time,     *)
(* whatever sweeps and other requests come in between, unless a success    *)
(* that was under way, an eviction or a late failure ended the record.     *)
(***************************************************************************)
LockoutKept ==
    [][\A p \in Procs :
          req[p].pc = "idle" /\ req'[p].pc = "check" =>
             \/ req'[p].ip \in late
             \/ now >= hot[req'[p].ip]]_vars

(***************************************************************************)
(* No address has more wrong passwords compared in the length of a window  *)
(* than two records admit, each with what overlaps when it is locked.      *)
(***************************************************************************)
Within(times, from, to) == {i \in 1..Len(times) : from <= times[i] /\ times[i] <= to}

GuessesBounded ==
    \A ip \in IPs, t \in 0..MaxTime :
        Cardinality(Within(guesses[ip], t, t + Window))
            <= 2 * (Limit - 1) + 2 * (Cardinality(Procs) - 1)

(***************************************************************************)
(* The log page skips no line: one that its cursor has passed and that is  *)
(* still kept was shown, also when polls overlap and answers are lost or   *)
(* arrive in another order.                                                *)
(***************************************************************************)
NoLineSkipped == \A i \in 1..ring.filled : InOrder(ring)[i] <= cursor => InOrder(ring)[i] \in shown

Tailed == INSTANCE LogTail WITH last <- ring.seq, tail <- InOrder(ring)

(***************************************************************************)
(* The ring with its wrapping index implements the tail of the log.        *)
(***************************************************************************)
ImplementsTail == Tailed!Spec

=============================================================================
