-------------------------------- MODULE Failover --------------------------------
(***************************************************************************)
(* Sending one chat request over the accounts of a pool: CCClient.Send     *)
(* (cc.go) for the cmdcode gateway, ZenClient.ChatWithHeaders and          *)
(* chatResponses (zen.go) for the two lanes of the zen gateway.            *)
(*                                                                         *)
(* Requests run concurrently with each other and with the admin mutators.  *)
(* A request counts the enabled accounts once, then makes up to that many  *)
(* attempts; each attempt acquires an account, waits for the upstream      *)
(* without any lock, records the outcome on the object it holds, and       *)
(* either answers or goes round the loop.                                  *)
(***************************************************************************)
EXTENDS AccountPool

CONSTANTS
    Requests,    \* chat requests
    Lanes,       \* the lanes that requests may use
    FreeModels,  \* whether a zen request may name a free-tier model
    Outcomes,    \* what the upstream may do with an attempt
    Cooldowns,   \* durations a 429 may ask for
    Concurrency  \* bound: requests in flight at a time

ASSUME FailoverAssumption ==
    /\ Lanes \subseteq {"cmdcode", "chat", "responses"}
    /\ FreeModels \subseteq BOOLEAN
    /\ Outcomes \subseteq {"ok", "garbled", "auth", "429", "5xx", "402", "4xx",
                           "other", "transport", "canceled"}
    /\ Cooldowns \subseteq Nat \ {0}
    /\ Concurrency \in Nat

VARIABLES
    req,     \* the state of each request
    tried,   \* history: the keys a request was sent with
    avail,   \* history: the keys eligible when a request started, while it is alone
    uses,    \* history: how often each key was acquired
    limit    \* history: until when the last 429 asked a key to pause

history == <<tried, avail, uses, limit>>
vars == <<heap, accounts, cursor, now, req, tried, avail, uses, limit>>

\* Stands for the shared public credential, which is in no pool.
Anonymous == -1

NewRequest ==
    [pc |-> "idle", lane |-> "cmdcode", free |-> FALSE, left |-> 0,
     acct |-> Nil, failed |-> FALSE, wait |-> 0, outcome |-> "none"]

\* The set of states a request goes through.
Request ==
    [pc : {"idle", "anon", "count", "loop", "sent", "exhausted", "done"},
     lane : {"cmdcode", "chat", "responses"},
     free : BOOLEAN,
     left : Nat,          \* attempts the loop still has
     acct : Int,          \* the account of the last attempt
     failed : BOOLEAN,    \* lastErr is set
     wait : Nat,          \* the Retry-After of a final 429, 0 if it has none
     outcome : {"none", "ok", "error", "last_error", "no_accounts", "rate_limited"}]

Becomes(r, q) == req' = [req EXCEPT ![r] = q]

Active == {r \in Requests : req[r].pc \notin {"idle", "done"}}

EligibleKeys == {At(i).key : i \in {j \in Slots : Eligible(accounts[j])}}

-----------------------------------------------------------------------------
(***************************************************************************)
(* Classification of upstream answers.  "garbled" is a 200 whose body the  *)
(* gateway cannot collapse or translate, "4xx" a client error other than   *)
(* 401, 402, 403 and 429, "other" a status below 400 that is not 200,      *)
(* "canceled" an expired or canceled context.                              *)
(***************************************************************************)
Is200(o) == o \in {"ok", "garbled"}

\* The lanes and models whose successful answers are rewritten before the relay.
Converts(q) == q.lane = "responses" \/ (q.lane = "chat" /\ q.free)

\* Whether an attempt that failed with o is followed by another one.
shouldFailover(q, o) ==
    \/ o \in {"auth", "429", "5xx", "transport"}
    \/ q.lane # "cmdcode" /\ o = "other"

\* What an attempt does to the health of the account it used.
Recorded(q, a, o, cooldown) ==
    CASE Is200(o) \/ (q.lane # "cmdcode" /\ o = "402") -> RecordSuccess(a)
      [] ~Is200(o) /\ (q.lane = "cmdcode" \/ shouldFailover(q, o)) ->
            RecordFailure(a, o, cooldown)
      [] OTHER -> a

-----------------------------------------------------------------------------
Init ==
    /\ PoolInit
    /\ req = [r \in Requests |-> NewRequest]
    /\ tried = [r \in Requests |-> {}]
    /\ avail = [r \in Requests |-> {}]
    /\ uses = [k \in Keys |-> 0]
    /\ limit = [k \in Keys |-> 0]

\* The request enters its lane; free models of the chat lane go to the public
\* credential before the pool is looked at.
Start(r, lane, free) ==
    /\ req[r].pc = "idle"
    /\ Cardinality(Active) < Concurrency
    /\ free => lane # "cmdcode"
    /\ Becomes(r, [req[r] EXCEPT !.lane = lane, !.free = free,
                                 !.pc = IF lane = "chat" /\ free THEN "anon" ELSE "count"])
    /\ avail' = [q \in Requests |->
                    IF q \notin Active \cup {r} THEN avail[q]
                    ELSE IF Active = {} THEN EligibleKeys ELSE {}]
    /\ UNCHANGED <<heap, accounts, cursor, now, tried, uses, limit>>

\* Mutant: one attempt less than there are enabled accounts.
CountShort(r) ==
    /\ req[r].pc = "count"
    /\ \/ /\ EnabledCount <= 1
          /\ Becomes(r, [req[r] EXCEPT !.pc = "done", !.outcome = "no_accounts"])
       \/ /\ EnabledCount > 1
          /\ Becomes(r, [req[r] EXCEPT !.left = EnabledCount - 1, !.pc = "loop"])
    /\ UNCHANGED <<heap, accounts, cursor, now, history>>

\* The number of attempts is read once.
Count(r) ==
    /\ req[r].pc = "count"
    /\ \/ /\ EnabledCount = 0
          /\ Becomes(r, [req[r] EXCEPT !.pc = "done", !.outcome = "no_accounts"])
       \/ /\ EnabledCount > 0
          /\ Becomes(r, [req[r] EXCEPT !.left = EnabledCount,
                                       !.pc = IF req[r].lane = "responses" /\ req[r].free
                                       THEN "anon" ELSE "loop"])
    /\ UNCHANGED <<heap, accounts, cursor, now, history>>

\* The free-tier attempt.  Its account is not in the pool and takes no blame.
\* Any failure, a garbled 200 included, falls back to the keyed accounts.
AnonymousReply(r, o) ==
    /\ req[r].pc = "anon"
    /\ \/ /\ o = "ok"
          /\ Becomes(r, [req[r] EXCEPT !.pc = "done", !.outcome = "ok", !.acct = Anonymous])
       \/ /\ o # "ok"
          /\ Becomes(r, [req[r] EXCEPT !.pc = IF req[r].lane = "chat" THEN "count" ELSE "loop"])
    /\ UNCHANGED <<heap, accounts, cursor, now, history>>

\* Mutant: the cursor moves only when nothing is found.
AcquireStuck(r) ==
    /\ req[r].pc = "loop"
    /\ cursor' = IF Acquired = Nil THEN cursor + 1 ELSE cursor
    /\ \/ /\ Acquired = Nil
          /\ Becomes(r, [req[r] EXCEPT !.pc = "exhausted"])
          /\ UNCHANGED <<tried, uses>>
       \/ /\ Acquired # Nil
          /\ Becomes(r, [req[r] EXCEPT !.pc = "sent", !.acct = Acquired, !.left = @ - 1])
          /\ tried' = [tried EXCEPT ![r] = @ \cup {heap[Acquired].key}]
          /\ uses' = [uses EXCEPT ![heap[Acquired].key] = @ + 1]
    /\ UNCHANGED <<heap, accounts, now, avail, limit>>

\* The next account, if any; an empty pool leaves the cursor alone.
Acquire(r) ==
    /\ req[r].pc = "loop"
    /\ cursor' = IF accounts = <<>> THEN cursor ELSE cursor + 1
    /\ \/ /\ Acquired = Nil
          /\ Becomes(r, [req[r] EXCEPT !.pc = "exhausted"])
          /\ UNCHANGED <<tried, uses>>
       \/ /\ Acquired # Nil
          /\ Becomes(r, [req[r] EXCEPT !.pc = "sent", !.acct = Acquired, !.left = @ - 1])
          /\ tried' = [tried EXCEPT ![r] = @ \cup {heap[Acquired].key}]
          /\ uses' = [uses EXCEPT ![heap[Acquired].key] = @ + 1]
    /\ UNCHANGED <<heap, accounts, now, avail, limit>>

\* The upstream answers, the outcome is recorded on the object the request
\* holds, and the request is answered or goes on.
Reply(r, o, cooldown) ==
    LET q == req[r]
        k == heap[q.acct].key
    IN
    /\ q.pc = "sent"
    /\ o = "garbled" => Converts(q)
    /\ heap' = [heap EXCEPT ![q.acct] = Recorded(q, @, o, cooldown)]
    /\ \/ /\ Is200(o)
          /\ Becomes(r, [req[r] EXCEPT !.pc = "done",
                                       !.outcome = IF o = "ok" THEN "ok" ELSE "error"])
       \/ /\ ~Is200(o) /\ ~shouldFailover(q, o)
          /\ Becomes(r, [req[r] EXCEPT !.pc = "done", !.outcome = "error"])
       \/ /\ shouldFailover(q, o)
          /\ Becomes(r, [req[r] EXCEPT !.pc = IF q.left = 0 THEN "exhausted" ELSE "loop",
                                       !.failed = TRUE])
    /\ limit' = IF o = "429" THEN [limit EXCEPT ![k] = now + cooldown] ELSE limit
    /\ UNCHANGED <<accounts, cursor, now, tried, avail, uses>>

\* Mutant: without an upstream error nothing is answered.
GiveUpSilent(r) ==
    /\ req[r].pc = "exhausted"
    /\ req[r].failed
    /\ Becomes(r, [req[r] EXCEPT !.pc = "done", !.outcome = "last_error"])
    /\ UNCHANGED <<heap, accounts, cursor, now, history>>

\* The loop is over: the last error, or a 429 that says when to come back.
GiveUp(r) ==
    /\ req[r].pc = "exhausted"
    /\ \/ /\ req[r].failed
          /\ Becomes(r, [req[r] EXCEPT !.pc = "done", !.outcome = "last_error"])
       \/ /\ ~req[r].failed
          /\ Becomes(r, [req[r] EXCEPT !.pc = "done", !.outcome = "rate_limited",
                                       !.wait = EarliestRateLimitWait])
    /\ UNCHANGED <<heap, accounts, cursor, now, history>>

Serve(r) ==
    \/ Count(r)
    \/ \E o \in Outcomes : AnonymousReply(r, o)
    \/ Acquire(r)
    \/ \E o \in Outcomes, c \in Cooldowns : Reply(r, o, c)
    \/ GiveUp(r)

Next ==
    \/ \E r \in Requests, l \in Lanes, f \in FreeModels : Start(r, l, f)
    \/ \E r \in Requests : Serve(r)
    \/ Admin /\ UNCHANGED <<req, history>>
    \/ Tick /\ UNCHANGED <<req, history>>

Spec == Init /\ [][Next]_vars

\* A request that has started keeps running: its goroutine is scheduled, and
\* an upstream call ends by the timeout of the HTTP client at the latest.
FairSpec == Spec /\ \A r \in Requests : WF_vars(Serve(r))

-----------------------------------------------------------------------------
RequestTypeOK ==
    /\ req \in [Requests -> Request]
    /\ \A r \in Requests : req[r].acct \in {Anonymous} \cup 0..Len(heap)

HistoryTypeOK ==
    /\ tried \in [Requests -> SUBSET Keys]
    /\ avail \in [Requests -> SUBSET Keys]
    /\ uses \in [Keys -> Nat]
    /\ limit \in [Keys -> Nat]

TypeOK == PoolTypeOK /\ RequestTypeOK /\ HistoryTypeOK

(***************************************************************************)
(* The control of the loop: a request in the loop has an attempt left, and *)
(* one that waits for its upstream holds an account object that exists,    *)
(* even if an admin has meanwhile replaced or removed the account.         *)
(***************************************************************************)
LoopControl ==
    \A r \in Requests :
        /\ req[r].pc = "loop" => req[r].left > 0
        /\ req[r].pc = "anon" /\ req[r].lane = "responses" => req[r].left > 0
        /\ req[r].pc = "anon" => req[r].lane # "cmdcode"
        /\ req[r].pc = "sent" => req[r].acct \in 1..Len(heap)

(***************************************************************************)
(* A request that overlapped no other one, and ends with the error of its  *)
(* last attempt, has been sent with every account that was eligible when   *)
(* it started, wherever the requests before it left the cursor.            *)
(***************************************************************************)
ExhaustiveFailover ==
    \A r \in Requests : req[r].outcome = "last_error" => avail[r] \subseteq tried[r]

(***************************************************************************)
(* A key that answered 429 is not acquired again before the pause it asked *)
(* for is over.                                                            *)
(***************************************************************************)
CooldownRespected ==
    [][\A r \in Requests :
          req[r].pc = "loop" /\ req'[r].pc = "sent"
              => now >= limit[heap[req'[r].acct].key]]_vars

(***************************************************************************)
(* As long as no account has been rate limited, attempts of concurrent     *)
(* requests spread evenly: no key of the pool is used more than once ahead *)
(* of another.                                                             *)
(***************************************************************************)
EvenRotation ==
    (\A k \in Keys : limit[k] = 0) =>
        \A i, j \in Slots : uses[At(i).key] <= uses[At(j).key] + 1

(***************************************************************************)
(* A request that reports exhausted accounts without an upstream error met *)
(* a pool in which nothing could be acquired: it may say "rate limited"    *)
(* only if the scan of that moment found no eligible account.              *)
(***************************************************************************)
HonestExhaustion ==
    [][\A r \in Requests :
          req[r].pc = "loop" /\ req'[r].pc = "exhausted"
              => \A i \in Slots : ~At(i).enabled \/ RateLimited(At(i))]_vars

(***************************************************************************)
(* Every request that starts is answered, whatever the admin does to the   *)
(* pool meanwhile.                                                         *)
(***************************************************************************)
EveryRequestAnswered ==
    \A r \in Requests : req[r].pc # "idle" ~> req[r].pc = "done"

=============================================================================
