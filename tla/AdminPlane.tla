------------------------------- MODULE AdminPlane -------------------------------
(***************************************************************************)
(* Accounts, their usage and their quotas under concurrent use: the        *)
(* account handlers of the admin API (admin.go) under gatewayLifecycleMu,  *)
(* the QuotaService (quota.go), chat requests that record usage            *)
(* (handler.go, usage.go), the savers of usage.json, and the life of the   *)
(* process from start to shutdown or crash (app.go, server.go).            *)
(*                                                                         *)
(* A handler is a sequence of steps under the lock; requests and refreshes *)
(* take theirs in between.  config is what config.yaml holds of the pool;  *)
(* how it gets there is the subject of ConfigStore.                        *)
(***************************************************************************)
EXTENDS UsageTracker

CONSTANTS
    Requests,    \* chat requests
    Jobs,        \* quota refreshes
    Workers,     \* quotaRefreshWorkers
    InitialFiles,\* contents usage.json may have at the first start
    InitialPool, \* the accounts configured at the first start
    MaxOps,      \* bound: account handlers that are started
    MaxRefreshes,\* bound: quota refreshes that are started on request
    MaxServed,   \* bound: chat requests that are served
    MaxBoots     \* bound: restarts of the process

ASSUME AdminAssumption ==
    /\ InitialFiles \subseteq UsageFile
    /\ InitialPool \subseteq Keys
    /\ Workers \in Nat \ {0}
    /\ MaxOps \in Nat /\ MaxRefreshes \in Nat /\ MaxServed \in Nat /\ MaxBoots \in Nat
    /\ IsFiniteSet(Jobs) /\ IsFiniteSet(Requests)
    /\ Requests \cap Jobs = {}
    /\ {"admin", "free", "main"} \cap (Requests \cup Jobs) = {}

VARIABLES
    pool,     \* the keys of the account pool
    config,   \* the keys of the pool as config.yaml has them
    usage,    \* the usage tracker
    file,     \* usage.json
    lock,     \* who holds gatewayLifecycleMu
    admin,    \* the account handler that holds it
    job,      \* the refreshes
    busy,     \* occupied slots of the semaphore
    req,      \* the requests
    saver,    \* the saves under way
    saveMu,   \* who holds saveMu
    phase,    \* the life of the process
    ops,      \* bound: handlers, refreshes, requests, restarts
    earned,   \* history: usage of each account of the pool since it was added
    dropped,  \* history: usage that no counter holds any more
    stray,    \* history: quotas the last start found for unknown accounts
    tangled   \* history: a key came back to the pool that was rotated away before

mem == <<pool, config>>
past == <<earned, dropped, stray, tangled>>
vars == <<pool, config, usage, file, lock, admin, job, busy, req, saver, saveMu,
          phase, ops, earned, dropped, stray, tangled>>

\* The processes that save usage.json.
Savers == Requests \cup Jobs \cup {"main"}

IdleAdmin == [pc |-> "idle", op |-> "add", key |-> NoKey, new |-> NoKey]
IdleJob == [pc |-> "idle", key |-> NoKey, bound |-> FALSE]
IdleRequest == [pc |-> "idle", key |-> NoKey, home |-> NoKey]
NoSave == [pc |-> "no", snap |-> [total |-> 0, legacy |-> NoCounts,
                                  counters |-> NoCounts, quotas |-> NoQuotas]]

\* Refreshes are alike: the one that is started is any idle one.
NoneIdle == \A j \in Jobs : job[j].pc # "idle"
IdleOne == CHOOSE j \in Jobs : job[j].pc = "idle"

Booted(u) ==
    /\ usage = u
    /\ lock = "free" /\ admin = IdleAdmin
    /\ job = [j \in Jobs |-> IdleJob] /\ busy = 0
    /\ req = [r \in Requests |-> IdleRequest]
    /\ saver = [p \in Savers |-> NoSave] /\ saveMu = "free"
    /\ phase = "up"

Init ==
    /\ \E f \in InitialFiles :
          /\ file = f
          /\ Booted(Loaded(f))
          /\ pool = InitialPool /\ config = InitialPool
          /\ earned = [k \in Keys |-> IF k \in InitialPool THEN f.legacy[k] + f.counters[k] ELSE 0]
          /\ dropped = f.total - Sum(f.legacy) - Sum(f.counters)
          /\ stray = {k \in Keys \ InitialPool : f.quotas[k] # "none"}
    /\ ops = [handlers |-> 0, refreshes |-> 0, served |-> 0, boots |-> 0]
    /\ tangled = FALSE

-----------------------------------------------------------------------------
(***************************************************************************)
(* Account handlers.  Each takes gatewayLifecycleMu first.                 *)
(***************************************************************************)
Begin(op, k, new) ==
    /\ phase = "up" /\ lock = "free"
    /\ ops.handlers < MaxOps
    /\ ops' = [ops EXCEPT !.handlers = @ + 1]
    /\ lock' = "admin"
    /\ admin' = [pc |-> "apply", op |-> op, key |-> k, new |-> new]
    /\ UNCHANGED <<mem, usage, file, job, busy, req, saver, saveMu, phase, past>>

Refuse ==
    /\ admin' = IdleAdmin /\ lock' = "free"
    /\ UNCHANGED <<pool, earned, dropped, tangled, req>>

\* AccountPool.Add: a key that is present is refused.
ApplyAdd ==
    /\ admin.pc = "apply" /\ admin.op = "add"
    /\ \/ admin.key \in pool /\ Refuse
       \/ /\ admin.key \notin pool
          /\ pool' = pool \cup {admin.key}
          /\ earned' = [earned EXCEPT ![admin.key] = 0]
          /\ tangled' = (tangled \/ usage.alias[admin.key] # NoKey)
          /\ admin' = [admin EXCEPT !.pc = "persist"]
          /\ UNCHANGED <<lock, dropped, req>>
    /\ UNCHANGED <<config, usage, file, job, busy, saver, saveMu, phase, ops, stray>>

\* AccountPool.SetKey; a request under way keeps its key, its account moves on.
ApplyRotate ==
    /\ admin.pc = "apply" /\ admin.op = "rotate"
    /\ \/ admin.key \notin pool /\ Refuse
       \/ admin.new \in pool \ {admin.key} /\ Refuse
       \/ /\ admin.key \in pool /\ admin.new \notin pool \ {admin.key}
          /\ pool' = (pool \ {admin.key}) \cup {admin.new}
          /\ earned' = [earned EXCEPT ![admin.key] = 0, ![admin.new] = earned[admin.key]]
          /\ tangled' = (tangled \/ usage.alias[admin.new] # NoKey)
          /\ req' = [r \in Requests |->
                       IF req[r].home = admin.key THEN [req[r] EXCEPT !.home = admin.new]
                                                  ELSE req[r]]
          /\ admin' = [admin EXCEPT !.pc = "usage"]
          /\ UNCHANGED <<lock, dropped>>
    /\ UNCHANGED <<config, usage, file, job, busy, saver, saveMu, phase, ops, stray>>

\* AccountPool.Remove.
ApplyDelete ==
    /\ admin.pc = "apply" /\ admin.op = "delete"
    /\ \/ admin.key \notin pool /\ Refuse
       \/ /\ admin.key \in pool
          /\ pool' = pool \ {admin.key}
          /\ earned' = [earned EXCEPT ![admin.key] = 0]
          /\ req' = [r \in Requests |->
                       IF req[r].home = admin.key THEN [req[r] EXCEPT !.home = NoKey]
                                                  ELSE req[r]]
          /\ admin' = [admin EXCEPT !.pc = "usage"]
          /\ UNCHANGED <<lock, dropped, tangled>>
    /\ UNCHANGED <<config, usage, file, job, busy, saver, saveMu, phase, ops, stray>>

\* The counters follow a new key or leave with the account; the quota belongs
\* to the credential it was fetched with and goes in either case.
MoveUsage ==
    /\ admin.pc = "usage"
    /\ \/ /\ admin.op = "rotate"
          /\ usage' = DropQuota(MoveAccount(usage, admin.key, admin.new), admin.key)
          /\ UNCHANGED dropped
       \/ /\ admin.op = "delete"
          /\ usage' = DropAccount(usage, admin.key)
          /\ dropped' = dropped + usage.counters[admin.key]
    /\ admin' = [admin EXCEPT !.pc = "persist"]
    /\ UNCHANGED <<mem, file, lock, job, busy, req, saver, saveMu, phase, ops,
                   earned, stray, tangled>>

\* persistGatewayPools, the catalogue, and RefreshAsync for a new credential,
\* unless all of Jobs is in use: no more refreshes are followed at a time.
Persist ==
    /\ admin.pc = "persist"
    /\ config' = pool
    /\ \/ /\ admin.op = "delete" \/ NoneIdle
          /\ UNCHANGED job
       \/ /\ admin.op # "delete" /\ ~NoneIdle
          /\ job' = [job EXCEPT ![IdleOne] =
                       [pc |-> "queued", bound |-> FALSE,
                        key |-> IF admin.op = "add" THEN admin.key ELSE admin.new]]
    /\ admin' = IdleAdmin /\ lock' = "free"
    /\ UNCHANGED <<pool, usage, file, busy, req, saver, saveMu, phase, ops, past>>

Handle == ApplyAdd \/ ApplyRotate \/ ApplyDelete \/ MoveUsage \/ Persist

-----------------------------------------------------------------------------
(***************************************************************************)
(* Quota refreshes.  A bound one ends with the context of the HTTP request *)
(* or of the background loop that asked for it; the others have none.      *)
(***************************************************************************)
StartRefresh(k, bound) ==
    /\ phase = "up" /\ ~NoneIdle
    /\ k \in pool
    /\ ops.refreshes < MaxRefreshes
    /\ ops' = [ops EXCEPT !.refreshes = @ + 1]
    /\ job' = [job EXCEPT ![IdleOne] = [pc |-> "queued", key |-> k, bound |-> bound]]
    /\ UNCHANGED <<mem, usage, file, lock, admin, busy, req, saver, saveMu, phase, past>>

TakeSlot(j) ==
    /\ job[j].pc = "queued" /\ busy < Workers
    /\ busy' = busy + 1
    /\ job' = [job EXCEPT ![j].pc = "fetching"]
    /\ UNCHANGED <<mem, usage, file, lock, admin, req, saver, saveMu, phase, ops, past>>

GiveUp(j) ==
    /\ job[j].pc = "queued" /\ job[j].bound
    /\ job' = [job EXCEPT ![j] = IdleJob]
    /\ UNCHANGED <<mem, usage, file, lock, admin, busy, req, saver, saveMu, phase, ops, past>>

\* Mutant: the answer is stored without looking at the pool.
PublishStale(j, ok) ==
    /\ job[j].pc = "fetching" /\ lock = "free"
    /\ usage' = [usage EXCEPT !.quotas[job[j].key] = IF ok THEN "data" ELSE QuotaError(@)]
    /\ job' = [job EXCEPT ![j].pc = "saving"]
    /\ lock' = j
    /\ saver' = [saver EXCEPT ![j].pc = "want"]
    /\ UNCHANGED <<busy, mem, file, admin, req, saveMu, phase, ops, past>>

\* Mutant: the slot of a refresh whose account is gone is not given back.
PublishLeaking(j, ok) ==
    /\ job[j].pc = "fetching" /\ lock = "free"
    /\ \/ /\ job[j].key \notin pool
          /\ job' = [job EXCEPT ![j] = IdleJob]
          /\ UNCHANGED <<usage, lock, saver, busy>>
       \/ /\ job[j].key \in pool
          /\ usage' = [usage EXCEPT !.quotas[job[j].key] = IF ok THEN "data" ELSE QuotaError(@)]
          /\ job' = [job EXCEPT ![j].pc = "saving"]
          /\ lock' = j
          /\ saver' = [saver EXCEPT ![j].pc = "want"]
          /\ UNCHANGED busy
    /\ UNCHANGED <<mem, file, admin, req, saveMu, phase, ops, past>>

\* The upstream has answered or failed; under gatewayLifecycleMu the answer is
\* stored if its credential is still one of the pool.
Publish(j, ok) ==
    /\ job[j].pc = "fetching" /\ lock = "free"
    /\ \/ /\ job[j].key \notin pool
          /\ job' = [job EXCEPT ![j] = IdleJob]
          /\ busy' = busy - 1
          /\ UNCHANGED <<usage, lock, saver>>
       \/ /\ job[j].key \in pool
          /\ usage' = [usage EXCEPT !.quotas[job[j].key] = IF ok THEN "data" ELSE QuotaError(@)]
          /\ job' = [job EXCEPT ![j].pc = "saving"]
          /\ lock' = j
          /\ saver' = [saver EXCEPT ![j].pc = "want"]
          /\ UNCHANGED busy
    /\ UNCHANGED <<mem, file, admin, req, saveMu, phase, ops, past>>

-----------------------------------------------------------------------------
(***************************************************************************)
(* Chat requests: the account is chosen, the answer is relayed, and usage  *)
(* is recorded in two steps, the total and the counter of the account.     *)
(***************************************************************************)
Serve(r) ==
    /\ phase = "up" /\ req[r].pc = "idle" /\ ops.served < MaxServed
    /\ ops' = [ops EXCEPT !.served = @ + 1]
    /\ \E k \in pool : req' = [req EXCEPT ![r] = [pc |-> "served", key |-> k, home |-> k]]
    /\ UNCHANGED <<mem, usage, file, lock, admin, job, busy, saver, saveMu, phase, past>>

CountTotal(r) ==
    /\ req[r].pc = "served"
    /\ usage' = [usage EXCEPT !.total = @ + 1]
    /\ req' = [req EXCEPT ![r].pc = "counted"]
    /\ UNCHANGED <<mem, file, lock, admin, job, busy, saver, saveMu, phase, ops, past>>

CountAccount(r) ==
    /\ req[r].pc = "counted"
    /\ usage' = RecordAccount(usage, req[r].key)
    /\ earned' = [k \in Keys |-> IF k = req[r].home THEN earned[k] + 1 ELSE earned[k]]
    /\ req' = [req EXCEPT ![r].pc = "saving"]
    /\ saver' = [saver EXCEPT ![r].pc = "want"]
    /\ UNCHANGED <<mem, file, lock, admin, job, busy, saveMu, phase, ops,
                   dropped, stray, tangled>>

-----------------------------------------------------------------------------
(***************************************************************************)
(* UsageTracker.save: a snapshot is taken under saveMu, and the file is    *)
(* replaced by a rename, so that it is always the old or the new one.      *)
(***************************************************************************)
\* Mutant: the snapshot is taken before the save has its turn.
SnapshotUnlocked(p) ==
    /\ saver[p].pc = "want"
    /\ saveMu' = p
    /\ saver' = [saver EXCEPT ![p] = [pc |-> "write",
                   snap |-> [total |-> usage.total, legacy |-> NoCounts,
                             counters |-> usage.counters, quotas |-> usage.quotas]]]
    /\ UNCHANGED <<mem, usage, file, lock, admin, job, busy, req, phase, ops, past>>

\* The numbers are read one after the other; a request that records in between
\* saves them again afterwards.
Snapshot(p) ==
    /\ saver[p].pc = "want" /\ saveMu = "free"
    /\ saveMu' = p
    /\ saver' = [saver EXCEPT ![p] = [pc |-> "write",
                   snap |-> [total |-> usage.total, legacy |-> NoCounts,
                             counters |-> usage.counters, quotas |-> usage.quotas]]]
    /\ UNCHANGED <<mem, usage, file, lock, admin, job, busy, req, phase, ops, past>>

SaveWrite(p) ==
    /\ saver[p].pc = "write"
    /\ file' = saver[p].snap
    /\ saver' = [saver EXCEPT ![p] = NoSave]
    /\ saveMu' = "free"
    /\ \/ /\ p \in Requests
          /\ req' = [req EXCEPT ![p] = IdleRequest]
          /\ UNCHANGED <<lock, job, busy, phase>>
       \/ /\ p \in Jobs
          /\ job' = [job EXCEPT ![p] = IdleJob]
          /\ lock' = "free" /\ busy' = busy - 1
          /\ UNCHANGED <<req, phase>>
       \/ /\ p = "main"
          /\ phase' = IF phase = "final" THEN "exit" ELSE "killed"
          /\ UNCHANGED <<req, lock, job, busy>>
    /\ UNCHANGED <<mem, usage, admin, ops, past>>

Save(p) == Snapshot(p) \/ SaveWrite(p)

-----------------------------------------------------------------------------
(***************************************************************************)
(* The process.  A signal stops new requests; the server waits for those   *)
(* under way, handlers included, until a timeout; then main saves.         *)
(***************************************************************************)
Working == lock = "admin" \/ \E r \in Requests : req[r].pc # "idle"

Stop ==
    /\ phase = "up" /\ ops.boots < MaxBoots
    /\ ops' = [ops EXCEPT !.boots = @ + 1]
    /\ phase' = "stopping"
    /\ UNCHANGED <<mem, usage, file, lock, admin, job, busy, req, saver, saveMu, past>>

\* Mutant: the process ends without a last save.
DrainedUnsaved ==
    /\ phase = "stopping"
    /\ phase' = IF Working THEN "killed" ELSE "exit"
    /\ UNCHANGED <<mem, usage, file, lock, admin, job, busy, req, saver, saveMu, ops, past>>

Drained ==
    /\ phase = "stopping"
    /\ phase' = IF Working THEN "timeout" ELSE "final"
    /\ saver' = [saver EXCEPT !["main"].pc = "want"]
    /\ UNCHANGED <<mem, usage, file, lock, admin, job, busy, req, saveMu, ops, past>>

Boot ==
    /\ pool' = config
    /\ usage' = Loaded(file)
    /\ lock' = "free" /\ admin' = IdleAdmin
    /\ job' = [j \in Jobs |-> IdleJob] /\ busy' = 0
    /\ req' = [r \in Requests |-> IdleRequest]
    /\ saver' = [p \in Savers |-> NoSave] /\ saveMu' = "free"
    /\ phase' = "up"
    /\ earned' = [k \in Keys |-> IF k \in pool' THEN usage'.counters[k] ELSE 0]
    /\ dropped' = usage'.total - Sum(usage'.counters)
    /\ stray' = {k \in Keys \ pool' : usage'.quotas[k] # "none"}
    /\ tangled' = FALSE
    /\ UNCHANGED <<config, file>>

Restart ==
    /\ phase \in {"exit", "killed"}
    /\ Boot
    /\ UNCHANGED ops

Crash ==
    /\ phase \notin {"exit", "killed"} /\ ops.boots < MaxBoots
    /\ Boot
    /\ ops' = [ops EXCEPT !.boots = @ + 1]

-----------------------------------------------------------------------------
Alive == phase \notin {"exit", "killed"}

Refresh(j) == TakeSlot(j) \/ GiveUp(j) \/ \E ok \in BOOLEAN : Publish(j, ok)

Next ==
    \/ Alive /\ \E op \in {"add", "delete"}, k \in Keys : Begin(op, k, NoKey)
    \/ Alive /\ \E k, new \in Keys : Begin("rotate", k, new)
    \/ Alive /\ Handle
    \/ Alive /\ \E k \in Keys, bound \in BOOLEAN : StartRefresh(k, bound)
    \/ Alive /\ \E j \in Jobs : Refresh(j)
    \/ Alive /\ \E r \in Requests : Serve(r) \/ CountTotal(r) \/ CountAccount(r)
    \/ Alive /\ \E p \in Savers : Save(p)
    \/ Stop \/ Drained \/ Restart \/ Crash

Spec == Init /\ [][Next]_vars

-----------------------------------------------------------------------------
AdminState ==
    [pc : {"idle", "apply", "usage", "persist"}, op : {"add", "rotate", "delete"},
     key : Keys \cup {NoKey}, new : Keys \cup {NoKey}]

JobState ==
    [pc : {"idle", "queued", "fetching", "saving"}, key : Keys \cup {NoKey}, bound : BOOLEAN]

RequestState ==
    [pc : {"idle", "served", "counted", "saving"},
     key : Keys \cup {NoKey}, home : Keys \cup {NoKey}]

SaverState == [pc : {"no", "want", "write"}, snap : UsageFile]

Bounds ==
    [handlers : 0..MaxOps, refreshes : 0..MaxRefreshes, served : 0..MaxServed, boots : 0..MaxBoots]

TypeOK ==
    /\ pool \subseteq Keys /\ config \subseteq Keys
    /\ usage \in Tracker
    /\ file \in UsageFile
    /\ lock \in {"free", "admin"} \cup Jobs
    /\ admin \in AdminState
    /\ job \in [Jobs -> JobState]
    /\ busy \in Nat
    /\ req \in [Requests -> RequestState]
    /\ saver \in [Savers -> SaverState]
    /\ saveMu \in {"free"} \cup Savers
    /\ phase \in {"up", "stopping", "final", "timeout", "exit", "killed"}
    /\ ops \in Bounds
    /\ earned \in [Keys -> Nat]
    /\ stray \subseteq Keys
    /\ tangled \in BOOLEAN

SlotsCounted == busy = Cardinality({j \in Jobs : job[j].pc \in {"fetching", "saving"}})

LockHeld == lock \in Jobs => job[lock].pc = "saving"

(***************************************************************************)
(* No more than Workers refreshes query the upstream at a time, and every  *)
(* way out of a refresh gives its slot and its lock back: the answer, the  *)
(* error, the account that is gone, the context that ended while waiting.  *)
(***************************************************************************)
RefreshInvariant == TypeOK /\ SlotsCounted /\ busy <= Workers /\ LockHeld

(***************************************************************************)
(* A quota is cached for the credentials of the pool only: an answer that  *)
(* outlives its account, or the key of it, leaves nothing behind.          *)
(***************************************************************************)
QuotaOfPool ==
    lock = "free" => \A k \in Keys : usage.quotas[k] # "none" => k \in pool \cup stray

(***************************************************************************)
(* Usage is neither lost nor counted twice: whatever was served is in the  *)
(* counter of some account or left with one that was removed, also when    *)
(* keys are rotated while their requests run.                              *)
(***************************************************************************)
UsageConserved ==
    usage.total = Sum(usage.counters) + dropped
                  + Cardinality({r \in Requests : req[r].pc = "counted"})

(***************************************************************************)
(* What was served by an account since it was added is in the counter of   *)
(* the key it has now, whichever key the request was sent with, as long as *)
(* no key comes back that was rotated away before.                         *)
(***************************************************************************)
ServedIsCharged ==
    lock = "free" /\ ~tangled => \A k \in pool : usage.counters[k] >= earned[k]

(***************************************************************************)
(* The usage of every request that has ended is in usage.json, whatever    *)
(* saves of other requests and of refreshes overlapped its own: a crash    *)
(* loses the usage of requests under way only.                             *)
(***************************************************************************)
EndedIsSaved ==
    (\A r \in Requests : req[r].pc = "idle") => file.total = usage.total

(***************************************************************************)
(* After a shutdown that waited for its requests the next process starts   *)
(* with exactly the usage the last one ended with.                         *)
(***************************************************************************)
ShutdownKeepsUsage ==
    [][phase = "exit" /\ phase' = "up" =>
          /\ usage'.total = usage.total
          /\ usage'.counters = usage.counters]_vars

=============================================================================
