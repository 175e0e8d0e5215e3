# cliai2api, verified

TLA+ models of cliai2api, TLC runs that check them on small instances, and TLAPS
proofs for every value of the constants. Every definition is translated from the
Go source; `PROJECT.json` maps each one to the lines it stands for, lists the
runs, the findings and the hazards.

## 1. The system

cliai2api is one Go process that offers an OpenAI-compatible API and forwards it
to two upstream gateways, *cmdcode* (an SSE API of its own) and *zen* (an
OpenAI-like API with a chat lane, a `/responses` lane and an anonymous free
tier). Each gateway has a pool of accounts. An admin API and WebUI manage the
accounts, client keys, models, settings and OAuth sign-ins.

| part | state it keeps | operations | what is hard | what makes it correct |
|---|---|---|---|---|
| Account pool (`accounts.go`) | the slice of `*Account`, a rotating cursor; per account key, id, enabled, cooldown, auth failures | Acquire, RecordSuccess/Failure, Add, Remove, SetEnabled, Rename, SetKey, EarliestRateLimitWait | requests hold pointers while mutators replace objects by clones; ids are truncated hashes | unique and true ids, cooldowns respected, even rotation |
| Failover loop (`cc.go` Send, `zen.go` ChatWithHeaders, chatResponses) | loop counter, last error, account of the attempt | count, acquire, send, record, give up | concurrent requests share the cursor; the pool changes during the loop | every request is answered; every eligible account is tried; 429 only when nothing is eligible |
| Event normalizer and chat handlers (`events.go`, `cc.go`, `handler.go`) | pending and kept calls, usage, finish barrier; stream writer state | consume an event, emit, commit, fail, answer | late, repeated and missing events; errors after a commit | wire grammar, executable calls, agreement of both handlers, usage charged once |
| Request translation (`cc.go`, `zen_responses_request.go`) | none: a request carries its whole conversation | openAIToCC, messagesToCC, chatRequestToResponses | the conversation comes again with every turn, to either upstream; ids of calls repeat | results keep the name of their call, both upstreams are told the same, the past is told the same way again |
| Zen responses adapter (`zen_responses.go`) | what an attempt has folded; a goroutine, a pipe, a channel | translate, aggregate, relay | two lanes written twice; a synchronous pipe between two goroutines; a client that leaves | both lanes give the same answer, in order, and everybody ends |
| Usage tracker (`usage.go`) | totals, counters per account and client key; key aliases; quotas; `usage.json` | Record, MoveAccountFor, DropAccountFor, SetQuota, save, load | recorders outlive rotations and removals; several savers, a crash | usage is kept, charged to the account that served, and on disk when a request has ended |
| Quota service (`quota.go`) | a semaphore; snapshots in the tracker | RefreshAccount, RefreshAsync, RefreshAll, Run | the fetch runs unlocked; its account may be gone when it ends | quotas belong to credentials of the pool; slots are given back |
| Admin plane (`admin.go`) | `gatewayLifecycleMu`; pools, configuration, tracker, catalogue | account, model, key, settings, quota, log and OAuth handlers | several stores change in one handler, some before an error, most without a common lock | each store follows the pool; what was acknowledged survives |
| Configuration (`config.go`) | the Config struct with its legacy mirror, and its file | load, migrate, setters, save | snapshot, assignment, marshalling, truncation and write are five steps; a save may fail; most savers copy only one gateway's accounts | a save that runs alone makes the file agree with memory in all that it covers |
| Client keys and authentication (`clientkeys.go`, `server.go`) | the list of keys | Lookup, Add, Remove, SetEnabled, SyncToConfig | the file has two places for a key; another save may overtake that of a revocation | a revoked key stays rejected, after a restart too: kept only if nothing overlaps the revocation (finding 3, section 3) |
| Admin rate limiter (`ratelimit.go`) | failures per address, time of the last sweep | Allow, Fail, Reset | check and record are two steps; the map is full | lockouts hold, guesses and records are bounded |
| OAuth flow (`oauth.go`) | one flow: state, two channels, once | Start, deliver, Wait, Cancel, finish | four parties race for the outcome | the first result wins; every flow ends |
| Model catalogue (`models.go`, `app.go`) | models per gateway | fetch at the start, refresh, clear | two looks at the pool; a fetch that ends late; a primary account that is disabled | no models of a gateway once its last enabled account has gone |
| Log ring (`logbuf.go`) | a ring and a sequence number | Write, After | a reader slower than the ring, answers out of order | no line is skipped that the ring still had |

The parts call each other directly. A chat handler builds a request, calls the
failover loop, which acquires accounts from the pool and waits for the upstream
without a lock; the answer is read as events, pushed through the normalizer (or
the responses adapter) and written by the handler, which records usage and saves
it at the end. Account handlers change the pools under `gatewayLifecycleMu`, then
sync the configuration, save it, fetch the models (still under the lock), and
start a quota refresh in the background, which takes the same lock to publish.
Handlers of client keys, settings and models, and the goroutine of an OAuth flow,
save the same configuration without that lock.

## 2. Modules

| module | models | state | actions |
|---|---|---|---|
| `AccountPool` | `accounts.go` | `heap` (every Account object), `accounts` (the slice of pointers), `cursor`, `now` | `Add`, `Remove`, `SetEnabled`, `Rename`, `SetKey`, `Tick`; operators `Acquired`, `RecordSuccess`, `RecordFailure`, `EarliestRateLimitWait` |
| `Failover` (extends it) | `CCClient.Send`, `ZenClient.ChatWithHeaders`, `chatResponses` and its anonymous lane | `req` and the history variables `tried`, `avail`, `uses`, `limit` | `Start`, `Count`, `AnonymousReply`, `Acquire`, `Reply`, `GiveUp` |
| `ChatTurn` | what a chat turn promises | `content`, `calls`, `outcome` | content while open, then one step that commits the calls and a reason, or fails |
| `ChatStream` | the normalizer, the SSE loop, `handleStreamWithOptions`, `handleNonStream` | `norm`, the handlers' locals, `out` (what the client receives), `seen` (history) | `Refuse`, `Content`, `Silent`, `Finish`, `Stop`, `CloseStream`, `Answer` |
| `SignIn` | what the admin plane promises about sign-ins | `verdict` of each | `Begin`, `Close`, `Succeed`, `Fail` |
| `OAuthFlow` | `oauth.go` and the OAuth handlers of `admin.go` | `stage` (is `done` closed), the channels `resultCh` and `errCh`, `heard` (the listener's own channels), `result`, `err`, the `waiter` and what it `took`, the `call`s in progress, `accounts` | `Start`, `StartAgain`, `Open`, `OpenNone`, `Check`, `Settle`, `Send`, `AddByCall`, `Abort`, `CloseFlow`, `Listen`, `Claim`, `Canceled`, `TimedOut`, `AddByWaiter` |
| `UsageTracker` | `usage.go`, quota snapshots | none: the tracker is a record `[total, counters, alias, quota]` and its operations are operators on it | `RecordAccount`, `MoveAccount`, `DropAccount`, `DropQuota`, `QuotaError`, `Loaded` |
| `AdminPlane` (extends it) | account handlers of `admin.go`, `quota.go`, `usage.save`, the life of the process (`server.go`, `app.go`) | `pool`, `config`, `usage`, `file` (usage.json), `lock`, `admin`, `job` and `busy` (refreshes and their slots), `req`, `saver` and `saveMu`, `phase`; history `earned`, `dropped`, `stray`, `tangled` | `Begin`, `ApplyAdd`, `ApplyRotate`, `ApplyDelete`, `MoveUsage`, `Persist`, `StartRefresh`, `TakeSlot`, `GiveUp`, `Publish`, `Serve`, `CountTotal`, `CountAccount`, `Snapshot`, `SaveWrite`, `Stop`, `Drained`, `Boot`, `Crash` |
| `ConfigStore` | `config.go`, `clientkeys.go` and everything that calls `saveConfig`; the catalogue of `models.go` | `pool`, `keys`, `cfg` (with the legacy `mirror` and `apiKey`), `file`, `hand` (where each handler is), `lock`, `catalogue` (per gateway), `phase`; history `acked`, `revoked`, `skipped`, `fresh` | `Begin` (by `Request`), `Lock`, `Apply…` for every kind of change, `Snap`, `Assign`, `AssignZen`, `Marshal`, `Truncate`, `Write`, `SaveFails`, `Check`, `Primary`, `Fetch`, `Panic`, `Crash` (with `Start`) |
| `AdminRateLimiter` | `ratelimit.go` | none: a record `[fails, lastSweep]` | `Allowed`, `Failed`, `Without` |
| `LogTail` | what the log page may rely on: the last lines of the log | the tail | append |
| `LogRing` | `logbuf.go` | none: a record | `Written`, `After` |
| `AdminEdge` (extends both) | `adminAuth` (`server.go`), `handleAdminLogs`, the logging middleware and the page that polls (`index.html`) | `limiter`, `ring`, the admin `req`s, the `page`, `clock`; history: times of the guesses, lockouts | `Arrive`, `Wrong`, `Right`, `Log`, `Answer`, `Tick` |
| `Conversation` | `openAIToCC` with its helpers, `chatRequestToResponses` | `history` (the messages of the last request), `cc` and `zen` (what each upstream was shown last) | `AskCommandCode`, `AskResponses`; operators `MessagesToCC`, `ExtractSystem`, `ChatRequestToResponses` |
| `ZenResponses` | `zen_responses.go`, `chatResponses`, `handleOpenAIResponse` | `seen` and `ending` (the upstream body), `tr` (the goroutine), `ready`, `pipe`, `relay` (the caller), `fallback`, `out`, `gone`, `recorded` | `Receive`, `End`, `Break`, `Return`, `WriteFails`, `Proceed`, `Aggregate`, `Relay`, `RelayEnds`, `Leave` |
| `MCFailover`, `MCChatStream`, `MCOAuthFlow`, `MCAdminPlane`, `MCConfigStore`, `MCAdminEdge`, `MCZenResponses`, `MCConversation` | instances for TLC | | |
| `FailoverProofs`, `ChatStreamProofs`, `OAuthFlowProofs`, `AdminPlaneProofs`, `ConfigStoreProofs`, `AdminEdgeProofs`, `ZenResponsesProofs`, `ConversationProofs` | theorems | | |

How they correspond to the code:

* **The heap.** An `Account` is reached through a pointer that a request keeps
  while it waits. The mutators never write to an object of the pool: they clone
  it and put the clone in the slot. `heap` holds all objects ever allocated and
  a pointer is an index, so a result recorded on a replaced object goes where
  the code puts it.
* **Atomicity.** What runs under the pool's or an account's mutex is one step.
  `Acquire` holds only the read lock and advances an atomic cursor; each scan
  takes its start from one atomic addition and only reads after it, so a scan
  is one step here, and the mutators cannot come between (they take the write
  lock). Only a 429 recorded during a scan could be seen later than in the
  model. The wait for the upstream is a separate step; everything else may come
  between.
* **Three lanes.** `lane` distinguishes cmdcode, zen chat and zen responses;
  `free` a free-tier model. Chat tries the public credential before it looks at
  the pool, responses after it counted the pool. `shouldFailover` and
  `Recorded` keep the differences between the gateways: a 402 fails over
  nowhere and counts as a success for zen, a status below 400 other than 200
  fails over only for zen, cmdcode records every failure and zen only those it
  fails over.
* **Outcomes** are classes of answers ("ok", "garbled" for a 200 that cannot be
  converted, "auth" for 401/403, "429" with a duration, "5xx", "402", "4xx",
  "other", "transport", "canceled").
* **Events** carry what decides: type, call id, arguments (or the value that is
  refused), text, reason, usage. The request, the JSON and the wording of errors
  are left out.
* **Both handlers** are in one module and share the event loop: `mode` chooses.
  A chunk of `out` is what a client can tell apart.

* **Flows and calls** of `OAuthFlow` are numbered in the order in which they are
  started and arrive; the number of a flow stands for its random state token.
  `deliver` and `Cancel` are split where another goroutine can come between: the
  check of `done`, the close of `done` together with the result, and the send on
  a channel are separate steps, in the code's order. A handler works on the flow
  it read, also when another one is current by then. The loopback listener
  writes to channels that nothing reads, because `StartOAuthFlow` makes its own;
  the model keeps that as it is. Denied and canceled flows go the same way.

* **The admin plane** is two modules because its stores meet in two ways.
  `AdminPlane` follows the credentials of accounts: pool, tracker, quota
  refreshes and `usage.json`, under `gatewayLifecycleMu` and the tracker's own
  locks. `ConfigStore` follows documents: the pools, the Config in memory, the
  file, and every handler that saves it, whether it takes the lock or not; each
  handler is cut where another goroutine can come between (snapshot of the pool,
  assignment, marshalling, truncation, write). `config` in `AdminPlane` is what
  `ConfigStore` shows a save that runs alone to leave in the file. `AdminPlane` has the
  accounts of cmdcode, the gateway with quotas.
* **Two gateways** in `ConfigStore`: every account belongs to cmdcode or to zen, as
  the code does not treat the two alike. Account handlers copy both pools to the Config
  (`persistGatewayPools`, `AssignZen`); OAuth flows and the settings copy cmdcode only
  (`persistPool`, admin.go:999), and handlers of client keys and of the listed models neither: `Covered`
  says which. Only cmdcode has a legacy section, its mirror, and OAuth flows. A start fetches the models
  of cmdcode with whatever `Primary` returns, of zen only with an enabled account (`Listed`).
* **`AccountPool.Primary`** returns an enabled account, without one any account, and nil for an empty pool
  (`Primaries`). The catalogue says of each gateway whose key fetched its models: an enabled account's,
  under the lock or at a start; that of a start without one (`disabled`); or that of an OAuth flow (`oauth`).
* **A save may fail** before the file is opened, or halfway (`SaveFails`, the answers 500 at admin.go:407, 473,
  503, 655, 1000 and 1152): what changed in memory stays, nothing is promised, and the models
  are not looked at. `skipped` remembers the gateways left like that, or by a refused request. When
  the save of a start fails the process ends, as in `Crash`.
* **Requests that neither change nor save anything** when they arrive (a key that is deleted already, an account that is
  there already) are left out of `Request` of `ConfigStore`. What they would do if things have changed by their
  turn is what a request does that arrives then.
* **Usage** is counted in requests: one unit per served request, with the tokens
  left out. `CountTotal`, `CountAccount` and the save are separate steps, because the
  totals are atomics and the counters have a lock. A recorder keeps the key of
  the account it was made for; `Charged` follows the aliases, sixteen hops at most.
* **The process** starts with what the files hold (`Loaded`), may be stopped (with
  its requests drained, or with the timeout of fifteen seconds), and may end at any
  moment. A write of `config.yaml` that is cut short or overlaps another one
  may leave a torn file; `usage.json` is written by one saver at a time.
* **The edge** keeps `Allow`, the comparison with `Fail` or `Reset`, and the
  log line apart. The page polls with the cursor of the last answer it has
  seen, polls may overlap, and answers may be lost or late. Which of several
  oldest records is evicted is free, as the order of a Go map is.
* **Two lanes of one body** in `ZenResponses`: `Folded` is what both do with an
  event, `Read` takes them in order, `Parsed` and `Receive` are where the lanes differ. A write to the pipe ends when it is
  read, so a chunk stays in `pending` until `Relay` takes it.
* **Conversations** grow at the client: a turn adds one message, well-formed or
  not, and one of the two upstreams is asked. A text is a token, arguments are
  acceptable or not, images are inline, remote or without a URL; only the
  assistant's messages carry calls, as those of API clients do.

Definitions whose comment begins with "Mutant:" are seeded faults: each is a
plausible mistake in the operator that follows it, is used by no specification,
and shows, put in its place, that a property of the run can fail.

## 3. Runs

| run | question | bounds | result |
|---|---|---|---|
| `pool` | do identities survive every admin history, and is a request in flight always answered? | one request of the responses lane, free or not, four outcomes, five mutators, four keys with two colliding ids, four objects, clock 0..1 | pass |
| `failover_concurrent` | does a request that overlaps no other try every eligible account, and what do overlapping ones do to rotation, cooldowns and exhaustion? | two requests, three lanes, free or not, three accounts, six outcomes, cooldown 2, clock 0..2 | pass |
| `cooldown_clone` | does a cooldown survive an admin change of the account? | two requests, a rename | violated |
| `chat` | wire format, calls, agreement, charging, refinement | every sequence of up to four events out of one per kind and content that matters, every way to stop, both handlers | pass |
| `oauth` | does one verdict stand, does a closed flow end, does an accepted credential become an account? | two flows, four calls, two credentials, callbacks, pasted links, cancellations, timer | pass |
| `oauth_listener` | does a callback taken by the loopback listener end the flow? | one flow, two calls, the timer does not fire | violated |
| `accounting` | is usage kept, charged to the right account and on disk, and do quotas and slots follow the pool? | two credentials of one account, two handlers, one request, two refreshes over one slot, one stop or crash, a start from a file of the time before gateways | pass |
| `config` | what does `config.yaml` hold after overlapping, refused and failed changes and an end of the process, does a client key that was revoked alone stay out, do the models follow the accounts? | two accounts of cmdcode and one of zen, two client keys, two settings, two handlers at a time; requests, ends of the process and failed saves are three in all (`MaxOps`); a legacy file | pass |
| `config_legacy_key` | does a deleted client key stay rejected if the file had it in `api_key`? | one operation and a restart, from such a file | violated |
| `edge` | lockouts, guesses, records; does the log page skip lines? | three addresses and room for two records, five requests, two at a time, six moments; a ring of two lines | pass |
| `zen` | do both lanes of the responses adapter agree, deliver in order, and end? | every body of up to three events out of text, call, end, failure and others, typed or not, ended or broken off; a second attempt; a client that may leave | pass |
| `conversation` | is a conversation translated alike for both upstreams and in every later turn, and are results named after their calls? | four messages out of twelve, two tools that share the ids of their calls, orphaned results, remote images, bad arguments | pass |

Four invariants join what one argument needs: `RefreshInvariant` (types, slots
counted, slots bounded, lock held by whoever publishes), `LockInvariant` (types, and an
enabled primary account under the lock), `LimiterInvariant` (types and the bound of the map)
and `PipeInvariant` (types, and delivery in order).

Why the bounds suffice. A cursor scan distinguishes slots that are skipped, used
and not reached: three slots have all three. A stale pointer needs one mutation
during one attempt; an identity clash needs a rotation onto a key whose hash
collides with another slot, and a removal and a re-add, which four objects
allow. Two requests are enough for one to overtake the other
on an account, one after the other or overlapping, and six attempts go round three
accounts twice. Four events hold a
call, its repetition, a finish, and something late, in every order; the proofs
cover every length. Four calls are a start, two handlers that race, and a second start or
a third racer; two flows let a handler outlive its flow. The proofs cover any
number of both. Two account handlers during one request are a rotation and its way
back, or a removal and a re-add; one slot for two refreshes makes one wait, so that its account
may be gone before its fetch begins and after it ends. Of three events on the
configuration two requests overlap and a restart, a failed save or a third request finds what they left; an account of
each gateway tells what a save covers, and a second one of cmdcode makes the last enabled account differ from any other.
Five requests to a
limit of two are two full records and one that overlaps; a window of two and a lockout of three
moments tell before, at and after the end apart. With two requests at a time one overlaps
the locking of a record; how the bound grows with more is for the proof. Three events are what an answer
with a call needs (text, call, end), and every way to miss one of them.

Four messages are two calls and their two results, under one id or
two, with a turn on either lane between them.

What the passing properties leave out, and why:

* `ExhaustiveFailover` holds only for a request that overlaps no other one and has
  only enabled accounts in its pool. `Acquire` advances the shared cursor by one and scans
  on to the next eligible slot, so behind a disabled slot two consecutive calls
  return the same account and the attempts run out early; and concurrent
  requests share the cursor. There the project checks `EvenRotation` and
  `HonestExhaustion` instead.
* `HandlersAgree` speaks of event streams in which nothing follows the finish: with
  late events the plain handler adds content that the stream does not, and fails on a
  late error.
* `LanesAgree` speaks of events with a `type`. `parseZenResponsesEvents` clears
  the SSE event name before it falls back to it (zen_responses.go:156), the translator after
  (350), so an upstream that names its events only there works when streamed and
  gives a 502 otherwise.
* `ServedIsCharged` ends (`tangled`) when a key comes back that was rotated away
  before: the alias of the rotation stays, and the account is charged elsewhere.
  It also needs requests that outlive no more than sixteen rotations (section 5).
* `SameConversation` leaves out the reasoning of the assistant, which only Command Code is
  sent back, requests that Command Code refuses (remote images, arguments that are not an object), and
  instructions, which it is shown apart from the messages.
* `QuotaOfPool` excludes quotas that the file already had for unknown accounts.
* `AcknowledgedOnDisk` promises only changes that no other one overlapped
  between the change and the end of its write: a slower writer with an older document undoes
  an acknowledged change on disk, until a save runs alone (`LoneSaveRepairs`). A torn file,
  of overlapping writers, a failed write or an end in the middle of one, promises nothing.
* `LoneSaveRepairs` speaks of what the save covers. A save of the settings or of an OAuth flow repairs
  the accounts of cmdcode and not those of zen, one of a client key the keys only.
* `LoneRevocationStays` covers a client key that was deleted or disabled while no other save was under way.
  A save of the settings, say, that made its document before the deletion and writes it afterwards
  brings the key back with the next start, although the deletion was answered with success. The model has
  this behaviour. `RevokedKeysRejected`, which covers every revocation, does not hold because of it, and
  not from a file like that of `config_legacy_key` either, where no overlap is needed.
* `CatalogueFollows` excludes, for cmdcode, models that an OAuth flow has
  fetched without the lock, and those of a start that found only disabled accounts (section 4); and for
  both gateways those that stay because the handler that took the last enabled account away left without
  looking at them (`skipped`): a PATCH that was refused after it had disabled the account, or a failed save.
* `SentBackIsAccepted` speaks of calls whose arguments are an object. The zen lane passes on
  what its upstream sent, so a client that then turns to cmdcode may be refused.
* `GuessesBounded` is more than `Limit` a window: the window of a record is fixed and not
  sliding, so the end of one and the start of the next fall into the same ten minutes, and
  requests that `Allow` has let in are compared also when the record locks meanwhile.
* `LockoutKept` excludes an address whose last failure was under way when it was
  locked and came when the window was over: `Fail` then starts a new record over
  the locked one.

The pools have no key twice: the mutators refuse a duplicate, but `NewAccountPool` (accounts.go:183-192)
takes a file written by hand as it is. `PoolAssumption` and the functions of `ConfigStore` exclude such files.

`zen` has one text and one call, so TLC cannot see two of a kind change places; that the order is
kept, for any number of them, is the theorem `RelayedInOrder`.

Deadlock is not checked: every request may be done, or a bound reached.

Fairness. Run `pool` (`FairSpec`): weak fairness of each step of each request.
A request is a goroutine that the Go scheduler runs, and the wait for the
upstream ends because the HTTP client and the request context bound it. Nothing
is assumed of the admin or of the clock. Run `oauth`: weak fairness of every
handler that has begun and of every waiter. The timer, the browser and the admin
may do nothing, so `ClosedEnds` says that no flow needs its timer to end. Run
`zen`: weak fairness of the translator and of the caller, and of the failing
read once the client has left, as that cancels the context of the upstream request. The upstream may
fall silent for ever.

## 4. Findings

1. `cooldown_clone`: a 429 that arrives after a rename, enable or key change is
   recorded on the replaced object; the key is used again at once.
2. `oauth_listener`: the loopback listener sends to channels of its own
   (oauth.go:103), not to those of the flow it belongs to, so a sign-in through it
   always ends with the timer, in the WebUI and with `--oauth`.
3. `config_legacy_key`: deleting the only client key of a file that has it in
   `api_key` leaves that field in the file (clientkeys.go:214, config.go:336), and the next
   start accepts the key again, against config.go:321.

Met while modelling, decided by no run: `auth_error` counts 401/403 answers that
need not be consecutive (accounts.go:115), as only a success resets them. A 200 of the
anonymous lane that cannot be translated is followed by a keyed attempt
(zen.go:337). `collapseStream` (zen_free.go:132) folds the texts of a chat
stream and keeps its finish reason, but not its tool calls, although `ensureFreeTools` declares tools
for every request of that lane. The handler of a pasted link answers 500 if the waiter was faster
to add the account (admin.go:1206), and a flow that was just canceled is shown as
"success" until its waiter runs (oauth.go:282). An OAuth flow reads the pool twice without the lock
(models.go:111 and 122). If the last enabled account is disabled in between it fetches the models with
the key of a disabled account; if the pool is emptied it dereferences nil, which ends the process in the goroutine
of the flow (admin.go:1085) and is recovered by net/http in the request with a pasted link (admin.go:1205). That is
the action `Panic`; `LockInvariant` shows that handlers with the
lock are safe from both. `saveConfig` writes after it has unlocked `cfg.mu` (config.go:353), so
another save may overtake the one of a revocation; the next start then accepts the revoked client key, although changes of
the keys are said to persist at once (src/README.md:155 and 235). A start whose accounts are all disabled fetches
the models with the key of the first (app.go:173, accounts.go:253), while app.go:176 speaks of an empty catalogue if
there are "no enabled Command Code accounts". A crash between a key rotation and the next save leaves the usage of the old
key in `usage.json` and the new key in `config.yaml`.

## 5. Proofs

`FailoverProofs` proves, for every number of keys, accounts, requests, lanes and
outcomes, and any (also non-injective) `accountID`:

* `Invariant`: the inductive invariant. It adds to the type invariant that the
  pool's pointers are distinct and in the heap, that ids follow keys, and what a
  request knows at each of its program points (attempts left, an object held).
  Pointer distinctness is what makes the replacement of one slot harmless to
  the others; without it `UniqueIDs` is not inductive.
* `TypeCorrect`, `IdentifiersUnique`, `IdentifiersFollowKeys`, `LoopControlled`:
  its parts; the last two are proved only, no run checks them.
* `CooldownKept`: without admin changes no key is acquired before the pause of
  its last 429 is over. The argument: then exactly one object carries a key, and
  its `until` equals `limit` at all times. Finding 1 shows the premise is needed.
* `ExhaustionHonest`: the loop is left without an account only when none is
  eligible.

The second part of `FailoverProofs` is about a pool that is enabled throughout and that no admin
changes (`AllEnabled`, `AdminOps = {}`, as in run `failover_concurrent`), and any
number of accounts and requests. Both hypotheses are needed: behind a disabled
slot the same account is acquired twice (section 3).

* `RotationEven` (`EvenRotation`). While nothing is rate limited, `EvenInv` says
  that the slot `i` was used `cursor \div n` times, and once more if the cursor
  has passed it in this round. Eligibility never fails then, so every scan ends
  where it begins.
* `FailoverExhausts` (`ExhaustiveFailover`). `ReachInv` says of a request that is
  alone that every account it has not tried and that was eligible at its start lies
  less than `left` slots ahead of the cursor. An attempt that skips slots moves
  the cursor by one only; what it skipped is in a cooldown, and was not eligible
  at the start, as a lone request can only put accounts on hold that it has tried.
  When `left` is 0 nothing is left to reach.

`ChatStreamProofs` proves, for every alphabet and any length of the event
stream: `TypeCorrect`; `WireFormat` (`StreamGrammar`), from the strengthening
that before the commit only content was written and that `done` and `closed`
describe the last chunk; `RoleAnnouncedOnce`, from the strengthening that
`firstText` holds exactly while no delta was written.

The second part of `ChatStreamProofs` is about what the answer says. What was sent is
compared with the events that were seen, so its invariant `AnswerInv` follows both:
`UsageFollows` and `CallsFollow` say what the normalizer holds after a prefix of
the turn, `Shape` how the chunks on the wire divide into content, calls and end and
which finish event the end answers to, `ContentFollows` which fragments the answer
has, `Recorded` when the usage was handed over. `Shape` is not enough: it says that
the calls on the wire are those that were released, and only `CallsFollow` that these
are the complete calls of the turn; that in turn needs `UsageFollows`, whose
last part says that the turn is open as long as the normalizer has not finished. From it follow

* `CallsExecutable` (`ExecutableCalls`), `HandlersAnswerAlike` (`HandlersAgree`) and
  `ChargedRight` (`ChargedOnce`), by one lemma (`Outcomes`): an answer is withheld,
  with no calls on the wire, or given, with all of them;
* `ImplementsChatTurn` (`ImplementsTurn`): a fragment that is relayed is a `Deliver`,
  the finish of a stream and the answer of the plain handler are a `Commit`, the end of an uncommitted
  stream is a `Fail`, and every other step shows the client nothing. The length of
  content grows by one or stays, whatever else is on the wire.

`OAuthFlowProofs` proves, for any number of flows, calls and credentials,
`TypeCorrect` and `SignInImplemented`: `OAuthFlow` implements `SignIn` under the
mapping that reads the verdict of a flow off `stage`, `err` and `waiter`. The
invariant adds what keeps a verdict: only the current flow is pending, a channel
holds a credential only when the flow is closed, and the error is set by the
waiter alone, when it ends; so a waiter that succeeds has no error, and a handler
that closes a flow once more changes nothing that is shown.

`AdminPlaneProofs` proves, for any number of keys, requests, refreshes, slots and
initial files:

* `Invariant`: the inductive invariant. `Locks` says who is where when a lock is
  held: a refresh that saves holds `gatewayLifecycleMu`, a handler at work too, the
  writer of usage.json `saveMu`. `Handlers` allows the one quota that a handler has
  still to drop, `Saved` says what a snapshot under way holds once no request has
  more to save, `Last` what is left to happen after the drain.
* `SlotsGivenBack` (`RefreshInvariant`): the semaphore counts the refreshes between
  the take and the return of a slot, on every way out.
* `QuotasBelong` (`QuotaOfPool`): the check against the pool and the store are one
  step under the lock, and a handler that changed the pool keeps the lock until it
  has dropped the quota.
* `EndedSaved` (`EndedIsSaved`): a snapshot is taken under `saveMu`, so no older one
  is written over it.
* `UsageSurvives` (`ShutdownKeepsUsage`): a save that is under way when the server has
  drained is one of a refresh. It holds the lock, so no handler moved counters since
  its snapshot, and every request saved after it counted: it has what the tracker
  has, and the save of `main` comes after it.
* `UsageKept` (`UsageConserved`). A sum of counters is the number of their units
  (`Units`), so the lemmas about it are about cardinalities: `SumOne` for a counter that changes,
  `SumBoth` for the old and new names of a file. What is recorded, moved or dropped then
  changes both sides alike.
* `ServedCharged` (`ServedIsCharged`), if there are at most sixteen handlers: that is how
  many aliases `recordAccount` follows, and usage of a request that outlives more rotations of its
  key goes to a key that is gone. `Earned` keeps a root and a depth for
  every key, deeper by one with each rotation (`MovedRoots`), so that the hops reach the root
  (`ChargedRoot`); `Unaliased` says that no alias leaves a key of the pool, `Homes` that usage
  still to be counted leads to the account that served it, and `Paid` that this account has what it
  earned. While a rotation is between pool and tracker, `Homes` and `Paid` also accept the old key.

`ConfigStoreProofs` proves, for any number of accounts of both gateways, client keys, settings,
handlers, operations, ends of the process and failed saves:

* `Invariant`: the inductive invariant. `LockHeld` ties the lock to the handler that
  is at work, `PrimaryKept` what such a handler found in the pool of its gateway (`Relies`), `CatalogueKept`
  who has still to clear the models of a gateway (`WillClear`), `Alone` what a save that nothing has
  overlapped yet carries from memory, step by step (snapshot, assignment of cmdcode, of zen, document).
  `PrimaryKept` is inductive because OAuth flows only add accounts: whoever takes one away holds the lock.
* `LockHolderFindsPrimary` (`LockInvariant`), `CatalogueIsCleared`
  (`CatalogueFollows`) and `LoneSave` (`LoneSaveRepairs`) follow.
* `PromisesOnDisk` (`AcknowledgedOnDisk`) and `LoneRevocationsLast`
  (`LoneRevocationStays`), by a second invariant, `HeldInv`: what was acknowledged
  and not changed since is in memory, and also in every snapshot and document on
  its way to the file, so no late writer can undo it. Both assume `KeysMigrated`:
  every initial file with an `api_key` is one that the start migrates and saves,
  as the file of run `config` is. Run `config_legacy_key` starts from one that is not, and
  finding 3 is what happens then. Of a revocation that another save overlaps nothing is proved, as it
  may be undone.

`AdminEdgeProofs` proves, for any number of addresses and requests and any limit,
window, lockout and capacity:

* `LimiterBounded` (`LimiterInvariant`): the sweep and the eviction make room before a
  record is added.
* `LockoutHolds` (`LockoutKept`): from the invariant that a lockout that was imposed
  is still in the map, or that its address is excused by what ended it.
* `GuessesLimited` (`GuessesBounded`), for a limit above one and a lockout longer than the
  window, as in the code (5, and 15 minutes against 10). The record of an address counts
  its guesses since the record began (`Counts`); a locked one admits only what is compared
  already, so its count and the requests under way are at most the limit and all
  requests but one; and a record that ends (`Quiet`) leaves all but its first guess, or after a
  lockout none, within a window of the next. Two records therefore meet in
  no window with more than `2 (Limit - 1) + 2 (|Procs| - 1)` guesses.
* `PageSkipsNothing` (`NoLineSkipped`): an answer under way, and the page itself,
  have read every kept line up to their cursor; the lines of an answer are contiguous.
* `RingIsTail` (`ImplementsTail`): a ring of `Capacity` slots with a wrapping index implements `LogTail`,
  from the arithmetic of the index (`InOrderWritten`).

`ZenResponsesProofs` and `ConversationProofs` are about folds over a whole body and
a whole history, so what a recursive function computes has to be proved for every
sequence. Both modules open with the same lemmas. `NatMin` takes the least element of a set
of numbers from the well-foundedness of `<`; by it, a set of numbers that contains
0 and successors is all of `Nat` (`SetInduction`), and a set of sequences that
contains the empty one and is closed under `Append` has them all (`SeqInduction`). `ScanExists`
and `ScanFollows` say that a function that is defined along `0..n` by steps exists
and follows them, `FlattenAppend` and `FlattenCat` what `FlattenSeq` makes of longer sequences.

`ZenResponsesProofs` proves, for every set of texts, calls, reasons and token counts and any
number of events:

* `Invariant`: the inductive invariant. In the aggregating lane the
  goroutine and its channel are at rest. In the streaming lane the fold of the
  goroutine is `Read(seen, TRUE)`, and the chunks that the client has, followed by those still in
  `pending`, tell exactly that fold (`Delivered`) as long as no chunk was dropped (`Intact`);
  afterwards they tell a beginning of it. `Ends` relates goroutine, channel, pipe and relay:
  a request that is done with a client that stayed has seen the goroutine return, and
  an error in the channel means that the stream could not be completed. `Shape` says that
  the chunks are content only, until the body has come to a proper end, and then content and `Closing`.
* `RelayedInOrder` (`PipeInvariant`) follows.
* `LanesComeToTheSame` (`LanesAgree`): events that are typed are read alike with and without the
  event field (`ReadTyped`), so the fold of the goroutine is the one that the other lane answers
  with; and a stream of content and `Closing` is assembled to that fold (`CompleteTells`).

`ConversationProofs` proves, for every set of messages, texts, names and ids and conversations of
any length:

* `Invariant`: what each upstream was shown last is a prefix of what it would be shown
  of the conversation now. It is inductive because a message more makes each
  translation longer (`AppendIsLonger`). `NothingIsTakenBack` (`PastUntouched`) follows.
* `WhatIsSentBackIsAccepted` (`SentBackIsAccepted`), by induction over the history
  (`Consistency`): it is accepted if and only if it is `Sendable`, and then the table of names
  has an entry for just the ids that an earlier call offered.
* `ResultsAreNamedAfterTheirCalls` (`ResultsNameTheirCalls`), by induction too (`NamesFollow`): the
  table holds the name of the last call with the id among the messages already
  translated, so a result that is translated next gets it, and it stays the last one before the result.
* `BothAreToldTheSame` (`SameConversation`): each side is a map of single messages followed by
  flattening (`MapFlatComposed`), so it is enough that one message is told alike
  (`AcceptedToldAlike`), case by case: a result, an instruction, a speech with its texts, images and calls.

The assumptions are the named ASSUMEs of the modules; TLC evaluates them in
every run.

Every invariant, action property and refinement that a passing run checks is
stated by one of these theorems. Only liveness (`EveryRequestAnswered`,
`ClosedEnds`, `AcceptedSignsIn`, `Settles`) is model-checked alone: it rests on
fairness, which is out of the prover's reach. So is whether the three findings
are reachable; they are TLC's counterexamples.

## 6. Not modelled

* The declared tools (`toolsToCC`, `ensureFreeTools`), token budgets, `resolveModelName`, the
  rest of `shapeFreeBody`, `collapseStream` and the JSON of `types.go`: pure
  reshaping of one document, without order that matters from turn to turn; their
  content is the very detail that the models abstract to a class.
* HTTP itself, headers and diagnostics (`zen_headers.go`, `zen_diagnostic.go`), the probe of one
  account (`handleAdminAccountTest`), the read-only views of the admin API.
* Counters of client keys: they are added to and dropped, never moved.
* Decoding of the four upstream answers a quota is made of (`fetchQuotaSnapshot`):
  one outcome, data or an error.
* Random identifiers, the wording of messages and logs, translations, the static WebUI
  but for its log cursor, flags and listening.

Within the modelled parts: `cfg.APIKeys` is read and written by handlers of client keys without
a lock; the models treat each access as atomic. The lines that a former process left in
the page's cursor, and lines shown twice by overlapping polls, are left out. The first save of
a start stands for two (migration and generated password).

## 7. Plan

Each module keeps its parameters as CONSTANTS and declares no RECURSIVE operator.

1. `AccountPool`, `Failover`; `ChatTurn`, `ChatStream`; `SignIn`, `OAuthFlow`, with
   their proofs. Done.
2. `UsageTracker`, `AdminPlane`; `ConfigStore`; `AdminRateLimiter`, `LogTail`,
   `LogRing`, `AdminEdge`; `ZenResponses`; `Conversation`. Done.
3. Proofs about `AdminPlane`, `ConfigStore`, `AdminEdge`, the rotation of the
   accounts, and what `ChatStream` answers, with the step simulations of
   `LogTail` and `ChatTurn`. Done.
4. Proofs about the two lanes of `ZenResponses` and the translations of `Conversation`,
   by induction over the body and the history. Done.
5. Left: a hazard without a property. The goroutine that waits for a sign-in and
   `handleAdminOAuthComplete` both add its account (`admin.go:1206`), and the later one finds a
   duplicate. `OAuthFlow` has both orders (`AddByCall`, `AddByWaiter`); that the account is there
   all the same is what `AcceptedSignsIn` shows, but nothing in the repository says what the
   pasted link should be answered then.
