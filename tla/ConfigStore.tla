------------------------------ MODULE ConfigStore -------------------------------
(***************************************************************************)
(* How accounts, client keys and settings reach config.yaml and come back: *)
(* the handlers of the admin API that change them (admin.go), the two      *)
(* SyncToConfig (accounts.go, clientkeys.go), saveConfig and loadConfig    *)
(* (config.go), and the model catalogue that follows the accounts          *)
(* (models.go).                                                            *)
(*                                                                         *)
(* A handler changes the pools, copies them into the Config, marshals the  *)
(* Config under cfg.mu and then rewrites the file without any lock.  Only  *)
(* the account handlers exclude each other (gatewayLifecycleMu).           *)
(*                                                                         *)
(* An account belongs to the gateway zen or to the gateway cmdcode, and    *)
(* the code treats the two unlike: only cmdcode has a legacy section, is   *)
(* copied to the Config by every save but that of a key or of the models,  *)
(* and gets accounts from OAuth flows, which take no lock.                 *)
(*                                                                         *)
(* A setting stands for whatever a settings request may change; its value  *)
(* in an empty file is NoSetting, and then the start generates one, the    *)
(* admin password.                                                         *)
(***************************************************************************)
EXTENDS Naturals, FiniteSets

CONSTANTS
    Accounts,     \* upstream accounts: a gateway and an API key
    Zen,          \* those of the gateway zen
    ClientKeys,   \* local bearer keys
    Settings,     \* values of the setting
    Generated,    \* the value a start generates
    NoSetting,
    NoKey,        \* stands for the empty string
    Torn,         \* the bytes two writers, or a crash, have left
    Handlers,     \* HTTP requests and OAuth flows that run at a time
    InitialFiles, \* contents config.yaml may have at the first start
    MaxOps        \* bound: handlers started, ends of the process and saves that fail

State == {"absent", "on", "off"}

Gateways == {"cmdcode", "zen"}
Cmdcode == Accounts \ Zen
GatewayOf(a) == IF a \in Zen THEN "zen" ELSE "cmdcode"

NoAccounts == [a \in Accounts |-> "absent"]
NoSection == [a \in Cmdcode |-> "absent"]
NoClientKeys == [k \in ClientKeys |-> "absent"]

\* The accounts of cmdcode, and p with the accounts of set as they are in q.
Section(p) == [a \in Cmdcode |-> p[a]]
With(p, q, set) == [a \in Accounts |-> IF a \in set THEN q[a] ELSE p[a]]

\* What a file says: legacy is the section commandcode, apiKey the field api_key.
FileData ==
    [legacy : [Cmdcode -> State], accounts : [Accounts -> State],
     keys : [ClientKeys -> State], apiKey : ClientKeys \cup {NoKey},
     setting : Settings \cup {Generated, NoSetting}]

\* A truncated file is a document without any field.
Blank == [legacy |-> NoSection, accounts |-> NoAccounts, keys |-> NoClientKeys,
          apiKey |-> NoKey, setting |-> NoSetting]

\* What saveConfig writes: no section commandcode, and api_key without api_keys only.
Saved == {d \in FileData : d.legacy = NoSection /\ (d.keys # NoClientKeys => d.apiKey = NoKey)}

ASSUME ConfigAssumption ==
    /\ Zen \subseteq Accounts
    /\ InitialFiles \subseteq FileData
    /\ NoKey \notin Accounts \cup ClientKeys
    /\ {Generated, NoSetting, "unknown"} \cap Settings = {} /\ Generated # NoSetting
    /\ Torn \notin FileData
    /\ MaxOps \in Nat
    /\ "main" \notin Handlers /\ "free" \notin Handlers

VARIABLES
    pool,      \* the account pool
    keys,      \* the pool of client keys
    cfg,       \* the Config that is marshalled
    file,      \* config.yaml
    hand,      \* the handlers, and main as it starts
    lock,      \* who holds gatewayLifecycleMu
    catalogue, \* the models listed of a gateway: none, or whose key fetched them
    phase,     \* the life of the process
    ops,       \* bound: handlers started and faults met
    acked,     \* history: changes that were saved alone, and so promised
    revoked,   \* history: client keys whose deletion or disabling was answered with success
    skipped,   \* history: gateways that a handler changed and left without a look at the models
    fresh      \* the client keys that were not generated yet

vars == <<pool, keys, cfg, file, hand, lock, catalogue, phase, ops, acked, revoked, skipped, fresh>>

AccountOps == {"add", "patch", "delete"}
KeyOps == {"keyadd", "keypatch", "keydelete"}
SettingOps == {"settings", "models"}

\* The operations that copy accounts to the Config before they save: those of
\* accounts both gateways, the others cmdcode only.
SyncsAccounts == AccountOps \cup {"oauth", "settings"}
Covered(op) == IF op \in AccountOps THEN Accounts ELSE IF op \in SyncsAccounts THEN Cmdcode ELSE {}

Idle == [op |-> "none", pc |-> "idle", item |-> NoKey, new |-> NoKey, to |-> "keep",
         alone |-> TRUE, snap |-> NoSection, data |-> Blank]

\* Between its change and the end of its write.
Active(h) == hand[h].pc \in {"snap", "assign", "zen", "marshal", "truncate", "write"}

Present(p, g) == {a \in Accounts : GatewayOf(a) = g /\ p[a] # "absent"}
Enabled(p, g) == {a \in Present(p, g) : p[a] = "on"}

\* AccountPool.Primary: an enabled account or, without one, any; nil if there is none.
Primaries(p, g) == IF Enabled(p, g) # {} THEN Enabled(p, g) ELSE Present(p, g)

-----------------------------------------------------------------------------
(***************************************************************************)
(* loadConfig: the legacy section counts if cmdcode has no accounts, the   *)
(* legacy api_key if there are no client keys.                             *)
(***************************************************************************)
Promoted(p, legacy) == IF Section(p) = NoSection THEN With(p, legacy, Cmdcode) ELSE p

Loaded(f) ==
    LET accounts == Promoted(f.accounts, f.legacy)
    IN  [accounts |-> accounts, mirror |-> Section(accounts),
         keys |-> IF f.keys = NoClientKeys /\ f.apiKey # NoKey
                  THEN [NoClientKeys EXCEPT ![f.apiKey] = "on"] ELSE f.keys,
         apiKey |-> f.apiKey,
         setting |-> IF f.setting = NoSetting THEN Generated ELSE f.setting]

\* persistLegacyMigration, and the first password: the start saves the Config,
\* here once for both.
StartSaves(f) == f.legacy # NoSection \/ f.setting = NoSetting

\* saveConfig: the document that is written.
Marshalled(c) ==
    [legacy |-> NoSection, accounts |-> Promoted(c.accounts, c.mirror), keys |-> c.keys,
     apiKey |-> IF c.keys # NoClientKeys THEN NoKey ELSE c.apiKey, setting |-> c.setting]

\* What a start may list: cmdcode is fetched with the key of its primary account
\* even if that one is disabled, zen only with an enabled one.
Listed(p) ==
    {c \in [Gateways -> {"none", "enabled", "disabled"}] : \A g \in Gateways :
        /\ c[g] = "enabled" => Enabled(p, g) # {}
        /\ c[g] = "disabled" => g = "cmdcode" /\ Enabled(p, g) = {} /\ Primaries(p, g) # {}}

\* The process starts: pools, Config and catalogue are those of the file.
Start(f) ==
    /\ cfg' = Loaded(f)
    /\ pool' = cfg'.accounts /\ keys' = cfg'.keys
    /\ phase' = IF StartSaves(f) THEN "boot" ELSE "up"
    /\ hand' = [h \in Handlers \cup {"main"} |->
                  IF h = "main" /\ StartSaves(f) THEN [Idle EXCEPT !.pc = "marshal"] ELSE Idle]
    /\ lock' = "free"
    /\ catalogue' \in Listed(pool')
    /\ skipped' = {}

Init ==
    /\ file \in InitialFiles
    /\ cfg = Loaded(file)
    /\ pool = cfg.accounts /\ keys = cfg.keys
    /\ phase = IF StartSaves(file) THEN "boot" ELSE "up"
    /\ hand = [h \in Handlers \cup {"main"} |->
                 IF h = "main" /\ StartSaves(file) THEN [Idle EXCEPT !.pc = "marshal"] ELSE Idle]
    /\ lock = "free"
    /\ catalogue \in Listed(pool)
    /\ ops = 0
    /\ acked = [a |-> pool, k |-> keys, s |-> cfg.setting]
    /\ revoked = {} /\ skipped = {}
    /\ fresh = {k \in ClientKeys : keys[k] = "absent"}

-----------------------------------------------------------------------------
(***************************************************************************)
(* A handler starts; those of accounts wait for gatewayLifecycleMu.        *)
(***************************************************************************)
\* Mutant: an account is deleted without the lock.
BeginUnlocked(h, op, item, new, to) ==
    /\ phase = "up" /\ hand[h].pc = "idle"
    /\ ops' = ops + 1
    /\ hand' = [hand EXCEPT ![h] = [Idle EXCEPT !.op = op, !.item = item, !.new = new, !.to = to,
                                      !.pc = IF op \in {"add", "patch"} THEN "lock" ELSE "apply"]]
    /\ fresh' = IF op = "keyadd" THEN fresh \ {item} ELSE fresh
    /\ UNCHANGED <<pool, keys, cfg, file, lock, catalogue, phase, acked, revoked, skipped>>

Begin(h, op, item, new, to) ==
    /\ phase = "up" /\ hand[h].pc = "idle"
    /\ ops' = ops + 1
    /\ hand' = [hand EXCEPT ![h] = [Idle EXCEPT !.op = op, !.item = item, !.new = new, !.to = to,
                                      !.pc = IF op \in AccountOps THEN "lock" ELSE "apply"]]
    /\ fresh' = IF op = "keyadd" THEN fresh \ {item} ELSE fresh
    /\ UNCHANGED <<pool, keys, cfg, file, lock, catalogue, phase, acked, revoked, skipped>>

Lock(h) ==
    /\ hand[h].pc = "lock" /\ lock = "free"
    /\ lock' = h
    /\ hand' = [hand EXCEPT ![h].pc = "apply"]
    /\ UNCHANGED <<pool, keys, cfg, file, catalogue, phase, ops, acked, revoked, skipped, fresh>>

\* The handler has changed something and goes on; nobody is alone any more.
Applied(h, next) ==
    hand' = [g \in DOMAIN hand |->
               IF g = h THEN [hand[h] EXCEPT !.pc = next, !.alone = \A x \in Handlers \ {h} : ~Active(x)]
               ELSE [hand[g] EXCEPT !.alone = @ /\ ~Active(g)]]

\* The request is refused; what it changed before stays, unsaved.
Refused(h) ==
    /\ hand' = [g \in DOMAIN hand |->
                  IF g = h THEN Idle ELSE [hand[g] EXCEPT !.alone = @ /\ ~Active(g)]]
    /\ lock' = IF lock = h THEN "free" ELSE lock

\* History: the changes to the accounts of set, or all that were promised, are not.
Unpromised(set) == [a \in Accounts |-> IF a \in set THEN "unknown" ELSE acked.a[a]]
NothingPromised == [a |-> [a \in Accounts |-> "unknown"], k |-> [k \in ClientKeys |-> "unknown"], s |-> "unknown"]

ApplyAdd(h) ==
    /\ hand[h].op \in {"add", "oauth"} /\ hand[h].pc = "apply"
    /\ \/ /\ pool[hand[h].item] # "absent"
          /\ Refused(h)
          /\ UNCHANGED <<pool, acked>>
       \/ /\ pool[hand[h].item] = "absent"
          /\ pool' = [pool EXCEPT ![hand[h].item] = "on"]
          /\ acked' = [acked EXCEPT !.a = Unpromised({hand[h].item})]
          /\ Applied(h, "snap")
          /\ UNCHANGED lock
    /\ UNCHANGED <<keys, cfg, file, catalogue, phase, ops, revoked, skipped, fresh>>

\* PATCH sets enabled first and then the key: a key that is taken is refused
\* when enabled has already changed.
ApplyPatch(h) ==
    LET a == hand[h].item
        new == hand[h].new
        toggled == IF hand[h].to = "keep" THEN pool[a] ELSE hand[h].to
        touched == {x \in {a} : toggled # pool[x]}
    IN  /\ hand[h].op = "patch" /\ hand[h].pc = "apply"
        /\ \/ /\ pool[a] = "absent"
              /\ Refused(h)
              /\ UNCHANGED <<pool, acked, skipped>>
           \/ /\ pool[a] # "absent" /\ new \in Accounts \ {a} /\ pool[new] # "absent"
              /\ pool' = [pool EXCEPT ![a] = toggled]
              /\ acked' = [acked EXCEPT !.a = Unpromised(touched)]
              /\ skipped' = skipped \cup {GatewayOf(x) : x \in touched}
              /\ Refused(h)
           \/ /\ pool[a] # "absent" /\ new \in {a, NoKey}
              /\ pool' = [pool EXCEPT ![a] = toggled]
              /\ acked' = [acked EXCEPT !.a = Unpromised({a})]
              /\ Applied(h, "snap")
              /\ UNCHANGED <<lock, skipped>>
           \/ /\ pool[a] # "absent" /\ new \in Accounts \ {a} /\ pool[new] = "absent"
              /\ pool' = [pool EXCEPT ![a] = "absent", ![new] = toggled]
              /\ acked' = [acked EXCEPT !.a = Unpromised({a, new})]
              /\ Applied(h, "snap")
              /\ UNCHANGED <<lock, skipped>>
        /\ UNCHANGED <<keys, cfg, file, catalogue, phase, ops, revoked, fresh>>

ApplyDelete(h) ==
    /\ hand[h].op = "delete" /\ hand[h].pc = "apply"
    /\ \/ /\ pool[hand[h].item] = "absent"
          /\ Refused(h)
          /\ UNCHANGED <<pool, acked>>
       \/ /\ pool[hand[h].item] # "absent"
          /\ pool' = [pool EXCEPT ![hand[h].item] = "absent"]
          /\ acked' = [acked EXCEPT !.a = Unpromised({hand[h].item})]
          /\ Applied(h, "snap")
          /\ UNCHANGED lock
    /\ UNCHANGED <<keys, cfg, file, catalogue, phase, ops, revoked, skipped, fresh>>

\* Mutant: a client key that is deleted is not copied to the Config.
ApplyKeyUnsynced(h) ==
    LET k == hand[h].item
    IN  /\ hand[h].op \in KeyOps /\ hand[h].pc = "apply"
        /\ \/ /\ hand[h].op # "keyadd" /\ keys[k] = "absent"
              /\ Refused(h)
              /\ UNCHANGED <<keys, acked, revoked>>
           \/ /\ hand[h].op = "keyadd" \/ keys[k] # "absent"
              /\ keys' = [keys EXCEPT ![k] = hand[h].to]
              /\ acked' = [acked EXCEPT !.k[k] = "unknown"]
              /\ revoked' = IF hand[h].to = "on" THEN revoked \ {k} ELSE revoked
              /\ Applied(h, IF hand[h].op = "keydelete" THEN "marshal" ELSE "snap")
              /\ UNCHANGED lock
        /\ UNCHANGED <<pool, cfg, file, catalogue, phase, ops, skipped, fresh>>

\* The client keys; to is the state the key gets.
ApplyKey(h) ==
    LET k == hand[h].item
    IN  /\ hand[h].op \in KeyOps /\ hand[h].pc = "apply"
        /\ \/ /\ hand[h].op # "keyadd" /\ keys[k] = "absent"
              /\ Refused(h)
              /\ UNCHANGED <<keys, acked, revoked>>
           \/ /\ hand[h].op = "keyadd" \/ keys[k] # "absent"
              /\ keys' = [keys EXCEPT ![k] = hand[h].to]
              /\ acked' = [acked EXCEPT !.k[k] = "unknown"]
              /\ revoked' = IF hand[h].to = "on" THEN revoked \ {k} ELSE revoked
              /\ Applied(h, "snap")
              /\ UNCHANGED lock
        /\ UNCHANGED <<pool, cfg, file, catalogue, phase, ops, skipped, fresh>>

\* Mutant: the settings are saved without the accounts of the pool.
ApplySettingUnsynced(h) ==
    /\ hand[h].op \in SettingOps /\ hand[h].pc = "apply"
    /\ cfg' = [cfg EXCEPT !.setting = hand[h].item]
    /\ acked' = [acked EXCEPT !.s = "unknown"]
    /\ \/ hand[h].to = "refuse" /\ Refused(h)
       \/ /\ hand[h].to # "refuse"
          /\ Applied(h, "marshal")
          /\ UNCHANGED lock
    /\ UNCHANGED <<pool, keys, file, catalogue, phase, ops, revoked, skipped, fresh>>

\* PUT of the settings or of the models listed.  Settings with an empty base
\* URL are refused when the exclusions have already changed.
ApplySetting(h) ==
    /\ hand[h].op \in SettingOps /\ hand[h].pc = "apply"
    /\ cfg' = [cfg EXCEPT !.setting = hand[h].item]
    /\ acked' = [acked EXCEPT !.s = "unknown"]
    /\ \/ hand[h].to = "refuse" /\ Refused(h)
       \/ /\ hand[h].to # "refuse"
          /\ Applied(h, IF hand[h].op = "settings" THEN "snap" ELSE "marshal")
          /\ UNCHANGED lock
    /\ UNCHANGED <<pool, keys, file, catalogue, phase, ops, revoked, skipped, fresh>>

Apply(h) == ApplyAdd(h) \/ ApplyPatch(h) \/ ApplyDelete(h) \/ ApplyKey(h) \/ ApplySetting(h)

-----------------------------------------------------------------------------
(***************************************************************************)
(* SyncToConfig takes its snapshot under the lock of the pool and stores   *)
(* it later, under cfg.mu or, for client keys, under no lock.              *)
(* persistGatewayPools then copies the accounts of zen, which change under *)
(* gatewayLifecycleMu only, and that it holds.                             *)
(***************************************************************************)
Snap(h) ==
    /\ hand[h].pc = "snap"
    /\ hand' = [hand EXCEPT ![h].pc = "assign",
                            ![h].snap = IF hand[h].op \in SyncsAccounts THEN Section(pool) ELSE keys]
    /\ UNCHANGED <<pool, keys, cfg, file, lock, catalogue, phase, ops, acked, revoked, skipped, fresh>>

\* Mutant: the legacy mirror keeps the accounts it had.
AssignUnmirrored(h) ==
    /\ hand[h].pc = "assign"
    /\ cfg' = IF hand[h].op \in SyncsAccounts
              THEN [cfg EXCEPT !.accounts = With(@, hand[h].snap, Cmdcode)]
              ELSE [cfg EXCEPT !.keys = hand[h].snap,
                               !.apiKey = IF hand[h].snap = NoClientKeys THEN @ ELSE NoKey]
    /\ hand' = [hand EXCEPT ![h].pc = IF hand[h].op \in AccountOps THEN "zen" ELSE "marshal",
                            ![h].snap = NoSection]
    /\ UNCHANGED <<pool, keys, file, lock, catalogue, phase, ops, acked, revoked, skipped, fresh>>

Assign(h) ==
    /\ hand[h].pc = "assign"
    /\ cfg' = IF hand[h].op \in SyncsAccounts
              THEN [cfg EXCEPT !.accounts = With(@, hand[h].snap, Cmdcode), !.mirror = hand[h].snap]
              ELSE [cfg EXCEPT !.keys = hand[h].snap,
                               !.apiKey = IF hand[h].snap = NoClientKeys THEN @ ELSE NoKey]
    /\ hand' = [hand EXCEPT ![h].pc = IF hand[h].op \in AccountOps THEN "zen" ELSE "marshal",
                            ![h].snap = NoSection]
    /\ UNCHANGED <<pool, keys, file, lock, catalogue, phase, ops, acked, revoked, skipped, fresh>>

AssignZen(h) ==
    /\ hand[h].pc = "zen"
    /\ cfg' = [cfg EXCEPT !.accounts = With(@, pool, Zen)]
    /\ hand' = [hand EXCEPT ![h].pc = "marshal"]
    /\ UNCHANGED <<pool, keys, file, lock, catalogue, phase, ops, acked, revoked, skipped, fresh>>

-----------------------------------------------------------------------------
(***************************************************************************)
(* saveConfig: the document is made under cfg.mu; os.WriteFile truncates   *)
(* the file and writes it later.  What is written over the bytes of        *)
(* another writer may leave some of them behind.                           *)
(***************************************************************************)
Marshal(h) ==
    /\ hand[h].pc = "marshal"
    /\ LET d == Marshalled(cfg)
       IN  /\ cfg' = [cfg EXCEPT !.accounts = d.accounts, !.mirror = Section(d.accounts),
                                !.apiKey = d.apiKey]
           /\ hand' = [hand EXCEPT ![h].pc = "truncate", ![h].data = d]
    /\ UNCHANGED <<pool, keys, file, lock, catalogue, phase, ops, acked, revoked, skipped, fresh>>

Truncate(h) ==
    /\ hand[h].pc = "truncate"
    /\ file' = Blank
    /\ hand' = [hand EXCEPT ![h].pc = "write"]
    /\ UNCHANGED <<pool, keys, cfg, lock, catalogue, phase, ops, acked, revoked, skipped, fresh>>

\* A change is promised if no other one was under way.
Promise(h) ==
    IF ~hand[h].alone THEN acked
    ELSE IF hand[h].op \in AccountOps \cup {"oauth"}
         THEN [acked EXCEPT !.a = [a \in Accounts |->
                 IF a \in {hand[h].item, hand[h].new} THEN pool[a] ELSE @[a]]]
    ELSE IF hand[h].op \in KeyOps THEN [acked EXCEPT !.k[hand[h].item] = hand[h].to]
    ELSE IF hand[h].op \in SettingOps THEN [acked EXCEPT !.s = hand[h].item]
    ELSE acked

\* The answer says that the key is gone or disabled, and so it is in memory.
Revoked(h) ==
    {k \in ClientKeys : hand[h].op \in KeyOps /\ k = hand[h].item /\ hand[h].to # "on" /\ keys[k] = hand[h].to}

\* A handler that changed an account looks at the models next.
Checking(h) == [Idle EXCEPT !.op = hand[h].op, !.item = hand[h].item, !.pc = "check"]

\* Mutant: the catalogue is not fetched again when an account was deleted.
WriteDeleted(h) ==
    /\ hand[h].pc = "write"
    /\ file' \in IF file \in {Blank, hand[h].data} THEN {hand[h].data} ELSE {hand[h].data, Torn}
    /\ acked' = Promise(h)
    /\ revoked' = revoked \cup Revoked(h)
    /\ hand' = [hand EXCEPT ![h] = IF hand[h].op \in (AccountOps \ {"delete"}) \cup {"oauth"}
                                   THEN Checking(h) ELSE Idle]
    /\ lock' = IF lock = h /\ hand[h].op = "delete" THEN "free" ELSE lock
    /\ phase' = IF h = "main" THEN "up" ELSE phase
    /\ UNCHANGED <<pool, keys, cfg, catalogue, ops, skipped, fresh>>

Write(h) ==
    /\ hand[h].pc = "write"
    /\ file' \in IF file \in {Blank, hand[h].data} THEN {hand[h].data} ELSE {hand[h].data, Torn}
    /\ acked' = Promise(h)
    /\ revoked' = revoked \cup Revoked(h)
    /\ hand' = [hand EXCEPT ![h] = IF hand[h].op \in AccountOps \cup {"oauth"} THEN Checking(h) ELSE Idle]
    /\ phase' = IF h = "main" THEN "up" ELSE phase
    /\ UNCHANGED <<pool, keys, cfg, lock, catalogue, ops, skipped, fresh>>

Persist(h) == Snap(h) \/ Assign(h) \/ AssignZen(h) \/ Marshal(h) \/ Truncate(h) \/ Write(h)

\* The handler has ended.
Done(h) ==
    /\ hand' = [hand EXCEPT ![h] = Idle]
    /\ lock' = IF lock = h THEN "free" ELSE lock

\* os.WriteFile fails: it does not open the file, or leaves it cut short.  The
\* request is answered with an error and the models are not looked at, but what
\* has changed in memory stays.
SaveFails(h) ==
    /\ hand[h].pc \in {"truncate", "write"}
    /\ ops < MaxOps
    /\ ops' = ops + 1
    /\ file' \in IF hand[h].pc = "write" THEN {file, Torn} ELSE {file}
    /\ acked' = IF hand[h].pc = "write" THEN NothingPromised ELSE acked
    /\ skipped' = IF hand[h].op \in {"patch", "delete"} THEN skipped \cup {GatewayOf(hand[h].item)} ELSE skipped
    /\ Done(h)
    /\ UNCHANGED <<pool, keys, cfg, catalogue, phase, revoked, fresh>>

-----------------------------------------------------------------------------
(***************************************************************************)
(* refreshGatewayCatalog, of the gateway whose account was changed:        *)
(* without an enabled account its models are cleared, otherwise they are   *)
(* fetched with the key of the primary account, a second look at the pool. *)
(***************************************************************************)
Check(h) ==
    LET g == GatewayOf(hand[h].item)
    IN  /\ hand[h].pc = "check"
        /\ \/ /\ Enabled(pool, g) = {}
              /\ catalogue' = [catalogue EXCEPT ![g] = "none"]
              /\ Done(h)
           \/ /\ Enabled(pool, g) # {}
              /\ hand' = [hand EXCEPT ![h].pc = "primary"]
              /\ UNCHANGED <<catalogue, lock>>
        /\ skipped' = skipped \ {g}
        /\ UNCHANGED <<pool, keys, cfg, file, phase, ops, acked, revoked, fresh>>

Primary(h) ==
    /\ hand[h].pc = "primary" /\ Primaries(pool, GatewayOf(hand[h].item)) # {}
    /\ hand' = [hand EXCEPT ![h].pc = "fetch"]
    /\ UNCHANGED <<pool, keys, cfg, file, lock, catalogue, phase, ops, acked, revoked, skipped, fresh>>

\* A fetch that fails keeps what there was.
Fetch(h) ==
    /\ hand[h].pc = "fetch"
    /\ catalogue' \in {catalogue, [catalogue EXCEPT ![GatewayOf(hand[h].item)] =
                                     IF lock = h THEN "enabled" ELSE "oauth"]}
    /\ Done(h)
    /\ UNCHANGED <<pool, keys, cfg, file, phase, ops, acked, revoked, skipped, fresh>>

Refresh(h) == Check(h) \/ Primary(h) \/ Fetch(h)

-----------------------------------------------------------------------------
(***************************************************************************)
(* The process ends at any moment and starts again.  A write that is cut   *)
(* short leaves part of its document, and then nothing is promised.        *)
(***************************************************************************)
End ==
    LET writing == \E h \in DOMAIN hand : hand[h].pc = "write"
    IN  /\ file' \in IF writing THEN {file, Torn} ELSE {file}
        /\ \/ file' # Torn /\ Start(file')
           \/ /\ file' = Torn
              /\ phase' = "broken"
              /\ UNCHANGED <<pool, keys, cfg, hand, lock, catalogue, skipped>>
        /\ acked' = IF writing THEN NothingPromised ELSE acked
        /\ UNCHANGED <<revoked, fresh>>

Crash ==
    /\ phase \in {"boot", "up"} /\ ops < MaxOps
    /\ ops' = ops + 1
    /\ End

\* An OAuth flow finds an empty pool although there was an account when it
\* checked, and dereferences nil: in its goroutine that ends the process, in the
\* request with a pasted link net/http recovers.
Panic(h) ==
    /\ hand[h].pc = "primary" /\ hand[h].op = "oauth" /\ Primaries(pool, "cmdcode") = {}
    /\ UNCHANGED ops
    /\ \/ End
       \/ /\ Done(h)
          /\ UNCHANGED <<pool, keys, cfg, file, catalogue, phase, acked, revoked, skipped, fresh>>

-----------------------------------------------------------------------------
Alive == phase \in {"boot", "up"}

\* A request that finds nothing to change and is answered without a save is left
\* out; if it would find something when its turn comes, one that arrives then
\* does the same.
Request(h) ==
    \/ \E a \in Accounts : pool[a] = "absent" /\ Begin(h, "add", a, NoKey, "keep")
    \/ \E a \in Accounts : pool[a] # "absent" /\ Begin(h, "delete", a, NoKey, "keep")
    \/ \E a \in Cmdcode : pool[a] = "absent" /\ Begin(h, "oauth", a, NoKey, "keep")
    \/ \E a \in Accounts, new \in Accounts \cup {NoKey}, to \in {"keep", "on", "off"} :
          /\ new \in Accounts => new # a /\ GatewayOf(new) = GatewayOf(a)
          /\ pool[a] # "absent" /\ (new = NoKey => to # "keep")
          /\ Begin(h, "patch", a, new, to)
    \/ \E k \in fresh : Begin(h, "keyadd", k, NoKey, "on")
    \/ \E k \in ClientKeys, to \in {"on", "off"} : keys[k] # "absent" /\ Begin(h, "keypatch", k, NoKey, to)
    \/ \E k \in ClientKeys : keys[k] # "absent" /\ Begin(h, "keydelete", k, NoKey, "absent")
    \/ \E v \in Settings : Begin(h, "settings", v, NoKey, "keep")
    \/ \E v \in Settings \ {cfg.setting} : Begin(h, "settings", v, NoKey, "refuse")
    \/ \E v \in Settings : Begin(h, "models", v, NoKey, "keep")

Next ==
    \/ ops < MaxOps /\ \E h \in Handlers : Request(h)
    \/ Alive /\ \E h \in Handlers : Lock(h) \/ Apply(h) \/ SaveFails(h) \/ Refresh(h) \/ Panic(h)
    \/ Alive /\ \E h \in Handlers \cup {"main"} : Persist(h)
    \/ Crash

Spec == Init /\ [][Next]_vars

-----------------------------------------------------------------------------
Config ==
    [accounts : [Accounts -> State], mirror : [Cmdcode -> State], keys : [ClientKeys -> State],
     apiKey : ClientKeys \cup {NoKey}, setting : Settings \cup {Generated}]

Handling ==
    [op : AccountOps \cup KeyOps \cup SettingOps \cup {"oauth", "none"},
     pc : {"idle", "lock", "apply", "snap", "assign", "zen", "marshal", "truncate", "write",
           "check", "primary", "fetch"},
     item : Accounts \cup ClientKeys \cup Settings \cup {NoKey},
     new : Accounts \cup {NoKey}, to : State \cup {"keep", "refuse"}, alone : BOOLEAN,
     snap : [Cmdcode -> State] \cup [ClientKeys -> State], data : Saved]

TypeOK ==
    /\ pool \in [Accounts -> State] /\ keys \in [ClientKeys -> State]
    /\ cfg \in Config
    /\ file \in Saved \cup {Torn} \cup InitialFiles
    /\ hand \in [Handlers \cup {"main"} -> Handling]
    /\ lock \in Handlers \cup {"free"}
    /\ catalogue \in [Gateways -> {"none", "enabled", "oauth", "disabled"}]
    /\ phase \in {"boot", "up", "broken"}
    /\ ops \in 0..MaxOps
    /\ acked \in [a : [Accounts -> State \cup {"unknown"}],
                  k : [ClientKeys -> State \cup {"unknown"}],
                  s : Settings \cup {Generated, "unknown"}]
    /\ revoked \subseteq ClientKeys /\ skipped \subseteq Gateways /\ fresh \subseteq ClientKeys

(***************************************************************************)
(* Once a change is saved, and no other one was under way with it, every   *)
(* later start finds it, whatever other changes overlap afterwards,        *)
(* wherever they stop and even if they are refused: config.yaml holds it,  *)
(* except while it is rewritten or when two writers have torn it.  After a *)
(* write that failed halfway nothing is promised any more.                 *)
(***************************************************************************)
AcknowledgedOnDisk ==
    file # Torn /\ (\A h \in DOMAIN hand : hand[h].pc # "write") =>
        /\ \A a \in Accounts : acked.a[a] \in {"unknown", Loaded(file).accounts[a]}
        /\ \A k \in ClientKeys : acked.k[k] \in {"unknown", Loaded(file).keys[k]}
        /\ acked.s \in {"unknown", Loaded(file).setting}

\* authMiddleware lets a request with this key pass.
Admits(k) == keys[k] = "on"

(***************************************************************************)
(* A client key whose deletion or disabling was answered with success does *)
(* not open the gateway again, not even after a restart. The code does not *)
(* keep this in general: not if the key was also in the field api_key, and *)
(* not if another save overlapped the revocation.                          *)
(***************************************************************************)
RevokedKeysRejected == \A k \in revoked : ~Admits(k)

(***************************************************************************)
(* A client key that was deleted or disabled while no other change was     *)
(* under way, from the change to the end of its save, does not open the    *)
(* gateway again, not even after a restart and whatever overlaps later. A  *)
(* revocation that another save overlapped is not covered: a document that *)
(* was made before it and is written after it brings the key back with the *)
(* next start.                                                             *)
(***************************************************************************)
LoneRevocationStays ==
    \A k \in ClientKeys : Admits(k) => acked.k[k] \in {"on", "unknown"}

(***************************************************************************)
(* A save that runs alone repairs what overlapping, refused and failed     *)
(* ones have lost: the file then has what its operation covers exactly as  *)
(* memory has it.  A save of the settings or of an OAuth flow covers the   *)
(* accounts of cmdcode and not those of zen.                               *)
(***************************************************************************)
LoneSaveRepairs ==
    [][\A h \in Handlers :
          Write(h) /\ hand[h].alone =>
             /\ file' # Torn
             /\ \A a \in Covered(hand[h].op) : file'.accounts[a] = pool[a]
             /\ hand[h].op \in KeyOps => file'.keys = keys
             /\ hand[h].op \in SettingOps => file'.setting = cfg.setting]_vars

(***************************************************************************)
(* Between its check and its fetch nobody takes the last enabled account   *)
(* away from the holder of gatewayLifecycleMu: it neither dereferences nil *)
(* nor uses the key of a disabled account.  An OAuth flow, which does not  *)
(* hold it, may do either.                                                 *)
(***************************************************************************)
LockInvariant ==
    /\ TypeOK
    /\ \A h \in Handlers :
          lock = h /\ hand[h].pc = "primary" => Enabled(pool, GatewayOf(hand[h].item)) # {}

(***************************************************************************)
(* No models of a gateway are listed once its last enabled account has     *)
(* gone, unless the handler that took it away never came to look: its      *)
(* request was refused halfway, or its save failed.  Those of cmdcode may  *)
(* also be the ones that a start with disabled accounts only has fetched,  *)
(* or those of an OAuth flow, which takes no lock, whose fetch came late.  *)
(***************************************************************************)
CatalogueFollows ==
    phase = "up" /\ lock = "free" =>
        \A g \in Gateways \ skipped :
            Enabled(pool, g) = {} =>
                catalogue[g] \in IF g = "zen" THEN {"none"} ELSE {"none", "disabled", "oauth"}

================================================================================
