--------------------------- MODULE ConfigStoreProofs ---------------------------
(***************************************************************************)
(* Proofs about ConfigStore, for any number of accounts of both gateways,  *)
(* client keys, settings, handlers, ends of the process and failed saves:  *)
(* who holds the lock finds an enabled account, the catalogue of each      *)
(* gateway follows its accounts, a save that runs alone repairs the file,  *)
(* and what was promised stays on disk.                                    *)
(***************************************************************************)
EXTENDS ConfigStore, TLAPS

-----------------------------------------------------------------------------
(***************************************************************************)
(* The inductive invariant.                                                *)
(***************************************************************************)

\* A handler at work.
Working(h) == hand[h].pc # "idle"

\* What a handler works on belongs to its operation; only main has none.
ItemTyped(h) ==
    /\ hand[h].op \in AccountOps => hand[h].item \in Accounts
    /\ hand[h].op = "oauth" => hand[h].item \in Cmdcode /\ hand[h].new = NoKey
    /\ hand[h].op = "patch" =>
          /\ hand[h].to \in State \cup {"keep"}
          /\ hand[h].new \in Accounts => GatewayOf(hand[h].new) = GatewayOf(hand[h].item)
    /\ hand[h].op \in KeyOps => hand[h].item \in ClientKeys /\ hand[h].to \in State
    /\ hand[h].op \in SettingOps => hand[h].item \in Settings
    /\ hand[h].op # "none"

ItemsTyped == \A h \in Handlers : Working(h) => ItemTyped(h)

SnapTyped(h) ==
    hand[h].snap \in IF hand[h].op \in SyncsAccounts THEN [Cmdcode -> State] ELSE [ClientKeys -> State]

SnapsTyped == \A h \in Handlers : hand[h].pc = "assign" => SnapTyped(h)

\* main saves before the handlers start, and then never again.
Booting ==
    /\ hand["main"].op = "none"
    /\ hand["main"].pc \in {"idle", "marshal", "truncate", "write"}
    /\ phase = "up" => hand["main"].pc = "idle"
    /\ phase = "boot" => \A h \in Handlers : hand[h].pc = "idle"

\* The lock is held from the change of an account to the end of its handler.
HoldsLock(h) == hand[h].op \in AccountOps /\ hand[h].pc \notin {"idle", "lock"}

\* Some places are those of certain operations only.
Placed(h) ==
    /\ hand[h].pc \in {"lock", "zen"} => hand[h].op \in AccountOps
    /\ hand[h].pc \in {"check", "primary", "fetch"} => hand[h].op \in AccountOps \cup {"oauth"}

LockHeld == \A h \in Handlers : (lock = h <=> HoldsLock(h)) /\ Placed(h)

\* Who holds the lock and has counted an enabled account of its gateway, or has
\* added one, may rely on it: nobody else takes the last one away.
Relies(h) == hand[h].pc \in {"primary", "fetch"} \/ (hand[h].op = "add" /\ Active(h))

PrimaryKept ==
    \A h \in Handlers : lock = h /\ Relies(h) => Enabled(pool, GatewayOf(hand[h].item)) # {}

\* If the models of a gateway outlive its accounts, the handler that will clear
\* them is at work, or one has left without a look.
WillClear(h, g) == lock = h /\ GatewayOf(hand[h].item) = g /\ (Active(h) \/ hand[h].pc = "check")

CatalogueKept ==
    /\ catalogue["zen"] \in {"none", "enabled"}
    /\ phase # "broken" =>
          \A g \in Gateways \ skipped :
             catalogue[g] = "enabled" /\ Enabled(pool, g) = {} => \E h \in Handlers : WillClear(h, g)

Mirrored == cfg.mirror = Section(cfg.accounts)

\* The accounts of set are in p as they are in the pool.
Copied(p, set) == \A a \in set : p[a] = pool[a]

\* A handler that is alone carries exactly what memory has.
Carries(h) ==
    LET r == hand[h]
        saved == r.pc \in {"truncate", "write"}
        stored == r.pc = "marshal" \/ saved
    IN  /\ \A x \in Handlers \ {h} : ~Active(x)
        /\ r.op \in SyncsAccounts =>
              /\ r.pc = "assign" => Copied(r.snap, Cmdcode)
              /\ r.pc = "zen" => Copied(cfg.accounts, Cmdcode)
              /\ stored => Copied(cfg.accounts, Covered(r.op))
              /\ saved => Copied(r.data.accounts, Covered(r.op))
        /\ r.op \in KeyOps =>
              /\ r.pc = "assign" => r.snap = keys
              /\ stored => cfg.keys = keys
              /\ saved => r.data.keys = keys
              /\ keys[r.item] = r.to
        /\ r.op \in SettingOps =>
              /\ cfg.setting = r.item
              /\ saved => r.data.setting = r.item
        /\ r.pc = "write" => file = Blank

Alone == phase # "broken" => \A h \in Handlers : Active(h) /\ hand[h].alone => Carries(h)

IInv ==
    /\ TypeOK
    /\ ItemsTyped /\ SnapsTyped /\ Booting /\ Mirrored
    /\ LockHeld /\ PrimaryKept /\ CatalogueKept /\ Alone

-----------------------------------------------------------------------------
(***************************************************************************)
(* What was promised is in memory and in all that may yet be written.      *)
(***************************************************************************)
AccountsHeld(p) == \A a \in Accounts : acked.a[a] \in {"unknown", p[a]}
SectionHeld(p) == \A a \in Cmdcode : acked.a[a] \in {"unknown", p[a]}
KeysHeld(p) == \A k \in ClientKeys : acked.k[k] \in {"unknown", p[k]}
SettingHeld(v) == acked.s \in {"unknown", v}

MemoryHeld ==
    /\ AccountsHeld(pool) /\ AccountsHeld(cfg.accounts)
    /\ KeysHeld(keys) /\ KeysHeld(cfg.keys)
    /\ SettingHeld(cfg.setting)

SnapsHeld ==
    \A h \in Handlers :
        hand[h].pc = "assign" =>
            IF hand[h].op \in SyncsAccounts THEN SectionHeld(hand[h].snap)
            ELSE KeysHeld(hand[h].snap)

DataHeld ==
    \A h \in Handlers \cup {"main"} :
        hand[h].pc \in {"truncate", "write"} =>
            /\ AccountsHeld(hand[h].data.accounts) /\ KeysHeld(hand[h].data.keys)
            /\ SettingHeld(hand[h].data.setting)
            /\ hand[h].data.apiKey = NoKey

\* api_key is in files that the start saves, and gone once it has.
LegacyKeyGone ==
    /\ file # Torn => file.apiKey = NoKey \/ StartSaves(file)
    /\ cfg.apiKey # NoKey =>
          phase # "up" /\ hand["main"].pc = "marshal" /\ cfg.keys # NoClientKeys

HeldInv == MemoryHeld /\ SnapsHeld /\ DataHeld /\ LegacyKeyGone /\ AcknowledgedOnDisk

-----------------------------------------------------------------------------
(***************************************************************************)
(* Types.                                                                  *)
(***************************************************************************)
All == Handlers \cup {"main"}

PCs == {"idle", "lock", "apply", "snap", "assign", "zen", "marshal", "truncate", "write",
        "check", "primary", "fetch"}

LEMMA Handles == "main" \notin Handlers /\ "free" \notin Handlers /\ Handlers \subseteq All /\ "main" \in All
  BY ConfigAssumption DEF All

LEMMA SavedIsData == Saved \subseteq FileData /\ InitialFiles \subseteq FileData /\ Torn \notin FileData
  BY ConfigAssumption DEF Saved

LEMMA Nothing ==
    /\ NoAccounts \in [Accounts -> State] /\ NoSection \in [Cmdcode -> State]
    /\ NoClientKeys \in [ClientKeys -> State]
  BY DEF NoAccounts, NoSection, NoClientKeys, State

LEMMA Gatewayed ==
    /\ Zen \subseteq Accounts /\ Cmdcode \subseteq Accounts /\ Zen \cap Cmdcode = {}
    /\ Accounts = Zen \cup Cmdcode
    /\ \A a : GatewayOf(a) \in Gateways
    /\ \A a \in Accounts : a \in Cmdcode <=> GatewayOf(a) = "cmdcode"
  BY ConfigAssumption DEF Cmdcode, GatewayOf, Gateways

LEMMA CoveredFacts ==
    /\ \A op : Covered(op) \subseteq Accounts
    /\ \A op \in AccountOps : Covered(op) = Accounts
    /\ \A op \in {"oauth", "settings"} : Covered(op) = Cmdcode
    /\ \A op \in SyncsAccounts : Cmdcode \subseteq Covered(op)
    /\ \A op \in SyncsAccounts \ AccountOps : Covered(op) = Cmdcode
  BY Gatewayed DEF Covered, SyncsAccounts, AccountOps

\* Parts of the accounts, put together and taken apart.
LEMMA WithFacts ==
    ASSUME NEW p \in [Accounts -> State], NEW set \in SUBSET Accounts, NEW q \in [set -> State]
    PROVE  /\ With(p, q, set) \in [Accounts -> State]
           /\ \A a \in set : With(p, q, set)[a] = q[a]
           /\ \A a \in Accounts \ set : With(p, q, set)[a] = p[a]
  BY DEF With

LEMMA SectionFacts ==
    ASSUME NEW p \in [Accounts -> State]
    PROVE  /\ Section(p) \in [Cmdcode -> State]
           /\ \A a \in Cmdcode : Section(p)[a] = p[a]
           /\ Promoted(p, Section(p)) = p
<1>1. Section(p) \in [Cmdcode -> State] /\ \A a \in Cmdcode : Section(p)[a] = p[a]
  BY Gatewayed DEF Section
<1> DEFINE put == With(p, Section(p), Cmdcode)
<1>2. put = [a \in Accounts |-> IF a \in Cmdcode THEN Section(p)[a] ELSE p[a]]
  BY DEF With
<1>3. put = p
  BY <1>1, <1>2
<1>4. Promoted(p, Section(p)) = IF Section(p) = NoSection THEN put ELSE p
  BY DEF Promoted
<1> QED
  BY <1>1, <1>3, <1>4

\* The section of cmdcode when the accounts of a gateway are stored.
LEMMA StoredSection ==
    ASSUME NEW p \in [Accounts -> State]
    PROVE  /\ \A s \in [Cmdcode -> State] : Section(With(p, s, Cmdcode)) = s
           /\ \A q \in [Accounts -> State] : Section(With(p, q, Zen)) = Section(p)
<1>1. ASSUME NEW s \in [Cmdcode -> State] PROVE Section(With(p, s, Cmdcode)) = s
  BY Gatewayed DEF Section, With
<1>2. ASSUME NEW q \in [Accounts -> State] PROVE Section(With(p, q, Zen)) = Section(p)
  BY Gatewayed DEF Section, With
<1> QED
  BY <1>1, <1>2

LEMMA PromotedTypes ==
    ASSUME NEW p \in [Accounts -> State], NEW s \in [Cmdcode -> State]
    PROVE  Promoted(p, s) \in [Accounts -> State]
  BY Gatewayed, WithFacts DEF Promoted

LEMMA BlankSaved == Blank \in Saved
  BY Nothing DEF Blank, Saved, FileData

LEMMA IdleTypes ==
    /\ Idle \in Handling
    /\ Idle.op = "none" /\ Idle.pc = "idle"
<1>1. [op |-> "none", pc |-> "idle", item |-> NoKey, new |-> NoKey, to |-> "keep",
       alone |-> TRUE, snap |-> NoSection, data |-> Blank] \in Handling
  BY Nothing, BlankSaved DEF Handling
<1> QED
  BY <1>1 DEF Idle

\* The fields of a Config that was loaded.
LEMMA LoadedTypes ==
    ASSUME NEW f \in FileData
    PROVE  /\ Loaded(f) \in Config
           /\ Loaded(f).mirror = Section(Loaded(f).accounts)
<1> DEFINE accounts == Promoted(f.accounts, f.legacy)
           mirror == Section(accounts)
           ks == IF f.keys = NoClientKeys /\ f.apiKey # NoKey
                 THEN [NoClientKeys EXCEPT ![f.apiKey] = "on"] ELSE f.keys
           setting == IF f.setting = NoSetting THEN Generated ELSE f.setting
<1>1. Loaded(f) = [accounts |-> accounts, mirror |-> mirror, keys |-> ks,
                   apiKey |-> f.apiKey, setting |-> setting]
  BY DEF Loaded
<1>2. accounts \in [Accounts -> State]
  BY PromotedTypes DEF FileData
<1>3. ks \in [ClientKeys -> State]
  BY Nothing DEF FileData, State
<1>4. setting \in Settings \cup {Generated} /\ f.apiKey \in ClientKeys \cup {NoKey}
  BY DEF FileData
<1> HIDE DEF accounts, ks, setting
<1>5. mirror \in [Cmdcode -> State]
  BY <1>2, SectionFacts
<1> HIDE DEF mirror
<1>6. Loaded(f) \in Config
  BY <1>1, <1>2, <1>3, <1>4, <1>5 DEF Config
<1>7. Loaded(f).mirror = mirror /\ Loaded(f).accounts = accounts
  BY <1>1
<1> QED
  BY <1>6, <1>7 DEF mirror

LEMMA MarshalledTypes ==
    ASSUME NEW c \in Config, c.mirror = Section(c.accounts)
    PROVE  /\ Marshalled(c) \in Saved
           /\ Marshalled(c).accounts = c.accounts /\ Marshalled(c).keys = c.keys
           /\ Marshalled(c).setting = c.setting
           /\ Marshalled(c).apiKey \in ClientKeys \cup {NoKey}
           /\ Marshalled(c).apiKey = IF c.keys # NoClientKeys THEN NoKey ELSE c.apiKey
<1> DEFINE k == IF c.keys # NoClientKeys THEN NoKey ELSE c.apiKey
           d == [legacy |-> NoSection, accounts |-> c.accounts, keys |-> c.keys,
                 apiKey |-> k, setting |-> c.setting]
<1>1. Marshalled(c) = d
  <2>1. c.accounts \in [Accounts -> State]
    BY DEF Config
  <2>2. Promoted(c.accounts, c.mirror) = c.accounts
    BY <2>1, SectionFacts
  <2> QED
    BY <2>2 DEF Marshalled
<1>2. k \in ClientKeys \cup {NoKey} /\ (c.keys # NoClientKeys => k = NoKey)
  BY DEF Config
<1> HIDE DEF k
<1>3. d \in FileData
  BY <1>2, Nothing DEF FileData, Config
<1>4. d \in Saved
  BY <1>2, <1>3 DEF Saved
<1> QED
  BY <1>1, <1>2, <1>4 DEF k

\* What a file of saveConfig says when it is loaded.
LEMMA LoadedSaved ==
    ASSUME NEW d \in Saved
    PROVE  /\ Loaded(d).accounts = d.accounts
           /\ d.apiKey = NoKey => Loaded(d).keys = d.keys
           /\ d.setting # NoSetting => Loaded(d).setting = d.setting
<1>1. d.legacy = NoSection /\ d.accounts \in [Accounts -> State]
  BY DEF Saved, FileData
<1>2. Promoted(d.accounts, d.legacy) = d.accounts
  <2>1. ASSUME Section(d.accounts) = NoSection
        PROVE  Promoted(d.accounts, Section(d.accounts)) = Promoted(d.accounts, d.legacy)
    BY <1>1, <2>1
  <2>2. ASSUME Section(d.accounts) # NoSection PROVE Promoted(d.accounts, d.legacy) = d.accounts
    BY <2>2 DEF Promoted
  <2> QED
    BY <1>1, <2>1, <2>2, SectionFacts
<1>3. Loaded(d).accounts = Promoted(d.accounts, d.legacy)
  BY DEF Loaded
<1>4. (d.apiKey = NoKey => Loaded(d).keys = d.keys) /\ (d.setting # NoSetting => Loaded(d).setting = d.setting)
  BY DEF Loaded
<1> QED
  BY <1>2, <1>3, <1>4

-----------------------------------------------------------------------------
(***************************************************************************)
(* How a step changes the handlers.                                        *)
(***************************************************************************)
SameWork(g) ==
    /\ hand'[g].pc = hand[g].pc /\ hand'[g].op = hand[g].op
    /\ hand'[g].item = hand[g].item /\ hand'[g].new = hand[g].new /\ hand'[g].to = hand[g].to
    /\ hand'[g].snap = hand[g].snap /\ hand'[g].data = hand[g].data
    /\ hand'[g].alone => hand[g].alone

\* Only h goes on; disturbed says that the others are not alone any more.
OnlyOf(h) == \A g \in All \ {h} : SameWork(g)
Disturbed(h) == \A g \in All \ {h} : hand'[g].alone => ~Active(g)

\* h keeps its operation.
SameTask(h) ==
    /\ hand'[h].op = hand[h].op /\ hand'[h].item = hand[h].item
    /\ hand'[h].new = hand[h].new /\ hand'[h].to = hand[h].to

LEMMA OtherTyped ==
    ASSUME TypeOK, NEW g \in All
    PROVE  [hand[g] EXCEPT !.alone = @ /\ ~Active(g)] \in Handling
<1>1. hand[g] \in Handling
  BY DEF TypeOK, All
<1> DEFINE b == hand[g].alone /\ ~Active(g)
<1>2. b \in BOOLEAN
  OBVIOUS
<1> HIDE DEF b
<1>3. [hand[g] EXCEPT !.alone = b] \in Handling
  BY <1>1, <1>2 DEF Handling
<1> QED
  BY <1>3 DEF b

LEMMA AppliedFacts ==
    ASSUME TypeOK, NEW h \in Handlers, NEW next \in PCs, Applied(h, next)
    PROVE  /\ hand' \in [All -> Handling]
           /\ OnlyOf(h) /\ Disturbed(h) /\ SameTask(h)
           /\ hand'[h].pc = next
           /\ hand'[h].snap = hand[h].snap /\ hand'[h].data = hand[h].data
           /\ hand'[h].alone => \A x \in Handlers \ {h} : ~Active(x)
<1> DEFINE b == \A x \in Handlers \ {h} : ~Active(x)
           r == [hand[h] EXCEPT !.pc = next, !.alone = b]
           other(g) == [hand[g] EXCEPT !.alone = @ /\ ~Active(g)]
<1>1. DOMAIN hand = All /\ \A g \in All : hand[g] \in Handling
  BY DEF TypeOK, All
<1>2. hand' = [g \in All |-> IF g = h THEN r ELSE other(g)]
  BY <1>1 DEF Applied
<1>3. b \in BOOLEAN
  OBVIOUS
<1> HIDE DEF b
<1>4. r \in Handling
  <2>1. [hand[h] EXCEPT !.alone = b] \in Handling
    BY <1>1, <1>3, Handles DEF Handling
  <2>2. ASSUME NEW q \in Handling
        PROVE  [q EXCEPT !.pc = next] \in Handling
    BY DEF Handling, PCs
  <2>3. r = [[hand[h] EXCEPT !.alone = b] EXCEPT !.pc = next]
    BY <1>1, Handles DEF Handling
  <2> QED
    BY <2>1, <2>2, <2>3
<1>5. \A g \in All : other(g) \in Handling
  BY OtherTyped
<1>6. hand' \in [All -> Handling]
  BY <1>2, <1>4, <1>5
<1>7. r.pc = next /\ r.alone = b /\ r.op = hand[h].op /\ r.item = hand[h].item
      /\ r.new = hand[h].new /\ r.to = hand[h].to /\ r.snap = hand[h].snap /\ r.data = hand[h].data
  BY <1>1, Handles DEF Handling
<1>8. ASSUME NEW g \in All, g # h
      PROVE  SameWork(g) /\ (hand'[g].alone => ~Active(g))
  <2>1. hand'[g] = other(g)
    BY <1>2, <1>8
  <2>2. other(g).alone <=> hand[g].alone /\ ~Active(g)
    BY <1>1 DEF Handling
  <2>3. /\ other(g).pc = hand[g].pc /\ other(g).op = hand[g].op
        /\ other(g).item = hand[g].item /\ other(g).new = hand[g].new /\ other(g).to = hand[g].to
        /\ other(g).snap = hand[g].snap /\ other(g).data = hand[g].data
    BY <1>1 DEF Handling
  <2> HIDE DEF other
  <2> QED
    BY <2>1, <2>2, <2>3 DEF SameWork
<1>9. hand'[h] = r
  BY <1>2, Handles
<1> HIDE DEF r
<1> QED
  BY <1>6, <1>7, <1>8, <1>9 DEF OnlyOf, Disturbed, SameTask, b

LEMMA RefusedFacts ==
    ASSUME TypeOK, NEW h \in Handlers, Refused(h)
    PROVE  /\ hand' \in [All -> Handling]
           /\ OnlyOf(h) /\ Disturbed(h)
           /\ hand'[h] = Idle
           /\ lock' = IF lock = h THEN "free" ELSE lock
<1> DEFINE other(g) == [hand[g] EXCEPT !.alone = @ /\ ~Active(g)]
<1>1. DOMAIN hand = All /\ \A g \in All : hand[g] \in Handling
  BY DEF TypeOK, All
<1>2. hand' = [g \in All |-> IF g = h THEN Idle ELSE other(g)]
  BY <1>1 DEF Refused
<1>3. \A g \in All : other(g) \in Handling
  BY OtherTyped
<1>4. hand' \in [All -> Handling]
  BY <1>2, <1>3, IdleTypes
<1>5. ASSUME NEW g \in All, g # h
      PROVE  SameWork(g) /\ (hand'[g].alone => ~Active(g))
  <2>1. hand'[g] = other(g)
    BY <1>2, <1>5
  <2>2. other(g).alone <=> hand[g].alone /\ ~Active(g)
    BY <1>1 DEF Handling
  <2>3. /\ other(g).pc = hand[g].pc /\ other(g).op = hand[g].op
        /\ other(g).item = hand[g].item /\ other(g).new = hand[g].new /\ other(g).to = hand[g].to
        /\ other(g).snap = hand[g].snap /\ other(g).data = hand[g].data
    BY <1>1 DEF Handling
  <2> HIDE DEF other
  <2> QED
    BY <2>1, <2>2, <2>3 DEF SameWork
<1>6. hand'[h] = Idle
  BY <1>2, Handles
<1>7. OnlyOf(h) /\ Disturbed(h)
  BY <1>5 DEF OnlyOf, Disturbed
<1>8. lock' = IF lock = h THEN "free" ELSE lock
  BY DEF Refused
<1> QED
  BY <1>4, <1>6, <1>7, <1>8

\* A step of h alone.
LEMMA OneFacts ==
    ASSUME TypeOK, NEW h \in All, NEW r \in Handling, hand' = [hand EXCEPT ![h] = r]
    PROVE  hand' \in [All -> Handling] /\ OnlyOf(h) /\ hand'[h] = r
  BY DEF TypeOK, All, OnlyOf, SameWork

-----------------------------------------------------------------------------
(***************************************************************************)
(* A step of a handler keeps the invariant if it keeps the part of its own *)
(* handler, and disturbs the others if it changes what they save.          *)
(***************************************************************************)
\* The step takes the last enabled account of no gateway away.
Keeps == \A g \in Gateways : Enabled(pool, g) # {} => Enabled(pool', g) # {}

LEMMA SamePool == pool' = pool => Keeps
  BY DEF Keeps

LEMMA Frame ==
    ASSUME IInv, TypeOK', NEW h \in Handlers, phase = "up", phase' = "up", OnlyOf(h), Mirrored',
           Working(h)' => ItemTyped(h)' \/ (Working(h) /\ SameTask(h)),
           hand'[h].pc = "assign" => SnapTyped(h)',
           \A g \in Handlers \ {h} : lock' = g <=> lock = g,
           lock' = h <=> HoldsLock(h)', Placed(h)',
           Keeps \/ lock = h,
           lock' = h /\ Relies(h)' => Enabled(pool, GatewayOf(hand[h].item))' # {},
           Active(h) \/ Disturbed(h) \/ (UNCHANGED <<pool, keys, cfg, file>> /\ ~Active(h)'),
           Active(h)' /\ hand'[h].alone => Carries(h)',
           CatalogueKept'
    PROVE  IInv'
<1>1. \A g \in Handlers \ {h} : SameWork(g)
  BY Handles DEF OnlyOf
<1>2. ItemsTyped'
  <2>1. ASSUME NEW g \in Handlers, Working(g)' PROVE ItemTyped(g)'
    <3>1. CASE g = h
      <4>1. CASE Working(h) /\ SameTask(h)
        BY <2>1, <3>1, <4>1 DEF IInv, ItemsTyped, ItemTyped, SameTask
      <4> QED
        BY <2>1, <3>1, <4>1
    <3>2. CASE g # h
      BY <1>1, <2>1, <3>2 DEF IInv, ItemsTyped, ItemTyped, SameWork, Working
    <3> QED
      BY <3>1, <3>2
  <2> QED
    BY <2>1 DEF ItemsTyped
<1>3. SnapsTyped'
  <2>1. ASSUME NEW g \in Handlers, hand'[g].pc = "assign" PROVE SnapTyped(g)'
    <3>1. CASE g = h
      BY <2>1, <3>1
    <3>2. CASE g # h
      BY <1>1, <2>1, <3>2 DEF IInv, SnapsTyped, SnapTyped, SameWork
    <3> QED
      BY <3>1, <3>2
  <2> QED
    BY <2>1 DEF SnapsTyped
<1>4. Booting'
  BY Handles DEF IInv, Booting, OnlyOf, SameWork
<1>5. LockHeld'
  <2>1. ASSUME NEW g \in Handlers
        PROVE  (lock' = g <=> HoldsLock(g)') /\ Placed(g)'
    <3>1. CASE g # h
      BY <1>1, <3>1 DEF IInv, LockHeld, HoldsLock, Placed, SameWork
    <3> QED
      BY <3>1
  <2> QED
    BY <2>1 DEF LockHeld
<1>6. PrimaryKept'
  <2>1. ASSUME NEW g \in Handlers, g # h, lock' = g, Relies(g)'
        PROVE  Enabled(pool, GatewayOf(hand[g].item))' # {}
    <3>1. lock = g /\ Relies(g) /\ hand'[g].item = hand[g].item /\ lock # h
      BY <1>1, <2>1 DEF Relies, Active, SameWork
    <3>2. Enabled(pool, GatewayOf(hand[g].item)) # {}
      BY <3>1 DEF IInv, PrimaryKept
    <3>3. Keeps /\ GatewayOf(hand[g].item) \in Gateways
      BY <3>1, Gatewayed
    <3>4. Enabled(pool', GatewayOf(hand[g].item)) # {}
      BY <3>2, <3>3 DEF Keeps
    <3> QED
      BY <3>1, <3>4
  <2> QED
    BY <2>1 DEF PrimaryKept
<1>7. Alone'
  <2>1. ASSUME NEW g \in Handlers, g # h, Active(g)', hand'[g].alone
        PROVE  Carries(g)'
    <3>1. SameWork(g) /\ Active(g) /\ hand[g].alone
      BY <1>1, <2>1 DEF SameWork, Active
    <3>2. Carries(g)
      BY <3>1 DEF IInv, Alone
    <3>3. ~Active(h)
      BY <2>1, <3>2 DEF Carries
    <3>4. ~Disturbed(h)
      BY <2>1, <3>1, Handles DEF Disturbed
    <3>5. UNCHANGED <<pool, keys, cfg, file>> /\ ~Active(h)'
      BY <3>3, <3>4
    <3>6. \A x \in Handlers \ {g} : ~Active(x)'
      BY <1>1, <3>2, <3>5 DEF Carries, Active, SameWork
    <3> QED
      BY <3>1, <3>2, <3>5, <3>6 DEF Carries, SameWork, Copied
  <2>2. CASE Active(h)' /\ hand'[h].alone
    BY <2>1, <2>2 DEF Alone
  <2>3. CASE ~(Active(h)' /\ hand'[h].alone)
    BY <2>1, <2>3 DEF Alone
  <2> QED
    BY <2>2, <2>3
<1> QED
  BY <1>2, <1>3, <1>4, <1>5, <1>6, <1>7 DEF IInv

LEMMA CatalogueFrame ==
    ASSUME IInv, NEW h \in Handlers, OnlyOf(h), UNCHANGED <<pool, catalogue, phase>>,
           \A g \in Handlers \ {h} : lock' = g <=> lock = g,
           \A g \in Gateways \ skipped' :
              /\ g \notin skipped
              /\ WillClear(h, g) => WillClear(h, g)' \/ Enabled(pool, g) # {}
    PROVE  CatalogueKept'
<1>1. ASSUME NEW g \in Gateways, NEW x \in Handlers \ {h}, WillClear(x, g) PROVE WillClear(x, g)'
  BY <1>1, Handles DEF OnlyOf, SameWork, WillClear, Active
<1> QED
  BY <1>1 DEF IInv, CatalogueKept

LEMMA Up ==
    ASSUME IInv, Alive, NEW h \in Handlers, hand[h].pc # "idle"
    PROVE  phase = "up"
  BY DEF IInv, Booting, Alive

LEMMA HandTypes ==
    ASSUME TypeOK, NEW h \in Handlers
    PROVE  hand[h] \in Handling /\ hand \in [All -> Handling]
  BY DEF TypeOK, All

LEMMA BeginInv ==
    ASSUME IInv, ops < MaxOps, NEW h \in Handlers, NEW op, NEW item, NEW new, NEW to,
           Begin(h, op, item, new, to),
           \/ op \in {"add", "delete"} /\ item \in Accounts /\ to = "keep"
           \/ op = "oauth" /\ item \in Cmdcode /\ new = NoKey /\ to = "keep"
           \/ /\ op = "patch" /\ item \in Accounts /\ to \in {"keep", "on", "off"}
              /\ new \in Accounts => GatewayOf(new) = GatewayOf(item)
           \/ op \in KeyOps /\ item \in ClientKeys /\ to \in State
           \/ op \in SettingOps /\ item \in Settings /\ to \in {"keep", "refuse"},
           new \in Accounts \cup {NoKey}
    PROVE  IInv'
<1> DEFINE pc == IF op \in AccountOps THEN "lock" ELSE "apply"
           r == [Idle EXCEPT !.op = op, !.item = item, !.new = new, !.to = to, !.pc = pc]
<1>1. hand' = [hand EXCEPT ![h] = r] /\ hand[h].pc = "idle" /\ phase = "up"
      /\ UNCHANGED <<pool, keys, cfg, file, lock, catalogue, phase, acked, revoked, skipped>>
  BY DEF Begin
<1>2. pc \in {"lock", "apply"}
  OBVIOUS
<1>3. pc = "lock" <=> op \in AccountOps
  OBVIOUS
<1> HIDE DEF pc
<1>4. r \in Handling
  <2>1. op \in AccountOps \cup KeyOps \cup SettingOps \cup {"oauth", "none"}
    BY DEF AccountOps
  <2>2. item \in Accounts \cup ClientKeys \cup Settings \cup {NoKey} /\ to \in State \cup {"keep", "refuse"}
    BY Gatewayed DEF State
  <2> DEFINE task == [Idle EXCEPT !.op = op, !.item = item]
             aimed == [task EXCEPT !.new = new, !.to = to]
  <2>3. task \in Handling
    BY <2>1, <2>2, IdleTypes DEF Handling
  <2>4. aimed \in Handling
    <3> HIDE DEF task
    <3> QED
      BY <2>2, <2>3 DEF Handling
  <2>5. [aimed EXCEPT !.pc = pc] \in Handling
    <3> HIDE DEF aimed
    <3> QED
      BY <1>2, <2>4 DEF Handling
  <2>6. r = [aimed EXCEPT !.pc = pc]
    BY IdleTypes DEF Handling
  <2> QED
    BY <2>5, <2>6
<1>5. r.pc = pc /\ r.op = op /\ r.item = item /\ r.new = new /\ r.to = to
  BY DEF Idle
<1> HIDE DEF r
<1>6. hand' \in [All -> Handling] /\ OnlyOf(h) /\ hand'[h] = r
  BY <1>1, <1>4, OneFacts, Handles DEF IInv
<1>7. TypeOK'
  <2>1. ops' \in 0..MaxOps
    BY ConfigAssumption DEF Begin, IInv, TypeOK
  <2>2. fresh' \subseteq ClientKeys
    BY DEF Begin, IInv, TypeOK
  <2> QED
    BY <1>1, <1>6, <2>1, <2>2 DEF IInv, TypeOK, All
<1>8. ItemTyped(h)'
  BY <1>5, <1>6 DEF ItemTyped, AccountOps, KeyOps, SettingOps, State
<1>9. ~HoldsLock(h) /\ ~HoldsLock(h)'
  BY <1>1, <1>2, <1>3, <1>5, <1>6 DEF HoldsLock
<1>10. lock # h
  BY <1>9 DEF IInv, LockHeld
<1>11. CatalogueKept'
  BY <1>1, <1>6, <1>10, CatalogueFrame DEF WillClear
<1>12. ~Active(h)'
  BY <1>2, <1>5, <1>6 DEF Active
<1>13. Placed(h)' /\ ~Relies(h)'
  BY <1>2, <1>3, <1>5, <1>6 DEF Placed, Relies, Active
<1> QED
  BY <1>1, <1>2, <1>3, <1>5, <1>6, <1>7, <1>8, <1>9, <1>10, <1>11, <1>12, <1>13, SamePool, Frame
     DEF IInv, Mirrored

LEMMA LockInv ==
    ASSUME IInv, Alive, NEW h \in Handlers, Lock(h)
    PROVE  IInv'
<1> DEFINE r == [hand[h] EXCEPT !.pc = "apply"]
<1>1. /\ hand' = [hand EXCEPT ![h] = r] /\ hand[h].pc = "lock" /\ lock = "free" /\ lock' = h
      /\ UNCHANGED <<pool, keys, cfg, file, catalogue, phase, ops, acked, revoked, skipped, fresh>>
  BY DEF Lock
<1>2. phase = "up" /\ hand[h] \in Handling
  BY <1>1, Up, HandTypes DEF IInv
<1>3. r \in Handling /\ r.pc = "apply" /\ r.op = hand[h].op /\ r.item = hand[h].item
      /\ r.new = hand[h].new /\ r.to = hand[h].to
  BY <1>2 DEF Handling
<1> HIDE DEF r
<1>4. hand' \in [All -> Handling] /\ OnlyOf(h) /\ hand'[h] = r
  BY <1>1, <1>3, OneFacts, Handles DEF IInv
<1>5. TypeOK'
  BY <1>1, <1>4 DEF IInv, TypeOK, All
<1>6. Working(h) /\ SameTask(h)
  BY <1>1, <1>3, <1>4 DEF Working, SameTask
<1>7. HoldsLock(h)'
  BY <1>1, <1>3, <1>4 DEF HoldsLock, IInv, LockHeld, Placed
<1>8. \A g \in Handlers \ {h} : lock' = g <=> lock = g
  BY <1>1, Handles
<1>9. CatalogueKept'
  <2>1. \A g : ~WillClear(h, g)
    BY <1>1, Handles DEF WillClear
  <2> QED
    BY <1>1, <1>4, <1>8, <2>1, CatalogueFrame
<1>10. ~Active(h)' /\ Placed(h)' /\ ~Relies(h)'
  BY <1>3, <1>4 DEF Active, Placed, Relies
<1> QED
  BY <1>1, <1>2, <1>3, <1>4, <1>5, <1>6, <1>7, <1>8, <1>9, <1>10, SamePool, Frame DEF IInv, Mirrored

-----------------------------------------------------------------------------
(***************************************************************************)
(* The handlers change something, or refuse.                               *)
(***************************************************************************)
LEMMA ApplyFrame ==
    ASSUME IInv, TypeOK', NEW h \in Handlers, phase = "up", hand[h].pc = "apply",
           NEW next \in {"snap", "marshal"}, Applied(h, next), Mirrored',
           UNCHANGED <<lock, phase>>,
           Keeps \/ lock = h,
           next = "marshal" => hand[h].op = "models",
           hand[h].op \in KeyOps => keys'[hand[h].item] = hand[h].to,
           hand[h].op \in SettingOps => cfg'.setting = hand[h].item,
           hand[h].op = "add" => Enabled(pool', GatewayOf(hand[h].item)) # {},
           CatalogueKept'
    PROVE  IInv'
<1>1. /\ OnlyOf(h) /\ Disturbed(h) /\ SameTask(h) /\ hand'[h].pc = next
      /\ hand'[h].alone => \A x \in Handlers \ {h} : ~Active(x)
  BY AppliedFacts DEF IInv, PCs
<1>2. Working(h) /\ Active(h)'
  BY <1>1 DEF Working, Active
<1>3. lock' = h <=> HoldsLock(h)'
  BY <1>1 DEF IInv, LockHeld, HoldsLock, SameTask
<1>4. ASSUME hand'[h].alone PROVE Carries(h)'
  <2>1. \A x \in Handlers \ {h} : ~Active(x)'
    BY <1>1, <1>4, Handles DEF OnlyOf, SameWork, Active
  <2>2. hand'[h].pc \in {"snap", "marshal"}
    BY <1>1
  <2>3. hand'[h].pc = "marshal" => hand'[h].op = "models"
    BY <1>1 DEF SameTask
  <2>4. "models" \notin SyncsAccounts /\ "models" \notin KeyOps
    BY DEF SyncsAccounts, AccountOps, KeyOps
  <2> QED
    BY <1>1, <2>1, <2>2, <2>3, <2>4 DEF Carries, SameTask
<1>5. Placed(h)'
  BY <1>1 DEF Placed
<1>6. lock' = h /\ Relies(h)' => Enabled(pool, GatewayOf(hand[h].item))' # {}
  <2>1. Relies(h)' => hand[h].op = "add"
    BY <1>1 DEF Relies, SameTask
  <2>2. hand'[h].item = hand[h].item
    BY <1>1 DEF SameTask
  <2> QED
    BY <2>1, <2>2
<1> QED
  BY <1>1, <1>2, <1>3, <1>4, <1>5, <1>6, Frame

LEMMA RefusedFrame ==
    ASSUME IInv, TypeOK', NEW h \in Handlers, phase = "up", hand[h].pc = "apply",
           Refused(h), Mirrored', phase' = phase, Keeps \/ lock = h,
           CatalogueKept'
    PROVE  IInv'
<1>1. /\ OnlyOf(h) /\ Disturbed(h) /\ hand'[h].pc = "idle" /\ hand'[h].op = "none"
      /\ lock' = IF lock = h THEN "free" ELSE lock
  BY RefusedFacts, IdleTypes DEF IInv
<1>2. ~Working(h)' /\ ~Active(h)' /\ ~HoldsLock(h)' /\ Placed(h)'
  BY <1>1 DEF Working, Active, HoldsLock, Placed
<1>3. lock' # h /\ \A g \in Handlers \ {h} : lock' = g <=> lock = g
  BY <1>1, Handles
<1> QED
  BY <1>1, <1>2, <1>3, Frame

\* The catalogue, when the accounts stay as they are.
LEMMA ApplyCatalogue ==
    ASSUME IInv, NEW h \in Handlers, hand[h].pc = "apply", UNCHANGED <<pool, catalogue, phase, skipped>>,
           OnlyOf(h), \A g \in Handlers \ {h} : lock' = g <=> lock = g
    PROVE  CatalogueKept'
<1>1. \A g : ~WillClear(h, g)
  BY DEF WillClear, Active
<1> QED
  BY <1>1, CatalogueFrame

LEMMA UnpromisedFacts ==
    ASSUME TypeOK, NEW set
    PROVE  /\ Unpromised(set) \in [Accounts -> State \cup {"unknown"}]
           /\ \A a \in Accounts \cap set : Unpromised(set)[a] = "unknown"
           /\ \A a \in Accounts \ set : Unpromised(set)[a] = acked.a[a]
           /\ set = {} => Unpromised(set) = acked.a
           /\ acked.k \in [ClientKeys -> State \cup {"unknown"}]
           /\ acked.s \in Settings \cup {Generated, "unknown"}
           /\ [acked EXCEPT !.a = Unpromised(set)] =
                 [a |-> Unpromised(set), k |-> acked.k, s |-> acked.s]
<1>1. acked.a \in [Accounts -> State \cup {"unknown"}] /\ acked.k \in [ClientKeys -> State \cup {"unknown"}]
      /\ acked.s \in Settings \cup {Generated, "unknown"}
      /\ acked = [a |-> acked.a, k |-> acked.k, s |-> acked.s]
  BY DEF TypeOK
<1>2. /\ Unpromised(set) \in [Accounts -> State \cup {"unknown"}]
      /\ \A a \in Accounts \cap set : Unpromised(set)[a] = "unknown"
      /\ \A a \in Accounts \ set : Unpromised(set)[a] = acked.a[a]
  BY <1>1 DEF Unpromised
<1>3. set = {} => Unpromised(set) = acked.a
  BY <1>1 DEF Unpromised
<1>4. [acked EXCEPT !.a = Unpromised(set)] = [a |-> Unpromised(set), k |-> acked.k, s |-> acked.s]
  <2> DEFINE u == Unpromised(set)
  <2> HIDE DEF u
  <2>1. [acked EXCEPT !.a = u] = [a |-> u, k |-> acked.k, s |-> acked.s]
    BY <1>1
  <2> QED
    BY <2>1 DEF u
<1> QED
  BY <1>1, <1>2, <1>3, <1>4

\* A change of an account: of a gateway that loses its last enabled one the
\* models will be cleared, or are left without a look.
LEMMA AccountChange ==
    ASSUME IInv, NEW h \in Handlers, phase = "up", hand[h].pc = "apply",
           UNCHANGED <<keys, cfg, file, catalogue, phase, ops, revoked, fresh>>,
           skipped \subseteq skipped', skipped' \subseteq Gateways,
           pool' \in [Accounts -> State], NEW set,
           acked' = [acked EXCEPT !.a = Unpromised(set)],
           Keeps \/ lock = h,
           hand[h].op \in AccountOps \cup {"oauth"},
           \/ /\ Applied(h, "snap") /\ lock' = lock
              /\ hand[h].op = "add" => Enabled(pool', GatewayOf(hand[h].item)) # {}
           \/ Refused(h),
           \A g \in Gateways \ skipped' :
              Enabled(pool', g) = {} /\ Enabled(pool, g) # {} =>
                 Applied(h, "snap") /\ GatewayOf(hand[h].item) = g
    PROVE  IInv'
<1>1. acked' \in [a : [Accounts -> State \cup {"unknown"}],
                  k : [ClientKeys -> State \cup {"unknown"}],
                  s : Settings \cup {Generated, "unknown"}]
  <2> DEFINE u == Unpromised(set)
  <2>1. /\ u \in [Accounts -> State \cup {"unknown"}]
        /\ acked.k \in [ClientKeys -> State \cup {"unknown"}]
        /\ acked.s \in Settings \cup {Generated, "unknown"}
        /\ acked' = [a |-> u, k |-> acked.k, s |-> acked.s]
    BY UnpromisedFacts DEF IInv
  <2> HIDE DEF u
  <2>2. [a |-> u, k |-> acked.k, s |-> acked.s]
           \in [a : [Accounts -> State \cup {"unknown"}],
                k : [ClientKeys -> State \cup {"unknown"}],
                s : Settings \cup {Generated, "unknown"}]
    BY <2>1
  <2> QED
    BY <2>1, <2>2
<1>2. hand' \in [All -> Handling] /\ lock' \in Handlers \cup {"free"} /\ OnlyOf(h)
      /\ \A g \in Handlers \ {h} : lock' = g <=> lock = g
  BY AppliedFacts, RefusedFacts, Handles DEF IInv, TypeOK, PCs
<1>3. TypeOK'
  BY <1>1, <1>2 DEF IInv, TypeOK, All
<1>4. CatalogueKept'
  <2>1. ASSUME NEW g \in Gateways \ skipped', catalogue[g] = "enabled", Enabled(pool', g) = {}
        PROVE  \E x \in Handlers : WillClear(x, g)'
    <3>1. CASE Enabled(pool, g) = {}
      <4>1. PICK x \in Handlers : WillClear(x, g)
        BY <2>1, <3>1 DEF IInv, CatalogueKept
      <4>2. x # h
        BY <4>1 DEF WillClear, Active
      <4>3. WillClear(x, g)'
        BY <1>2, <4>1, <4>2, Handles DEF OnlyOf, SameWork, WillClear, Active
      <4> QED
        BY <4>3
    <3>2. CASE Enabled(pool, g) # {}
      <4>1. Applied(h, "snap") /\ GatewayOf(hand[h].item) = g /\ lock = h
        BY <2>1, <3>2 DEF Keeps
      <4>2. hand'[h].pc = "snap" /\ hand'[h].item = hand[h].item
        BY <4>1, AppliedFacts DEF IInv, PCs, SameTask
      <4>3. lock' = h
        <5>1. hand[h].op \in AccountOps
          BY <4>1 DEF IInv, LockHeld, HoldsLock
        <5>2. ~Refused(h)
          BY <4>2, RefusedFacts, IdleTypes DEF IInv
        <5> QED
          BY <4>1, <5>2
      <4>4. WillClear(h, g)'
        BY <4>1, <4>2, <4>3 DEF WillClear, Active
      <4> QED
        BY <4>4
    <3> QED
      BY <3>1, <3>2
  <2>2. catalogue'["zen"] \in {"none", "enabled"}
    BY DEF IInv, CatalogueKept
  <2>3. \A g \in Gateways \ skipped' :
           catalogue'[g] = "enabled" /\ Enabled(pool', g) = {} => \E x \in Handlers : WillClear(x, g)'
    BY <2>1
  <2> QED
    BY <2>2, <2>3 DEF CatalogueKept
<1>5. hand[h].op \notin KeyOps /\ hand[h].op \notin SettingOps /\ Mirrored'
  BY DEF AccountOps, KeyOps, SettingOps, IInv, Mirrored
<1> QED
  BY <1>3, <1>4, <1>5, ApplyFrame, RefusedFrame

\* A request that is refused with nothing changed.
LEMMA NothingChanged ==
    ASSUME IInv, NEW h \in Handlers, phase = "up", hand[h].pc = "apply", Refused(h),
           UNCHANGED <<pool, acked, keys, cfg, file, catalogue, phase, ops, revoked, skipped, fresh>>
    PROVE  IInv'
<1>1. hand' \in [All -> Handling] /\ lock' \in Handlers \cup {"free"} /\ OnlyOf(h)
      /\ \A g \in Handlers \ {h} : lock' = g <=> lock = g
  BY RefusedFacts, Handles DEF IInv, TypeOK
<1>2. TypeOK'
  BY <1>1 DEF IInv, TypeOK, All
<1>3. CatalogueKept'
  BY <1>1, ApplyCatalogue
<1> QED
  BY <1>2, <1>3, SamePool, RefusedFrame DEF IInv, Mirrored

\* An account that is enabled, and an account that is changed.
LEMMA OnIsEnabled ==
    ASSUME NEW p \in [Accounts -> State], NEW a \in Accounts, p[a] = "on"
    PROVE  Enabled(p, GatewayOf(a)) # {}
  BY DEF Enabled, Present

LEMMA OneGateway ==
    ASSUME NEW a \in Accounts, \A x \in Accounts : pool'[x] = pool[x] \/ GatewayOf(x) = GatewayOf(a),
           NEW g, g # GatewayOf(a)
    PROVE  Enabled(pool', g) = Enabled(pool, g)
  BY DEF Enabled, Present

LEMMA PutOn ==
    ASSUME NEW a \in Accounts, pool \in [Accounts -> State], pool' = [pool EXCEPT ![a] = "on"]
    PROVE  /\ pool' \in [Accounts -> State]
           /\ Keeps /\ Enabled(pool', GatewayOf(a)) # {}
<1>1. pool' \in [Accounts -> State] /\ pool'[a] = "on" /\ \A x \in Accounts : pool'[x] \in {pool[x], "on"}
  BY DEF State
<1>2. ASSUME NEW g, NEW x \in Enabled(pool, g) PROVE x \in Enabled(pool', g)
  BY <1>1, <1>2 DEF Enabled, Present
<1>3. \A g : Enabled(pool, g) # {} => Enabled(pool', g) # {}
  BY <1>2
<1> QED
  BY <1>1, <1>3, OnIsEnabled DEF Keeps

LEMMA ApplyAddInv ==
    ASSUME IInv, Alive, NEW h \in Handlers, ApplyAdd(h)
    PROVE  IInv'
<1> DEFINE a == hand[h].item
<1>1. /\ hand[h].op \in {"add", "oauth"} /\ hand[h].pc = "apply"
      /\ UNCHANGED <<keys, cfg, file, catalogue, phase, ops, revoked, skipped, fresh>>
  BY DEF ApplyAdd
<1>2. phase = "up" /\ a \in Accounts /\ hand[h].op \in AccountOps \cup {"oauth"}
  BY <1>1, Up, Gatewayed DEF IInv, ItemsTyped, ItemTyped, Working, AccountOps
<1>3. CASE Refused(h) /\ UNCHANGED <<pool, acked>>
  BY <1>1, <1>2, <1>3, NothingChanged
<1>4. CASE /\ pool' = [pool EXCEPT ![a] = "on"]
           /\ acked' = [acked EXCEPT !.a = Unpromised({a})]
           /\ Applied(h, "snap") /\ UNCHANGED lock
  <2>1. pool' \in [Accounts -> State] /\ Keeps /\ Enabled(pool', GatewayOf(a)) # {}
    BY <1>2, <1>4, PutOn DEF IInv, TypeOK
  <2>2. skipped \subseteq skipped' /\ skipped' \subseteq Gateways
    BY <1>1 DEF IInv, TypeOK
  <2>3. \A g \in Gateways \ skipped' : Enabled(pool, g) # {} => Enabled(pool', g) # {}
    BY <2>1 DEF Keeps
  <2> QED
    BY <1>1, <1>2, <1>4, <2>1, <2>2, <2>3, AccountChange
<1> QED
  BY <1>3, <1>4 DEF ApplyAdd

\* What the holder of the lock changes is of the gateway of its item.
LEMMA LockedChange ==
    ASSUME IInv, NEW h \in Handlers, phase = "up", hand[h].pc = "apply", lock = h,
           hand[h].op \in {"patch", "delete"}, hand[h].item \in Accounts,
           UNCHANGED <<keys, cfg, file, catalogue, phase, ops, revoked, fresh>>,
           pool' \in [Accounts -> State], NEW set,
           \A x \in Accounts : pool'[x] = pool[x] \/ GatewayOf(x) = GatewayOf(hand[h].item),
           acked' = [acked EXCEPT !.a = Unpromised(set)],
           \/ Applied(h, "snap") /\ UNCHANGED <<lock, skipped>>
           \/ Refused(h) /\ skipped' = skipped \cup {GatewayOf(hand[h].item)}
    PROVE  IInv'
<1>1. skipped \subseteq skipped' /\ skipped' \subseteq Gateways
  BY Gatewayed DEF IInv, TypeOK
<1>2. ASSUME NEW g \in Gateways \ skipped', Enabled(pool', g) = {}, Enabled(pool, g) # {}
      PROVE  Applied(h, "snap") /\ GatewayOf(hand[h].item) = g
  <2>1. g = GatewayOf(hand[h].item)
    BY <1>2, OneGateway
  <2> QED
    BY <1>2, <2>1
<1>3. hand[h].op \in AccountOps \cup {"oauth"} /\ hand[h].op # "add"
  BY DEF AccountOps
<1>4. (Applied(h, "snap") /\ lock' = lock) \/ Refused(h)
  OBVIOUS
<1> QED
  BY <1>1, <1>2, <1>3, <1>4, AccountChange

LEMMA ApplyDeleteInv ==
    ASSUME IInv, Alive, NEW h \in Handlers, ApplyDelete(h)
    PROVE  IInv'
<1> DEFINE a == hand[h].item
<1>1. /\ hand[h].op = "delete" /\ hand[h].pc = "apply"
      /\ UNCHANGED <<keys, cfg, file, catalogue, phase, ops, revoked, skipped, fresh>>
  BY DEF ApplyDelete
<1>2. phase = "up" /\ a \in Accounts
  BY <1>1, Up DEF IInv, ItemsTyped, ItemTyped, Working, AccountOps
<1>3. lock = h
  BY <1>1 DEF IInv, LockHeld, HoldsLock, AccountOps
<1>4. CASE Refused(h) /\ UNCHANGED <<pool, acked>>
  BY <1>1, <1>2, <1>4, NothingChanged
<1>5. CASE /\ pool' = [pool EXCEPT ![a] = "absent"]
           /\ acked' = [acked EXCEPT !.a = Unpromised({a})]
           /\ Applied(h, "snap") /\ UNCHANGED lock
  <2>1. pool' \in [Accounts -> State] /\ \A x \in Accounts : pool'[x] = pool[x] \/ x = a
    BY <1>2, <1>5 DEF IInv, TypeOK, State
  <2>2. \A x \in Accounts : pool'[x] = pool[x] \/ GatewayOf(x) = GatewayOf(a)
    BY <2>1
  <2> QED
    BY <1>1, <1>2, <1>3, <1>5, <2>1, <2>2, LockedChange
<1> QED
  BY <1>4, <1>5 DEF ApplyDelete

LEMMA ApplyPatchInv ==
    ASSUME IInv, Alive, NEW h \in Handlers, ApplyPatch(h)
    PROVE  IInv'
<1> DEFINE a == hand[h].item
           new == hand[h].new
           toggled == IF hand[h].to = "keep" THEN pool[a] ELSE hand[h].to
           touched == {x \in {a} : toggled # pool[x]}
<1>1. /\ hand[h].op = "patch" /\ hand[h].pc = "apply"
      /\ UNCHANGED <<keys, cfg, file, catalogue, phase, ops, revoked, fresh>>
  BY DEF ApplyPatch
<1>2. phase = "up" /\ a \in Accounts /\ hand[h].to \in State \cup {"keep"}
      /\ (new \in Accounts => GatewayOf(new) = GatewayOf(a))
  BY <1>1, Up DEF IInv, ItemsTyped, ItemTyped, Working, AccountOps
<1>3. lock = h
  BY <1>1 DEF IInv, LockHeld, HoldsLock, AccountOps
<1>4. toggled \in State /\ pool \in [Accounts -> State]
  BY <1>2 DEF IInv, TypeOK
<1>5. \/ Refused(h) /\ UNCHANGED <<pool, acked, skipped>>
      \/ /\ pool' = [pool EXCEPT ![a] = toggled]
         /\ acked' = [acked EXCEPT !.a = Unpromised(touched)]
         /\ skipped' = skipped \cup {GatewayOf(x) : x \in touched}
         /\ Refused(h)
      \/ /\ pool' = [pool EXCEPT ![a] = toggled]
         /\ acked' = [acked EXCEPT !.a = Unpromised({a})]
         /\ Applied(h, "snap") /\ UNCHANGED <<lock, skipped>>
      \/ /\ new \in Accounts
         /\ pool' = [pool EXCEPT ![a] = "absent", ![new] = toggled]
         /\ acked' = [acked EXCEPT !.a = Unpromised({a, new})]
         /\ Applied(h, "snap") /\ UNCHANGED <<lock, skipped>>
  BY DEF ApplyPatch
<1>6. toggled = pool[a] => touched = {}
  OBVIOUS
<1>7. toggled # pool[a] => {GatewayOf(x) : x \in touched} = {GatewayOf(a)}
  OBVIOUS
<1> HIDE DEF toggled, touched
<1>8. CASE Refused(h) /\ UNCHANGED <<pool, acked, skipped>>
  BY <1>1, <1>2, <1>8, NothingChanged
<1>9. CASE /\ pool' = [pool EXCEPT ![a] = toggled]
           /\ acked' = [acked EXCEPT !.a = Unpromised(touched)]
           /\ skipped' = skipped \cup {GatewayOf(x) : x \in touched}
           /\ Refused(h)
  <2>1. CASE toggled = pool[a]
    <3>1. pool' = pool
      BY <1>4, <1>9, <2>1
    <3>2. skipped' = skipped
      BY <1>6, <1>9, <2>1
    <3>3. acked \in [a : [Accounts -> State \cup {"unknown"}],
                     k : [ClientKeys -> State \cup {"unknown"}],
                     s : Settings \cup {Generated, "unknown"}]
      BY DEF IInv, TypeOK
    <3>4. acked' = [a |-> acked.a, k |-> acked.k, s |-> acked.s]
      BY <1>6, <1>9, <2>1, UnpromisedFacts DEF IInv
    <3>5. acked' = acked
      BY <3>3, <3>4
    <3> QED
      BY <1>1, <1>2, <1>9, <3>1, <3>2, <3>5, NothingChanged
  <2>2. CASE toggled # pool[a]
    <3>1. pool' \in [Accounts -> State] /\ \A x \in Accounts : pool'[x] = pool[x] \/ x = a
      BY <1>2, <1>4, <1>9
    <3>2. \A x \in Accounts : pool'[x] = pool[x] \/ GatewayOf(x) = GatewayOf(a)
      BY <3>1
    <3>3. skipped' = skipped \cup {GatewayOf(a)}
      BY <1>7, <1>9, <2>2
    <3> QED
      BY <1>1, <1>2, <1>3, <1>9, <3>1, <3>2, <3>3, LockedChange
  <2> QED
    BY <2>1, <2>2
<1>10. CASE /\ pool' = [pool EXCEPT ![a] = toggled]
            /\ acked' = [acked EXCEPT !.a = Unpromised({a})]
            /\ Applied(h, "snap") /\ UNCHANGED <<lock, skipped>>
  <2>1. pool' \in [Accounts -> State] /\ \A x \in Accounts : pool'[x] = pool[x] \/ x = a
    BY <1>2, <1>4, <1>10
  <2>2. \A x \in Accounts : pool'[x] = pool[x] \/ GatewayOf(x) = GatewayOf(a)
    BY <2>1
  <2> QED
    BY <1>1, <1>2, <1>3, <1>10, <2>1, <2>2, LockedChange
<1>11. CASE /\ new \in Accounts
            /\ pool' = [pool EXCEPT ![a] = "absent", ![new] = toggled]
            /\ acked' = [acked EXCEPT !.a = Unpromised({a, new})]
            /\ Applied(h, "snap") /\ UNCHANGED <<lock, skipped>>
  <2>1. pool' \in [Accounts -> State] /\ \A x \in Accounts : pool'[x] = pool[x] \/ x \in {a, new}
    BY <1>2, <1>4, <1>11 DEF State
  <2>2. \A x \in Accounts : pool'[x] = pool[x] \/ GatewayOf(x) = GatewayOf(a)
    BY <1>2, <1>11, <2>1
  <2> QED
    BY <1>1, <1>2, <1>3, <1>11, <2>1, <2>2, LockedChange
<1> QED
  BY <1>5, <1>8, <1>9, <1>10, <1>11

\* The promises, when that of a client key or that of the setting changes.
LEMMA AckedKey ==
    ASSUME TypeOK, NEW k, NEW v \in State \cup {"unknown"}
    PROVE  LET new == [acked EXCEPT !.k[k] = v]
           IN  /\ new \in [a : [Accounts -> State \cup {"unknown"}],
                           k : [ClientKeys -> State \cup {"unknown"}],
                           s : Settings \cup {Generated, "unknown"}]
               /\ new.a = acked.a /\ new.s = acked.s
               /\ new.k = [acked.k EXCEPT ![k] = v]
<1> DEFINE u == [acked.k EXCEPT ![k] = v]
<1>1. /\ acked.a \in [Accounts -> State \cup {"unknown"}]
      /\ acked.k \in [ClientKeys -> State \cup {"unknown"}]
      /\ acked.s \in Settings \cup {Generated, "unknown"}
      /\ acked = [a |-> acked.a, k |-> acked.k, s |-> acked.s]
  BY DEF TypeOK
<1>2. u \in [ClientKeys -> State \cup {"unknown"}]
  BY <1>1
<1>3. [acked EXCEPT !.k[k] = v] = [acked EXCEPT !.k = u]
  BY <1>1
<1> HIDE DEF u
<1>4. [acked EXCEPT !.k = u] = [a |-> acked.a, k |-> u, s |-> acked.s]
  BY <1>1
<1>5. [a |-> acked.a, k |-> u, s |-> acked.s]
         \in [a : [Accounts -> State \cup {"unknown"}],
              k : [ClientKeys -> State \cup {"unknown"}],
              s : Settings \cup {Generated, "unknown"}]
  BY <1>1, <1>2
<1> QED
  BY <1>3, <1>4, <1>5 DEF u

LEMMA AckedSetting ==
    ASSUME TypeOK, NEW v \in Settings \cup {"unknown"}
    PROVE  LET new == [acked EXCEPT !.s = v]
           IN  /\ new \in [a : [Accounts -> State \cup {"unknown"}],
                           k : [ClientKeys -> State \cup {"unknown"}],
                           s : Settings \cup {Generated, "unknown"}]
               /\ new.a = acked.a /\ new.k = acked.k /\ new.s = v
<1>1. /\ acked.a \in [Accounts -> State \cup {"unknown"}]
      /\ acked.k \in [ClientKeys -> State \cup {"unknown"}]
      /\ acked = [a |-> acked.a, k |-> acked.k, s |-> acked.s]
  BY DEF TypeOK
<1>2. [acked EXCEPT !.s = v] = [a |-> acked.a, k |-> acked.k, s |-> v]
  BY <1>1
<1> QED
  BY <1>1, <1>2

LEMMA ApplyKeyInv ==
    ASSUME IInv, Alive, NEW h \in Handlers, ApplyKey(h)
    PROVE  IInv'
<1> DEFINE k == hand[h].item
<1>1. /\ hand[h].op \in KeyOps /\ hand[h].pc = "apply"
      /\ UNCHANGED <<pool, cfg, file, catalogue, phase, ops, skipped, fresh>>
  BY DEF ApplyKey
<1>2. phase = "up" /\ k \in ClientKeys /\ hand[h].to \in State
  BY <1>1, Up DEF IInv, ItemsTyped, ItemTyped, Working
<1>3. CASE Refused(h) /\ UNCHANGED <<keys, acked, revoked>>
  BY <1>1, <1>2, <1>3, NothingChanged
<1>4. CASE /\ keys' = [keys EXCEPT ![k] = hand[h].to]
           /\ acked' = [acked EXCEPT !.k[k] = "unknown"]
           /\ revoked' = IF hand[h].to = "on" THEN revoked \ {k} ELSE revoked
           /\ Applied(h, "snap") /\ UNCHANGED lock
  <2>1. keys' \in [ClientKeys -> State] /\ keys'[k] = hand[h].to
    BY <1>2, <1>4 DEF IInv, TypeOK
  <2>2. /\ acked' \in [a : [Accounts -> State \cup {"unknown"}],
                       k : [ClientKeys -> State \cup {"unknown"}],
                       s : Settings \cup {Generated, "unknown"}]
        /\ acked'.a = acked.a
    BY <1>4, AckedKey DEF IInv
  <2>3. hand' \in [All -> Handling] /\ OnlyOf(h)
    BY <1>4, AppliedFacts DEF IInv, PCs
  <2>4. TypeOK'
    BY <1>1, <1>4, <2>1, <2>2, <2>3 DEF IInv, TypeOK, All
  <2>5. CatalogueKept' /\ Mirrored'
    BY <1>1, <1>4, <2>2, <2>3, ApplyCatalogue DEF IInv, Mirrored
  <2>6. hand[h].op \notin SettingOps /\ hand[h].op # "add"
    BY <1>1 DEF KeyOps, SettingOps
  <2> QED
    BY <1>1, <1>2, <1>4, <2>1, <2>4, <2>5, <2>6, SamePool, ApplyFrame
<1> QED
  BY <1>3, <1>4 DEF ApplyKey

LEMMA ApplySettingInv ==
    ASSUME IInv, Alive, NEW h \in Handlers, ApplySetting(h)
    PROVE  IInv'
<1> DEFINE v == hand[h].item
<1>1. /\ hand[h].op \in SettingOps /\ hand[h].pc = "apply"
      /\ cfg' = [cfg EXCEPT !.setting = v]
      /\ acked' = [acked EXCEPT !.s = "unknown"]
      /\ UNCHANGED <<pool, keys, file, catalogue, phase, ops, revoked, skipped, fresh>>
  BY DEF ApplySetting
<1>2. phase = "up" /\ v \in Settings
  BY <1>1, Up DEF IInv, ItemsTyped, ItemTyped, Working
<1>3. cfg' \in Config /\ Mirrored' /\ cfg'.setting = v
  BY <1>1, <1>2 DEF IInv, TypeOK, Config, Mirrored
<1>4. /\ acked' \in [a : [Accounts -> State \cup {"unknown"}],
                     k : [ClientKeys -> State \cup {"unknown"}],
                     s : Settings \cup {Generated, "unknown"}]
      /\ acked'.a = acked.a
  BY <1>1, AckedSetting DEF IInv
<1>5. CASE Refused(h)
  <2>1. hand' \in [All -> Handling] /\ lock' \in Handlers \cup {"free"} /\ OnlyOf(h)
        /\ \A g \in Handlers \ {h} : lock' = g <=> lock = g
    BY <1>5, RefusedFacts, Handles DEF IInv, TypeOK
  <2>2. TypeOK'
    BY <1>1, <1>3, <1>4, <2>1 DEF IInv, TypeOK, All
  <2>3. CatalogueKept'
    BY <1>1, <1>4, <2>1, ApplyCatalogue
  <2> QED
    BY <1>1, <1>2, <1>3, <1>5, <2>2, <2>3, SamePool, RefusedFrame
<1>6. ASSUME NEW next \in {"snap", "marshal"}, Applied(h, next), UNCHANGED lock,
             next = "marshal" => hand[h].op = "models"
      PROVE  IInv'
  <2>1. hand' \in [All -> Handling] /\ OnlyOf(h)
    BY <1>6, AppliedFacts DEF IInv, PCs
  <2>2. TypeOK'
    BY <1>1, <1>3, <1>4, <1>6, <2>1 DEF IInv, TypeOK, All
  <2>3. CatalogueKept'
    BY <1>1, <1>4, <1>6, <2>1, ApplyCatalogue
  <2>4. hand[h].op \notin KeyOps /\ hand[h].op # "add"
    BY <1>1 DEF KeyOps, SettingOps
  <2> QED
    BY <1>1, <1>2, <1>3, <1>6, <2>2, <2>3, <2>4, SamePool, ApplyFrame
<1>7. CASE Applied(h, IF hand[h].op = "settings" THEN "snap" ELSE "marshal") /\ UNCHANGED lock
  <2>1. CASE hand[h].op = "settings"
    BY <1>6, <1>7, <2>1
  <2>2. CASE hand[h].op # "settings"
    <3>1. hand[h].op = "models"
      BY <1>1, <2>2 DEF SettingOps
    <3> QED
      BY <1>6, <1>7, <2>2, <3>1
  <2> QED
    BY <2>1, <2>2
<1> QED
  BY <1>5, <1>7 DEF ApplySetting

-----------------------------------------------------------------------------
(***************************************************************************)
(* The handlers save.                                                      *)
(***************************************************************************)
LEMMA PersistFrame ==
    ASSUME IInv, Alive, TypeOK', NEW h \in Handlers, Active(h), OnlyOf(h), SameTask(h),
           hand'[h].alone => hand[h].alone,
           hand'[h].pc \in {"assign", "zen", "marshal", "truncate", "write"},
           hand'[h].pc = "assign" => SnapTyped(h)',
           hand'[h].pc = "zen" => hand[h].op \in AccountOps,
           UNCHANGED <<pool, keys, lock, catalogue, phase, acked, skipped>>, Mirrored',
           Carries(h) /\ (\A x \in Handlers \ {h} : ~Active(x)') => Carries(h)'
    PROVE  IInv'
<1>1. phase = "up"
  BY Up DEF Active
<1>2. /\ Working(h) /\ Active(h)' /\ (HoldsLock(h)' <=> HoldsLock(h)) /\ Placed(h)'
      /\ \A g : WillClear(h, g) => WillClear(h, g)'
  BY DEF Working, Active, HoldsLock, Placed, SameTask, WillClear
<1>3. CatalogueKept'
  BY <1>2, CatalogueFrame
<1>4. ASSUME hand'[h].alone PROVE Carries(h)'
  <2>1. Carries(h)
    BY <1>1, <1>4 DEF IInv, Alone
  <2>2. \A x \in Handlers \ {h} : ~Active(x)'
    BY <2>1, Handles DEF Carries, OnlyOf, SameWork, Active
  <2> QED
    BY <2>1, <2>2
<1>5. lock' = h <=> HoldsLock(h)'
  BY DEF IInv, LockHeld, HoldsLock, SameTask, Active
<1>6. lock' = h /\ Relies(h)' => Enabled(pool, GatewayOf(hand[h].item))' # {}
  <2>1. Relies(h)' => Relies(h)
    BY DEF Relies, SameTask
  <2>2. hand'[h].item = hand[h].item
    BY DEF SameTask
  <2> QED
    BY <2>1, <2>2 DEF IInv, PrimaryKept
<1> QED
  BY <1>1, <1>2, <1>3, <1>4, <1>5, <1>6, SamePool, Frame

LEMMA SnapInv ==
    ASSUME IInv, Alive, NEW h \in Handlers, Snap(h)
    PROVE  IInv'
<1> DEFINE snap == IF hand[h].op \in SyncsAccounts THEN Section(pool) ELSE keys
           r == [hand[h] EXCEPT !.pc = "assign", !.snap = snap]
<1>1. hand' = [hand EXCEPT ![h] = r] /\ hand[h].pc = "snap"
      /\ UNCHANGED <<pool, keys, cfg, file, lock, catalogue, phase, ops, acked, revoked, skipped, fresh>>
  BY DEF Snap
<1>2. hand[h] \in Handling
  BY HandTypes DEF IInv
<1>3. snap \in IF hand[h].op \in SyncsAccounts THEN [Cmdcode -> State] ELSE [ClientKeys -> State]
  BY SectionFacts DEF IInv, TypeOK
<1>4. snap \in [Cmdcode -> State] \cup [ClientKeys -> State]
  BY <1>3
<1>5. /\ hand[h].op \in SyncsAccounts => Copied(snap, Cmdcode)
      /\ hand[h].op \in KeyOps => snap = keys
  BY SectionFacts DEF SyncsAccounts, AccountOps, KeyOps, Copied, IInv, TypeOK
<1> HIDE DEF snap
<1>6. /\ r \in Handling /\ r.pc = "assign" /\ r.snap = snap /\ r.op = hand[h].op
      /\ r.item = hand[h].item /\ r.new = hand[h].new /\ r.to = hand[h].to /\ r.alone = hand[h].alone
  BY <1>2, <1>4 DEF Handling
<1> HIDE DEF r
<1>7. hand' \in [All -> Handling] /\ OnlyOf(h) /\ hand'[h] = r
  BY <1>1, <1>6, OneFacts, Handles DEF IInv
<1>8. TypeOK'
  BY <1>1, <1>7 DEF IInv, TypeOK, All
<1>9. Active(h) /\ SameTask(h)
  BY <1>1, <1>6, <1>7 DEF Active, SameTask
<1>10. SnapTyped(h)'
  BY <1>3, <1>6, <1>7 DEF SnapTyped
<1>11. ASSUME Carries(h), \A x \in Handlers \ {h} : ~Active(x)' PROVE Carries(h)'
  BY <1>1, <1>5, <1>6, <1>7, <1>11 DEF Carries, Copied
<1> QED
  BY <1>1, <1>6, <1>7, <1>8, <1>9, <1>10, <1>11, PersistFrame DEF IInv, Mirrored

\* What Assign does, and AssignZen.
LEMMA AssignFacts ==
    ASSUME IInv, NEW h \in Handlers, Assign(h)
    PROVE  /\ hand[h].pc = "assign" /\ hand[h] \in Handling
           /\ cfg' \in Config /\ cfg'.mirror = Section(cfg'.accounts) /\ cfg'.setting = cfg.setting
           /\ \A a \in Zen : cfg'.accounts[a] = cfg.accounts[a]
           /\ IF hand[h].op \in SyncsAccounts
              THEN /\ \A a \in Cmdcode : cfg'.accounts[a] = hand[h].snap[a]
                   /\ cfg'.keys = cfg.keys /\ cfg'.apiKey = cfg.apiKey
              ELSE /\ cfg'.accounts = cfg.accounts /\ cfg'.keys = hand[h].snap
                   /\ cfg'.apiKey \in {cfg.apiKey, NoKey}
           /\ hand' \in [All -> Handling] /\ OnlyOf(h) /\ SameTask(h)
           /\ hand'[h].pc = (IF hand[h].op \in AccountOps THEN "zen" ELSE "marshal")
           /\ hand'[h].alone = hand[h].alone
           /\ UNCHANGED <<pool, keys, file, lock, catalogue, phase, ops, acked, revoked, skipped, fresh>>
           /\ TypeOK'
<1> DEFINE next == IF hand[h].op \in AccountOps THEN "zen" ELSE "marshal"
           r == [hand[h] EXCEPT !.pc = next, !.snap = NoSection]
           snap == hand[h].snap
           apiKey == IF snap = NoClientKeys THEN cfg.apiKey ELSE NoKey
           stored == With(cfg.accounts, snap, Cmdcode)
<1>1. /\ hand' = [hand EXCEPT ![h] = r] /\ hand[h].pc = "assign"
      /\ cfg' = IF hand[h].op \in SyncsAccounts
                THEN [cfg EXCEPT !.accounts = stored, !.mirror = snap]
                ELSE [cfg EXCEPT !.keys = snap, !.apiKey = apiKey]
      /\ UNCHANGED <<pool, keys, file, lock, catalogue, phase, ops, acked, revoked, skipped, fresh>>
  BY DEF Assign
<1>2. hand[h] \in Handling /\ cfg \in Config /\ cfg.mirror = Section(cfg.accounts)
      /\ cfg.accounts \in [Accounts -> State]
  BY HandTypes DEF IInv, TypeOK, Mirrored, Config
<1>3. snap \in IF hand[h].op \in SyncsAccounts THEN [Cmdcode -> State] ELSE [ClientKeys -> State]
  BY <1>1 DEF IInv, SnapsTyped, SnapTyped
<1>4. apiKey \in ClientKeys \cup {NoKey} /\ apiKey \in {cfg.apiKey, NoKey}
  BY <1>2 DEF Config
<1>5. hand[h].op \in SyncsAccounts =>
         /\ stored \in [Accounts -> State] /\ Section(stored) = snap
         /\ \A a \in Cmdcode : stored[a] = snap[a]
         /\ \A a \in Zen : stored[a] = cfg.accounts[a]
  <2> SUFFICES ASSUME hand[h].op \in SyncsAccounts
               PROVE  /\ stored \in [Accounts -> State] /\ Section(stored) = snap
                      /\ \A a \in Cmdcode : stored[a] = snap[a]
                      /\ \A a \in Zen : stored[a] = cfg.accounts[a]
    OBVIOUS
  <2>1. snap \in [Cmdcode -> State] /\ Cmdcode \in SUBSET Accounts /\ \A a \in Zen : a \in Accounts \ Cmdcode
    BY <1>3, Gatewayed
  <2>2. /\ stored \in [Accounts -> State]
        /\ \A a \in Cmdcode : stored[a] = snap[a]
        /\ \A a \in Accounts \ Cmdcode : stored[a] = cfg.accounts[a]
    BY <1>2, <2>1, WithFacts
  <2>3. Section(stored) = snap
    BY <1>2, <2>1, StoredSection
  <2> QED
    BY <2>1, <2>2, <2>3
<1> HIDE DEF apiKey, stored
<1>6. /\ cfg' \in Config /\ cfg'.mirror = Section(cfg'.accounts) /\ cfg'.setting = cfg.setting
      /\ IF hand[h].op \in SyncsAccounts
         THEN cfg'.accounts = stored /\ cfg'.keys = cfg.keys /\ cfg'.apiKey = cfg.apiKey
         ELSE cfg'.accounts = cfg.accounts /\ cfg'.keys = snap /\ cfg'.apiKey = apiKey
  <2>1. CASE hand[h].op \in SyncsAccounts
    <3>1. cfg' = [cfg EXCEPT !.accounts = stored, !.mirror = snap]
      BY <1>1, <2>1
    <3>2. /\ cfg' \in Config /\ cfg'.accounts = stored /\ cfg'.mirror = snap
          /\ cfg'.keys = cfg.keys /\ cfg'.apiKey = cfg.apiKey /\ cfg'.setting = cfg.setting
      BY <1>2, <1>3, <1>5, <2>1, <3>1 DEF Config
    <3> QED
      BY <1>5, <2>1, <3>2
  <2>2. CASE hand[h].op \notin SyncsAccounts
    <3>1. cfg' = [cfg EXCEPT !.keys = snap, !.apiKey = apiKey]
      BY <1>1, <2>2
    <3>2. /\ cfg' \in Config /\ cfg'.accounts = cfg.accounts /\ cfg'.mirror = cfg.mirror
          /\ cfg'.keys = snap /\ cfg'.apiKey = apiKey /\ cfg'.setting = cfg.setting
      BY <1>2, <1>3, <1>4, <2>2, <3>1 DEF Config
    <3> QED
      BY <1>2, <2>2, <3>2
  <2> QED
    BY <2>1, <2>2
<1>7. next \in PCs
  BY DEF PCs
<1> HIDE DEF next
<1>8. /\ r \in Handling /\ r.pc = next /\ r.op = hand[h].op
      /\ r.item = hand[h].item /\ r.new = hand[h].new /\ r.to = hand[h].to /\ r.alone = hand[h].alone
  <2> DEFINE moved == [hand[h] EXCEPT !.pc = next]
  <2>1. /\ moved \in Handling /\ moved.pc = next /\ moved.op = hand[h].op /\ moved.item = hand[h].item
        /\ moved.new = hand[h].new /\ moved.to = hand[h].to /\ moved.alone = hand[h].alone
    BY <1>2, <1>7 DEF Handling, PCs
  <2>2. r = [moved EXCEPT !.snap = NoSection]
    BY <1>2 DEF Handling
  <2> HIDE DEF moved, r
  <2> QED
    BY <2>1, <2>2, Nothing DEF Handling
<1> HIDE DEF r
<1>9. hand' \in [All -> Handling] /\ OnlyOf(h) /\ hand'[h] = r
  BY <1>1, <1>8, OneFacts, Handles DEF IInv
<1>10. TypeOK'
  BY <1>1, <1>6, <1>9 DEF IInv, TypeOK, All
<1>11. SameTask(h)
  BY <1>8, <1>9 DEF SameTask
<1> QED
  BY <1>1, <1>2, <1>4, <1>5, <1>6, <1>8, <1>9, <1>10, <1>11 DEF next

LEMMA AssignZenFacts ==
    ASSUME IInv, NEW h \in Handlers, AssignZen(h)
    PROVE  /\ hand[h].pc = "zen" /\ hand[h].op \in AccountOps
           /\ cfg' \in Config /\ cfg'.mirror = Section(cfg'.accounts) /\ cfg'.setting = cfg.setting
           /\ cfg'.keys = cfg.keys /\ cfg'.apiKey = cfg.apiKey
           /\ \A a \in Zen : cfg'.accounts[a] = pool[a]
           /\ \A a \in Cmdcode : cfg'.accounts[a] = cfg.accounts[a]
           /\ hand' \in [All -> Handling] /\ OnlyOf(h) /\ SameTask(h)
           /\ hand'[h].pc = "marshal" /\ hand'[h].alone = hand[h].alone
           /\ UNCHANGED <<pool, keys, file, lock, catalogue, phase, ops, acked, revoked, skipped, fresh>>
           /\ TypeOK'
<1> DEFINE r == [hand[h] EXCEPT !.pc = "marshal"]
           stored == With(cfg.accounts, pool, Zen)
<1>1. /\ hand' = [hand EXCEPT ![h] = r] /\ hand[h].pc = "zen"
      /\ cfg' = [cfg EXCEPT !.accounts = stored]
      /\ UNCHANGED <<pool, keys, file, lock, catalogue, phase, ops, acked, revoked, skipped, fresh>>
  BY DEF AssignZen
<1>2. hand[h] \in Handling /\ cfg \in Config /\ cfg.mirror = Section(cfg.accounts)
      /\ cfg.accounts \in [Accounts -> State] /\ pool \in [Accounts -> State]
  BY HandTypes DEF IInv, TypeOK, Mirrored, Config
<1>3. stored = [a \in Accounts |-> IF a \in Zen THEN pool[a] ELSE cfg.accounts[a]]
  BY DEF With
<1>4. /\ stored \in [Accounts -> State]
      /\ \A a \in Zen : stored[a] = pool[a]
      /\ \A a \in Cmdcode : stored[a] = cfg.accounts[a]
  BY <1>2, <1>3, Gatewayed
<1>5. Section(stored) = cfg.mirror
  BY <1>2, StoredSection
<1> HIDE DEF stored
<1>6. /\ cfg' \in Config /\ cfg'.mirror = cfg.mirror /\ cfg'.accounts = stored
      /\ cfg'.keys = cfg.keys /\ cfg'.apiKey = cfg.apiKey /\ cfg'.setting = cfg.setting
  BY <1>1, <1>2, <1>4 DEF Config
<1>7. /\ r \in Handling /\ r.pc = "marshal" /\ r.op = hand[h].op
      /\ r.item = hand[h].item /\ r.new = hand[h].new /\ r.to = hand[h].to /\ r.alone = hand[h].alone
  BY <1>2 DEF Handling
<1> HIDE DEF r
<1>8. hand' \in [All -> Handling] /\ OnlyOf(h) /\ hand'[h] = r
  BY <1>1, <1>7, OneFacts, Handles DEF IInv
<1>9. TypeOK'
  BY <1>1, <1>6, <1>8 DEF IInv, TypeOK, All
<1>10. SameTask(h) /\ hand[h].op \in AccountOps
  BY <1>1, <1>7, <1>8 DEF SameTask, IInv, LockHeld, Placed
<1> QED
  BY <1>1, <1>4, <1>5, <1>6, <1>7, <1>8, <1>9, <1>10

LEMMA AssignInv ==
    ASSUME IInv, Alive, NEW h \in Handlers, Assign(h)
    PROVE  IInv'
<1> DEFINE snap == hand[h].snap
<1>1. /\ hand[h].pc = "assign" /\ cfg'.mirror = Section(cfg'.accounts) /\ cfg'.setting = cfg.setting
      /\ hand[h].op \in SyncsAccounts => \A a \in Cmdcode : cfg'.accounts[a] = snap[a]
      /\ hand[h].op \notin SyncsAccounts => cfg'.keys = snap
      /\ OnlyOf(h) /\ SameTask(h) /\ hand'[h].alone = hand[h].alone
      /\ hand'[h].pc = (IF hand[h].op \in AccountOps THEN "zen" ELSE "marshal")
      /\ UNCHANGED <<pool, keys, file, lock, catalogue, phase, ops, acked, revoked, skipped, fresh>>
      /\ TypeOK'
  BY AssignFacts
<1>2. Active(h) /\ hand'[h].pc \in {"zen", "marshal"} /\ (hand'[h].pc = "zen" => hand[h].op \in AccountOps)
  BY <1>1 DEF Active
<1>3. ASSUME Carries(h), \A x \in Handlers \ {h} : ~Active(x)' PROVE Carries(h)'
  <2>1. hand'[h].op = hand[h].op /\ hand'[h].item = hand[h].item /\ hand'[h].to = hand[h].to
    BY <1>1 DEF SameTask
  <2>2. hand[h].op \in SyncsAccounts => Copied(cfg.accounts, Cmdcode)'
    BY <1>1, <1>3 DEF Carries, Copied
  <2>3. hand[h].op \in SyncsAccounts /\ hand'[h].pc = "marshal" => Covered(hand[h].op) = Cmdcode
    BY <1>1, CoveredFacts
  <2>4. hand[h].op \in KeyOps => hand[h].op \notin SyncsAccounts /\ cfg'.keys = keys
    BY <1>1, <1>3 DEF Carries, KeyOps, SyncsAccounts, AccountOps
  <2> QED
    BY <1>1, <1>2, <1>3, <2>1, <2>2, <2>3, <2>4 DEF Carries
<1> QED
  BY <1>1, <1>2, <1>3, PersistFrame DEF Mirrored

LEMMA AssignZenInv ==
    ASSUME IInv, Alive, NEW h \in Handlers, AssignZen(h)
    PROVE  IInv'
<1>1. /\ hand[h].pc = "zen" /\ hand[h].op \in AccountOps
      /\ cfg'.mirror = Section(cfg'.accounts)
      /\ \A a \in Zen : cfg'.accounts[a] = pool[a]
      /\ \A a \in Cmdcode : cfg'.accounts[a] = cfg.accounts[a]
      /\ OnlyOf(h) /\ SameTask(h) /\ hand'[h].pc = "marshal" /\ hand'[h].alone = hand[h].alone
      /\ UNCHANGED <<pool, keys, file, lock, catalogue, phase, ops, acked, revoked, skipped, fresh>>
      /\ TypeOK'
  BY AssignZenFacts
<1>2. Active(h)
  BY <1>1 DEF Active
<1>3. ASSUME Carries(h), \A x \in Handlers \ {h} : ~Active(x)' PROVE Carries(h)'
  <2>1. hand'[h].op = hand[h].op
    BY <1>1 DEF SameTask
  <2>2. hand[h].op \in SyncsAccounts /\ hand[h].op \notin KeyOps /\ hand[h].op \notin SettingOps
    BY <1>1 DEF SyncsAccounts, AccountOps, KeyOps, SettingOps
  <2>3. \A a \in Accounts : cfg'.accounts[a] = pool[a]
    BY <1>1, <1>3, <2>2, Gatewayed DEF Carries, Copied
  <2>4. Copied(cfg.accounts, Covered(hand[h].op))'
    BY <1>1, <2>3, CoveredFacts DEF Copied
  <2> QED
    BY <1>1, <1>3, <2>1, <2>2, <2>4 DEF Carries
<1> QED
  BY <1>1, <1>2, <1>3, PersistFrame DEF Mirrored

\* What Marshal does, for a handler or for main.
LEMMA MarshalFacts ==
    ASSUME IInv, NEW h \in All, Marshal(h)
    PROVE  LET d == Marshalled(cfg)
           IN  /\ hand[h].pc = "marshal" /\ d \in Saved
               /\ d.accounts = cfg.accounts /\ d.keys = cfg.keys /\ d.setting = cfg.setting
               /\ d.apiKey = IF cfg.keys # NoClientKeys THEN NoKey ELSE cfg.apiKey
               /\ cfg' \in Config /\ cfg'.mirror = Section(cfg'.accounts) /\ cfg'.accounts = cfg.accounts
               /\ cfg'.keys = cfg.keys /\ cfg'.setting = cfg.setting /\ cfg'.apiKey = d.apiKey
               /\ hand' \in [All -> Handling] /\ OnlyOf(h) /\ SameTask(h)
               /\ hand'[h].pc = "truncate" /\ hand'[h].data = d /\ hand'[h].alone = hand[h].alone
               /\ UNCHANGED <<pool, keys, file, lock, catalogue, phase, ops, acked, revoked, skipped, fresh>>
               /\ TypeOK'
<1> DEFINE d == Marshalled(cfg)
           r == [hand[h] EXCEPT !.pc = "truncate", !.data = d]
<1>1. hand' = [hand EXCEPT ![h] = r] /\ hand[h].pc = "marshal"
      /\ cfg' = [cfg EXCEPT !.accounts = d.accounts, !.mirror = Section(d.accounts), !.apiKey = d.apiKey]
      /\ UNCHANGED <<pool, keys, file, lock, catalogue, phase, ops, acked, revoked, skipped, fresh>>
  BY DEF Marshal
<1>2. hand[h] \in Handling /\ cfg \in Config /\ cfg.mirror = Section(cfg.accounts)
  BY DEF IInv, TypeOK, Mirrored, All
<1>3. /\ d \in Saved /\ d.accounts = cfg.accounts /\ d.keys = cfg.keys /\ d.setting = cfg.setting
      /\ d.apiKey \in ClientKeys \cup {NoKey}
      /\ d.apiKey = IF cfg.keys # NoClientKeys THEN NoKey ELSE cfg.apiKey
  BY <1>2, MarshalledTypes
<1> HIDE DEF d
<1>4. /\ cfg' \in Config /\ cfg'.mirror = Section(cfg'.accounts) /\ cfg'.accounts = cfg.accounts
      /\ cfg'.keys = cfg.keys /\ cfg'.setting = cfg.setting /\ cfg'.apiKey = d.apiKey
  <2> DEFINE mirror == Section(d.accounts)
  <2>1. mirror \in [Cmdcode -> State]
    BY <1>2, <1>3 DEF Config
  <2>2. cfg' = [cfg EXCEPT !.accounts = d.accounts, !.mirror = mirror, !.apiKey = d.apiKey]
    BY <1>1
  <2> HIDE DEF mirror
  <2>3. /\ cfg' \in Config /\ cfg'.mirror = mirror /\ cfg'.accounts = d.accounts
        /\ cfg'.keys = cfg.keys /\ cfg'.setting = cfg.setting /\ cfg'.apiKey = d.apiKey
    BY <1>2, <1>3, <2>1, <2>2 DEF Config
  <2> QED
    BY <1>3, <2>3 DEF mirror
<1>5. /\ r \in Handling /\ r.pc = "truncate" /\ r.data = d /\ r.op = hand[h].op
      /\ r.item = hand[h].item /\ r.new = hand[h].new /\ r.to = hand[h].to /\ r.alone = hand[h].alone
  BY <1>2, <1>3 DEF Handling
<1> HIDE DEF r
<1>6. hand' \in [All -> Handling] /\ OnlyOf(h) /\ hand'[h] = r
  BY <1>1, <1>5, OneFacts DEF IInv
<1>7. TypeOK'
  BY <1>1, <1>4, <1>6 DEF IInv, TypeOK, All
<1> QED
  BY <1>1, <1>3, <1>4, <1>5, <1>6, <1>7 DEF d, SameTask

LEMMA MarshalInv ==
    ASSUME IInv, Alive, NEW h \in Handlers, Marshal(h)
    PROVE  IInv'
<1> DEFINE d == Marshalled(cfg)
<1>1. /\ hand[h].pc = "marshal"
      /\ d.accounts = cfg.accounts /\ d.keys = cfg.keys /\ d.setting = cfg.setting
      /\ cfg'.mirror = Section(cfg'.accounts) /\ cfg'.accounts = cfg.accounts
      /\ cfg'.keys = cfg.keys /\ cfg'.setting = cfg.setting
      /\ OnlyOf(h) /\ SameTask(h)
      /\ hand'[h].pc = "truncate" /\ hand'[h].data = d /\ hand'[h].alone = hand[h].alone
      /\ UNCHANGED <<pool, keys, file, lock, catalogue, phase, ops, acked, revoked, skipped, fresh>>
      /\ TypeOK'
  BY MarshalFacts, Handles
<1> HIDE DEF d
<1>2. Active(h)
  BY <1>1 DEF Active
<1>3. ASSUME Carries(h), \A x \in Handlers \ {h} : ~Active(x)' PROVE Carries(h)'
  BY <1>1, <1>3 DEF Carries, SameTask, Copied
<1> QED
  BY <1>1, <1>2, <1>3, PersistFrame DEF Mirrored

LEMMA TruncateFacts ==
    ASSUME IInv, NEW h \in All, Truncate(h)
    PROVE  /\ hand[h].pc = "truncate" /\ file' = Blank
           /\ hand' \in [All -> Handling] /\ OnlyOf(h) /\ SameTask(h)
           /\ hand'[h].pc = "write" /\ hand'[h].data = hand[h].data /\ hand'[h].alone = hand[h].alone
           /\ UNCHANGED <<pool, keys, cfg, lock, catalogue, phase, ops, acked, revoked, skipped, fresh>>
           /\ TypeOK'
<1> DEFINE r == [hand[h] EXCEPT !.pc = "write"]
<1>1. hand' = [hand EXCEPT ![h] = r] /\ hand[h].pc = "truncate" /\ file' = Blank
      /\ UNCHANGED <<pool, keys, cfg, lock, catalogue, phase, ops, acked, revoked, skipped, fresh>>
  BY DEF Truncate
<1>2. hand[h] \in Handling
  BY DEF IInv, TypeOK, All
<1>3. /\ r \in Handling /\ r.pc = "write" /\ r.data = hand[h].data /\ r.op = hand[h].op
      /\ r.item = hand[h].item /\ r.new = hand[h].new /\ r.to = hand[h].to /\ r.alone = hand[h].alone
  BY <1>2 DEF Handling
<1> HIDE DEF r
<1>4. hand' \in [All -> Handling] /\ OnlyOf(h) /\ hand'[h] = r
  BY <1>1, <1>3, OneFacts DEF IInv
<1>5. TypeOK'
  BY <1>1, <1>4, BlankSaved DEF IInv, TypeOK, All
<1> QED
  BY <1>1, <1>3, <1>4, <1>5 DEF SameTask

LEMMA TruncateInv ==
    ASSUME IInv, Alive, NEW h \in Handlers, Truncate(h)
    PROVE  IInv'
<1>1. /\ hand[h].pc = "truncate" /\ file' = Blank
      /\ OnlyOf(h) /\ SameTask(h)
      /\ hand'[h].pc = "write" /\ hand'[h].data = hand[h].data /\ hand'[h].alone = hand[h].alone
      /\ UNCHANGED <<pool, keys, cfg, lock, catalogue, phase, ops, acked, revoked, skipped, fresh>>
      /\ TypeOK'
  BY TruncateFacts, Handles
<1>2. Active(h)
  BY <1>1 DEF Active
<1>3. ASSUME Carries(h), \A x \in Handlers \ {h} : ~Active(x)' PROVE Carries(h)'
  BY <1>1, <1>3 DEF Carries, SameTask, Copied
<1> QED
  BY <1>1, <1>2, <1>3, PersistFrame DEF IInv, Mirrored

\* A promise is what memory has of the item of a handler that is alone.
LEMMA PromiseFacts ==
    ASSUME IInv, NEW h \in All, hand[h].pc = "write", h # "main" => phase = "up"
    PROVE  LET new == Promise(h)
               by(ops2) == hand[h].alone /\ hand[h].op \in ops2
           IN  /\ new \in [a : [Accounts -> State \cup {"unknown"}],
                           k : [ClientKeys -> State \cup {"unknown"}],
                           s : Settings \cup {Generated, "unknown"}]
               /\ \A a \in Accounts :
                     \/ new.a[a] = acked.a[a]
                     \/ /\ by(AccountOps \cup {"oauth"}) /\ a \in Covered(hand[h].op)
                        /\ new.a[a] = pool[a]
               /\ \A k \in ClientKeys :
                     \/ new.k[k] = acked.k[k]
                     \/ by(KeyOps) /\ k = hand[h].item /\ new.k[k] = hand[h].to
               /\ new.s = acked.s \/ (by(SettingOps) /\ new.s = hand[h].item)
<1> DEFINE new == Promise(h)
           Promises == [a : [Accounts -> State \cup {"unknown"}],
                        k : [ClientKeys -> State \cup {"unknown"}],
                        s : Settings \cup {Generated, "unknown"}]
<1>1. acked \in Promises /\ pool \in [Accounts -> State]
  BY DEF IInv, TypeOK
<1>2. h = "main" => hand[h].op = "none"
  BY DEF IInv, Booting
<1>3. h # "main" => h \in Handlers /\ ItemTyped(h)
  BY DEF IInv, ItemsTyped, Working, All
<1>4. CASE new = acked
  BY <1>1, <1>4
<1>5. CASE hand[h].alone /\ hand[h].op \in AccountOps \cup {"oauth"}
  <2> DEFINE u == [a \in Accounts |-> IF a \in {hand[h].item, hand[h].new} THEN pool[a] ELSE acked.a[a]]
  <2>1. u \in [Accounts -> State \cup {"unknown"}]
        /\ \A a \in Accounts : u[a] = acked.a[a] \/ (a \in {hand[h].item, hand[h].new} /\ u[a] = pool[a])
    BY <1>1
  <2>5. \A a \in Accounts \cap {hand[h].item, hand[h].new} : a \in Covered(hand[h].op)
    <3>1. CASE hand[h].op \in AccountOps
      BY <3>1, CoveredFacts
    <3>2. CASE hand[h].op = "oauth"
      <4>1. hand[h].item \in Cmdcode /\ hand[h].new = NoKey
        BY <1>2, <1>3, <3>2 DEF ItemTyped
      <4> QED
        BY <3>2, <4>1, ConfigAssumption, CoveredFacts
    <3> QED
      BY <1>5, <3>1, <3>2
  <2>2. new = [acked EXCEPT !.a = u]
    BY <1>5 DEF Promise
  <2> HIDE DEF u, new
  <2>3. new = [a |-> u, k |-> acked.k, s |-> acked.s]
    BY <1>1, <2>2
  <2>4. new \in Promises
    BY <1>1, <2>1, <2>3
  <2>6. \A a \in Accounts : new.a[a] = acked.a[a] \/ (a \in Covered(hand[h].op) /\ new.a[a] = pool[a])
    BY <2>1, <2>3, <2>5
  <2> QED
    BY <1>5, <2>3, <2>4, <2>6 DEF new
<1>6. CASE hand[h].alone /\ hand[h].op \in KeyOps
  <2>1. h \in Handlers /\ hand[h].to \in State
    BY <1>2, <1>3, <1>6 DEF ItemTyped, KeyOps
  <2>2. hand[h].op \notin AccountOps \cup {"oauth"}
    BY <1>6 DEF KeyOps, AccountOps
  <2>3. new = [acked EXCEPT !.k[hand[h].item] = hand[h].to]
    BY <1>6, <2>2 DEF Promise
  <2> DEFINE item == hand[h].item
             to == hand[h].to
             put == [acked EXCEPT !.k[item] = to]
  <2>a. to \in State \cup {"unknown"} /\ new = put
    BY <2>1, <2>3
  <2>b. put \in Promises /\ put.a = acked.a /\ put.s = acked.s /\ put.k = [acked.k EXCEPT ![item] = to]
    <3> HIDE DEF item, to
    <3> QED
      BY <2>a, AckedKey DEF IInv
  <2>4. new \in Promises /\ new.a = acked.a /\ new.s = acked.s
        /\ new.k = [acked.k EXCEPT ![hand[h].item] = hand[h].to]
    <3> HIDE DEF put, new
    <3> QED
      BY <2>a, <2>b
  <2> HIDE DEF new
  <2>5. \A k \in ClientKeys : new.k[k] = acked.k[k] \/ (k = hand[h].item /\ new.k[k] = hand[h].to)
    BY <1>1, <2>4
  <2> QED
    BY <1>6, <2>4, <2>5 DEF new
<1>7. CASE hand[h].alone /\ hand[h].op \in SettingOps
  <2>1. h \in Handlers /\ hand[h].item \in Settings
    BY <1>2, <1>3, <1>7 DEF ItemTyped, SettingOps
  <2>2. hand[h].op \notin AccountOps \cup {"oauth"} /\ hand[h].op \notin KeyOps
    BY <1>7 DEF KeyOps, AccountOps, SettingOps
  <2>3. new = [acked EXCEPT !.s = hand[h].item]
    BY <1>7, <2>2 DEF Promise
  <2>4. new \in Promises /\ new.a = acked.a /\ new.k = acked.k /\ new.s = hand[h].item
    BY <2>1, <2>3, AckedSetting DEF IInv
  <2> HIDE DEF new
  <2> QED
    BY <1>7, <2>4 DEF new
<1> QED
  BY <1>4, <1>5, <1>6, <1>7 DEF Promise

LEMMA WriteFacts ==
    ASSUME IInv, NEW h \in All, Write(h), h # "main" => phase = "up"
    PROVE  /\ hand[h].pc = "write"
           /\ file' \in {hand[h].data, Torn}
           /\ file \in {Blank, hand[h].data} => file' = hand[h].data
           /\ acked' = Promise(h)
           /\ hand' \in [All -> Handling] /\ OnlyOf(h)
           /\ IF hand[h].op \in AccountOps \cup {"oauth"}
              THEN /\ hand'[h].pc = "check" /\ hand'[h].op = hand[h].op
                   /\ hand'[h].item = hand[h].item /\ hand'[h].new = NoKey /\ hand'[h].to = "keep"
              ELSE hand'[h] = Idle
           /\ phase' = IF h = "main" THEN "up" ELSE phase
           /\ UNCHANGED <<pool, keys, cfg, lock, catalogue, ops, skipped, fresh>>
           /\ TypeOK'
<1> DEFINE busy == hand[h].op \in AccountOps \cup {"oauth"}
           waiting == Checking(h)
           r == IF busy THEN waiting ELSE Idle
<1>1. /\ hand[h].pc = "write" /\ hand' = [hand EXCEPT ![h] = r]
      /\ file' \in {hand[h].data, Torn}
      /\ file \in {Blank, hand[h].data} => file' = hand[h].data
      /\ acked' = Promise(h) /\ phase' = IF h = "main" THEN "up" ELSE phase
      /\ UNCHANGED <<pool, keys, cfg, lock, catalogue, ops, skipped, fresh>>
  BY DEF Write
<1>2. hand[h] \in Handling
  BY DEF IInv, TypeOK, All
<1>3. /\ waiting \in Handling /\ waiting.pc = "check" /\ waiting.op = hand[h].op
      /\ waiting.item = hand[h].item /\ waiting.new = NoKey /\ waiting.to = "keep"
  <2> DEFINE begun == [Idle EXCEPT !.op = hand[h].op]
             task == [Idle EXCEPT !.op = hand[h].op, !.item = hand[h].item]
  <2>3. Idle.new = NoKey /\ Idle.to = "keep"
    BY DEF Idle
  <2>4. begun \in Handling /\ begun.op = hand[h].op /\ begun.new = NoKey /\ begun.to = "keep"
    BY <1>2, <2>3, IdleTypes DEF Handling
  <2>5. task = [begun EXCEPT !.item = hand[h].item]
    BY IdleTypes DEF Handling
  <2>1. /\ task \in Handling /\ task.op = hand[h].op /\ task.item = hand[h].item
        /\ task.new = NoKey /\ task.to = "keep"
    <3> HIDE DEF begun, task
    <3> QED
      BY <1>2, <2>4, <2>5 DEF Handling
  <2>2. waiting = [task EXCEPT !.pc = "check"]
    BY IdleTypes DEF Handling, Checking
  <2> HIDE DEF task, waiting
  <2> QED
    BY <2>1, <2>2 DEF Handling
<1> HIDE DEF waiting
<1>4. r \in Handling
  BY <1>3, IdleTypes
<1>5. IF busy THEN /\ r.pc = "check" /\ r.op = hand[h].op
                   /\ r.item = hand[h].item /\ r.new = NoKey /\ r.to = "keep"
      ELSE r = Idle
  BY <1>3
<1> HIDE DEF r, busy
<1>6. hand' \in [All -> Handling] /\ OnlyOf(h) /\ hand'[h] = r
  BY <1>1, <1>4, OneFacts DEF IInv
<1>7. acked' \in [a : [Accounts -> State \cup {"unknown"}],
                  k : [ClientKeys -> State \cup {"unknown"}],
                  s : Settings \cup {Generated, "unknown"}]
  BY <1>1, PromiseFacts
<1>8. hand[h].data \in Saved /\ revoked' \subseteq ClientKeys
  BY <1>2 DEF Handling, Write, Revoked, IInv, TypeOK
<1>9. TypeOK'
  BY <1>1, <1>6, <1>7, <1>8 DEF IInv, TypeOK, All
<1> QED
  BY <1>1, <1>5, <1>6, <1>9 DEF busy

LEMMA WriteInv ==
    ASSUME IInv, Alive, NEW h \in Handlers, Write(h)
    PROVE  IInv'
<1>1. phase = "up" /\ h # "main"
  BY Up, Handles DEF Write
<1> DEFINE busy == hand[h].op \in AccountOps \cup {"oauth"}
<1>2. /\ hand[h].pc = "write" /\ OnlyOf(h)
      /\ IF busy
         THEN /\ hand'[h].pc = "check" /\ hand'[h].op = hand[h].op
              /\ hand'[h].item = hand[h].item /\ hand'[h].new = NoKey /\ hand'[h].to = "keep"
         ELSE hand'[h] = Idle
      /\ phase' = phase
      /\ UNCHANGED <<pool, keys, cfg, lock, catalogue, ops, skipped, fresh>>
      /\ TypeOK'
  BY <1>1, WriteFacts, Handles
<1>3. Active(h) /\ ~Active(h)' /\ Working(h) /\ hand'[h].pc # "assign"
  BY <1>2, IdleTypes DEF Active, Working
<1>4. HoldsLock(h) <=> HoldsLock(h)'
  BY <1>2, IdleTypes DEF HoldsLock
<1>5. lock' = h <=> HoldsLock(h)'
  BY <1>2, <1>4 DEF IInv, LockHeld
<1>6. Placed(h)' /\ ~Relies(h)'
  BY <1>2, IdleTypes DEF Placed, Relies, Active
<1>7. Working(h)' => ItemTyped(h)'
  <2>1. CASE busy
    <3>1. ItemTyped(h)
      BY <1>3 DEF IInv, ItemsTyped
    <3>2. NoKey \notin Accounts
      BY ConfigAssumption
    <3>3. hand[h].op \notin KeyOps /\ hand[h].op \notin SettingOps
      BY <2>1 DEF AccountOps, KeyOps, SettingOps
    <3> QED
      BY <1>2, <2>1, <3>1, <3>2, <3>3 DEF ItemTyped
  <2>2. CASE ~busy
    BY <1>2, <2>2, IdleTypes DEF Working
  <2> QED
    BY <2>1, <2>2
<1>8. CatalogueKept'
  <2>1. ASSUME NEW g, WillClear(h, g) PROVE WillClear(h, g)'
    <3>1. busy
      BY <2>1 DEF WillClear, IInv, LockHeld, HoldsLock
    <3> QED
      BY <1>2, <2>1, <3>1 DEF WillClear
  <2> QED
    BY <1>2, <2>1, CatalogueFrame
<1> HIDE DEF busy
<1> QED
  BY <1>1, <1>2, <1>3, <1>5, <1>6, <1>7, <1>8, SamePool, Frame DEF IInv, Mirrored

\* The step ends the handler.
LEMMA DoneFacts ==
    ASSUME IInv, NEW h \in Handlers, hand[h].pc # "idle", Done(h)
    PROVE  /\ hand' \in [All -> Handling] /\ OnlyOf(h) /\ hand'[h] = Idle
           /\ lock' \in Handlers \cup {"free"} /\ lock' # h
           /\ \A g \in Handlers \ {h} : lock' = g <=> lock = g
           /\ ~Active(h)' /\ ~Working(h)' /\ ~HoldsLock(h)' /\ ~Relies(h)' /\ Placed(h)'
           /\ hand'[h].pc = "idle"
<1>1. hand' \in [All -> Handling] /\ OnlyOf(h) /\ hand'[h] = Idle
  BY OneFacts, IdleTypes, Handles DEF Done, IInv
<1>2. lock' = IF lock = h THEN "free" ELSE lock
  BY DEF Done
<1>3. /\ lock' \in Handlers \cup {"free"} /\ lock' # h
      /\ \A g \in Handlers \ {h} : lock' = g <=> lock = g
  BY <1>2, Handles DEF IInv, TypeOK
<1>4. ~Active(h)' /\ ~Working(h)' /\ ~HoldsLock(h)' /\ ~Relies(h)' /\ Placed(h)'
  BY <1>1, IdleTypes DEF Active, Working, HoldsLock, Relies, Placed
<1> QED
  BY <1>1, <1>3, <1>4, IdleTypes

LEMMA DoneFrame ==
    ASSUME IInv, NEW h \in Handlers, phase = "up", hand[h].pc # "idle", Done(h), TypeOK',
           UNCHANGED <<pool, keys, cfg, phase>>, UNCHANGED file \/ Active(h), CatalogueKept'
    PROVE  IInv'
<1>1. /\ OnlyOf(h) /\ lock' # h /\ (\A g \in Handlers \ {h} : lock' = g <=> lock = g)
      /\ ~Active(h)' /\ ~Working(h)' /\ ~HoldsLock(h)' /\ Placed(h)' /\ hand'[h].pc = "idle"
  BY DoneFacts
<1> QED
  BY <1>1, SamePool, Frame DEF IInv, Mirrored

\* A save that fails leaves a gateway without a look at its models, unless an
\* account was added to it: the holder of the lock can rely on that.
LEMMA SaveFailsInv ==
    ASSUME IInv, Alive, NEW h \in Handlers, SaveFails(h)
    PROVE  IInv'
<1>1. /\ hand[h].pc \in {"truncate", "write"} /\ Done(h)
      /\ UNCHANGED <<pool, keys, cfg, catalogue, phase, revoked, fresh>>
      /\ file' \in {file, Torn} /\ acked' \in {acked, NothingPromised}
      /\ skipped' = IF hand[h].op \in {"patch", "delete"} THEN skipped \cup {GatewayOf(hand[h].item)} ELSE skipped
  BY DEF SaveFails
<1>2. phase = "up" /\ Active(h) /\ hand[h].pc # "idle"
  BY <1>1, Up DEF Active
<1>3. /\ hand' \in [All -> Handling] /\ OnlyOf(h) /\ lock' \in Handlers \cup {"free"}
      /\ \A g \in Handlers \ {h} : lock' = g <=> lock = g
  BY <1>1, <1>2, DoneFacts
<1>4. TypeOK'
  <2>1. ops' \in 0..MaxOps
    BY ConfigAssumption DEF SaveFails, IInv, TypeOK
  <2>2. NothingPromised \in [a : [Accounts -> State \cup {"unknown"}],
                             k : [ClientKeys -> State \cup {"unknown"}],
                             s : Settings \cup {Generated, "unknown"}]
    BY DEF NothingPromised
  <2>3. skipped' \subseteq Gateways
    BY <1>1, Gatewayed DEF IInv, TypeOK
  <2> QED
    BY <1>1, <1>3, <2>1, <2>2, <2>3 DEF IInv, TypeOK, All
<1>5. CatalogueKept'
  <2>1. ASSUME NEW g \in Gateways \ skipped', WillClear(h, g) PROVE Enabled(pool, g) # {}
    <3>1. lock = h /\ GatewayOf(hand[h].item) = g
      BY <2>1 DEF WillClear
    <3>2. hand[h].op \in AccountOps /\ hand[h].op \notin {"patch", "delete"}
      BY <1>1, <2>1, <3>1 DEF IInv, LockHeld, HoldsLock
    <3>3. Relies(h)
      BY <1>2, <3>2 DEF Relies, AccountOps
    <3> QED
      BY <3>1, <3>3 DEF IInv, PrimaryKept
  <2>2. \A g \in Gateways \ skipped' : g \notin skipped
    BY <1>1
  <2> QED
    BY <1>1, <1>3, <2>1, <2>2, CatalogueFrame
<1> QED
  BY <1>1, <1>2, <1>4, <1>5, DoneFrame

-----------------------------------------------------------------------------
(***************************************************************************)
(* The handlers look after the catalogue.                                  *)
(***************************************************************************)
\* The place of a handler that goes on.
LEMMA MovedFacts ==
    ASSUME IInv, NEW h \in Handlers, NEW next \in PCs, hand' = [hand EXCEPT ![h].pc = next]
    PROVE  /\ hand' \in [All -> Handling] /\ OnlyOf(h) /\ SameTask(h) /\ hand'[h].pc = next
<1> DEFINE r == [hand[h] EXCEPT !.pc = next]
<1>1. hand[h] \in Handling /\ hand' = [hand EXCEPT ![h] = r]
  BY HandTypes DEF IInv
<1>2. /\ r \in Handling /\ r.pc = next /\ r.op = hand[h].op
      /\ r.item = hand[h].item /\ r.new = hand[h].new /\ r.to = hand[h].to
  BY <1>1 DEF Handling, PCs
<1> HIDE DEF r
<1>3. hand' \in [All -> Handling] /\ OnlyOf(h) /\ hand'[h] = r
  BY <1>1, <1>2, OneFacts, Handles DEF IInv
<1> QED
  BY <1>2, <1>3 DEF SameTask

LEMMA CheckInv ==
    ASSUME IInv, Alive, NEW h \in Handlers, Check(h)
    PROVE  IInv'
<1> DEFINE g == GatewayOf(hand[h].item)
<1>1. phase = "up" /\ hand[h].pc = "check" /\ skipped' = skipped \ {g} /\ g \in Gateways
      /\ UNCHANGED <<pool, keys, cfg, file, phase, ops, acked, revoked, fresh>>
  BY Up, Gatewayed DEF Check
<1>2. ASSUME NEW x \in Gateways, x # g, OnlyOf(h), catalogue'[x] = catalogue[x], x \notin skipped',
             \A y \in Handlers \ {h} : lock' = y <=> lock = y
      PROVE  catalogue'[x] = "enabled" /\ Enabled(pool', x) = {} => \E y \in Handlers : WillClear(y, x)'
  <2>1. ~WillClear(h, x)
    BY <1>2 DEF WillClear
  <2>2. \A y \in Handlers \ {h} : WillClear(y, x) => WillClear(y, x)'
    BY <1>2, Handles DEF OnlyOf, SameWork, WillClear, Active
  <2>3. x \notin skipped /\ phase # "broken"
    BY <1>1, <1>2
  <2> QED
    BY <1>1, <1>2, <2>1, <2>2, <2>3 DEF IInv, CatalogueKept
<1>3. CASE Enabled(pool, g) = {} /\ catalogue' = [catalogue EXCEPT ![g] = "none"] /\ Done(h)
  <2>1. /\ hand' \in [All -> Handling] /\ OnlyOf(h) /\ lock' \in Handlers \cup {"free"}
        /\ \A x \in Handlers \ {h} : lock' = x <=> lock = x
    BY <1>1, <1>3, DoneFacts
  <2>2. catalogue \in [Gateways -> {"none", "enabled", "oauth", "disabled"}]
    BY DEF IInv, TypeOK
  <2>3. /\ catalogue' \in [Gateways -> {"none", "enabled", "oauth", "disabled"}]
        /\ catalogue'[g] = "none" /\ \A x \in Gateways \ {g} : catalogue'[x] = catalogue[x]
    BY <1>1, <1>3, <2>2
  <2>4. TypeOK'
    BY <1>1, <2>1, <2>3 DEF IInv, TypeOK, All
  <2>5. catalogue'["zen"] \in {"none", "enabled"}
    BY <2>3 DEF IInv, CatalogueKept, Gateways
  <2>6. CatalogueKept'
    <3>1. ASSUME NEW x \in Gateways \ skipped'
          PROVE  catalogue'[x] = "enabled" /\ Enabled(pool', x) = {} => \E y \in Handlers : WillClear(y, x)'
      BY <1>2, <2>1, <2>3, <3>1
    <3> QED
      BY <2>5, <3>1 DEF CatalogueKept
  <2> QED
    BY <1>1, <1>3, <2>4, <2>6, DoneFrame
<1>4. CASE /\ Enabled(pool, g) # {}
           /\ hand' = [hand EXCEPT ![h].pc = "primary"]
           /\ UNCHANGED <<catalogue, lock>>
  <2>1. hand' \in [All -> Handling] /\ OnlyOf(h) /\ SameTask(h) /\ hand'[h].pc = "primary"
    BY <1>4, MovedFacts DEF PCs
  <2>2. TypeOK'
    BY <1>1, <1>4, <2>1 DEF IInv, TypeOK, All
  <2>3. CatalogueKept'
    <3>1. ASSUME NEW x \in Gateways \ skipped'
          PROVE  catalogue'[x] = "enabled" /\ Enabled(pool', x) = {} => \E y \in Handlers : WillClear(y, x)'
      <4>1. CASE x = g
        BY <1>1, <1>4, <4>1
      <4>2. CASE x # g
        BY <1>2, <1>4, <2>1, <4>2
      <4> QED
        BY <4>1, <4>2
    <3> QED
      BY <1>4, <3>1 DEF CatalogueKept, IInv
  <2>4. /\ ~Active(h)' /\ Working(h) /\ (HoldsLock(h) <=> HoldsLock(h)') /\ Placed(h)'
        /\ hand'[h].item = hand[h].item
    BY <1>1, <2>1 DEF Active, Working, HoldsLock, SameTask, Placed, IInv, LockHeld
  <2>5. lock' = h <=> HoldsLock(h)'
    BY <1>4, <2>4 DEF IInv, LockHeld
  <2>6. Enabled(pool, GatewayOf(hand[h].item))' # {}
    BY <1>1, <1>4, <2>4
  <2> QED
    BY <1>1, <1>4, <2>1, <2>2, <2>3, <2>4, <2>5, <2>6, SamePool, Frame DEF IInv, Mirrored
<1> QED
  BY <1>3, <1>4 DEF Check

LEMMA PrimaryInv ==
    ASSUME IInv, Alive, NEW h \in Handlers, Primary(h)
    PROVE  IInv'
<1>1. /\ phase = "up" /\ hand[h].pc = "primary" /\ hand' = [hand EXCEPT ![h].pc = "fetch"]
      /\ UNCHANGED <<pool, keys, cfg, file, lock, catalogue, phase, ops, acked, revoked, skipped, fresh>>
  BY Up DEF Primary
<1>2. hand' \in [All -> Handling] /\ OnlyOf(h) /\ SameTask(h) /\ hand'[h].pc = "fetch"
  BY <1>1, MovedFacts DEF PCs
<1>3. TypeOK'
  BY <1>1, <1>2 DEF IInv, TypeOK, All
<1>4. /\ ~Active(h)' /\ Working(h) /\ (HoldsLock(h) <=> HoldsLock(h)') /\ Placed(h)'
      /\ hand'[h].item = hand[h].item /\ Relies(h)
      /\ \A g : ~WillClear(h, g)
  BY <1>1, <1>2 DEF Active, Working, HoldsLock, SameTask, Placed, IInv, LockHeld, Relies, WillClear
<1>5. CatalogueKept'
  BY <1>1, <1>2, <1>4, CatalogueFrame
<1>6. lock' = h <=> HoldsLock(h)'
  BY <1>1, <1>4 DEF IInv, LockHeld
<1>7. lock = h => Enabled(pool, GatewayOf(hand[h].item))' # {}
  BY <1>1, <1>4 DEF IInv, PrimaryKept
<1> QED
  BY <1>1, <1>2, <1>3, <1>4, <1>5, <1>6, <1>7, SamePool, Frame DEF IInv, Mirrored

LEMMA FetchInv ==
    ASSUME IInv, Alive, NEW h \in Handlers, Fetch(h)
    PROVE  IInv'
<1> DEFINE g == GatewayOf(hand[h].item)
           whose == IF lock = h THEN "enabled" ELSE "oauth"
<1>1. /\ phase = "up" /\ hand[h].pc = "fetch" /\ Done(h) /\ g \in Gateways
      /\ catalogue' \in {catalogue, [catalogue EXCEPT ![g] = whose]}
      /\ UNCHANGED <<pool, keys, cfg, file, phase, ops, acked, revoked, skipped, fresh>>
  BY Up, Gatewayed DEF Fetch
<1>2. /\ hand' \in [All -> Handling] /\ OnlyOf(h) /\ lock' \in Handlers \cup {"free"}
      /\ \A x \in Handlers \ {h} : lock' = x <=> lock = x
  BY <1>1, DoneFacts
<1>3. catalogue \in [Gateways -> {"none", "enabled", "oauth", "disabled"}]
  BY DEF IInv, TypeOK
<1>4. /\ catalogue' \in [Gateways -> {"none", "enabled", "oauth", "disabled"}]
      /\ catalogue'[g] \in {catalogue[g], whose} /\ \A x \in Gateways \ {g} : catalogue'[x] = catalogue[x]
  BY <1>1, <1>3
<1>5. TypeOK'
  BY <1>1, <1>2, <1>4 DEF IInv, TypeOK, All
<1>6. lock # h => g = "cmdcode"
  <2>1. lock # h => hand[h].op = "oauth"
    BY <1>1 DEF IInv, LockHeld, HoldsLock, Placed
  <2>2. lock # h => hand[h].item \in Cmdcode
    BY <1>1, <2>1 DEF IInv, ItemsTyped, ItemTyped, Working
  <2> QED
    BY <2>2, Gatewayed
<1>7. catalogue'["zen"] \in {"none", "enabled"}
  <2>1. "zen" \in Gateways /\ catalogue["zen"] \in {"none", "enabled"}
    BY DEF Gateways, IInv, CatalogueKept
  <2>2. CASE g = "zen"
    BY <1>4, <1>6, <2>1, <2>2
  <2>3. CASE g # "zen"
    BY <1>4, <2>1, <2>3
  <2> QED
    BY <2>2, <2>3
<1>8. ASSUME NEW x \in Gateways \ skipped', catalogue'[x] = "enabled", Enabled(pool', x) = {}
      PROVE  \E y \in Handlers : WillClear(y, x)'
  <2>1. ~WillClear(h, x)
    BY <1>1 DEF WillClear, Active
  <2>2. \A y \in Handlers \ {h} : WillClear(y, x) => WillClear(y, x)'
    BY <1>2, Handles DEF OnlyOf, SameWork, WillClear, Active
  <2>3. catalogue[x] = "enabled"
    <3>1. CASE lock = h
      <4>1. Enabled(pool, g) # {}
        BY <1>1, <3>1 DEF IInv, PrimaryKept, Relies
      <4> QED
        BY <1>1, <1>4, <1>8, <4>1
    <3>2. CASE lock # h
      BY <1>4, <1>8, <3>2
    <3> QED
      BY <3>1, <3>2
  <2> QED
    BY <1>1, <1>8, <2>1, <2>2, <2>3 DEF IInv, CatalogueKept
<1>9. CatalogueKept'
  BY <1>7, <1>8 DEF CatalogueKept
<1> QED
  BY <1>1, <1>5, <1>9, DoneFrame

-----------------------------------------------------------------------------
(***************************************************************************)
(* main saves before the handlers start.                                   *)
(***************************************************************************)
LEMMA BootFrame ==
    ASSUME IInv, Alive, hand["main"].pc # "idle", TypeOK', OnlyOf("main"),
           hand'["main"].op = "none",
           \/ phase' = "boot" /\ hand'["main"].pc \in {"marshal", "truncate", "write"}
           \/ phase' = "up" /\ hand'["main"].pc = "idle",
           UNCHANGED <<pool, keys, lock, catalogue, skipped>>, Mirrored'
    PROVE  IInv'
<1>1. phase = "boot" /\ \A h \in Handlers : hand[h].pc = "idle"
  BY DEF IInv, Booting, Alive
<1>2. \A h \in Handlers : hand'[h].pc = "idle"
  BY <1>1, Handles DEF OnlyOf, SameWork
<1>3. ItemsTyped' /\ SnapsTyped' /\ Alone' /\ Booting'
  BY <1>2 DEF ItemsTyped, SnapsTyped, Working, Alone, Active, Booting
<1>4. \A h \in Handlers : lock # h
  BY <1>1 DEF IInv, LockHeld, HoldsLock
<1>5. LockHeld' /\ PrimaryKept'
  BY <1>2, <1>4 DEF LockHeld, HoldsLock, Placed, PrimaryKept
<1>6. CatalogueKept'
  BY <1>1, <1>4 DEF IInv, CatalogueKept, WillClear
<1> QED
  BY <1>3, <1>5, <1>6 DEF IInv

LEMMA BootInv ==
    ASSUME IInv, Alive, Persist("main")
    PROVE  IInv'
<1>1. "main" \in All /\ hand["main"].op = "none"
      /\ hand["main"].pc \in {"idle", "marshal", "truncate", "write"}
  BY Handles DEF IInv, Booting
<1>2. CASE Marshal("main")
  <2>1. hand["main"].pc = "marshal" /\ phase = "boot"
    BY <1>2 DEF Marshal, IInv, Booting, Alive
  <2> DEFINE d == Marshalled(cfg)
  <2>2. /\ cfg'.mirror = Section(cfg'.accounts) /\ OnlyOf("main") /\ SameTask("main")
        /\ hand'["main"].pc = "truncate"
        /\ UNCHANGED <<pool, keys, file, lock, catalogue, phase, ops, acked, revoked, skipped, fresh>>
        /\ TypeOK'
    BY <1>1, <1>2, MarshalFacts
  <2> QED
    BY <1>1, <2>1, <2>2, BootFrame DEF SameTask, Mirrored
<1>3. CASE Truncate("main")
  <2>1. hand["main"].pc = "truncate" /\ phase = "boot"
    BY <1>3 DEF Truncate, IInv, Booting, Alive
  <2>2. /\ OnlyOf("main") /\ SameTask("main") /\ hand'["main"].pc = "write"
        /\ UNCHANGED <<pool, keys, cfg, lock, catalogue, phase, ops, acked, revoked, skipped, fresh>>
        /\ TypeOK'
    BY <1>1, <1>3, TruncateFacts
  <2> QED
    BY <1>1, <2>1, <2>2, BootFrame DEF SameTask, Mirrored, IInv
<1>4. CASE Write("main")
  <2>1. /\ hand["main"].pc = "write" /\ OnlyOf("main")
        /\ hand'["main"] = Idle /\ phase' = "up"
        /\ UNCHANGED <<pool, keys, cfg, lock, catalogue, ops, skipped, fresh>>
        /\ TypeOK'
    BY <1>1, <1>4, WriteFacts DEF AccountOps
  <2> QED
    BY <2>1, IdleTypes, BootFrame DEF Mirrored, IInv
<1> QED
  BY <1>1, <1>2, <1>3, <1>4 DEF Persist, Snap, Assign, AssignZen

-----------------------------------------------------------------------------
(***************************************************************************)
(* The process starts, and ends.                                           *)
(***************************************************************************)
Started ==
    /\ cfg = Loaded(file) /\ pool = cfg.accounts /\ keys = cfg.keys
    /\ phase = IF StartSaves(file) THEN "boot" ELSE "up"
    /\ hand = [h \in Handlers \cup {"main"} |->
                 IF h = "main" /\ StartSaves(file) THEN [Idle EXCEPT !.pc = "marshal"] ELSE Idle]
    /\ lock = "free" /\ catalogue \in Listed(pool)

Counted ==
    /\ file \in Saved \cup InitialFiles
    /\ ops \in 0..MaxOps
    /\ acked \in [a : [Accounts -> State \cup {"unknown"}],
                  k : [ClientKeys -> State \cup {"unknown"}],
                  s : Settings \cup {Generated, "unknown"}]
    /\ revoked \subseteq ClientKeys /\ skipped \subseteq Gateways /\ fresh \subseteq ClientKeys

\* The models that a start lists are those of an enabled account, or of cmdcode.
LEMMA ListedFacts ==
    ASSUME NEW p, NEW c \in Listed(p)
    PROVE  /\ c \in [Gateways -> {"none", "enabled", "oauth", "disabled"}]
           /\ \A g \in Gateways : c[g] = "enabled" => Enabled(p, g) # {}
           /\ c["zen"] \in {"none", "enabled"}
<1>1. /\ c \in [Gateways -> {"none", "enabled", "disabled"}]
      /\ \A g \in Gateways : (c[g] = "enabled" => Enabled(p, g) # {}) /\ (c[g] = "disabled" => g = "cmdcode")
  BY DEF Listed
<1>2. "zen" \in Gateways
  BY DEF Gateways
<1> QED
  BY <1>1, <1>2

LEMMA StartedInv == Started /\ Counted => IInv
<1> SUFFICES ASSUME Started, Counted PROVE IInv
  OBVIOUS
<1>1. file \in FileData
  BY SavedIsData DEF Counted
<1>2. cfg \in Config /\ cfg.mirror = Section(cfg.accounts)
  BY <1>1, LoadedTypes DEF Started
<1> DEFINE saving == [Idle EXCEPT !.pc = "marshal"]
<1>3. saving \in Handling /\ saving.op = "none" /\ saving.pc = "marshal"
  BY IdleTypes DEF Handling
<1> HIDE DEF saving
<1>4. hand \in [All -> Handling] /\ (\A h \in Handlers : hand[h] = Idle)
      /\ hand["main"] = IF StartSaves(file) THEN saving ELSE Idle
  BY <1>3, IdleTypes, Handles DEF Started, saving, All
<1>5. phase = IF StartSaves(file) THEN "boot" ELSE "up"
  BY DEF Started
<1>6. TypeOK
  BY <1>2, <1>4, <1>5, ListedFacts DEF Started, Counted, TypeOK, All, Config
<1>7. ItemsTyped /\ SnapsTyped /\ Alone
  BY <1>4, IdleTypes DEF ItemsTyped, SnapsTyped, Working, Alone, Active
<1>8. Booting
  BY <1>3, <1>4, <1>5, IdleTypes DEF Booting
<1>9. LockHeld /\ PrimaryKept
  BY <1>4, IdleTypes, Handles DEF Started, LockHeld, HoldsLock, Placed, PrimaryKept
<1>10. CatalogueKept /\ Mirrored
  BY <1>2, ListedFacts DEF Started, CatalogueKept, Mirrored
<1> QED
  BY <1>6, <1>7, <1>8, <1>9, <1>10 DEF IInv

LEMMA InitInv == Init => IInv
<1> SUFFICES ASSUME Init PROVE IInv
  OBVIOUS
<1>1. file \in FileData /\ file \in InitialFiles
  BY SavedIsData DEF Init
<1>2. cfg \in Config
  BY <1>1, LoadedTypes DEF Init
<1>3. Counted
  <2>1. ops \in 0..MaxOps
    BY ConfigAssumption DEF Init
  <2>2. acked \in [a : [Accounts -> State \cup {"unknown"}],
                   k : [ClientKeys -> State \cup {"unknown"}],
                   s : Settings \cup {Generated, "unknown"}]
    BY <1>2 DEF Init, Config
  <2> QED
    BY <1>1, <2>1, <2>2 DEF Counted, Init
<1>4. Started
  BY DEF Init, Started
<1> QED
  BY <1>3, <1>4, StartedInv

LEMMA EndTypes ==
    ASSUME IInv, End
    PROVE  /\ acked' \in [a : [Accounts -> State \cup {"unknown"}],
                          k : [ClientKeys -> State \cup {"unknown"}],
                          s : Settings \cup {Generated, "unknown"}]
           /\ file' \in {file, Torn} /\ UNCHANGED <<revoked, fresh>> /\ skipped' \subseteq Gateways
           /\ \/ file' # Torn /\ Started'
              \/ /\ file' = Torn /\ phase' = "broken"
                 /\ UNCHANGED <<pool, keys, cfg, hand, lock, catalogue>>
<1>1. NothingPromised \in [a : [Accounts -> State \cup {"unknown"}],
                           k : [ClientKeys -> State \cup {"unknown"}],
                           s : Settings \cup {Generated, "unknown"}]
  BY DEF NothingPromised
<1>2. acked' \in [a : [Accounts -> State \cup {"unknown"}],
                  k : [ClientKeys -> State \cup {"unknown"}],
                  s : Settings \cup {Generated, "unknown"}]
  BY <1>1 DEF End, IInv, TypeOK
<1>3. file' \in {file, Torn} /\ UNCHANGED <<revoked, fresh>> /\ skipped' \subseteq Gateways
  BY DEF End, Start, IInv, TypeOK
<1>4. ASSUME Start(file') PROVE Started'
  <2>1. /\ cfg' = Loaded(file') /\ pool' = cfg'.accounts /\ keys' = cfg'.keys
        /\ phase' = IF StartSaves(file') THEN "boot" ELSE "up"
        /\ hand' = [h \in Handlers \cup {"main"} |->
                      IF h = "main" /\ StartSaves(file') THEN [Idle EXCEPT !.pc = "marshal"] ELSE Idle]
        /\ lock' = "free"
        /\ catalogue' \in Listed(pool')
    BY <1>4 DEF Start
  <2>2. Loaded(file') = Loaded(file)' /\ (StartSaves(file') <=> StartSaves(file)')
        /\ Listed(pool') = Listed(pool)'
    BY DEF Loaded, StartSaves, Listed
  <2>3. Started'
    BY <2>1, <2>2 DEF Started
  <2> QED
    BY <2>3
<1>5. Start(file') => Started'
  BY <1>4
<1> QED
  BY <1>2, <1>3, <1>5 DEF End

LEMMA EndInv ==
    ASSUME IInv, End, ops' \in 0..MaxOps
    PROVE  IInv'
<1>1. CASE file' # Torn /\ Started'
  <2>1. file' \in Saved \cup InitialFiles
    BY <1>1, EndTypes DEF IInv, TypeOK
  <2>2. Counted'
    BY <2>1, EndTypes DEF Counted, IInv, TypeOK
  <2> QED
    BY <1>1, <2>2, StartedInv, PTL
<1>2. CASE file' = Torn /\ phase' = "broken" /\ UNCHANGED <<pool, keys, cfg, hand, lock, catalogue>>
  <2>1. TypeOK'
    BY <1>2, EndTypes DEF IInv, TypeOK
  <2>2. Booting' /\ CatalogueKept' /\ Alone'
    BY <1>2 DEF Booting, CatalogueKept, Alone, IInv
  <2>3. ItemsTyped' /\ SnapsTyped' /\ Mirrored' /\ LockHeld' /\ PrimaryKept'
    BY <1>2 DEF IInv, ItemsTyped, ItemTyped, Working, SnapsTyped, SnapTyped, Mirrored, LockHeld,
                HoldsLock, Placed, PrimaryKept, Relies, Active
  <2> QED
    BY <2>1, <2>2, <2>3 DEF IInv
<1> QED
  BY <1>1, <1>2, EndTypes

LEMMA CrashInv ==
    ASSUME IInv, Crash
    PROVE  IInv'
<1>1. ops' \in 0..MaxOps
  BY ConfigAssumption DEF Crash, IInv, TypeOK
<1> QED
  BY <1>1, EndInv DEF Crash

LEMMA PanicInv ==
    ASSUME IInv, Alive, NEW h \in Handlers, Panic(h)
    PROVE  IInv'
<1>1. ops' \in 0..MaxOps
  BY DEF Panic, IInv, TypeOK
<1>2. CASE End
  BY <1>1, <1>2, EndInv
<1>3. CASE Done(h) /\ UNCHANGED <<pool, keys, cfg, file, catalogue, phase, acked, revoked, skipped, fresh>>
  <2>1. phase = "up" /\ hand[h].pc = "primary"
    BY Up DEF Panic
  <2>2. /\ hand' \in [All -> Handling] /\ OnlyOf(h) /\ lock' \in Handlers \cup {"free"}
        /\ \A g \in Handlers \ {h} : lock' = g <=> lock = g
    BY <1>3, <2>1, DoneFacts
  <2>3. TypeOK'
    BY <1>1, <1>3, <2>2 DEF IInv, TypeOK, All
  <2>4. \A g : ~WillClear(h, g)
    BY <2>1 DEF WillClear, Active
  <2>5. CatalogueKept'
    BY <1>3, <2>2, <2>4, CatalogueFrame
  <2> QED
    BY <1>3, <2>1, <2>3, <2>5, DoneFrame
<1> QED
  BY <1>2, <1>3 DEF Panic

LEMMA StepInv == IInv /\ [Next]_vars => IInv'
<1> SUFFICES ASSUME IInv, [Next]_vars PROVE IInv'
  OBVIOUS
<1>1. ASSUME ops < MaxOps, NEW h \in Handlers, NEW a \in Accounts, NEW op \in {"add", "delete"},
             Begin(h, op, a, NoKey, "keep")
      PROVE  IInv'
  BY <1>1, BeginInv
<1>2. ASSUME ops < MaxOps, NEW h \in Handlers, NEW a \in Cmdcode, Begin(h, "oauth", a, NoKey, "keep")
      PROVE  IInv'
  BY <1>2, BeginInv
<1>3. ASSUME ops < MaxOps, NEW h \in Handlers, NEW a \in Accounts, NEW new \in Accounts \cup {NoKey},
             NEW to \in {"keep", "on", "off"}, Begin(h, "patch", a, new, to),
             new \in Accounts => GatewayOf(new) = GatewayOf(a)
      PROVE  IInv'
  BY <1>3, BeginInv
<1>4. ASSUME ops < MaxOps, NEW h \in Handlers, NEW k \in ClientKeys, NEW op \in KeyOps,
             NEW to \in State, Begin(h, op, k, NoKey, to)
      PROVE  IInv'
  BY <1>4, BeginInv
<1>5. ASSUME ops < MaxOps, NEW h \in Handlers, NEW v \in Settings, NEW op \in SettingOps,
             NEW to \in {"keep", "refuse"}, Begin(h, op, v, NoKey, to)
      PROVE  IInv'
  BY <1>5, BeginInv
<1>6. ASSUME Alive, NEW h \in Handlers, Lock(h) \/ Apply(h) \/ SaveFails(h) \/ Refresh(h) \/ Panic(h)
      PROVE  IInv'
  BY <1>6, LockInv, ApplyAddInv, ApplyPatchInv, ApplyDeleteInv, ApplyKeyInv, ApplySettingInv,
     SaveFailsInv, CheckInv, PrimaryInv, FetchInv, PanicInv DEF Apply, Refresh
<1>7. ASSUME Alive, NEW h \in Handlers, Persist(h)
      PROVE  IInv'
  BY <1>7, SnapInv, AssignInv, AssignZenInv, MarshalInv, TruncateInv, WriteInv DEF Persist
<1>8. CASE Alive /\ Persist("main")
  BY <1>8, BootInv
<1>9. CASE Crash
  BY <1>9, CrashInv
<1>10. CASE UNCHANGED vars
  BY <1>10 DEF vars, IInv, TypeOK, ItemsTyped, ItemTyped, Working, SnapsTyped, SnapTyped, Booting,
               Mirrored, LockHeld, HoldsLock, Placed, PrimaryKept, Relies, CatalogueKept, WillClear,
               Active, Alone, Carries, Copied
<1>11. fresh \subseteq ClientKeys
  BY DEF IInv, TypeOK
<1>12. CASE Next
  <2>1. CASE /\ ops < MaxOps
           /\ \E h \in Handlers, a \in Accounts, op \in {"add", "delete"} : Begin(h, op, a, NoKey, "keep")
    BY <1>1, <2>1
  <2>2. CASE ops < MaxOps /\ \E h \in Handlers, a \in Cmdcode : Begin(h, "oauth", a, NoKey, "keep")
    BY <1>2, <2>2
  <2>3. CASE /\ ops < MaxOps
           /\ \E h \in Handlers, a \in Accounts, new \in Accounts \cup {NoKey}, to \in {"keep", "on", "off"} :
                /\ new \in Accounts => new # a /\ GatewayOf(new) = GatewayOf(a)
                /\ Begin(h, "patch", a, new, to)
    BY <1>3, <2>3
  <2>4. CASE /\ ops < MaxOps
           /\ \E h \in Handlers, k \in ClientKeys, op \in KeyOps, to \in State : Begin(h, op, k, NoKey, to)
    BY <1>4, <2>4
  <2>5. CASE /\ ops < MaxOps
           /\ \E h \in Handlers, v \in Settings, op \in SettingOps, to \in {"keep", "refuse"} :
                Begin(h, op, v, NoKey, to)
    BY <1>5, <2>5
  <2>6. "keyadd" \in KeyOps /\ "keypatch" \in KeyOps /\ "keydelete" \in KeyOps
        /\ "settings" \in SettingOps /\ "models" \in SettingOps
        /\ "on" \in State /\ "off" \in State /\ "absent" \in State
    BY DEF KeyOps, SettingOps, State
  <2> QED
    BY <1>6, <1>7, <1>8, <1>9, <1>11, <1>12, <2>1, <2>2, <2>3, <2>4, <2>5, <2>6 DEF Next, Request
<1> QED
  BY <1>10, <1>12

THEOREM Invariant == Spec => []IInv
BY InitInv, StepInv, PTL DEF Spec

-----------------------------------------------------------------------------
(***************************************************************************)
(* The properties of the lock, the catalogue and of a lone save.           *)
(***************************************************************************)

(***************************************************************************)
(* The types; and when whoever holds gatewayLifecycleMu fetches the models *)
(* of a gateway, the enabled account that it counted is still there, so    *)
(* that its primary account is an enabled one.                             *)
(***************************************************************************)
THEOREM LockHolderFindsPrimary == Spec => []LockInvariant
<1>1. IInv => LockInvariant
  BY DEF IInv, PrimaryKept, Relies, LockInvariant
<1> QED
  BY <1>1, Invariant, PTL

(***************************************************************************)
(* Once the last enabled account of a gateway has gone, none of its models *)
(* are listed, unless the handler that took it away did not come to look.  *)
(* For cmdcode an OAuth flow whose fetch came late, and a start that finds *)
(* disabled accounts only, may list some.                                  *)
(***************************************************************************)
THEOREM CatalogueIsCleared == Spec => []CatalogueFollows
<1>1. ASSUME IInv, phase = "up", lock = "free", NEW g \in Gateways \ skipped, Enabled(pool, g) = {}
      PROVE  catalogue[g] \in IF g = "zen" THEN {"none"} ELSE {"none", "disabled", "oauth"}
  <2>1. \A h \in Handlers : ~WillClear(h, g)
    BY <1>1, Handles DEF WillClear
  <2>2. catalogue[g] # "enabled"
    BY <1>1, <2>1 DEF IInv, CatalogueKept
  <2>3. catalogue[g] \in {"none", "enabled", "oauth", "disabled"}
    BY <1>1 DEF IInv, TypeOK
  <2>4. g = "zen" => catalogue[g] \in {"none", "enabled"}
    BY <1>1 DEF IInv, CatalogueKept
  <2> QED
    BY <2>2, <2>3, <2>4
<1>2. IInv => CatalogueFollows
  BY <1>1 DEF CatalogueFollows
<1> QED
  BY <1>2, Invariant, PTL

(***************************************************************************)
(* A save that runs alone writes what memory has of what it covers: one of *)
(* a key all keys, one of an account all accounts of both gateways, one of *)
(* the settings or of an OAuth flow the accounts of cmdcode.               *)
(***************************************************************************)
THEOREM LoneSave == Spec => LoneSaveRepairs
<1> DEFINE Repairs ==
      \A h \in Handlers :
          Write(h) /\ hand[h].alone =>
             /\ file' # Torn
             /\ \A a \in Covered(hand[h].op) : file'.accounts[a] = pool[a]
             /\ hand[h].op \in KeyOps => file'.keys = keys
             /\ hand[h].op \in SettingOps => file'.setting = cfg.setting
<1>1. IInv /\ [Next]_vars => Repairs
  <2> SUFFICES ASSUME IInv, [Next]_vars, NEW h \in Handlers, Write(h), hand[h].alone
               PROVE  /\ file' # Torn
                      /\ \A a \in Covered(hand[h].op) : file'.accounts[a] = pool[a]
                      /\ hand[h].op \in KeyOps => file'.keys = keys
                      /\ hand[h].op \in SettingOps => file'.setting = cfg.setting
    OBVIOUS
  <2>1. hand[h].pc = "write" /\ Active(h)
    BY DEF Write, Active
  <2>2. Alive
    <3>1. hand'[h] # hand[h]
      <4>1. hand \in [All -> Handling] /\ h \in All
        BY Handles DEF IInv, TypeOK, All
      <4>2. hand'[h] = IF hand[h].op \in AccountOps \cup {"oauth"} THEN Checking(h) ELSE Idle
        BY <4>1 DEF Write
      <4>3. Checking(h).pc = "check"
        BY DEF Checking, Idle
      <4> QED
        BY <2>1, <4>2, <4>3, IdleTypes
    <3>2. Next
      BY <3>1 DEF vars
    <3> QED
      BY <3>2 DEF Next, Request, Begin, Crash, Alive
  <2>3. Carries(h) /\ phase = "up"
    BY <2>1, <2>2, Up DEF IInv, Alone
  <2>4. file' = hand[h].data /\ hand[h].data \in Saved
    <3>1. file' = hand[h].data
      BY <2>1, <2>3 DEF Write, Carries
    <3> QED
      BY <3>1, HandTypes DEF IInv, Handling
  <2>5. file' # Torn
    BY <2>4, SavedIsData
  <2>6. \A a \in Covered(hand[h].op) : file'.accounts[a] = pool[a]
    <3>1. CASE hand[h].op \in SyncsAccounts
      BY <2>1, <2>3, <2>4, <3>1 DEF Carries, Copied
    <3>2. CASE hand[h].op \notin SyncsAccounts
      <4>1. Covered(hand[h].op) = {}
        BY <3>2 DEF Covered, SyncsAccounts
      <4> QED
        BY <4>1
    <3> QED
      BY <3>1, <3>2
  <2> QED
    BY <2>1, <2>3, <2>4, <2>5, <2>6 DEF Carries
<1>2. Spec => [][Repairs]_vars
  BY <1>1, Invariant, PTL DEF Spec
<1> QED
  BY <1>2 DEF LoneSaveRepairs

-----------------------------------------------------------------------------
(***************************************************************************)
(* What was promised stays.  The hypothesis is that a start saves every    *)
(* file that has the field api_key: without it the key of that field comes *)
(* back when the last client key is deleted.                               *)
(***************************************************************************)
KeysMigrated == \A f \in InitialFiles : f.apiKey # NoKey => StartSaves(f)

\* A step of a handler that promises nothing new, and of what is still
\* promised changes nothing.
LEMMA WeakerHeld ==
    ASSUME IInv, HeldInv, TypeOK', NEW h \in Handlers, OnlyOf(h), hand[h].pc # "write",
           hand'[h].pc \notin {"assign", "truncate", "write"},
           \A a \in Accounts :
              \/ acked'.a[a] = "unknown"
              \/ /\ acked'.a[a] = acked.a[a] /\ pool'[a] = pool[a]
                 /\ cfg'.accounts[a] = cfg.accounts[a],
           \A k \in ClientKeys :
              \/ acked'.k[k] = "unknown"
              \/ acked'.k[k] = acked.k[k] /\ keys'[k] = keys[k],
           cfg'.keys = cfg.keys, cfg'.apiKey = cfg.apiKey,
           acked'.s = "unknown" \/ (acked'.s = acked.s /\ cfg'.setting = cfg.setting),
           UNCHANGED <<file, phase>>
    PROVE  HeldInv'
<1>1. \A g \in All \ {h} : SameWork(g)
  BY DEF OnlyOf
<1>2. /\ \A p : AccountsHeld(p) => \A a \in Accounts : acked'.a[a] \in {"unknown", p[a]}
      /\ \A p : SectionHeld(p) => \A a \in Cmdcode : acked'.a[a] \in {"unknown", p[a]}
      /\ \A p : KeysHeld(p) => \A k \in ClientKeys : acked'.k[k] \in {"unknown", p[k]}
      /\ \A v : SettingHeld(v) => acked'.s \in {"unknown", v}
  BY Gatewayed DEF AccountsHeld, SectionHeld, KeysHeld, SettingHeld
<1>3. MemoryHeld'
  BY DEF HeldInv, MemoryHeld, AccountsHeld, KeysHeld, SettingHeld
<1>4. SnapsHeld'
  <2>1. ASSUME NEW g \in Handlers, hand'[g].pc = "assign"
        PROVE  IF hand'[g].op \in SyncsAccounts THEN SectionHeld(hand[g].snap)'
               ELSE KeysHeld(hand[g].snap)'
    <3>1. SameWork(g) /\ hand[g].pc = "assign"
      BY <1>1, <2>1, Handles DEF SameWork
    <3>2. IF hand[g].op \in SyncsAccounts THEN SectionHeld(hand[g].snap) ELSE KeysHeld(hand[g].snap)
      BY <3>1 DEF HeldInv, SnapsHeld
    <3> QED
      BY <1>2, <3>1, <3>2 DEF SameWork, SectionHeld, KeysHeld
  <2> QED
    BY <2>1 DEF SnapsHeld
<1>5. DataHeld'
  <2>1. ASSUME NEW g \in Handlers \cup {"main"}, hand'[g].pc \in {"truncate", "write"}
        PROVE  /\ AccountsHeld(hand[g].data.accounts)' /\ KeysHeld(hand[g].data.keys)'
               /\ SettingHeld(hand[g].data.setting)' /\ hand'[g].data.apiKey = NoKey
    <3>1. SameWork(g) /\ hand[g].pc \in {"truncate", "write"}
      BY <1>1, <2>1 DEF SameWork, All
    <3>2. /\ AccountsHeld(hand[g].data.accounts) /\ KeysHeld(hand[g].data.keys)
          /\ SettingHeld(hand[g].data.setting) /\ hand[g].data.apiKey = NoKey
      BY <3>1 DEF HeldInv, DataHeld
    <3> QED
      BY <1>2, <3>1, <3>2 DEF SameWork, AccountsHeld, KeysHeld, SettingHeld
  <2> QED
    BY <2>1 DEF DataHeld
<1>6. LegacyKeyGone'
  <2>1. hand'["main"].pc = hand["main"].pc
    BY <1>1, Handles DEF SameWork
  <2> QED
    BY <2>1 DEF HeldInv, LegacyKeyGone, StartSaves
<1>7. AcknowledgedOnDisk'
  <2>1. DOMAIN hand = All /\ \A g \in All : hand[g].pc = "write" => hand'[g].pc = "write"
    BY <1>1 DEF IInv, TypeOK, All, SameWork
  <2> SUFFICES ASSUME file # Torn, \A g \in DOMAIN hand' : hand'[g].pc # "write"
               PROVE  /\ \A a \in Accounts : acked'.a[a] \in {"unknown", Loaded(file).accounts[a]}
                      /\ \A k \in ClientKeys : acked'.k[k] \in {"unknown", Loaded(file).keys[k]}
                      /\ acked'.s \in {"unknown", Loaded(file).setting}
    BY DEF AcknowledgedOnDisk, Loaded
  <2>2. \A g \in DOMAIN hand : hand[g].pc # "write"
    <3>1. DOMAIN hand' = All
      BY DEF TypeOK, All
    <3> QED
      BY <2>1, <3>1
  <2> QED
    BY <2>2 DEF HeldInv, AcknowledgedOnDisk
<1> QED
  BY <1>3, <1>4, <1>5, <1>6, <1>7 DEF HeldInv

\* The handlers that do not save.
LEMMA QuietHeld ==
    ASSUME IInv, HeldInv, TypeOK', NEW h \in Handlers,
           \/ \E op, item, new, to : Begin(h, op, item, new, to)
           \/ Lock(h) \/ Refresh(h)
    PROVE  HeldInv'
<1>1. hand \in [All -> Handling]
  BY DEF IInv, TypeOK, All
<1>2. ASSUME NEW r, hand' = [hand EXCEPT ![h] = r]
      PROVE  OnlyOf(h) /\ hand'[h] = r
  BY <1>1, <1>2, Handles DEF OnlyOf, SameWork
<1>3. UNCHANGED <<pool, keys, cfg, file, phase, acked>> /\ hand[h].pc # "write"
  BY DEF Begin, Lock, Refresh, Check, Primary, Fetch
<1>4. OnlyOf(h) /\ hand'[h].pc \in {"lock", "apply", "primary", "fetch", "idle"}
  <2>1. CASE \E op, item, new, to : Begin(h, op, item, new, to)
    <3>1. PICK op, item, new, to : Begin(h, op, item, new, to)
      BY <2>1
    <3> DEFINE pc == IF op \in AccountOps THEN "lock" ELSE "apply"
               r == [Idle EXCEPT !.op = op, !.item = item, !.new = new, !.to = to, !.pc = pc]
    <3>2. hand' = [hand EXCEPT ![h] = r]
      BY <3>1 DEF Begin
    <3>3. r.pc \in {"lock", "apply"}
      BY DEF Idle
    <3> HIDE DEF r
    <3> QED
      BY <1>2, <3>2, <3>3
  <2>2. CASE Lock(h)
    <3>1. hand' = [hand EXCEPT ![h] = [hand[h] EXCEPT !.pc = "apply"]]
      BY <2>2 DEF Lock
    <3>2. [hand[h] EXCEPT !.pc = "apply"].pc = "apply"
      BY HandTypes DEF IInv, Handling
    <3> QED
      BY <1>2, <3>1, <3>2
  <2>3. CASE Primary(h)
    <3>1. hand' = [hand EXCEPT ![h] = [hand[h] EXCEPT !.pc = "fetch"]]
      BY <2>3 DEF Primary
    <3>2. [hand[h] EXCEPT !.pc = "fetch"].pc = "fetch"
      BY HandTypes DEF IInv, Handling
    <3> QED
      BY <1>2, <3>1, <3>2
  <2>4. CASE hand' = [hand EXCEPT ![h].pc = "primary"]
    <3>1. hand' = [hand EXCEPT ![h] = [hand[h] EXCEPT !.pc = "primary"]]
      BY <2>4
    <3>2. [hand[h] EXCEPT !.pc = "primary"].pc = "primary"
      BY HandTypes DEF IInv, Handling
    <3> QED
      BY <1>2, <3>1, <3>2
  <2>5. CASE Done(h)
    BY <1>2, <2>5, IdleTypes DEF Done
  <2> QED
    BY <2>1, <2>2, <2>3, <2>4, <2>5 DEF Refresh, Check, Fetch
<1> QED
  BY <1>3, <1>4, WeakerHeld

\* The handlers that change something.
LEMMA ApplyHeld ==
    ASSUME IInv, HeldInv, TypeOK', NEW h \in Handlers, Apply(h)
    PROVE  HeldInv'
<1>1. hand[h].pc = "apply" /\ UNCHANGED <<file, phase>>
  BY DEF Apply, ApplyAdd, ApplyPatch, ApplyDelete, ApplyKey, ApplySetting
<1>2. /\ \E next \in {"snap", "marshal"} : Applied(h, next) \/ Refused(h)
  BY DEF Apply, ApplyAdd, ApplyPatch, ApplyDelete, ApplyKey, ApplySetting
<1>3. OnlyOf(h) /\ hand'[h].pc \in {"snap", "marshal", "idle"}
  <2>1. ASSUME NEW next \in {"snap", "marshal"}, Applied(h, next)
        PROVE  OnlyOf(h) /\ hand'[h].pc = next
    BY <2>1, AppliedFacts DEF IInv, PCs
  <2>2. ASSUME Refused(h) PROVE OnlyOf(h) /\ hand'[h].pc = "idle"
    BY <2>2, RefusedFacts, IdleTypes DEF IInv
  <2> QED
    BY <1>2, <2>1, <2>2
<1>4. /\ acked.a \in [Accounts -> State \cup {"unknown"}]
      /\ acked.k \in [ClientKeys -> State \cup {"unknown"}]
      /\ pool \in [Accounts -> State] /\ keys \in [ClientKeys -> State] /\ cfg \in Config
  BY DEF IInv, TypeOK
<1>5. ASSUME NEW set, acked' = [acked EXCEPT !.a = Unpromised(set)],
             \A a \in Accounts \ set : pool'[a] = pool[a], UNCHANGED <<keys, cfg>>
      PROVE  HeldInv'
  <2>1. /\ acked'.k = acked.k /\ acked'.s = acked.s /\ acked'.a = Unpromised(set)
    BY <1>5, UnpromisedFacts DEF IInv
  <2> DEFINE u == Unpromised(set)
  <2>2. (\A a \in Accounts \cap set : u[a] = "unknown") /\ (\A a \in Accounts \ set : u[a] = acked.a[a])
    BY UnpromisedFacts DEF IInv
  <2>3. acked'.a = u
    BY <2>1
  <2> HIDE DEF u
  <2>4. \A a \in Accounts : acked'.a[a] = "unknown" \/ (acked'.a[a] = acked.a[a] /\ pool'[a] = pool[a])
    BY <1>5, <2>2, <2>3
  <2> QED
    BY <1>1, <1>3, <1>5, <2>1, <2>4, WeakerHeld
<1>6. CASE UNCHANGED <<pool, keys, cfg, acked>>
  BY <1>1, <1>3, <1>6, WeakerHeld
<1> DEFINE x == hand[h].item
<1>7. CASE ApplyAdd(h)
  <2>1. CASE pool' = [pool EXCEPT ![x] = "on"] /\ acked' = [acked EXCEPT !.a = Unpromised({x})]
    <3>1. \A a \in Accounts \ {x} : pool'[a] = pool[a]
      BY <1>4, <2>1
    <3> QED
      BY <1>5, <1>7, <2>1, <3>1 DEF ApplyAdd
  <2> QED
    BY <1>6, <1>7, <2>1 DEF ApplyAdd
<1>8. CASE ApplyDelete(h)
  <2>1. CASE pool' = [pool EXCEPT ![x] = "absent"] /\ acked' = [acked EXCEPT !.a = Unpromised({x})]
    <3>1. \A a \in Accounts \ {x} : pool'[a] = pool[a]
      BY <1>4, <2>1
    <3> QED
      BY <1>5, <1>8, <2>1, <3>1 DEF ApplyDelete
  <2> QED
    BY <1>6, <1>8, <2>1 DEF ApplyDelete
<1>9. CASE ApplyPatch(h)
  <2> DEFINE new == hand[h].new
             toggled == IF hand[h].to = "keep" THEN pool[x] ELSE hand[h].to
             set == {y \in {x} : toggled # pool[x]}
  <2>1. CASE pool' = [pool EXCEPT ![x] = toggled] /\ acked' = [acked EXCEPT !.a = Unpromised(set)]
    <3>1. \A a \in Accounts \ set : pool'[a] = pool[a]
      BY <1>4, <2>1
    <3> HIDE DEF set
    <3> QED
      BY <1>5, <1>9, <2>1, <3>1 DEF ApplyPatch
  <2>2. CASE pool' = [pool EXCEPT ![x] = toggled] /\ acked' = [acked EXCEPT !.a = Unpromised({x})]
    <3>1. \A a \in Accounts \ {x} : pool'[a] = pool[a]
      BY <1>4, <2>2
    <3> QED
      BY <1>5, <1>9, <2>2, <3>1 DEF ApplyPatch
  <2>3. CASE /\ pool' = [pool EXCEPT ![x] = "absent", ![new] = toggled]
             /\ acked' = [acked EXCEPT !.a = Unpromised({x, new})]
    <3>1. \A a \in Accounts \ {x, new} : pool'[a] = pool[a]
      BY <1>4, <2>3
    <3> QED
      BY <1>5, <1>9, <2>3, <3>1 DEF ApplyPatch
  <2> QED
    BY <1>6, <1>9, <2>1, <2>2, <2>3 DEF ApplyPatch
<1>10. CASE ApplyKey(h)
  <2>1. CASE keys' = [keys EXCEPT ![x] = hand[h].to] /\ acked' = [acked EXCEPT !.k[x] = "unknown"]
    <3>1. /\ acked'.a = acked.a /\ acked'.s = acked.s
          /\ acked'.k = [acked.k EXCEPT ![x] = "unknown"]
      BY <2>1, AckedKey DEF IInv
    <3>2. \A k \in ClientKeys : acked'.k[k] = "unknown" \/ (acked'.k[k] = acked.k[k] /\ keys'[k] = keys[k])
      BY <1>4, <2>1, <3>1
    <3>3. UNCHANGED <<pool, cfg>>
      BY <1>10 DEF ApplyKey
    <3> QED
      BY <1>1, <1>3, <3>1, <3>2, <3>3, WeakerHeld
  <2> QED
    BY <1>6, <1>10, <2>1 DEF ApplyKey
<1>11. CASE ApplySetting(h)
  <2>1. cfg' = [cfg EXCEPT !.setting = x] /\ acked' = [acked EXCEPT !.s = "unknown"]
        /\ UNCHANGED <<pool, keys>>
    BY <1>11 DEF ApplySetting
  <2>2. acked'.a = acked.a /\ acked'.k = acked.k /\ acked'.s = "unknown"
    BY <2>1, AckedSetting DEF IInv
  <2>3. cfg'.accounts = cfg.accounts /\ cfg'.keys = cfg.keys /\ cfg'.apiKey = cfg.apiKey
    BY <1>4, <2>1 DEF Config
  <2> QED
    BY <1>1, <1>3, <2>1, <2>2, <2>3, WeakerHeld
<1> QED
  BY <1>7, <1>8, <1>9, <1>10, <1>11 DEF Apply

\* A step of h, or of main, that promises nothing new: what its own place
\* holds of promises it still holds.
LEMMA KeptHeld ==
    ASSUME IInv, HeldInv, TypeOK', NEW h \in All, OnlyOf(h),
           UNCHANGED <<pool, keys, phase, acked>>,
           AccountsHeld(cfg.accounts)', KeysHeld(cfg.keys)', cfg'.setting = cfg.setting,
           hand'[h].pc = "assign" =>
              IF hand'[h].op \in SyncsAccounts THEN SectionHeld(hand[h].snap)' ELSE KeysHeld(hand[h].snap)',
           hand'[h].pc \in {"truncate", "write"} =>
              /\ AccountsHeld(hand[h].data.accounts)' /\ KeysHeld(hand[h].data.keys)'
              /\ SettingHeld(hand[h].data.setting)' /\ hand'[h].data.apiKey = NoKey
    PROVE  MemoryHeld' /\ SnapsHeld' /\ DataHeld'
<1>1. /\ \A p : AccountsHeld(p) <=> \A a \in Accounts : acked'.a[a] \in {"unknown", p[a]}
      /\ \A p : SectionHeld(p) <=> \A a \in Cmdcode : acked'.a[a] \in {"unknown", p[a]}
      /\ \A p : KeysHeld(p) <=> \A k \in ClientKeys : acked'.k[k] \in {"unknown", p[k]}
      /\ \A v : SettingHeld(v) <=> acked'.s \in {"unknown", v}
  BY DEF AccountsHeld, SectionHeld, KeysHeld, SettingHeld
<1>2. MemoryHeld'
  BY DEF HeldInv, MemoryHeld, AccountsHeld, KeysHeld, SettingHeld
<1>3. SnapsHeld'
  <2>1. ASSUME NEW g \in Handlers \ {h}, hand'[g].pc = "assign"
        PROVE  IF hand'[g].op \in SyncsAccounts THEN SectionHeld(hand[g].snap)'
               ELSE KeysHeld(hand[g].snap)'
    <3>1. SameWork(g) /\ hand[g].pc = "assign"
      BY <2>1, Handles DEF OnlyOf, SameWork
    <3>2. IF hand[g].op \in SyncsAccounts THEN SectionHeld(hand[g].snap) ELSE KeysHeld(hand[g].snap)
      BY <3>1 DEF HeldInv, SnapsHeld
    <3> QED
      BY <1>1, <3>1, <3>2 DEF SameWork, SectionHeld, KeysHeld
  <2> QED
    BY <2>1 DEF SnapsHeld
<1>4. DataHeld'
  <2>1. ASSUME NEW g \in All \ {h}, hand'[g].pc \in {"truncate", "write"}
        PROVE  /\ AccountsHeld(hand[g].data.accounts)' /\ KeysHeld(hand[g].data.keys)'
               /\ SettingHeld(hand[g].data.setting)' /\ hand'[g].data.apiKey = NoKey
    <3>1. SameWork(g) /\ hand[g].pc \in {"truncate", "write"}
      BY <2>1 DEF OnlyOf, SameWork
    <3>2. /\ AccountsHeld(hand[g].data.accounts) /\ KeysHeld(hand[g].data.keys)
          /\ SettingHeld(hand[g].data.setting) /\ hand[g].data.apiKey = NoKey
      BY <3>1 DEF HeldInv, DataHeld, All
    <3> QED
      BY <1>1, <3>1, <3>2 DEF SameWork, AccountsHeld, KeysHeld, SettingHeld
  <2> QED
    BY <2>1 DEF DataHeld, All
<1> QED
  BY <1>2, <1>3, <1>4

\* What is on disk is still there if the file is, and nobody is writing.
LEMMA DiskHeld ==
    ASSUME IInv, HeldInv, TypeOK', NEW h \in All, OnlyOf(h), hand[h].pc # "write",
           UNCHANGED <<file, acked>>
    PROVE  AcknowledgedOnDisk'
<1>1. DOMAIN hand = All /\ DOMAIN hand' = All
  BY DEF IInv, TypeOK, All
<1>2. \A g \in All : hand[g].pc = "write" => hand'[g].pc = "write"
  BY DEF OnlyOf, SameWork
<1> SUFFICES ASSUME file # Torn, \A g \in DOMAIN hand' : hand'[g].pc # "write"
             PROVE  /\ \A a \in Accounts : acked'.a[a] \in {"unknown", Loaded(file).accounts[a]}
                    /\ \A k \in ClientKeys : acked'.k[k] \in {"unknown", Loaded(file).keys[k]}
                    /\ acked'.s \in {"unknown", Loaded(file).setting}
  BY DEF AcknowledgedOnDisk, Loaded
<1>3. \A g \in DOMAIN hand : hand[g].pc # "write"
  BY <1>1, <1>2
<1> QED
  BY <1>3 DEF HeldInv, AcknowledgedOnDisk

\* Once the process is up no key is left in api_key.
LEMMA NoLegacyKey == HeldInv /\ phase = "up" => cfg.apiKey = NoKey
  BY DEF HeldInv, LegacyKeyGone

LEMMA SnapHeld ==
    ASSUME IInv, HeldInv, TypeOK', NEW h \in Handlers, Snap(h)
    PROVE  HeldInv'
<1> DEFINE snap == IF hand[h].op \in SyncsAccounts THEN Section(pool) ELSE keys
           r == [hand[h] EXCEPT !.pc = "assign", !.snap = snap]
<1>1. hand' = [hand EXCEPT ![h] = r] /\ hand[h].pc = "snap"
      /\ UNCHANGED <<pool, keys, cfg, file, lock, catalogue, phase, ops, acked, revoked, skipped, fresh>>
  BY DEF Snap
<1>2. hand[h] \in Handling
  BY HandTypes DEF IInv
<1>3. snap \in [Cmdcode -> State] \cup [ClientKeys -> State]
  BY SectionFacts DEF IInv, TypeOK
<1>4. IF hand[h].op \in SyncsAccounts THEN \A a \in Cmdcode : snap[a] = pool[a] ELSE snap = keys
  BY SectionFacts DEF IInv, TypeOK
<1> HIDE DEF snap
<1>5. r \in Handling /\ r.pc = "assign" /\ r.snap = snap /\ r.op = hand[h].op
  BY <1>2, <1>3 DEF Handling
<1> HIDE DEF r
<1>6. OnlyOf(h) /\ hand'[h] = r
  BY <1>1, <1>5, OneFacts, Handles DEF IInv
<1>7. AccountsHeld(pool)' /\ KeysHeld(keys)' /\ AccountsHeld(cfg.accounts)' /\ KeysHeld(cfg.keys)'
  BY <1>1 DEF HeldInv, MemoryHeld, AccountsHeld, KeysHeld
<1>8. IF hand'[h].op \in SyncsAccounts THEN SectionHeld(hand[h].snap)' ELSE KeysHeld(hand[h].snap)'
  <2>1. CASE hand[h].op \in SyncsAccounts
    BY <1>1, <1>4, <1>5, <1>6, <1>7, <2>1, Gatewayed DEF AccountsHeld, SectionHeld
  <2>2. CASE hand[h].op \notin SyncsAccounts
    BY <1>1, <1>4, <1>5, <1>6, <1>7, <2>2 DEF KeysHeld
  <2> QED
    BY <1>5, <1>6, <2>1, <2>2
<1>9. MemoryHeld' /\ SnapsHeld' /\ DataHeld'
  BY <1>1, <1>5, <1>6, <1>7, <1>8, Handles, KeptHeld
<1>10. AcknowledgedOnDisk'
  BY <1>1, <1>6, Handles, DiskHeld
<1>11. LegacyKeyGone'
  <2>1. hand'["main"].pc = hand["main"].pc
    BY <1>6, Handles DEF OnlyOf, SameWork
  <2> QED
    BY <1>1, <2>1 DEF HeldInv, LegacyKeyGone, StartSaves
<1> QED
  BY <1>9, <1>10, <1>11 DEF HeldInv

LEMMA AssignHeld ==
    ASSUME IInv, HeldInv, NEW h \in Handlers, phase = "up", Assign(h)
    PROVE  HeldInv'
<1> DEFINE snap == hand[h].snap
<1>1. /\ hand[h].pc = "assign" /\ cfg'.setting = cfg.setting
      /\ \A a \in Zen : cfg'.accounts[a] = cfg.accounts[a]
      /\ IF hand[h].op \in SyncsAccounts
         THEN /\ \A a \in Cmdcode : cfg'.accounts[a] = snap[a]
              /\ cfg'.keys = cfg.keys /\ cfg'.apiKey = cfg.apiKey
         ELSE /\ cfg'.accounts = cfg.accounts /\ cfg'.keys = snap
              /\ cfg'.apiKey \in {cfg.apiKey, NoKey}
      /\ OnlyOf(h) /\ hand'[h].pc \in {"zen", "marshal"}
      /\ UNCHANGED <<pool, keys, file, lock, catalogue, phase, ops, acked, revoked, skipped, fresh>>
      /\ TypeOK'
  BY AssignFacts
<1>2. IF hand[h].op \in SyncsAccounts THEN SectionHeld(snap) ELSE KeysHeld(snap)
  BY <1>1 DEF HeldInv, SnapsHeld
<1>3. AccountsHeld(cfg.accounts)' /\ KeysHeld(cfg.keys)'
  <2>1. AccountsHeld(cfg.accounts) /\ KeysHeld(cfg.keys)
    BY DEF HeldInv, MemoryHeld
  <2>2. CASE hand[h].op \in SyncsAccounts
    BY <1>1, <1>2, <2>1, <2>2, Gatewayed DEF AccountsHeld, SectionHeld, KeysHeld
  <2>3. CASE hand[h].op \notin SyncsAccounts
    BY <1>1, <1>2, <2>1, <2>3 DEF AccountsHeld, KeysHeld
  <2> QED
    BY <2>2, <2>3
<1>4. MemoryHeld' /\ SnapsHeld' /\ DataHeld'
  BY <1>1, <1>3, Handles, KeptHeld
<1>5. AcknowledgedOnDisk'
  BY <1>1, Handles, DiskHeld
<1>6. LegacyKeyGone'
  <2>1. cfg'.apiKey = NoKey
    BY <1>1, NoLegacyKey
  <2> QED
    BY <1>1, <2>1 DEF HeldInv, LegacyKeyGone, StartSaves
<1> QED
  BY <1>4, <1>5, <1>6 DEF HeldInv

LEMMA AssignZenHeld ==
    ASSUME IInv, HeldInv, NEW h \in Handlers, phase = "up", AssignZen(h)
    PROVE  HeldInv'
<1>1. /\ hand[h].pc = "zen" /\ cfg'.setting = cfg.setting
      /\ cfg'.keys = cfg.keys /\ cfg'.apiKey = cfg.apiKey
      /\ \A a \in Zen : cfg'.accounts[a] = pool[a]
      /\ \A a \in Cmdcode : cfg'.accounts[a] = cfg.accounts[a]
      /\ OnlyOf(h) /\ hand'[h].pc = "marshal"
      /\ UNCHANGED <<pool, keys, file, lock, catalogue, phase, ops, acked, revoked, skipped, fresh>>
      /\ TypeOK'
  BY AssignZenFacts
<1>2. AccountsHeld(cfg.accounts)' /\ KeysHeld(cfg.keys)'
  BY <1>1, Gatewayed DEF HeldInv, MemoryHeld, AccountsHeld, KeysHeld
<1>3. MemoryHeld' /\ SnapsHeld' /\ DataHeld'
  BY <1>1, <1>2, Handles, KeptHeld
<1>4. AcknowledgedOnDisk'
  BY <1>1, Handles, DiskHeld
<1>5. LegacyKeyGone'
  <2>1. cfg'.apiKey = NoKey
    BY <1>1, NoLegacyKey
  <2> QED
    BY <1>1, <2>1 DEF HeldInv, LegacyKeyGone, StartSaves
<1> QED
  BY <1>3, <1>4, <1>5 DEF HeldInv

LEMMA MarshalHeld ==
    ASSUME IInv, HeldInv, Alive, NEW h \in All, Marshal(h)
    PROVE  HeldInv'
<1> DEFINE d == Marshalled(cfg)
<1>1. /\ hand[h].pc = "marshal"
      /\ d.accounts = cfg.accounts /\ d.keys = cfg.keys /\ d.setting = cfg.setting
      /\ d.apiKey = IF cfg.keys # NoClientKeys THEN NoKey ELSE cfg.apiKey
      /\ cfg'.accounts = cfg.accounts /\ cfg'.keys = cfg.keys /\ cfg'.setting = cfg.setting
      /\ cfg'.apiKey = d.apiKey
      /\ OnlyOf(h) /\ hand'[h].pc = "truncate" /\ hand'[h].data = d
      /\ UNCHANGED <<pool, keys, file, lock, catalogue, phase, ops, acked, revoked, skipped, fresh>>
      /\ TypeOK'
  BY MarshalFacts
<1> HIDE DEF d
<1>2. cfg'.apiKey = NoKey /\ d.apiKey = NoKey
  BY <1>1 DEF HeldInv, LegacyKeyGone
<1>3. AccountsHeld(cfg.accounts)' /\ KeysHeld(cfg.keys)' /\ SettingHeld(cfg.setting)'
  BY <1>1 DEF HeldInv, MemoryHeld, AccountsHeld, KeysHeld, SettingHeld
<1>4. /\ AccountsHeld(hand[h].data.accounts)' /\ KeysHeld(hand[h].data.keys)'
      /\ SettingHeld(hand[h].data.setting)' /\ hand'[h].data.apiKey = NoKey
  BY <1>1, <1>2, <1>3 DEF AccountsHeld, KeysHeld, SettingHeld
<1>5. MemoryHeld' /\ SnapsHeld' /\ DataHeld'
  BY <1>1, <1>3, <1>4, KeptHeld
<1>6. AcknowledgedOnDisk'
  BY <1>1, DiskHeld
<1>7. LegacyKeyGone'
  BY <1>1, <1>2 DEF HeldInv, LegacyKeyGone, StartSaves
<1> QED
  BY <1>5, <1>6, <1>7 DEF HeldInv

LEMMA TruncateHeld ==
    ASSUME IInv, HeldInv, Alive, NEW h \in All, Truncate(h)
    PROVE  HeldInv'
<1>1. /\ hand[h].pc = "truncate" /\ file' = Blank /\ OnlyOf(h)
      /\ hand'[h].pc = "write" /\ hand'[h].data = hand[h].data
      /\ UNCHANGED <<pool, keys, cfg, lock, catalogue, phase, ops, acked, revoked, skipped, fresh>>
      /\ TypeOK'
  BY TruncateFacts
<1>2. /\ AccountsHeld(hand[h].data.accounts) /\ KeysHeld(hand[h].data.keys)
      /\ SettingHeld(hand[h].data.setting) /\ hand[h].data.apiKey = NoKey
  BY <1>1 DEF HeldInv, DataHeld, All
<1>3. /\ AccountsHeld(hand[h].data.accounts)' /\ KeysHeld(hand[h].data.keys)'
      /\ SettingHeld(hand[h].data.setting)' /\ hand'[h].data.apiKey = NoKey
  BY <1>1, <1>2 DEF AccountsHeld, KeysHeld, SettingHeld
<1>4. AccountsHeld(cfg.accounts)' /\ KeysHeld(cfg.keys)'
  BY <1>1 DEF HeldInv, MemoryHeld, AccountsHeld, KeysHeld
<1>5. MemoryHeld' /\ SnapsHeld' /\ DataHeld'
  BY <1>1, <1>3, <1>4, KeptHeld
<1>6. AcknowledgedOnDisk'
  BY <1>1 DEF AcknowledgedOnDisk, TypeOK, All
<1>7. LegacyKeyGone'
  <2>1. file'.apiKey = NoKey
    BY <1>1 DEF Blank
  <2>2. cfg.apiKey = NoKey
    <3>1. hand["main"].pc # "marshal" \/ h # "main"
      BY <1>1
    <3>2. h # "main" => phase = "up"
      BY <1>1, Up DEF Active, All
    <3> QED
      BY <1>1, <3>1, <3>2 DEF HeldInv, LegacyKeyGone
  <2> QED
    BY <1>1, <2>1, <2>2 DEF LegacyKeyGone
<1> QED
  BY <1>5, <1>6, <1>7 DEF HeldInv

\* A write that fails halfway promises nothing any more; one that does not open
\* the file changes nothing on disk.
LEMMA FailedHeld ==
    ASSUME IInv, HeldInv, TypeOK', NEW h \in Handlers, phase = "up", phase' = phase, Done(h),
           hand[h].pc # "idle", UNCHANGED <<pool, keys, cfg>>,
           \/ UNCHANGED <<file, acked>> /\ hand[h].pc # "write"
           \/ file' \in {file, Torn} /\ acked' = NothingPromised
    PROVE  HeldInv'
<1>1. OnlyOf(h) /\ hand'[h].pc = "idle"
  BY DoneFacts
<1>2. CASE UNCHANGED <<file, acked>> /\ hand[h].pc # "write"
  BY <1>1, <1>2, WeakerHeld
<1>3. CASE file' \in {file, Torn} /\ acked' = NothingPromised
  <2>1. /\ \A a \in Accounts : acked'.a[a] = "unknown"
        /\ \A k \in ClientKeys : acked'.k[k] = "unknown"
        /\ acked'.s = "unknown"
    BY <1>3 DEF NothingPromised
  <2>2. MemoryHeld' /\ SnapsHeld'
    BY <2>1, Gatewayed DEF MemoryHeld, SnapsHeld, AccountsHeld, SectionHeld, KeysHeld, SettingHeld
  <2>3. DataHeld'
    <3>1. ASSUME NEW g \in Handlers \cup {"main"}, hand'[g].pc \in {"truncate", "write"}
          PROVE  hand'[g].data.apiKey = NoKey
      BY <1>1, <3>1 DEF OnlyOf, SameWork, All, HeldInv, DataHeld
    <3> QED
      BY <2>1, <3>1 DEF DataHeld, AccountsHeld, KeysHeld, SettingHeld
  <2>4. AcknowledgedOnDisk'
    BY <2>1 DEF AcknowledgedOnDisk
  <2>5. LegacyKeyGone'
    BY <1>3 DEF HeldInv, LegacyKeyGone, StartSaves
  <2> QED
    BY <2>2, <2>3, <2>4, <2>5 DEF HeldInv
<1> QED
  BY <1>2, <1>3

\* Only a handler that is alone promises, and then no other carries anything.
LEMMA WriteHeld ==
    ASSUME IInv, HeldInv, Alive, NEW h \in All, Write(h)
    PROVE  HeldInv'
<1> DEFINE by(set) == hand[h].alone /\ hand[h].op \in set
           d == hand[h].data
<1>1. h # "main" => h \in Handlers /\ phase = "up"
  BY Up DEF Write, All
<1>2. /\ hand[h].pc = "write" /\ acked' = Promise(h) /\ OnlyOf(h)
      /\ file' \in {d, Torn}
      /\ hand'[h].pc \in {"check", "idle"}
      /\ phase' = IF h = "main" THEN "up" ELSE phase
      /\ UNCHANGED <<pool, keys, cfg, lock, catalogue, ops, skipped, fresh>>
      /\ TypeOK'
  BY <1>1, WriteFacts, IdleTypes
<1>3. /\ \A a \in Accounts :
            \/ acked'.a[a] = acked.a[a]
            \/ /\ by(AccountOps \cup {"oauth"}) /\ a \in Covered(hand[h].op)
               /\ acked'.a[a] = pool[a]
      /\ \A k \in ClientKeys :
            \/ acked'.k[k] = acked.k[k]
            \/ by(KeyOps) /\ k = hand[h].item /\ acked'.k[k] = hand[h].to
      /\ acked'.s = acked.s \/ (by(SettingOps) /\ acked'.s = hand[h].item)
  BY <1>1, <1>2, PromiseFacts
<1>4. ASSUME hand[h].alone, h # "main" PROVE Carries(h)
  BY <1>1, <1>2, <1>4 DEF IInv, Alone, Active
<1>5. h = "main" => hand[h].op = "none"
  BY DEF IInv, Booting
<1>6. ASSUME NEW set \in {AccountOps \cup {"oauth"}, KeyOps, SettingOps}, by(set)
      PROVE  Carries(h) /\ h # "main"
  BY <1>4, <1>5, <1>6 DEF AccountOps, KeyOps, SettingOps
<1>7. /\ by(AccountOps \cup {"oauth"}) =>
            Copied(cfg.accounts, Covered(hand[h].op)) /\ Copied(d.accounts, Covered(hand[h].op))
      /\ by(KeyOps) => /\ cfg.keys = keys /\ d.keys = keys
                       /\ keys[hand[h].item] = hand[h].to
      /\ by(SettingOps) => cfg.setting = hand[h].item /\ d.setting = hand[h].item
  BY <1>2, <1>6 DEF Carries, SyncsAccounts
<1>8. ASSUME NEW p, AccountsHeld(p), by(AccountOps \cup {"oauth"}) => Copied(p, Covered(hand[h].op))
      PROVE  \A a \in Accounts : acked'.a[a] \in {"unknown", p[a]}
  BY <1>3, <1>8 DEF AccountsHeld, Copied
<1>9. ASSUME NEW p, KeysHeld(p), by(KeyOps) => p[hand[h].item] = hand[h].to
      PROVE  \A k \in ClientKeys : acked'.k[k] \in {"unknown", p[k]}
  BY <1>3, <1>9 DEF KeysHeld
<1>10. ASSUME NEW v, SettingHeld(v), by(SettingOps) => v = hand[h].item
       PROVE  acked'.s \in {"unknown", v}
  BY <1>3, <1>10 DEF SettingHeld
<1>11. MemoryHeld'
  <2>1. AccountsHeld(pool)' /\ AccountsHeld(cfg.accounts)'
    BY <1>2, <1>7, <1>8 DEF HeldInv, MemoryHeld, AccountsHeld, Copied
  <2>2. KeysHeld(keys)' /\ KeysHeld(cfg.keys)'
    BY <1>2, <1>7, <1>9 DEF HeldInv, MemoryHeld, KeysHeld
  <2>3. SettingHeld(cfg.setting)'
    BY <1>2, <1>7, <1>10 DEF HeldInv, MemoryHeld, SettingHeld
  <2> QED
    BY <2>1, <2>2, <2>3 DEF MemoryHeld
<1>12. ASSUME NEW g \in All \ {h}, hand[g].pc \in {"assign", "truncate", "write"},
              NEW set \in {AccountOps \cup {"oauth"}, KeyOps, SettingOps}
       PROVE  ~by(set)
  <2> SUFFICES ASSUME by(set) PROVE FALSE
    OBVIOUS
  <2>1. Carries(h) /\ phase = "up"
    BY <1>1, <1>6
  <2>2. g \in Handlers
    BY <1>12, <2>1 DEF IInv, Booting, All
  <2> QED
    BY <1>12, <2>1, <2>2 DEF Carries, Active
<1>13. SnapsHeld'
  <2>1. ASSUME NEW g \in Handlers, hand'[g].pc = "assign"
        PROVE  IF hand'[g].op \in SyncsAccounts THEN SectionHeld(hand[g].snap)'
               ELSE KeysHeld(hand[g].snap)'
    <3>1. g \in All \ {h} /\ SameWork(g) /\ hand[g].pc = "assign"
      BY <1>2, <2>1, Handles DEF OnlyOf, SameWork
    <3>2. IF hand[g].op \in SyncsAccounts THEN SectionHeld(hand[g].snap) ELSE KeysHeld(hand[g].snap)
      BY <2>1, <3>1 DEF HeldInv, SnapsHeld
    <3>3. ~by(AccountOps \cup {"oauth"}) /\ ~by(KeyOps)
      BY <1>12, <3>1
    <3>4. hand'[g].snap = hand[g].snap /\ hand'[g].op = hand[g].op
      BY <3>1 DEF SameWork
    <3>5. \A a \in Accounts : acked'.a[a] = acked.a[a]
      BY <1>3, <3>3
    <3> HIDE DEF by
    <3> QED
      BY <1>9, <3>2, <3>3, <3>4, <3>5, Gatewayed DEF SectionHeld, KeysHeld
  <2> QED
    BY <2>1 DEF SnapsHeld
<1>14. DataHeld'
  <2>1. ASSUME NEW g \in All, hand'[g].pc \in {"truncate", "write"}
        PROVE  /\ AccountsHeld(hand[g].data.accounts)' /\ KeysHeld(hand[g].data.keys)'
               /\ SettingHeld(hand[g].data.setting)' /\ hand'[g].data.apiKey = NoKey
    <3>1. g \in All \ {h} /\ SameWork(g) /\ hand[g].pc \in {"truncate", "write"}
      BY <1>2, <2>1 DEF OnlyOf, SameWork
    <3>2. /\ AccountsHeld(hand[g].data.accounts) /\ KeysHeld(hand[g].data.keys)
          /\ SettingHeld(hand[g].data.setting) /\ hand[g].data.apiKey = NoKey
      BY <3>1 DEF HeldInv, DataHeld, All
    <3>3. ~by(AccountOps \cup {"oauth"}) /\ ~by(KeyOps) /\ ~by(SettingOps)
      BY <1>12, <3>1
    <3>4. hand'[g].data = hand[g].data
      BY <3>1 DEF SameWork
    <3> HIDE DEF by
    <3>5. /\ \A a \in Accounts : acked'.a[a] \in {"unknown", hand[g].data.accounts[a]}
          /\ \A k \in ClientKeys : acked'.k[k] \in {"unknown", hand[g].data.keys[k]}
          /\ acked'.s \in {"unknown", hand[g].data.setting}
      BY <1>8, <1>9, <1>10, <3>2, <3>3
    <3> QED
      BY <3>2, <3>4, <3>5 DEF AccountsHeld, KeysHeld, SettingHeld
  <2> QED
    BY <2>1 DEF DataHeld, All
<1>15. /\ AccountsHeld(d.accounts) /\ KeysHeld(d.keys) /\ SettingHeld(d.setting) /\ d.apiKey = NoKey
  BY <1>2 DEF HeldInv, DataHeld, All
<1>16. LegacyKeyGone'
  <2>1. cfg.apiKey = NoKey
    BY <1>1, <1>2 DEF HeldInv, LegacyKeyGone
  <2> QED
    BY <1>2, <1>15, <2>1 DEF LegacyKeyGone
<1>17. AcknowledgedOnDisk'
  <2> SUFFICES ASSUME file' = d
               PROVE  /\ \A a \in Accounts : acked'.a[a] \in {"unknown", Loaded(d).accounts[a]}
                      /\ \A k \in ClientKeys : acked'.k[k] \in {"unknown", Loaded(d).keys[k]}
                      /\ acked'.s \in {"unknown", Loaded(d).setting}
    BY <1>2 DEF AcknowledgedOnDisk, Loaded
  <2>1. d \in Saved
    BY DEF IInv, TypeOK, All, Handling
  <2>2. /\ Loaded(d).accounts = d.accounts /\ Loaded(d).keys = d.keys
        /\ d.setting # NoSetting => Loaded(d).setting = d.setting
    BY <1>15, <2>1, LoadedSaved
  <2>3. \A a \in Accounts : acked'.a[a] \in {"unknown", d.accounts[a]}
    BY <1>7, <1>8, <1>15
  <2>4. \A k \in ClientKeys : acked'.k[k] \in {"unknown", d.keys[k]}
    BY <1>7, <1>9, <1>15
  <2>5. acked'.s \in {"unknown", d.setting}
    BY <1>7, <1>10, <1>15
  <2>6. acked'.s \in Settings \cup {Generated, "unknown"}
    BY <1>2 DEF TypeOK
  <2>7. NoSetting \notin Settings /\ NoSetting # Generated
    BY ConfigAssumption
  <2> HIDE DEF d
  <2> QED
    BY <2>2, <2>3, <2>4, <2>5, <2>6, <2>7
<1> QED
  BY <1>11, <1>13, <1>14, <1>16, <1>17 DEF HeldInv

-----------------------------------------------------------------------------
(***************************************************************************)
(* The start, the end and the theorems.                                    *)
(***************************************************************************)
LEMMA StartedHeld ==
    Started /\ Counted /\ AcknowledgedOnDisk /\ (file.apiKey = NoKey \/ StartSaves(file)) => HeldInv
<1> SUFFICES ASSUME Started, Counted, AcknowledgedOnDisk, file.apiKey = NoKey \/ StartSaves(file)
             PROVE  HeldInv
  OBVIOUS
<1>1. file \in FileData /\ file # Torn
  BY SavedIsData DEF Counted
<1> DEFINE saving == [Idle EXCEPT !.pc = "marshal"]
<1>2. saving.pc = "marshal"
  BY IdleTypes DEF Handling
<1>3. /\ \A h \in Handlers : hand[h].pc = "idle"
      /\ hand["main"].pc = IF StartSaves(file) THEN "marshal" ELSE "idle"
      /\ DOMAIN hand = All
  BY <1>2, IdleTypes, Handles DEF Started, All
<1>4. /\ \A a \in Accounts : acked.a[a] \in {"unknown", Loaded(file).accounts[a]}
      /\ \A k \in ClientKeys : acked.k[k] \in {"unknown", Loaded(file).keys[k]}
      /\ acked.s \in {"unknown", Loaded(file).setting}
  BY <1>1, <1>3 DEF AcknowledgedOnDisk, All
<1>5. MemoryHeld
  BY <1>4 DEF Started, MemoryHeld, AccountsHeld, KeysHeld, SettingHeld
<1>6. SnapsHeld /\ DataHeld
  BY <1>3 DEF SnapsHeld, DataHeld
<1>7. LegacyKeyGone
  <2>1. cfg.apiKey = file.apiKey
    BY DEF Started, Loaded
  <2>2. file.apiKey # NoKey => cfg.keys # NoClientKeys
    <3> SUFFICES ASSUME file.apiKey # NoKey, file.keys = NoClientKeys
                 PROVE  cfg.keys # NoClientKeys
      BY DEF Started, Loaded
    <3>1. cfg.keys = [NoClientKeys EXCEPT ![file.apiKey] = "on"]
      BY DEF Started, Loaded
    <3>2. file.apiKey \in ClientKeys
      BY <1>1 DEF FileData
    <3>3. cfg.keys[file.apiKey] = "on" /\ NoClientKeys[file.apiKey] = "absent"
      BY <3>1, <3>2 DEF NoClientKeys
    <3> QED
      BY <3>3
  <2> QED
    BY <1>3, <2>1, <2>2 DEF Started, LegacyKeyGone
<1> QED
  BY <1>5, <1>6, <1>7 DEF HeldInv

LEMMA InitHeld == KeysMigrated /\ Init => HeldInv
<1> SUFFICES ASSUME KeysMigrated, Init PROVE HeldInv
  OBVIOUS
<1>1. Counted /\ Started
  BY InitInv DEF Init, Started, Counted, IInv, TypeOK
<1>2. acked = [a |-> cfg.accounts, k |-> cfg.keys, s |-> cfg.setting] /\ cfg = Loaded(file)
  BY DEF Init
<1>3. AcknowledgedOnDisk
  BY <1>2 DEF AcknowledgedOnDisk
<1>4. file.apiKey = NoKey \/ StartSaves(file)
  BY DEF Init, KeysMigrated
<1> QED
  BY <1>1, <1>3, <1>4, StartedHeld

LEMMA EndHeld ==
    ASSUME IInv, HeldInv, IInv', End
    PROVE  HeldInv'
<1> DEFINE writing == \E h \in DOMAIN hand : hand[h].pc = "write"
<1>1. acked' = IF writing THEN NothingPromised ELSE acked
  BY DEF End
<1>2. /\ file' \in {file, Torn}
      /\ \/ file' # Torn /\ Started'
         \/ /\ file' = Torn /\ phase' = "broken"
            /\ UNCHANGED <<pool, keys, cfg, hand, lock, catalogue>>
  BY EndTypes
<1>3. /\ \A a \in Accounts : acked'.a[a] \in {"unknown", acked.a[a]}
      /\ \A k \in ClientKeys : acked'.k[k] \in {"unknown", acked.k[k]}
      /\ acked'.s \in {"unknown", acked.s}
  BY <1>1 DEF NothingPromised
<1>4. CASE file' # Torn /\ Started'
  <2>1. file' = file /\ file # Torn
    BY <1>2, <1>4
  <2>2. /\ \A a \in Accounts : acked'.a[a] \in {"unknown", Loaded(file).accounts[a]}
        /\ \A k \in ClientKeys : acked'.k[k] \in {"unknown", Loaded(file).keys[k]}
        /\ acked'.s \in {"unknown", Loaded(file).setting}
    <3>1. CASE writing
      BY <1>1, <3>1 DEF NothingPromised
    <3>2. CASE ~writing
      <4>1. acked' = acked
        BY <1>1, <3>2
      <4> QED
        BY <2>1, <3>2, <4>1 DEF HeldInv, AcknowledgedOnDisk
    <3> QED
      BY <3>1, <3>2
  <2>3. AcknowledgedOnDisk'
    BY <2>1, <2>2 DEF AcknowledgedOnDisk, Loaded
  <2>4. (file.apiKey = NoKey \/ StartSaves(file))'
    BY <2>1 DEF HeldInv, LegacyKeyGone, StartSaves
  <2>5. Counted'
    BY <1>4 DEF IInv, TypeOK, Counted
  <2> QED
    BY <1>4, <2>3, <2>4, <2>5, StartedHeld, PTL
<1>5. CASE /\ file' = Torn /\ phase' = "broken"
           /\ UNCHANGED <<pool, keys, cfg, hand, lock, catalogue>>
  <2>1. /\ \A p : AccountsHeld(p) => \A a \in Accounts : acked'.a[a] \in {"unknown", p[a]}
        /\ \A p : SectionHeld(p) => \A a \in Cmdcode : acked'.a[a] \in {"unknown", p[a]}
        /\ \A p : KeysHeld(p) => \A k \in ClientKeys : acked'.k[k] \in {"unknown", p[k]}
        /\ \A v : SettingHeld(v) => acked'.s \in {"unknown", v}
    BY <1>3, Gatewayed DEF AccountsHeld, SectionHeld, KeysHeld, SettingHeld
  <2>2. MemoryHeld'
    BY <1>5, <2>1 DEF HeldInv, MemoryHeld, AccountsHeld, KeysHeld, SettingHeld
  <2>3. SnapsHeld'
    BY <1>5, <2>1 DEF HeldInv, SnapsHeld, SectionHeld, KeysHeld
  <2>4. DataHeld'
    <3>1. ASSUME NEW h \in Handlers \cup {"main"}, hand[h].pc \in {"truncate", "write"}
          PROVE  /\ AccountsHeld(hand[h].data.accounts)' /\ KeysHeld(hand[h].data.keys)'
                 /\ SettingHeld(hand[h].data.setting)' /\ hand[h].data.apiKey = NoKey
      <4>1. /\ AccountsHeld(hand[h].data.accounts) /\ KeysHeld(hand[h].data.keys)
            /\ SettingHeld(hand[h].data.setting) /\ hand[h].data.apiKey = NoKey
        BY <3>1 DEF HeldInv, DataHeld
      <4>2. /\ \A a \in Accounts : acked'.a[a] \in {"unknown", hand[h].data.accounts[a]}
            /\ \A k \in ClientKeys : acked'.k[k] \in {"unknown", hand[h].data.keys[k]}
            /\ acked'.s \in {"unknown", hand[h].data.setting}
        BY <2>1, <4>1
      <4> QED
        BY <1>5, <4>1, <4>2 DEF AccountsHeld, KeysHeld, SettingHeld
    <3> QED
      BY <1>5, <3>1 DEF DataHeld
  <2>5. LegacyKeyGone' /\ AcknowledgedOnDisk'
    BY <1>5 DEF HeldInv, LegacyKeyGone, AcknowledgedOnDisk
  <2> QED
    BY <2>2, <2>3, <2>4, <2>5 DEF HeldInv
<1> QED
  BY <1>2, <1>4, <1>5

LEMMA StepHeld == IInv /\ IInv' /\ HeldInv /\ [Next]_vars => HeldInv'
<1> SUFFICES ASSUME IInv, IInv', HeldInv, [Next]_vars PROVE HeldInv'
  OBVIOUS
<1>1. TypeOK'
  BY DEF IInv
<1>2. ASSUME NEW h \in Handlers,
             \/ \E op, item, new, to : Begin(h, op, item, new, to)
             \/ Lock(h) \/ Refresh(h)
      PROVE  HeldInv'
  BY <1>1, <1>2, QuietHeld
<1>3. ASSUME NEW h \in Handlers, Apply(h) PROVE HeldInv'
  BY <1>1, <1>3, ApplyHeld
<1>4. ASSUME NEW h \in All, Alive, Persist(h) PROVE HeldInv'
  <2>1. h = "main" => hand[h].pc \in {"idle", "marshal", "truncate", "write"}
    BY DEF IInv, Booting
  <2>2. CASE Snap(h) \/ Assign(h) \/ AssignZen(h)
    <3>1. h \in Handlers
      BY <2>1, <2>2 DEF Snap, Assign, AssignZen, All
    <3>2. phase = "up"
      BY <1>4, <2>2, <3>1, Up DEF Snap, Assign, AssignZen
    <3> QED
      BY <1>1, <2>2, <3>1, <3>2, SnapHeld, AssignHeld, AssignZenHeld
  <2> QED
    BY <1>4, <2>2, MarshalHeld, TruncateHeld, WriteHeld DEF Persist
<1>5. CASE End
  BY <1>5, EndHeld
<1>6. ASSUME NEW h \in Handlers, Alive, SaveFails(h) \/ Panic(h) PROVE HeldInv'
  <2>1. hand[h].pc # "idle" /\ phase = "up"
    BY <1>6, Up DEF SaveFails, Panic
  <2>2. CASE SaveFails(h)
    <3>1. /\ Done(h) /\ UNCHANGED <<pool, keys, cfg, phase>>
          /\ \/ UNCHANGED <<file, acked>> /\ hand[h].pc # "write"
             \/ file' \in {file, Torn} /\ acked' = NothingPromised
      BY <2>2 DEF SaveFails
    <3> QED
      BY <1>1, <2>1, <3>1, FailedHeld
  <2>3. CASE /\ Panic(h) /\ Done(h)
             /\ UNCHANGED <<pool, keys, cfg, file, catalogue, phase, acked, revoked, skipped, fresh>>
    <3>1. hand[h].pc # "write"
      BY <2>3 DEF Panic
    <3> QED
      BY <1>1, <2>1, <2>3, <3>1, FailedHeld
  <2> QED
    BY <1>5, <1>6, <2>2, <2>3 DEF Panic
<1>7. CASE UNCHANGED vars
  BY <1>7 DEF vars, HeldInv, MemoryHeld, SnapsHeld, DataHeld, LegacyKeyGone, AcknowledgedOnDisk,
              AccountsHeld, SectionHeld, KeysHeld, SettingHeld, StartSaves, Loaded
<1>8. "main" \in All /\ Handlers \subseteq All
  BY Handles
<1>9. CASE Next
  BY <1>2, <1>3, <1>4, <1>5, <1>8, <1>9, <1>6 DEF Next, Request, All, Crash
<1> QED
  BY <1>7, <1>9

(***************************************************************************)
(* The inductive invariant of what is promised.                            *)
(***************************************************************************)
THEOREM Promised == KeysMigrated /\ Spec => []HeldInv
<1>1. Spec => []IInv
  BY Invariant
<1> QED
  BY <1>1, InitHeld, StepHeld, PTL DEF Spec

(***************************************************************************)
(* A change that was saved alone is found by every later start, whatever   *)
(* other changes overlap afterwards and wherever they stop.                *)
(***************************************************************************)
THEOREM PromisesOnDisk == KeysMigrated /\ Spec => []AcknowledgedOnDisk
<1>1. HeldInv => AcknowledgedOnDisk
  BY DEF HeldInv
<1> QED
  BY <1>1, Promised, PTL

(***************************************************************************)
(* A client key that was deleted or disabled while nothing else was under  *)
(* way stays out, also after a restart and whatever overlaps afterwards.   *)
(* Of a revocation that another save has overlapped nothing is said: that  *)
(* one may come back.                                                      *)
(***************************************************************************)
THEOREM LoneRevocationsLast == KeysMigrated /\ Spec => []LoneRevocationStays
<1>1. HeldInv => LoneRevocationStays
  BY DEF HeldInv, MemoryHeld, KeysHeld, LoneRevocationStays, Admits
<1> QED
  BY <1>1, Promised, PTL

================================================================================
