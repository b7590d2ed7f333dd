------------------------------- MODULE ZkvFleet -------------------------------
(***************************************************************************)
(* How a watch-only database moves onto the network's shared scan and off  *)
(* it again: creation, automatic enrolment on open, the conversion that a  *)
(* sync drives and that ends by deleting the database's own wallet files,  *)
(* `zkv fleet join`, `leave` and `rebuild`, `zkv sync --rebuild` and       *)
(* `zkv remove`.                                                           *)
(*                                                                         *)
(* What a database is lives in four places that no transaction spans:      *)
(* keys.toml (rewritten whole from a copy read earlier), the manifest in   *)
(* wallets.d, the database's own wallet files, and the account in a shard. *)
(* Every file operation is a step, so that a process can be killed, and    *)
(* another process can run, between any two of them.                       *)
(*                                                                         *)
(* The databases are watch-only, of one network, and none is called        *)
(* "default": should_enrol and join turn the others away.  A key stands    *)
(* for the viewing key and birthday an address carries.  The shards are    *)
(* one map from keys to how far their account has been scanned.            *)
(***************************************************************************)
EXTENDS Integers, FiniteSets

CONSTANTS
    DB,                 \* names of watch-only databases
    Key,                \* viewing keys
    NoKey,              \* no viewing key
    Addresses,          \* the keys whose address users give to each name
    Actor,              \* zkv processes, or threads of one
    Commands,           \* what their users run
    NearTipTolerance,   \* NEAR_TIP_TOLERANCE, 1 in the code
    MaxTip,             \* bound: chain length
    MaxCrashes          \* bound: commands killed half-way

AllCommands == {"facade", "sync", "resync", "migrate", "locate", "join", "leave", "rebuild",
                "watch", "standalone", "remove", "default"}

ASSUME KeyAssumption == NoKey \notin Key \cup DB /\ Addresses \in [DB -> SUBSET Key]
ASSUME CommandsAssumption == Commands \subseteq AllCommands
ASSUME BoundAssumption == NearTipTolerance \in Nat /\ MaxTip \in Nat /\ MaxCrashes \in Nat

VARIABLES
    keys,       \* each database's keys.toml
    manifest,   \* the key in each name's manifest
    own,        \* how far each database's own wallet file is scanned
    shard,      \* how far each key's account is scanned in the shards
    default_on, \* is the .fleet-default-off marker absent?
    tip,        \* the chain's height
    call,       \* the command each actor is in
    crashes,    \* commands killed so far
    told        \* history: the greatest height a sync has reported of each database

vars == <<keys, manifest, own, shard, default_on, tip, call, crashes, told>>

\* No wallet file, or no account.
Absent == -1

Height == Absent .. MaxTip

\* WalletConfig, as far as this module reads it; engine "Absent" is no keys.toml,
\* shard is whether a placement hint is recorded.
Config == [engine : {"Absent", "Unset", "Own", "FleetPending", "Fleet"},
           ufvk : Key \cup {NoKey}, address : Key \cup {NoKey}, shard : BOOLEAN]

NoConfig == [engine |-> "Absent", ufvk |-> NoKey, address |-> NoKey, shard |-> FALSE]

Exists(d) == keys[d].engine # "Absent"

is_standalone(c) == c.engine \in {"Unset", "Own"}

is_fleet_member(c) == c.engine = "Fleet"

\* Mutant: a decision against the shared scan is not told from no decision.
should_enrol_standalone(c) == is_standalone(c) /\ default_on

should_enrol(c) == c.engine = "Unset" /\ default_on

set_engine(c, engine) ==
    [c EXCEPT !.engine = engine, !.shard = @ /\ engine \notin {"Unset", "Own"}]

\* How far the files a read of this database opens are scanned (locate).
ReadHeight(d) ==
    IF ~is_fleet_member(keys[d]) THEN own[d]
    ELSE IF keys[d].ufvk = NoKey THEN Absent ELSE shard[keys[d].ufvk]

\* Can a read find this database's account?  Otherwise it fails, as "importing"
\* for a member of the shared scan and as "no wallet key imported" for the rest.
Readable(d) == Exists(d) /\ ReadHeight(d) # Absent

\* locate_member finds an account it has no hint for.
Located(c) == ~is_standalone(c) /\ c.ufvk # NoKey /\ shard[c.ufvk] # Absent /\ ~c.shard

\* The steps of the commands, those of a database whose keys.toml has been read first.
WithCopy == {"pin", "manifest", "pending", "engine", "adopt", "ownsync", "fleetsync", "cache",
             "setfleet", "discard", "unmanifest", "setown", "wipe", "rebootstrap",
             "newmanifest", "newfiles", "rowmanifest", "rowwrite", "rowhint", "rmdir"}

Steps == WithCopy \cup {"idle", "create", "drive", "flip", "unshard", "row"}

\* pc is the next step; cfg the copy of keys.toml last read; drives is whether the
\* handle was opened on a converting database; own and shard are own_scanned and
\* shard_scanned; node is whether its own node runs; rows are what rebuild has left.
Call == [cmd : {"none"} \cup AllCommands, pc : Steps, db : DB \cup {NoKey}, cfg : Config,
         drives : BOOLEAN, own : Height, shard : Height, node : BOOLEAN, rows : SUBSET DB]

Idle == [cmd |-> "none", pc |-> "idle", db |-> NoKey, cfg |-> NoConfig,
         drives |-> FALSE, own |-> Absent, shard |-> Absent, node |-> FALSE, rows |-> {}]

At(a, pc) == call[a].pc = pc

Goto(a, pc) == call' = [call EXCEPT ![a].pc = pc]

Done(a) == call' = [call EXCEPT ![a] = Idle]

Begin(a, cmd, d, pc) ==
    call' = [call EXCEPT ![a] = [Idle EXCEPT !.cmd = cmd, !.db = d, !.cfg = keys[d], !.pc = pc]]

\* A database from before the shared scan: no engine recorded, adopted or not.
Legacy(k) == {[engine |-> "Unset", ufvk |-> u, address |-> k, shard |-> FALSE] : u \in {k, NoKey}}

Init ==
    /\ keys \in [DB -> {NoConfig} \cup UNION {Legacy(k) : k \in Key}]
    /\ \A d \in DB : Exists(d) => keys[d].address \in Addresses[d]
    /\ \A d, e \in DB : Exists(d) /\ Exists(e) /\ keys[d].address = keys[e].address => d = e
    /\ manifest = [d \in DB |-> NoKey]
    /\ own = [d \in DB |-> IF Exists(d) THEN 0 ELSE Absent]
    /\ shard = [k \in Key |-> Absent]
    /\ default_on \in BOOLEAN
    /\ tip = 0
    /\ call = [a \in Actor |-> Idle]
    /\ crashes = 0
    /\ told = [d \in DB |-> Absent]
-----------------------------------------------------------------------------
(* keys.toml *)

\* rewrite_config: temp file and rename, so atomic, of the whole copy in memory;
\* it fails, and the command with it, when the directory is gone.
Rewrite(a, c, pc) ==
    LET d == call[a].db IN
    IF Exists(d)
    THEN /\ keys' = [keys EXCEPT ![d] = c]
         /\ call' = [call EXCEPT ![a] = IF pc = "idle" THEN Idle
                                        ELSE [@ EXCEPT !.cfg = c, !.pc = pc]]
    ELSE UNCHANGED keys /\ Done(a)
-----------------------------------------------------------------------------
(* Enrolment, on open and by `zkv fleet join` *)

EnrolFrom(c) == IF c.ufvk = NoKey THEN "pin" ELSE "manifest"

\* Database::open, for a command of the facade that syncs (the GUI's, `zkv keys`,
\* `zkv roles`, `zkv verify`).
Open(a, d) ==
    /\ At(a, "idle") /\ "facade" \in Commands /\ Exists(d)
    /\ Begin(a, "facade", d, IF should_enrol(keys[d]) THEN EnrolFrom(keys[d]) ELSE "engine")
    /\ UNCHANGED <<keys, manifest, own, shard, default_on, tip, crashes, told>>

\* join, for a database that is not on the shared scan yet.
Join(a, d) ==
    /\ At(a, "idle") /\ "join" \in Commands /\ Exists(d) /\ is_standalone(keys[d])
    /\ Begin(a, "join", d, EnrolFrom(keys[d]))
    /\ UNCHANGED <<keys, manifest, own, shard, default_on, tip, crashes, told>>

\* pin_ufvk, from the address.
PinUfvk(a) ==
    /\ At(a, "pin")
    /\ Rewrite(a, [call[a].cfg EXCEPT !.ufvk = call[a].cfg.address], "manifest")
    /\ UNCHANGED <<manifest, own, shard, default_on, tip, crashes, told>>

\* What follows enrolment, done or refused.
Enrolled(a) == IF call[a].cmd = "facade" THEN Goto(a, "engine") ELSE Done(a)

\* write_manifest refuses to overwrite; the same manifest is what enrol wants, another
\* one fails it, which open ignores.
WriteManifest(a) ==
    LET d == call[a].db  k == call[a].cfg.ufvk IN
    /\ At(a, "manifest")
    /\ IF manifest[d] = NoKey THEN manifest' = [manifest EXCEPT ![d] = k] ELSE UNCHANGED manifest
    /\ IF manifest[d] \in {NoKey, k} THEN Goto(a, "pending") ELSE Enrolled(a)
    /\ UNCHANGED <<keys, own, shard, default_on, tip, crashes, told>>

SetPending(a) ==
    LET c == set_engine(call[a].cfg, "FleetPending") IN
    /\ At(a, "pending")
    /\ IF Exists(call[a].db)
       THEN /\ keys' = [keys EXCEPT ![call[a].db] = c]
            /\ IF call[a].cmd = "facade"
               THEN call' = [call EXCEPT ![a].cfg = c, ![a].pc = "engine"]
               ELSE Done(a)
       ELSE UNCHANGED keys /\ Done(a)
    /\ UNCHANGED <<manifest, own, shard, default_on, tip, crashes, told>>
-----------------------------------------------------------------------------
(* Syncing, and the conversion a sync drives *)

\* `zkv sync` (and get, history, show, balance): the engine without the facade.
Sync(a, d) ==
    /\ At(a, "idle") /\ "sync" \in Commands /\ Exists(d)
    /\ Begin(a, "sync", d, "engine")
    /\ UNCHANGED <<keys, manifest, own, shard, default_on, tip, crashes, told>>

\* engine_for a config read afresh; from_config adopts a database with no pin.
OpenEngine(a) ==
    LET d == call[a].db  now == keys[d] IN
    /\ At(a, "engine")
    /\ call' = [call EXCEPT ![a] =
        IF ~Exists(d) THEN Idle
        ELSE [@ EXCEPT !.drives = call[a].cmd = "facade" /\ call[a].cfg.engine = "FleetPending",
                       !.cfg = now,
                       !.pc = IF is_fleet_member(now) THEN "fleetsync"
                              ELSE IF now.ufvk = NoKey THEN "adopt" ELSE "ownsync"]]
    /\ UNCHANGED <<keys, manifest, own, shard, default_on, tip, crashes, told>>

\* `zkv migrate`: adoption alone, of a database that has no pin yet.
Migrate(a, d) ==
    /\ At(a, "idle") /\ "migrate" \in Commands /\ Exists(d) /\ keys[d].ufvk = NoKey
    /\ Begin(a, "migrate", d, "adopt")
    /\ UNCHANGED <<keys, manifest, own, shard, default_on, tip, crashes, told>>

\* ensure_adopted.
Adopt(a) ==
    /\ At(a, "adopt")
    /\ Rewrite(a, [call[a].cfg EXCEPT !.ufvk = call[a].cfg.address],
               IF call[a].cmd = "migrate" THEN "idle" ELSE "ownsync")
    /\ UNCHANGED <<manifest, own, shard, default_on, tip, crashes, told>>

\* The sync reports height h to its caller.
Report(d, h) == told' = [told EXCEPT ![d] = IF h > @ THEN h ELSE @]

\* Mutant: the conversion is left to others.
Drive_never(c) == Idle

\* What follows read_sync in sync_through_engine.
Drive(c) == IF c.drives THEN [c EXCEPT !.pc = "drive"] ELSE Idle

\* After a sync: store the hint it found (locate_member), flip, or drive the conversion.
AfterSync(c, found) ==
    IF found THEN [c EXCEPT !.pc = "cache"]
    ELSE IF c.shard # Absent THEN [c EXCEPT !.pc = "flip"] ELSE Drive(c)

\* read_sync's skip: the files a read opens are near enough the tip, no node is needed.
\* Only `zkv sync --rebuild` asks for a scan whatever they are.
SkipSync(a) ==
    LET d == call[a].db  h == ReadHeight(d) IN
    /\ call[a].pc \in {"ownsync", "fleetsync"} /\ call[a].cmd # "resync"
    /\ Readable(d) /\ tip - h <= NearTipTolerance
    /\ Report(d, h)
    /\ call' = [call EXCEPT ![a] = AfterSync([@ EXCEPT !.own = h, !.cfg = keys[d]],
                                                  is_fleet_member(keys[d]) /\ Located(keys[d]))]
    /\ UNCHANGED <<keys, manifest, own, shard, default_on, tip, crashes>>

\* The datadir lock of a database's own node.
LockFree(a, d) == \A b \in Actor \ {a} : ~(call[b].db = d /\ call[b].node)

\* The database's own node catches up, from the birthday where there is no wallet file.
SyncOwn(a) ==
    LET d == call[a].db IN
    /\ At(a, "ownsync") /\ LockFree(a, d) /\ Exists(d)
    /\ own' = [own EXCEPT ![d] = tip]
    /\ Report(d, tip)
    /\ call' = [call EXCEPT ![a] = Drive([@ EXCEPT !.own = tip, !.node = TRUE])]
    /\ UNCHANGED <<keys, manifest, shard, default_on, tip, crashes>>

\* Mutant: how far the shard is scanned passes for how far the member is, imported or not.
SyncMember_unimported(a) ==
    LET d == call[a].db IN
    /\ call[a].pc \in {"fleetsync", "drive"} /\ manifest[d] # NoKey
    /\ call' = [call EXCEPT ![a] = AfterSync([@ EXCEPT !.shard = tip], FALSE)]
    /\ UNCHANGED <<keys, manifest, own, shard, default_on, tip, crashes, told>>

\* sync_wallet of a member the shared node has imported: it answers once the account has
\* reached the tip the node last saw.  As the database's own sync, or as the slice that
\* drive_pending_fleet contributes.
SyncMember(a) ==
    LET d == call[a].db  k == manifest[d] IN
    /\ call[a].pc \in {"fleetsync", "drive"}
    /\ k # NoKey /\ shard[k] # Absent
    /\ \E h \in {shard[k], tip} :
        /\ tip - h <= NearTipTolerance
        /\ shard' = [shard EXCEPT ![k] = h]
        /\ IF At(a, "fleetsync") THEN Report(d, h) ELSE UNCHANGED told
        /\ call' = [call EXCEPT ![a] =
            AfterSync(IF At(a, "fleetsync") THEN [@ EXCEPT !.own = h, !.cfg = keys[d]]
                                                 ELSE [@ EXCEPT !.shard = h, !.cfg = keys[d]],
                           Located(keys[d]))]
    /\ UNCHANGED <<keys, manifest, own, default_on, tip, crashes>>

\* A node that will not start, a server that does not answer, a slice that expires, a
\* member that is not imported.
SyncFails(a) ==
    /\ call[a].pc \in {"ownsync", "fleetsync", "drive"}
    /\ Done(a)
    /\ UNCHANGED <<keys, manifest, own, shard, default_on, tip, crashes, told>>

\* A read, or `zkv fleet status`, that locates a member and has no hint for it.
Locate(a, d) ==
    /\ At(a, "idle") /\ "locate" \in Commands /\ Located(keys[d])
    /\ Begin(a, "locate", d, "cache")
    /\ UNCHANGED <<keys, manifest, own, shard, default_on, tip, crashes, told>>

\* cache_shard: a failure is ignored.
CacheShard(a) ==
    LET d == call[a].db IN
    /\ At(a, "cache")
    /\ keys' = [keys EXCEPT ![d] = IF Exists(d) THEN [call[a].cfg EXCEPT !.shard = TRUE] ELSE @]
    /\ call' = [call EXCEPT ![a] = AfterSync(@, FALSE)]
    /\ UNCHANGED <<manifest, own, shard, default_on, tip, crashes, told>>

\* Mutant: any progress of the shard is enough.
flip_if_caught_up_any(c, own_scanned, shard_scanned) == c.engine = "FleetPending"

flip_if_caught_up(c, own_scanned, shard_scanned) ==
    c.engine = "FleetPending" /\ shard_scanned >= own_scanned

\* drive_pending_fleet reads keys.toml again before the flip.
ReadForFlip(a) ==
    LET d == call[a].db IN
    /\ At(a, "flip")
    /\ IF Exists(d) /\ flip_if_caught_up(keys[d], call[a].own, call[a].shard)
       THEN call' = [call EXCEPT ![a].cfg = keys[d], ![a].pc = "setfleet"]
       ELSE Done(a)
    /\ UNCHANGED <<keys, manifest, own, shard, default_on, tip, crashes, told>>

SetFleet(a) ==
    /\ At(a, "setfleet")
    /\ Rewrite(a, set_engine(call[a].cfg, "Fleet"), "discard")
    /\ UNCHANGED <<manifest, own, shard, default_on, tip, crashes, told>>

\* discard_own_wallet_files; a failure to delete is only logged.
Discard(a) ==
    /\ At(a, "discard")
    /\ \E h \in {Absent, own[call[a].db]} : own' = [own EXCEPT ![call[a].db] = h]
    /\ Done(a)
    /\ UNCHANGED <<keys, manifest, shard, default_on, tip, crashes, told>>
-----------------------------------------------------------------------------
(* Leaving, rebuilding, creating and removing *)

Leave(a, d) ==
    /\ At(a, "idle") /\ "leave" \in Commands /\ Exists(d) /\ ~is_standalone(keys[d])
    /\ Begin(a, "leave", d, "unmanifest")
    /\ UNCHANGED <<keys, manifest, own, shard, default_on, tip, crashes, told>>

\* remove_manifest, for leave and for `zkv remove`.
RemoveManifest(a) ==
    /\ At(a, "unmanifest")
    /\ manifest' = [manifest EXCEPT ![call[a].db] = NoKey]
    /\ Goto(a, IF call[a].cmd = "leave" THEN "setown" ELSE "rmdir")
    /\ UNCHANGED <<keys, own, shard, default_on, tip, crashes, told>>

SetOwn(a) ==
    LET d == call[a].db IN
    /\ At(a, "setown")
    /\ keys' = [keys EXCEPT ![d] = IF Exists(d) THEN set_engine(call[a].cfg, "Own") ELSE @]
    /\ told' = [told EXCEPT ![d] = Absent]
    /\ Done(a)
    /\ UNCHANGED <<manifest, own, shard, default_on, tip, crashes>>

\* `zkv sync --rebuild`, of a database with wallet files of its own and under their lock.
Resync(a, d) ==
    /\ At(a, "idle") /\ "resync" \in Commands
    /\ Exists(d) /\ ~is_fleet_member(keys[d]) /\ LockFree(a, d)
    /\ call' = [call EXCEPT ![a] = [Idle EXCEPT !.cmd = "resync", !.db = d, !.cfg = keys[d],
                                                !.node = TRUE, !.pc = "wipe"]]
    /\ UNCHANGED <<keys, manifest, own, shard, default_on, tip, crashes, told>>

\* wipe_sidecars.
Wipe(a) ==
    /\ At(a, "wipe")
    /\ own' = [own EXCEPT ![call[a].db] = Absent]
    /\ told' = [told EXCEPT ![call[a].db] = Absent]
    /\ Goto(a, "rebootstrap")
    /\ UNCHANGED <<keys, manifest, shard, default_on, tip, crashes>>

\* rebootstrap: needs a server to ask, and init_dbs refuses a member of the shared scan.
Rebootstrap(a) ==
    LET d == call[a].db IN
    /\ At(a, "rebootstrap")
    /\ \/ /\ Exists(d) /\ ~is_fleet_member(keys[d])
          /\ own' = [own EXCEPT ![d] = 0]
          /\ call' = [call EXCEPT ![a].node = FALSE, ![a].pc = "engine"]
       \/ UNCHANGED own /\ Done(a)
    /\ UNCHANGED <<keys, manifest, shard, default_on, tip, crashes, told>>

\* rebuild, with -y: rows locates every member, and records the hints it lacks.
Rebuild(a) ==
    LET members == {d \in DB : Exists(d) /\ ~is_standalone(keys[d])} IN
    /\ At(a, "idle") /\ "rebuild" \in Commands /\ members # {}
    /\ keys' = [d \in DB |-> IF Located(keys[d]) THEN [keys[d] EXCEPT !.shard = TRUE] ELSE keys[d]]
    /\ call' = [call EXCEPT ![a] =
        [Idle EXCEPT !.cmd = "rebuild", !.pc = "unshard", !.rows = members]]
    /\ UNCHANGED <<manifest, own, shard, default_on, tip, crashes, told>>

DeleteShards(a) ==
    /\ At(a, "unshard")
    /\ shard' = [k \in Key |-> Absent]
    /\ told' = [d \in DB |-> IF is_fleet_member(keys[d]) THEN Absent ELSE told[d]]
    /\ Goto(a, "row")
    /\ UNCHANGED <<keys, manifest, own, default_on, tip, crashes>>

\* The next row's keys.toml is read; rebuild stops at one that cannot be.
NextRow(a) ==
    /\ At(a, "row")
    /\ \E d \in call[a].rows :
        call' = [call EXCEPT ![a] =
            IF Exists(d) THEN [@ EXCEPT !.db = d, !.cfg = keys[d], !.pc = "rowmanifest"] ELSE Idle]
    /\ UNCHANGED <<keys, manifest, own, shard, default_on, tip, crashes, told>>

ClearRow(a) ==
    /\ At(a, "rowmanifest")
    /\ manifest' = [manifest EXCEPT ![call[a].db] = NoKey]
    /\ Goto(a, "rowwrite")
    /\ UNCHANGED <<keys, own, shard, default_on, tip, crashes, told>>

\* write_manifest of manifest_for: no key pinned, or a manifest that came back, stops it.
WriteRow(a) ==
    LET d == call[a].db  k == call[a].cfg.ufvk IN
    /\ At(a, "rowwrite")
    /\ IF manifest[d] = NoKey /\ k # NoKey
       THEN manifest' = [manifest EXCEPT ![d] = k] /\ Goto(a, "rowhint")
       ELSE UNCHANGED manifest /\ Done(a)
    /\ UNCHANGED <<keys, own, shard, default_on, tip, crashes, told>>

\* forget_shard writes only when there is a hint to forget.
ForgetShard(a) ==
    LET d == call[a].db  left == call[a].rows \ {d} IN
    /\ At(a, "rowhint")
    /\ keys' = [keys EXCEPT ![d] = IF Exists(d) /\ call[a].cfg.shard
                                   THEN [call[a].cfg EXCEPT !.shard = FALSE] ELSE @]
    /\ call' = [call EXCEPT ![a] = IF left = {} THEN Idle ELSE [@ EXCEPT !.rows = left, !.pc = "row"]]
    /\ UNCHANGED <<manifest, own, shard, default_on, tip, crashes, told>>

\* find_duplicate_by_ufvk knows a database by the account in its wallet files, and skips one
\* whose account it cannot read.
Duplicate(k) == \E d \in DB : Readable(d) /\ keys[d].address = k

\* init_watch: a name that is free and no duplicate; the default decides whether it is a
\* member, unless --standalone does.
Watch(a, d, k) ==
    /\ At(a, "idle") /\ ~Exists(d) /\ ~Duplicate(k)
    /\ \E cmd \in Commands \cap {"watch", "standalone"} :
        LET member == cmd = "watch" /\ default_on IN
        call' = [call EXCEPT ![a] = [Idle EXCEPT !.cmd = cmd, !.db = d, !.pc = "create",
            !.cfg = [engine |-> IF member THEN "Fleet" ELSE "Own", address |-> k,
                     ufvk |-> IF member THEN k ELSE NoKey, shard |-> FALSE]]]
    /\ UNCHANGED <<keys, manifest, own, shard, default_on, tip, crashes, told>>

\* write_config refuses a keys.toml that exists.
Create(a) ==
    LET d == call[a].db IN
    /\ At(a, "create")
    /\ IF Exists(d) THEN UNCHANGED keys /\ Done(a)
       ELSE /\ keys' = [keys EXCEPT ![d] = call[a].cfg]
            /\ Goto(a, IF is_fleet_member(call[a].cfg) THEN "newmanifest" ELSE "newfiles")
    /\ UNCHANGED <<manifest, own, shard, default_on, tip, crashes, told>>

\* The member's manifest, or the error of a manifest under that name.
CreateManifest(a) ==
    LET d == call[a].db IN
    /\ At(a, "newmanifest")
    /\ manifest' = [manifest EXCEPT ![d] = IF @ = NoKey THEN call[a].cfg.ufvk ELSE @]
    /\ Done(a)
    /\ UNCHANGED <<keys, own, shard, default_on, tip, crashes, told>>

\* init_dbs and import_account_ufvk.
CreateFiles(a) ==
    LET d == call[a].db IN
    /\ At(a, "newfiles")
    /\ own' = [own EXCEPT ![d] = IF is_fleet_member(keys[d]) THEN @ ELSE 0]
    /\ Done(a)
    /\ UNCHANGED <<keys, manifest, shard, default_on, tip, crashes, told>>

\* erase_wallet_state: the manifest of a database on the shared scan, then the directory.
Remove(a, d) ==
    /\ At(a, "idle") /\ "remove" \in Commands /\ Exists(d)
    /\ Begin(a, "remove", d, IF is_standalone(keys[d]) THEN "rmdir" ELSE "unmanifest")
    /\ UNCHANGED <<keys, manifest, own, shard, default_on, tip, crashes, told>>

RemoveDirectory(a) ==
    LET d == call[a].db IN
    /\ At(a, "rmdir")
    /\ keys' = [keys EXCEPT ![d] = NoConfig]
    /\ own' = [own EXCEPT ![d] = Absent]
    /\ told' = [told EXCEPT ![d] = Absent]
    /\ Done(a)
    /\ UNCHANGED <<manifest, shard, default_on, tip, crashes>>

set_fleet_default ==
    /\ "default" \in Commands
    /\ default_on' = ~default_on
    /\ UNCHANGED <<keys, manifest, own, shard, tip, call, crashes, told>>
-----------------------------------------------------------------------------
(* The world around *)

\* A process is killed.
Crash(a) ==
    /\ ~At(a, "idle") /\ crashes < MaxCrashes
    /\ Done(a)
    /\ crashes' = crashes + 1
    /\ UNCHANGED <<keys, manifest, own, shard, default_on, tip, told>>

NewBlock ==
    /\ tip < MaxTip
    /\ tip' = tip + 1
    /\ UNCHANGED <<keys, manifest, own, shard, default_on, call, crashes, told>>

\* The shared node imports the account a manifest names.
NodeImport(d) ==
    /\ manifest[d] # NoKey /\ shard[manifest[d]] = Absent
    /\ shard' = [shard EXCEPT ![manifest[d]] = 0]
    /\ UNCHANGED <<keys, manifest, own, default_on, tip, call, crashes, told>>

\* The shared node scans.
NodeScan(k) ==
    /\ shard[k] # Absent /\ shard[k] < tip
    /\ shard' = [shard EXCEPT ![k] = @ + 1]
    /\ UNCHANGED <<keys, manifest, own, default_on, tip, call, crashes, told>>

\* A handle's own node keeps scanning until the handle is dropped.
OwnNodeScan(a) ==
    LET d == call[a].db IN
    /\ call[a].node /\ call[a].cmd # "resync" /\ own[d] # Absent /\ own[d] < tip
    /\ own' = [own EXCEPT ![d] = @ + 1]
    /\ UNCHANGED <<keys, manifest, shard, default_on, tip, call, crashes, told>>

Start(a) ==
    \/ \E d \in DB : Open(a, d) \/ Join(a, d) \/ Sync(a, d) \/ Migrate(a, d) \/ Locate(a, d)
                     \/ Leave(a, d) \/ Resync(a, d) \/ Remove(a, d)
    \/ \E d \in DB : \E k \in Addresses[d] : Watch(a, d, k)
    \/ Rebuild(a)

\* Every step a command takes by itself, without an answer from a node.
Continue(a) ==
    \/ PinUfvk(a) \/ WriteManifest(a) \/ SetPending(a) \/ OpenEngine(a) \/ Adopt(a)
    \/ CacheShard(a) \/ ReadForFlip(a) \/ SetFleet(a) \/ Discard(a)
    \/ RemoveManifest(a) \/ SetOwn(a) \/ Wipe(a) \/ Rebootstrap(a)
    \/ DeleteShards(a) \/ NextRow(a) \/ ClearRow(a) \/ WriteRow(a) \/ ForgetShard(a)
    \/ Create(a) \/ CreateManifest(a) \/ CreateFiles(a) \/ RemoveDirectory(a)

Answer(a) == SkipSync(a) \/ SyncOwn(a) \/ SyncMember(a) \/ SyncFails(a)

Next ==
    \/ \E a \in Actor : Start(a) \/ Continue(a) \/ Answer(a) \/ Crash(a) \/ OwnNodeScan(a)
    \/ \E d \in DB : NodeImport(d)
    \/ \E k \in Key : NodeScan(k)
    \/ set_fleet_default \/ NewBlock

\* A sync, once asked for, is answered; the facade, asked often enough, has an answer with
\* success from the database's own node, and one from the shared node.
OwnSucceeds(a, d) == call[a].db = d /\ call[a].cmd = "facade" /\ (SkipSync(a) \/ SyncOwn(a))

MemberSucceeds(a, d) == call[a].db = d /\ At(a, "drive") /\ SyncMember(a)

Fairness ==
    /\ \A a \in Actor : WF_vars(Continue(a)) /\ WF_vars(Answer(a))
    /\ \A a \in Actor, d \in DB :
        /\ SF_vars(Open(a, d)) /\ SF_vars(Sync(a, d))
        /\ SF_vars(OwnSucceeds(a, d)) /\ SF_vars(MemberSucceeds(a, d))
    /\ \A d \in DB : WF_vars(NodeImport(d))
    /\ \A k \in Key : WF_vars(NodeScan(k))

Spec == Init /\ [][Next]_vars /\ Fairness
-----------------------------------------------------------------------------
(* Properties *)

\* Every variable holds a value of its kind.
TypeOK ==
    /\ keys \in [DB -> Config]
    /\ manifest \in [DB -> Key \cup {NoKey}]
    /\ own \in [DB -> Height] /\ told \in [DB -> Height]
    /\ shard \in [Key -> Height]
    /\ default_on \in BOOLEAN
    /\ tip \in 0..MaxTip /\ crashes \in 0..MaxCrashes
    /\ call \in [Actor -> Call]

\* A database that can be read stays readable through enrolment and conversion, wherever
\* they are interrupted: only a user's leave, rebuild or removal takes its files away.
GivesUpFiles(a) == SetOwn(a) \/ Wipe(a) \/ DeleteShards(a) \/ RemoveDirectory(a)

NeverDark ==
    [][\A d \in DB : Readable(d) => Readable(d)' \/ \E a \in Actor : GivesUpFiles(a)]_vars

\* A read never opens files that stop short of a height some sync has already reported for
\* the database: moving it to a shard does not take its reads back in time.
NeverBehindReport == TypeOK /\ \A d \in DB : Readable(d) => ReadHeight(d) >= told[d]

\* `own` in keys.toml is a decision: only join, and removing the database, undo it.
DecisionRespected ==
    [][\A d \in DB : keys[d].engine = "Own" /\ keys'[d].engine # "Own"
        => \E a \in Actor : call[a].cmd \in {"join", "remove"}]_vars

\* Why they hold, for one process at a time that gives a name only one address.
OneAtATime ==
    /\ \A a, b \in Actor : a = b
    /\ \A d \in DB : \A k, l \in Addresses[d] : k = l

\* On disk: a name goes with one key, which a database on the shared scan has pinned, and
\* the files that are read reach what has been reported.
Placed(d) ==
    /\ Exists(d) => keys[d].address \in Addresses[d]
    /\ keys[d].ufvk \in {NoKey, keys[d].address}
    /\ ~is_standalone(keys[d]) /\ Exists(d) => keys[d].ufvk # NoKey
    /\ ~Exists(d) => keys[d] = NoConfig /\ told[d] = Absent
    /\ manifest[d] \in Addresses[d] \cup {NoKey}
    /\ told[d] <= ReadHeight(d) /\ own[d] <= tip

\* A command that rewrites keys.toml does so from a copy that is still what the file says.
CopyFresh(c) ==
    /\ c.pc \in WithCopy \cup {"create", "drive", "flip"} => c.db \in DB
    /\ c.pc \in WithCopy => c.cfg = keys[c.db] /\ Exists(c.db)
    /\ c.pc = "create" => /\ c.cfg.address \in Addresses[c.db] /\ c.cfg.engine \in {"Own", "Fleet"}
                          /\ c.cfg.ufvk = IF is_fleet_member(c.cfg) THEN c.cfg.address ELSE NoKey
    /\ c.node => c.db \in DB

\* Each step is taken of a database in the state the command found it in.
InPlace(c) ==
    /\ c.pc \in {"pin", "manifest", "pending"} =>
           /\ is_standalone(c.cfg) /\ c.cmd \in {"facade", "join"}
           /\ c.cmd = "facade" => c.cfg.engine = "Unset"
    /\ c.pc \in {"manifest", "pending"} => c.cfg.ufvk # NoKey
    /\ c.pc \in {"adopt", "ownsync", "wipe", "rebootstrap"} => ~is_fleet_member(c.cfg)
    /\ c.pc \in {"fleetsync", "discard"} => is_fleet_member(c.cfg)
    /\ c.pc \in {"rebootstrap", "newfiles"} => told[c.db] = Absent
    /\ c.pc = "setfleet" => c.cfg.engine = "FleetPending" /\ c.own <= c.shard
    /\ c.pc = "rmdir" => c.cmd = "remove"
    /\ c.pc = "unmanifest" => c.cmd \in {"leave", "remove"}

\* A conversion goes by heights that nothing takes back while it runs.
Driven(c) ==
    /\ c.pc \in {"drive", "flip", "setfleet"} => c.drives
    /\ c.pc \in {"flip", "setfleet"} => c.shard # Absent
    /\ c.pc \in {"drive", "flip", "setfleet"} \/ (c.pc = "cache" /\ c.drives) => told[c.db] <= c.own
    /\ c.shard # Absent => /\ c.pc \in {"cache", "flip", "setfleet", "discard"} /\ c.drives
                           /\ \A k \in Addresses[c.db] : c.shard <= shard[k]

FleetInv ==
    /\ TypeOK /\ \A d \in DB : Placed(d)
    /\ \A k \in Key : shard[k] <= tip
    /\ \A a \in Actor : CopyFresh(call[a]) /\ InPlace(call[a]) /\ Driven(call[a])

\* Nobody is at work on the database.
Quiet(d) == \A a \in Actor : call[a].db # d /\ d \notin call[a].rows

\* A conversion that has its manifest finishes, unless somebody undoes the manifest or takes
\* the database off the shared scan.
Converting(d) == keys[d].engine = "FleetPending" /\ manifest[d] = keys[d].ufvk

ConversionFinishes == \A d \in DB : Converting(d) ~> ~Converting(d)

\* A database that is converting has wallet files of its own to read from.
ConvertingHasFiles == \A d \in DB : Quiet(d) /\ keys[d].engine = "FleetPending" => own[d] # Absent

\* A member that waits to be imported has a manifest to be imported from.
ImportingHasManifest ==
    \A d \in DB : Quiet(d) /\ is_fleet_member(keys[d]) /\ ~Readable(d) => manifest[d] = keys[d].ufvk

\* The manifest under the name of a database on the shared scan names that database's key.
ManifestIsMine ==
    \A d \in DB : Quiet(d) /\ Exists(d) /\ ~is_standalone(keys[d])
                 => manifest[d] \in {NoKey, keys[d].ufvk}

\* No two databases have the same address.
NoDuplicate ==
    \A d, e \in DB : Exists(d) /\ Exists(e) /\ keys[d].address = keys[e].address => d = e

\* A database that has been removed has no viewing key on the shared scan.
RemovedIsForgotten == \A d \in DB : Quiet(d) /\ ~Exists(d) => manifest[d] = NoKey
=============================================================================
