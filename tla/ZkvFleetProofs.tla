---------------------------- MODULE ZkvFleetProofs ----------------------------
(***************************************************************************)
(* Theorems about ZkvFleet, for any names, keys, commands, chain length    *)
(* and number of kills: conversions do not make a database unreadable or   *)
(* take its reads back in time, and a decision against the shared scan     *)
(* stays.  One process works at a time, which FleetInv is inductive for.   *)
(***************************************************************************)
EXTENDS ZkvFleet, TLAPS

CallInv(c) == CopyFresh(c) /\ InPlace(c) /\ Driven(c)

Disk ==
    /\ keys \in [DB -> Config]
    /\ manifest \in [DB -> Key \cup {NoKey}]
    /\ own \in [DB -> Height] /\ told \in [DB -> Height]
    /\ shard \in [Key -> Height]
    /\ default_on \in BOOLEAN
    /\ tip \in 0..MaxTip /\ crashes \in 0..MaxCrashes
    /\ \A d \in DB : Placed(d)
    /\ \A k \in Key : shard[k] <= tip

LEMMA FleetParts ==
    FleetInv <=> Disk /\ call \in [Actor -> Call] /\ \A a \in Actor : CallInv(call[a])
BY DEF FleetInv, Disk, CallInv, TypeOK

\* One process: its next call is all there is.
LEMMA OneCall ==
    ASSUME FleetInv, OneAtATime, NEW a \in Actor, NEW c \in Call,
           call' = [call EXCEPT ![a] = c], Disk', CallInv(c)'
    PROVE  FleetInv'
<1>1. call \in [Actor -> Call]
  BY FleetParts
<1>2. call' \in [Actor -> Call] /\ \A b \in Actor : call'[b] = c
  BY <1>1 DEF OneAtATime
<1>3. (\A b \in Actor : CopyFresh(call[b]))'
  BY <1>2 DEF CallInv, CopyFresh, Exists
<1>4. (\A b \in Actor : InPlace(call[b]))'
  BY <1>2 DEF CallInv, InPlace
<1>5. (\A b \in Actor : Driven(call[b]))'
  BY <1>2 DEF CallInv, Driven
<1> QED BY <1>2, <1>3, <1>4, <1>5 DEF FleetInv, TypeOK, Disk

LEMMA Nothing == NoConfig \in Config /\ Absent \in Height
BY BoundAssumption DEF NoConfig, Config, Height, Absent

LEMMA IdleCall ==
    /\ Idle \in Call /\ Idle.pc = "idle" /\ ~Idle.node /\ Idle.shard = Absent
    /\ CallInv(Idle) /\ CallInv(Idle)'
<1>1. Idle \in Call
  BY Nothing DEF Idle, Call, Steps
<1>2. Idle.pc = "idle" /\ Idle.node = FALSE /\ Idle.shard = Absent
  BY DEF Idle
<1> QED BY <1>1, <1>2 DEF CallInv, CopyFresh, InPlace, Driven, WithCopy

\* A step that touches no file.
LEMMA SameDisk ==
    ASSUME Disk, UNCHANGED <<keys, manifest, own, shard, tip, told>>,
           default_on' \in BOOLEAN, crashes' \in 0..MaxCrashes
    PROVE  Disk'
BY DEF Disk, Placed, Exists, ReadHeight, is_fleet_member

LEMMA SameCallInv ==
    ASSUME UNCHANGED <<keys, told, shard>>, NEW c, CallInv(c)
    PROVE  CallInv(c)'
BY DEF CallInv, CopyFresh, InPlace, Driven, Exists

LEMMA CallOnly ==
    ASSUME FleetInv, OneAtATime, NEW a \in Actor, NEW c \in Call, call' = [call EXCEPT ![a] = c],
           UNCHANGED <<keys, manifest, own, shard, tip, told>>,
           default_on' \in BOOLEAN, crashes' \in 0..MaxCrashes, CallInv(c)
    PROVE  FleetInv'
<1>1. Disk' /\ CallInv(c)'
  BY SameDisk, SameCallInv, FleetParts
<1> QED BY <1>1, OneCall

\* What a command begins with: a copy of keys.toml it has just read.
Began(c, cmd, d, pc) ==
    /\ c \in Call
    /\ c.cmd = cmd /\ c.db = d /\ c.cfg = keys[d] /\ c.pc = pc
    /\ c.shard = Absent /\ ~c.drives

MayBegin(cmd, d, pc) ==
    /\ Exists(d) /\ pc \in WithCopy
    /\ pc \in {"pin", "manifest"} => cmd \in {"facade", "join"} /\ is_standalone(keys[d])
    /\ pc \in {"pin", "manifest"} /\ cmd = "facade" => keys[d].engine = "Unset"
    /\ pc = "manifest" => keys[d].ufvk # NoKey
    /\ pc = "adopt" => keys[d].ufvk = NoKey
    /\ pc = "wipe" => ~is_fleet_member(keys[d])
    /\ pc = "rmdir" => cmd = "remove"
    /\ pc = "unmanifest" => cmd \in {"leave", "remove"}
    /\ pc \notin {"pending", "ownsync", "fleetsync", "rebootstrap", "newfiles", "discard", "setfleet"}

LEMMA BeginStep ==
    ASSUME FleetInv, OneAtATime, NEW a \in Actor, NEW d \in DB, NEW cmd, NEW pc, NEW c,
           MayBegin(cmd, d, pc), Began(c, cmd, d, pc), call' = [call EXCEPT ![a] = c],
           UNCHANGED <<keys, manifest, own, shard, default_on, tip, crashes, told>>
    PROVE  FleetInv'
<1>0. Disk /\ keys[d] \in Config
  BY FleetParts DEF Disk
<1>2. pc = "adopt" => ~is_fleet_member(keys[d])
  BY <1>0 DEF Disk, Placed, is_fleet_member, is_standalone, Exists, MayBegin
<1>3. CopyFresh(c)
  BY DEF CopyFresh, WithCopy, MayBegin, Began
<1>4. InPlace(c)
  BY <1>2 DEF InPlace, MayBegin, Began
<1>5. Driven(c)
  BY DEF Driven, WithCopy, MayBegin, Began
<1>6. c \in Call /\ default_on' \in BOOLEAN /\ crashes' \in 0..MaxCrashes
  BY <1>0 DEF Disk, Began
<1> QED BY <1>3, <1>4, <1>5, <1>6, CallOnly DEF CallInv

LEMMA BeginFacts ==
    ASSUME NEW a, NEW d \in DB, NEW cmd \in AllCommands, NEW pc \in Steps, keys[d] \in Config,
           Begin(a, cmd, d, pc)
    PROVE  \E c : call' = [call EXCEPT ![a] = c] /\ Began(c, cmd, d, pc)
<1>1. PICK c : c = [Idle EXCEPT !.cmd = cmd, !.db = d, !.cfg = keys[d], !.pc = pc]
  OBVIOUS
<1>2. Began(c, cmd, d, pc)
  BY <1>1, Nothing DEF Idle, Call, Began
<1>3. call' = [call EXCEPT ![a] = c]
  BY <1>1 DEF Begin
<1> QED BY <1>2, <1>3

LEMMA BeginWorks ==
    ASSUME FleetInv, OneAtATime, NEW a \in Actor, NEW d \in DB, NEW cmd \in AllCommands, NEW pc,
           MayBegin(cmd, d, pc), Begin(a, cmd, d, pc),
           UNCHANGED <<keys, manifest, own, shard, default_on, tip, crashes, told>>
    PROVE  FleetInv'
<1>1. keys[d] \in Config /\ pc \in Steps
  BY FleetParts DEF Disk, Steps, MayBegin
<1>2. PICK c : call' = [call EXCEPT ![a] = c] /\ Began(c, cmd, d, pc)
  BY <1>1, BeginFacts, Zenon
<1> QED BY <1>2, BeginStep, Zenon

LEMMA WatchStep ==
    ASSUME FleetInv, OneAtATime, NEW a \in Actor, NEW d \in DB, NEW k \in Addresses[d], Watch(a, d, k)
    PROVE  FleetInv'
<1>0. Disk /\ k \in Key
  BY FleetParts, KeyAssumption
<1>1. PICK cmd \in AllCommands, member \in BOOLEAN :
          call' = [call EXCEPT ![a] = [Idle EXCEPT !.cmd = cmd, !.db = d, !.pc = "create",
              !.cfg = [engine |-> IF member THEN "Fleet" ELSE "Own", address |-> k,
                       ufvk |-> IF member THEN k ELSE NoKey, shard |-> FALSE]]]
  BY CommandsAssumption, Zenon DEF Watch
<1> DEFINE f == [engine |-> IF member THEN "Fleet" ELSE "Own", address |-> k,
                 ufvk |-> IF member THEN k ELSE NoKey, shard |-> FALSE]
<1>2. f \in Config
  BY <1>0 DEF Config
<1>3. f.address = k /\ f.engine \in {"Own", "Fleet"} /\ f.ufvk = IF is_fleet_member(f) THEN k ELSE NoKey
  BY <1>0 DEF is_fleet_member
<1> HIDE DEF f
<1>4. PICK c : c = [Idle EXCEPT !.cmd = cmd, !.db = d, !.pc = "create", !.cfg = f]
  OBVIOUS
<1>5. call' = [call EXCEPT ![a] = c]
  BY <1>1, <1>4 DEF f
<1>6. /\ c \in Call /\ c.db = d /\ c.cfg = f /\ c.pc = "create"
      /\ ~c.node /\ c.shard = Absent /\ ~c.drives
  BY <1>2, <1>4, Nothing DEF Idle, Call, Steps
<1>7. CallInv(c)
  BY <1>3, <1>6 DEF CallInv, CopyFresh, InPlace, Driven, WithCopy
<1>8. /\ UNCHANGED <<keys, manifest, own, shard, tip, told>>
      /\ default_on' \in BOOLEAN /\ crashes' \in 0..MaxCrashes
  BY <1>0 DEF Watch, Disk
<1> QED BY <1>5, <1>6, <1>7, <1>8, CallOnly

LEMMA StartStep ==
    ASSUME FleetInv, OneAtATime, NEW a \in Actor, Start(a), ~Rebuild(a) PROVE FleetInv'
<1>0. Disk
  BY FleetParts
<1>1. ASSUME NEW d \in DB, \/ Open(a, d) \/ Join(a, d) \/ Sync(a, d) \/ Migrate(a, d)
                           \/ Locate(a, d) \/ Leave(a, d) \/ Remove(a, d)
      PROVE  FleetInv'
  <2>1. /\ UNCHANGED <<keys, manifest, own, shard, default_on, tip, crashes, told>>
        /\ Exists(d)
    BY <1>0, <1>1 DEF Open, Join, Sync, Migrate, Locate, Leave, Remove, Located, Exists, Disk, Placed,
                      NoConfig
  <2>2. CASE Open(a, d) \/ Join(a, d)
    <3>1. PICK cmd \in {"facade", "join"}, pc \in {"pin", "manifest", "engine"} :
              /\ Begin(a, cmd, d, pc)
              /\ pc \in {"pin", "manifest"} => is_standalone(keys[d])
              /\ pc \in {"pin", "manifest"} /\ cmd = "facade" => keys[d].engine = "Unset"
              /\ pc = "manifest" => keys[d].ufvk # NoKey
      <4>1. CASE Open(a, d)
        BY <4>1 DEF Open, EnrolFrom, should_enrol, is_standalone
      <4>2. CASE Join(a, d)
        BY <4>2 DEF Join, EnrolFrom
      <4> QED BY <2>2, <4>1, <4>2
    <3>2. cmd \in AllCommands /\ MayBegin(cmd, d, pc)
      BY <2>1, <3>1 DEF AllCommands, WithCopy, MayBegin
    <3> QED BY <2>1, <3>1, <3>2, BeginWorks
  <2>3. CASE Sync(a, d)
    <3>1. Begin(a, "sync", d, "engine") /\ "sync" \in AllCommands
      BY <2>3 DEF Sync, AllCommands
    <3>2. MayBegin("sync", d, "engine")
      BY <2>1, <2>3 DEF Sync, WithCopy, MayBegin
    <3> QED BY <2>1, <3>1, <3>2, BeginWorks
  <2>4. CASE Migrate(a, d)
    <3>1. Begin(a, "migrate", d, "adopt") /\ "migrate" \in AllCommands
      BY <2>4 DEF Migrate, AllCommands
    <3>2. MayBegin("migrate", d, "adopt")
      BY <2>1, <2>4 DEF Migrate, WithCopy, MayBegin
    <3> QED BY <2>1, <3>1, <3>2, BeginWorks
  <2>5. CASE Locate(a, d)
    <3>1. Begin(a, "locate", d, "cache") /\ "locate" \in AllCommands
      BY <2>5 DEF Locate, AllCommands
    <3>2. MayBegin("locate", d, "cache")
      BY <2>1, <2>5 DEF Locate, WithCopy, MayBegin
    <3> QED BY <2>1, <3>1, <3>2, BeginWorks
  <2>6. CASE Leave(a, d)
    <3>1. Begin(a, "leave", d, "unmanifest") /\ "leave" \in AllCommands
      BY <2>6 DEF Leave, AllCommands
    <3>2. MayBegin("leave", d, "unmanifest")
      BY <2>1, <2>6 DEF Leave, WithCopy, MayBegin
    <3> QED BY <2>1, <3>1, <3>2, BeginWorks
  <2>7. CASE Remove(a, d)
    <3>1. PICK pc \in {"rmdir", "unmanifest"} : Begin(a, "remove", d, pc)
      BY <2>7 DEF Remove
    <3>2. "remove" \in AllCommands /\ MayBegin("remove", d, pc)
      BY <2>1 DEF AllCommands, WithCopy, MayBegin
    <3> QED BY <2>1, <3>1, <3>2, BeginWorks
  <2> QED BY <1>1, <2>2, <2>3, <2>4, <2>5, <2>6, <2>7
<1>2. ASSUME NEW d \in DB, Resync(a, d) PROVE FleetInv'
  <2>0. keys[d] \in Config
    BY <1>0 DEF Disk
  <2>1. PICK c : c = [Idle EXCEPT !.cmd = "resync", !.db = d, !.cfg = keys[d],
                                  !.node = TRUE, !.pc = "wipe"]
    OBVIOUS
  <2>2. Began(c, "resync", d, "wipe")
    BY <2>0, <2>1, Nothing DEF Idle, Call, AllCommands, Steps, WithCopy, Began
  <2>3. call' = [call EXCEPT ![a] = c]
    BY <1>2, <2>1 DEF Resync
  <2>4. MayBegin("resync", d, "wipe")
    BY <1>2 DEF Resync, WithCopy, MayBegin
  <2>5. UNCHANGED <<keys, manifest, own, shard, default_on, tip, crashes, told>>
    BY <1>2 DEF Resync
  <2> QED BY <2>2, <2>3, <2>4, <2>5, BeginStep
<1> QED BY <1>1, <1>2, WatchStep DEF Start

LEMMA OldCall ==
    ASSUME FleetInv, NEW a \in Actor
    PROVE  /\ Disk /\ call \in [Actor -> Call] /\ call[a] \in Call
           /\ CopyFresh(call[a]) /\ InPlace(call[a]) /\ Driven(call[a])
BY FleetParts DEF CallInv

\* The command is over.
LEMMA DoneStep ==
    ASSUME FleetInv, OneAtATime, NEW a \in Actor, Done(a), Disk' PROVE FleetInv'
BY IdleCall, OneCall DEF Done

\* Steps that only look.
LEMMA LookStep ==
    ASSUME FleetInv, OneAtATime, NEW a \in Actor,
           OpenEngine(a) \/ ReadForFlip(a) \/ NextRow(a) \/ SyncFails(a) \/ Crash(a)
    PROVE  FleetInv'
<1>0. /\ Disk /\ call[a] \in Call /\ CopyFresh(call[a]) /\ InPlace(call[a]) /\ Driven(call[a])
      /\ \A d \in DB : keys[d] \in Config
  BY OldCall DEF Disk
<1>1. UNCHANGED <<keys, manifest, own, shard, tip, told>> /\ default_on' \in BOOLEAN
      /\ crashes' \in 0..MaxCrashes
  <2>1. CASE OpenEngine(a) \/ ReadForFlip(a) \/ NextRow(a) \/ SyncFails(a)
    BY <1>0, <2>1 DEF OpenEngine, ReadForFlip, NextRow, SyncFails, Disk
  <2>2. CASE Crash(a)
    <3>1. crashes \in Nat /\ crashes < MaxCrashes /\ crashes' = crashes + 1
      BY <1>0, <2>2, BoundAssumption DEF Crash, Disk
    <3>2. crashes' \in 0..MaxCrashes
      BY <3>1, BoundAssumption
    <3> QED BY <1>0, <2>2, <3>2 DEF Crash, Disk
  <2> QED BY <2>1, <2>2
<1>2. Disk'
  BY <1>0, <1>1, SameDisk
<1>3. ASSUME NEW c \in Call, call' = [call EXCEPT ![a] = c], CallInv(c) PROVE FleetInv'
  BY <1>1, <1>3, CallOnly
<1>4. CASE Done(a)
  BY <1>2, <1>4, DoneStep
<1>5. CASE OpenEngine(a) /\ ~Done(a)
  <2>1. PICK c : /\ call' = [call EXCEPT ![a] = c]
                 /\ c = [call[a] EXCEPT
                        !.drives = call[a].cmd = "facade" /\ call[a].cfg.engine = "FleetPending",
                        !.cfg = keys[call[a].db],
                        !.pc = IF is_fleet_member(keys[call[a].db]) THEN "fleetsync"
                               ELSE IF keys[call[a].db].ufvk = NoKey THEN "adopt" ELSE "ownsync"]
    BY <1>5 DEF OpenEngine, Done
  <2>2. /\ call[a].db \in DB /\ Exists(call[a].db) /\ call[a].shard = Absent
    BY <1>0, <1>5 DEF OpenEngine, At, CopyFresh, WithCopy, Driven
  <2>3. /\ c \in Call /\ c.db = call[a].db /\ c.cfg = keys[c.db] /\ c.shard = Absent
        /\ c.pc = IF is_fleet_member(c.cfg) THEN "fleetsync"
                  ELSE IF c.cfg.ufvk = NoKey THEN "adopt" ELSE "ownsync"
    BY <1>0, <2>1, <2>2 DEF Call, Steps, WithCopy
  <2>4. CallInv(c)
    BY <2>2, <2>3 DEF CallInv, CopyFresh, InPlace, Driven, WithCopy
  <2> QED BY <1>3, <2>1, <2>3, <2>4
<1>6. CASE ReadForFlip(a) /\ ~Done(a)
  <2>1. PICK c : /\ call' = [call EXCEPT ![a] = c]
                 /\ c = [call[a] EXCEPT !.cfg = keys[call[a].db], !.pc = "setfleet"]
    BY <1>0, <1>6 DEF ReadForFlip
  <2>2. /\ call[a].db \in DB /\ Exists(call[a].db) /\ call[a].shard # Absent /\ call[a].drives
        /\ keys[call[a].db].engine = "FleetPending" /\ call[a].own <= call[a].shard
        /\ told[call[a].db] <= call[a].own
        /\ \A k \in Addresses[call[a].db] : call[a].shard <= shard[k]
    BY <1>0, <1>6 DEF ReadForFlip, At, CopyFresh, Driven, flip_if_caught_up
  <2>3. /\ c \in Call /\ c.db = call[a].db /\ c.cfg = keys[c.db] /\ c.shard = call[a].shard
        /\ c.pc = "setfleet" /\ c.own = call[a].own /\ c.drives = call[a].drives
    BY <1>0, <2>1, <2>2 DEF Call, Steps, WithCopy
  <2>4. CallInv(c)
    BY <2>2, <2>3 DEF CallInv, CopyFresh, InPlace, Driven, WithCopy
  <2> QED BY <1>3, <2>1, <2>3, <2>4
<1>7. CASE NextRow(a) /\ ~Done(a)
  <2>1. PICK d \in call[a].rows :
            call' = [call EXCEPT ![a] =
                IF Exists(d) THEN [@ EXCEPT !.db = d, !.cfg = keys[d], !.pc = "rowmanifest"] ELSE Idle]
    BY <1>7 DEF NextRow
  <2>2. Exists(d) /\ d \in DB
    BY <1>0, <1>7, <2>1 DEF Call, Done
  <2>3. PICK c : /\ call' = [call EXCEPT ![a] = c]
                 /\ c = [call[a] EXCEPT !.db = d, !.cfg = keys[d], !.pc = "rowmanifest"]
    BY <1>0, <2>1, <2>2
  <2>4. call[a].shard = Absent
    BY <1>0, <1>7 DEF NextRow, At, Driven
  <2>5. /\ c \in Call /\ c.db = d /\ c.cfg = keys[d] /\ c.shard = Absent /\ c.pc = "rowmanifest"
    BY <1>0, <2>2, <2>3, <2>4 DEF Call, Steps, WithCopy
  <2>6. CallInv(c)
    BY <2>2, <2>5 DEF CallInv, CopyFresh, InPlace, Driven, WithCopy
  <2> QED BY <1>3, <2>3, <2>5, <2>6
<1>8. SyncFails(a) \/ Crash(a) => Done(a)
  BY DEF SyncFails, Crash
<1> QED BY <1>4, <1>5, <1>6, <1>7, <1>8

\* The command moves on to its next step.
Moved(o, c, pc) ==
    /\ c \in Call /\ c.pc = pc
    /\ c.cmd = o.cmd /\ c.db = o.db /\ c.cfg = o.cfg /\ c.drives = o.drives
    /\ c.own = o.own /\ c.shard = o.shard /\ c.node = o.node /\ c.rows = o.rows

LEMMA GotoFacts ==
    ASSUME FleetInv, NEW a \in Actor, NEW pc \in Steps, Goto(a, pc)
    PROVE  \E c : call' = [call EXCEPT ![a] = c] /\ Moved(call[a], c, pc)
<1>1. PICK c : c = [call[a] EXCEPT !.pc = pc]
  OBVIOUS
<1>2. call[a] \in Call /\ call \in [Actor -> Call]
  BY OldCall
<1>3. Moved(call[a], c, pc)
  BY <1>1, <1>2 DEF Moved, Call
<1>4. call' = [call EXCEPT ![a] = c]
  BY <1>1, <1>2 DEF Goto
<1> QED BY <1>3, <1>4

\* What a copy of keys.toml says is what Placed says of the file.
LEMMA CopyFacts ==
    ASSUME Disk, NEW c, CopyFresh(c), c.pc \in WithCopy
    PROVE  /\ c.db \in DB /\ Exists(c.db) /\ c.cfg = keys[c.db] /\ c.cfg \in Config
           /\ c.cfg.address \in Addresses[c.db] /\ c.cfg.address \in Key
           /\ c.cfg.ufvk \in {NoKey, c.cfg.address}
           /\ ~is_standalone(c.cfg) => c.cfg.ufvk # NoKey
BY KeyAssumption DEF Disk, CopyFresh, Placed

\* A manifest written or removed.
LEMMA ManifestOnly ==
    ASSUME FleetInv, OneAtATime, NEW a \in Actor, NEW c \in Call, call' = [call EXCEPT ![a] = c],
           NEW d \in DB, NEW k \in Addresses[d] \cup {NoKey}, manifest' = [manifest EXCEPT ![d] = k],
           UNCHANGED <<keys, own, shard, default_on, tip, crashes, told>>, CallInv(c)
    PROVE  FleetInv'
<1>0. Disk
  BY FleetParts
<1>1. Disk'
  <2>1. \A e \in DB : Placed(e)'
    BY <1>0 DEF Disk, Placed, Exists, ReadHeight, is_fleet_member
  <2>2. k \in Key \cup {NoKey}
    BY KeyAssumption
  <2> QED BY <1>0, <2>1, <2>2 DEF Disk
<1>2. CallInv(c)'
  BY SameCallInv
<1> QED BY <1>1, <1>2, OneCall

LEMMA ManifestStep ==
    ASSUME FleetInv, OneAtATime, NEW a \in Actor,
           WriteManifest(a) \/ RemoveManifest(a) \/ ClearRow(a) \/ WriteRow(a) \/ CreateManifest(a)
    PROVE  FleetInv'
<1>0. /\ Disk /\ call[a] \in Call /\ CopyFresh(call[a]) /\ InPlace(call[a]) /\ Driven(call[a])
      /\ manifest \in [DB -> Key \cup {NoKey}] /\ \A d \in DB : Placed(d)
  BY OldCall DEF Disk
<1>p. call[a].pc \in {"manifest", "unmanifest", "rowmanifest", "rowwrite", "newmanifest"}
  BY DEF WriteManifest, RemoveManifest, ClearRow, WriteRow, CreateManifest, At
<1>d. PICK d : d = call[a].db
  OBVIOUS
<1>1. /\ d \in DB /\ Exists(d) /\ call[a].cfg = keys[d] /\ call[a].shard = Absent
      /\ call[a].cfg.address \in Addresses[d] /\ call[a].cfg.ufvk \in {NoKey, call[a].cfg.address}
      /\ manifest[d] \in Addresses[d] \cup {NoKey}
  BY <1>0, <1>p, <1>d, CopyFacts DEF WithCopy, Driven, Placed
<1>2. UNCHANGED <<keys, own, shard, default_on, tip, crashes, told>>
  BY DEF WriteManifest, RemoveManifest, ClearRow, WriteRow, CreateManifest
<1>3. PICK k \in Addresses[d] \cup {NoKey} : manifest' = [manifest EXCEPT ![d] = k]
  <2>1. CASE manifest' = manifest
    BY <1>0, <1>1, <2>1
  <2>2. CASE manifest' # manifest
    BY <1>1, <1>d, <2>2 DEF WriteManifest, RemoveManifest, ClearRow, WriteRow, CreateManifest
  <2> QED BY <2>1, <2>2
<1>4. ASSUME NEW pc \in {"pending", "engine", "setown", "rmdir", "rowwrite", "rowhint"}, Goto(a, pc),
             pc = "pending" => call[a].pc = "manifest",
             pc = "rmdir" => call[a].cmd = "remove"
      PROVE  FleetInv'
  <2>1. pc \in Steps
    BY DEF Steps, WithCopy
  <2>2. PICK c : call' = [call EXCEPT ![a] = c] /\ Moved(call[a], c, pc)
    BY <1>4, <2>1, GotoFacts, Zenon
  <2>3. c \in Call /\ c.db = d /\ c.cfg = keys[d] /\ c.shard = Absent /\ c.pc = pc
    BY <1>1, <1>d, <2>2 DEF Moved
  <2>4. CopyFresh(c)
    BY <1>1, <2>3 DEF CopyFresh, WithCopy
  <2>5. InPlace(c)
    BY <1>0, <1>4, <2>2 DEF InPlace, Moved
  <2>6. Driven(c)
    BY <2>3 DEF Driven
  <2> QED BY <1>1, <1>2, <1>3, <2>2, <2>3, <2>4, <2>5, <2>6, ManifestOnly DEF CallInv
<1>5. CASE Done(a)
  <2>1. call' = [call EXCEPT ![a] = Idle]
    BY <1>5 DEF Done
  <2> QED BY <1>1, <1>2, <1>3, <2>1, IdleCall, ManifestOnly
<1>6. \/ Done(a)
      \/ \E pc \in {"pending", "engine", "setown", "rmdir", "rowwrite", "rowhint"} :
             /\ Goto(a, pc)
             /\ pc = "pending" => call[a].pc = "manifest"
             /\ pc = "rmdir" => call[a].cmd = "remove"
  <2>1. CASE WriteManifest(a)
    BY <2>1 DEF WriteManifest, Enrolled, At
  <2>2. CASE RemoveManifest(a)
    BY <1>0, <2>2 DEF RemoveManifest, At, InPlace
  <2>3. CASE ClearRow(a) \/ WriteRow(a) \/ CreateManifest(a)
    BY <2>3 DEF ClearRow, WriteRow, CreateManifest
  <2> QED BY <2>1, <2>2, <2>3
<1> QED BY <1>4, <1>5, <1>6

\* How far the files reach that a read opens under this keys.toml.
Reach(f, d) ==
    IF ~is_fleet_member(f) THEN own[d] ELSE IF f.ufvk = NoKey THEN Absent ELSE shard[f.ufvk]

\* One keys.toml rewritten, with the same address.
Rewritable(d, f) ==
    /\ f \in Config /\ f.engine # "Absent" /\ f.address = keys[d].address
    /\ f.ufvk \in {NoKey, f.address} /\ (~is_standalone(f) => f.ufvk # NoKey)

LEMMA KeysOnly ==
    ASSUME FleetInv, OneAtATime, NEW a \in Actor, NEW c \in Call, call' = [call EXCEPT ![a] = c],
           NEW d \in DB, Exists(d), NEW f, Rewritable(d, f), keys' = [keys EXCEPT ![d] = f],
           NEW h \in Height, h <= Reach(f, d), told' = [told EXCEPT ![d] = h],
           UNCHANGED <<manifest, own, shard, default_on, tip, crashes>>, CallInv(c)'
    PROVE  FleetInv'
<1>0. Disk
  BY FleetParts
<1>1. keys' \in [DB -> Config] /\ told' \in [DB -> Height] /\ keys'[d] = f /\ told'[d] = h
  BY <1>0 DEF Disk, Rewritable
<1>2. Placed(d)'
  <2>1. keys[d].address \in Addresses[d] /\ Placed(d)
    BY <1>0 DEF Disk, Placed
  <2> QED BY <1>1, <2>1 DEF Placed, Rewritable, Exists, ReadHeight, Reach, is_standalone, is_fleet_member
<1>3. ASSUME NEW e \in DB, e # d PROVE Placed(e)'
  <2>1. keys'[e] = keys[e] /\ told'[e] = told[e] /\ Placed(e)
    BY <1>0, <1>3 DEF Disk
  <2> QED BY <2>1 DEF Placed, Exists, ReadHeight
<1>4. Disk'
  BY <1>0, <1>1, <1>2, <1>3 DEF Disk
<1> QED BY <1>4, OneCall

LEMMA RewriteFacts ==
    ASSUME FleetInv, NEW a \in Actor, NEW f, NEW pc \in Steps, Rewrite(a, f, pc),
           Exists(call[a].db), f \in Config
    PROVE  /\ keys' = [keys EXCEPT ![call[a].db] = f]
           /\ \E c \in Call : /\ call' = [call EXCEPT ![a] = c]
                              /\ IF pc = "idle" THEN c = Idle
                                 ELSE /\ c.pc = pc /\ c.cfg = f /\ c.cmd = call[a].cmd /\ c.db = call[a].db
                                      /\ c.shard = call[a].shard /\ c.drives = call[a].drives
                                      /\ c.node = call[a].node
<1>0. call[a] \in Call /\ call \in [Actor -> Call]
  BY OldCall
<1>1. PICK c : c = IF pc = "idle" THEN Idle ELSE [call[a] EXCEPT !.cfg = f, !.pc = pc]
  OBVIOUS
<1>2. /\ c \in Call
      /\ IF pc = "idle" THEN c = Idle
         ELSE /\ c.pc = pc /\ c.cfg = f /\ c.cmd = call[a].cmd /\ c.db = call[a].db
              /\ c.shard = call[a].shard /\ c.drives = call[a].drives /\ c.node = call[a].node
  <2>1. CASE pc = "idle"
    BY <1>1, <2>1, IdleCall
  <2>2. CASE pc # "idle"
    BY <1>0, <1>1, <2>2 DEF Call
  <2> QED BY <2>1, <2>2
<1>3. call' = [call EXCEPT ![a] = c] /\ keys' = [keys EXCEPT ![call[a].db] = f]
  BY <1>0, <1>1 DEF Rewrite
<1> QED BY <1>2, <1>3

\* Pinning a key, for enrolment and for adoption.
LEMMA PinStep ==
    ASSUME FleetInv, OneAtATime, NEW a \in Actor, PinUfvk(a) \/ Adopt(a) PROVE FleetInv'
<1>0. /\ Disk /\ call[a] \in Call /\ CopyFresh(call[a]) /\ InPlace(call[a]) /\ Driven(call[a])
      /\ told \in [DB -> Height] /\ \A e \in DB : Placed(e)
  BY OldCall DEF Disk
<1>p. call[a].pc \in {"pin", "adopt"}
  BY DEF PinUfvk, Adopt, At
<1> PICK d : d = call[a].db
  OBVIOUS
<1>1. /\ d \in DB /\ Exists(d) /\ call[a].cfg = keys[d] /\ call[a].cfg \in Config
      /\ call[a].cfg.address \in Key /\ call[a].shard = Absent
  BY <1>0, <1>p, CopyFacts DEF WithCopy, Driven
<1>2. PICK f : f = [call[a].cfg EXCEPT !.ufvk = call[a].cfg.address]
  OBVIOUS
<1>3. /\ f \in Config /\ f.engine = keys[d].engine /\ f.address = keys[d].address
      /\ f.ufvk = f.address /\ f.ufvk # NoKey
  BY <1>1, <1>2, KeyAssumption DEF Config
<1>4. ~is_fleet_member(f) /\ ~is_fleet_member(keys[d])
  BY <1>0, <1>1, <1>3, <1>p DEF InPlace, is_standalone, is_fleet_member
<1>5. Rewritable(d, f) /\ told[d] \in Height /\ told[d] <= Reach(f, d)
  BY <1>0, <1>1, <1>3, <1>4 DEF Rewritable, Reach, Placed, ReadHeight, Exists
<1>6. PICK pc \in {"manifest", "idle", "ownsync"} :
          /\ Rewrite(a, f, pc)
          /\ pc = "manifest" => call[a].pc = "pin"
          /\ pc \in {"idle", "ownsync"} => call[a].pc = "adopt"
  BY <1>2 DEF PinUfvk, Adopt, At
<1>7. pc \in Steps
  BY DEF Steps, WithCopy
<1>8. /\ keys' = [keys EXCEPT ![d] = f]
      /\ \E c \in Call : /\ call' = [call EXCEPT ![a] = c]
                         /\ IF pc = "idle" THEN c = Idle
                            ELSE /\ c.pc = pc /\ c.cfg = f /\ c.cmd = call[a].cmd /\ c.db = d
                                 /\ c.shard = call[a].shard
  BY <1>1, <1>3, <1>6, <1>7, RewriteFacts
<1>9. UNCHANGED <<manifest, own, shard, default_on, tip, crashes>> /\ told' = [told EXCEPT ![d] = told[d]]
  BY <1>0 DEF PinUfvk, Adopt
<1>10. PICK c \in Call : /\ call' = [call EXCEPT ![a] = c]
                         /\ IF pc = "idle" THEN c = Idle
                            ELSE /\ c.pc = pc /\ c.cfg = f /\ c.cmd = call[a].cmd /\ c.db = d
                                 /\ c.shard = call[a].shard
  BY <1>8
<1>11. CallInv(c)'
  <2>1. CASE pc = "idle"
    BY <1>10, <2>1, IdleCall
  <2>2. CASE pc # "idle"
    <3>1. keys'[d] = f /\ f.engine # "Absent" /\ c.pc = pc /\ c.cfg = f /\ c.db = d /\ c.shard = Absent
      BY <1>0, <1>1, <1>3, <1>8, <1>10, <2>2 DEF Disk, Exists
    <3>2. CopyFresh(c)'
      BY <1>1, <3>1 DEF CopyFresh, WithCopy, Exists
    <3>3. InPlace(c)'
      BY <1>0, <1>1, <1>3, <1>4, <1>6, <1>10, <2>2, <3>1 DEF InPlace, is_standalone
    <3>4. Driven(c)'
      BY <1>6, <2>2, <3>1 DEF Driven
    <3> QED BY <3>2, <3>3, <3>4 DEF CallInv
  <2> QED BY <2>1, <2>2
<1> QED BY <1>1, <1>5, <1>8, <1>9, <1>10, <1>11, KeysOnly

LEMMA EngineSet ==
    ASSUME NEW c \in Config, NEW engine \in {"Own", "FleetPending", "Fleet"}
    PROVE  LET f == set_engine(c, engine)
           IN  f \in Config /\ f.engine = engine /\ f.address = c.address /\ f.ufvk = c.ufvk
BY DEF set_engine, Config

LEMMA SetPendingStep ==
    ASSUME FleetInv, OneAtATime, NEW a \in Actor, SetPending(a) PROVE FleetInv'
<1>0. /\ Disk /\ call[a] \in Call /\ call \in [Actor -> Call] /\ CopyFresh(call[a])
      /\ InPlace(call[a]) /\ Driven(call[a])
      /\ told \in [DB -> Height] /\ keys \in [DB -> Config] /\ \A e \in DB : Placed(e)
  BY OldCall DEF Disk
<1>p. call[a].pc = "pending"
  BY DEF SetPending, At
<1> PICK d : d = call[a].db
  OBVIOUS
<1>1. /\ d \in DB /\ Exists(d) /\ call[a].cfg = keys[d] /\ call[a].cfg \in Config
      /\ call[a].cfg.ufvk \in {NoKey, call[a].cfg.address} /\ call[a].shard = Absent
  BY <1>0, <1>p, CopyFacts DEF WithCopy, Driven
<1>2. PICK f : f = set_engine(call[a].cfg, "FleetPending")
  OBVIOUS
<1>3. /\ f \in Config /\ f.engine = "FleetPending" /\ f.address = keys[d].address
      /\ f.ufvk = keys[d].ufvk
  BY <1>1, <1>2, EngineSet
<1>4. f.ufvk # NoKey /\ ~is_fleet_member(f) /\ ~is_fleet_member(keys[d])
  BY <1>0, <1>1, <1>3, <1>p DEF InPlace, is_standalone, is_fleet_member
<1>5. Rewritable(d, f) /\ told[d] \in Height /\ told[d] <= Reach(f, d)
  BY <1>0, <1>1, <1>3, <1>4 DEF Rewritable, Reach, Placed, ReadHeight
<1>6. /\ keys' = [keys EXCEPT ![d] = f]
      /\ UNCHANGED <<manifest, own, shard, default_on, tip, crashes>> /\ told' = [told EXCEPT ![d] = told[d]]
  BY <1>0, <1>1, <1>2 DEF SetPending
<1>7. PICK c : c = IF call[a].cmd = "facade" THEN [call[a] EXCEPT !.cfg = f, !.pc = "engine"] ELSE Idle
  OBVIOUS
<1>8. call' = [call EXCEPT ![a] = c]
  BY <1>0, <1>1, <1>2, <1>7 DEF SetPending, Done
<1>9. /\ c \in Call
      /\ c = Idle \/ (c.cfg = f /\ c.pc = "engine" /\ c.db = d /\ c.shard = Absent)
  <2>1. CASE call[a].cmd = "facade"
    BY <1>0, <1>1, <1>3, <1>7, <2>1 DEF Call, Steps, WithCopy
  <2>2. CASE call[a].cmd # "facade"
    BY <1>7, <2>2, IdleCall
  <2> QED BY <2>1, <2>2
<1>10. CallInv(c)'
  <2>1. CASE c = Idle
    BY <2>1, IdleCall
  <2>2. CASE c # Idle
    <3>1. keys'[d] = f /\ f.engine # "Absent"
      BY <1>0, <1>1, <1>3, <1>6
    <3> QED BY <1>1, <1>9, <2>2, <3>1 DEF CallInv, CopyFresh, InPlace, Driven, WithCopy, Exists
  <2> QED BY <2>1, <2>2
<1> QED BY <1>1, <1>5, <1>6, <1>8, <1>9, <1>10, KeysOnly

\* The flip: the shard has reached what was reported of the database's own files.
LEMMA FlipReaches ==
    ASSUME FleetInv, NEW a \in Actor, At(a, "setfleet")
    PROVE  LET d == call[a].db  k == keys[d].ufvk
           IN  /\ d \in DB /\ Exists(d) /\ call[a].cfg = keys[d] /\ keys[d].engine = "FleetPending"
               /\ k \in Key /\ k # NoKey /\ told[d] <= shard[k] /\ shard[k] # Absent
               /\ call[a].shard # Absent /\ call[a].drives
               /\ \A l \in Addresses[d] : call[a].shard <= shard[l]
<1>0. /\ Disk /\ call[a] \in Call /\ CopyFresh(call[a]) /\ InPlace(call[a]) /\ Driven(call[a])
  BY OldCall
<1> PICK d : d = call[a].db
  OBVIOUS
<1>1. /\ d \in DB /\ Exists(d) /\ call[a].cfg = keys[d] /\ keys[d].address \in Addresses[d]
      /\ keys[d].address \in Key /\ keys[d].ufvk \in {NoKey, keys[d].address}
      /\ ~is_standalone(keys[d]) => keys[d].ufvk # NoKey
  BY <1>0, CopyFacts DEF At, WithCopy
<1>2. /\ keys[d].engine = "FleetPending" /\ call[a].own <= call[a].shard
      /\ call[a].shard # Absent /\ call[a].drives /\ told[d] <= call[a].own
      /\ \A l \in Addresses[d] : call[a].shard <= shard[l]
  BY <1>0, <1>1 DEF At, InPlace, Driven
<1>3. keys[d].ufvk = keys[d].address
  BY <1>1, <1>2 DEF is_standalone
<1>4. /\ call[a].own \in Int /\ call[a].shard \in Int /\ call[a].shard >= Absent /\ told[d] \in Int
      /\ shard[keys[d].ufvk] \in Int
  BY <1>0, <1>1, <1>3, BoundAssumption DEF Call, Disk, Height, Absent
<1>5. call[a].shard <= shard[keys[d].ufvk]
  BY <1>1, <1>2, <1>3
<1>6. told[d] <= shard[keys[d].ufvk] /\ shard[keys[d].ufvk] # Absent
  BY <1>2, <1>4, <1>5 DEF Absent
<1> QED BY <1>1, <1>2, <1>3, <1>6, KeyAssumption

LEMMA SetFleetStep ==
    ASSUME FleetInv, OneAtATime, NEW a \in Actor, SetFleet(a) PROVE FleetInv'
<1>0. /\ Disk /\ call[a] \in Call /\ told \in [DB -> Height] /\ keys \in [DB -> Config]
      /\ CopyFresh(call[a])
  BY OldCall DEF Disk
<1> PICK d : d = call[a].db
  OBVIOUS
<1>1. /\ d \in DB /\ Exists(d) /\ call[a].cfg = keys[d] /\ keys[d].engine = "FleetPending"
      /\ keys[d].ufvk \in Key /\ keys[d].ufvk # NoKey /\ told[d] <= shard[keys[d].ufvk]
      /\ call[a].shard # Absent /\ call[a].drives
      /\ \A l \in Addresses[d] : call[a].shard <= shard[l]
  BY FlipReaches DEF SetFleet
<1>2. PICK f : f = set_engine(call[a].cfg, "Fleet")
  OBVIOUS
<1>3. /\ f \in Config /\ f.engine = "Fleet" /\ f.address = keys[d].address /\ f.ufvk = keys[d].ufvk
  BY <1>0, <1>1, <1>2, EngineSet
<1>4. f.ufvk \in {NoKey, f.address}
  BY <1>0, <1>1, <1>3 DEF Disk, Placed
<1>5. Rewritable(d, f) /\ told[d] \in Height /\ told[d] <= Reach(f, d)
  BY <1>0, <1>1, <1>3, <1>4 DEF Rewritable, Reach, is_fleet_member
<1>6. /\ keys' = [keys EXCEPT ![d] = f]
      /\ \E c \in Call : /\ call' = [call EXCEPT ![a] = c]
                         /\ c.pc = "discard" /\ c.cfg = f /\ c.db = d
                         /\ c.shard = call[a].shard /\ c.drives
  <2>1. Rewrite(a, f, "discard") /\ "discard" \in Steps
    BY <1>2 DEF SetFleet, Steps, WithCopy
  <2> QED BY <1>1, <1>3, <2>1, RewriteFacts
<1>7. PICK c \in Call : /\ call' = [call EXCEPT ![a] = c]
                        /\ c.pc = "discard" /\ c.cfg = f /\ c.db = d
                        /\ c.shard = call[a].shard /\ c.drives
  BY <1>6
<1>8. UNCHANGED <<manifest, own, shard, default_on, tip, crashes>> /\ told' = [told EXCEPT ![d] = told[d]]
  BY <1>0 DEF SetFleet
<1>9. CallInv(c)'
  <2>1. keys'[d] = f /\ f.engine # "Absent"
    BY <1>0, <1>1, <1>3, <1>6
  <2>2. CopyFresh(c)' /\ InPlace(c)'
    BY <1>1, <1>3, <1>7, <2>1 DEF CopyFresh, InPlace, WithCopy, Exists, is_fleet_member
  <2>3. Driven(c)'
    BY <1>1, <1>7, <1>8 DEF Driven
  <2> QED BY <2>2, <2>3 DEF CallInv
<1> QED BY <1>1, <1>5, <1>6, <1>7, <1>8, <1>9, KeysOnly

LEMMA SetOwnStep ==
    ASSUME FleetInv, OneAtATime, NEW a \in Actor, SetOwn(a) PROVE FleetInv'
<1>0. /\ Disk /\ call[a] \in Call /\ CopyFresh(call[a]) /\ own \in [DB -> Height]
  BY OldCall DEF Disk
<1> PICK d : d = call[a].db
  OBVIOUS
<1>1. /\ d \in DB /\ Exists(d) /\ call[a].cfg = keys[d] /\ call[a].cfg \in Config
      /\ call[a].cfg.ufvk \in {NoKey, call[a].cfg.address}
  BY <1>0, CopyFacts DEF SetOwn, At, WithCopy
<1>2. PICK f : f = set_engine(call[a].cfg, "Own")
  OBVIOUS
<1>3. /\ f \in Config /\ f.engine = "Own" /\ f.address = keys[d].address /\ f.ufvk = keys[d].ufvk
  BY <1>1, <1>2, EngineSet
<1>4. Rewritable(d, f) /\ Absent <= Reach(f, d) /\ Absent \in Height
  BY <1>0, <1>1, <1>3, BoundAssumption
  DEF Rewritable, Reach, is_fleet_member, is_standalone, Height, Absent
<1>5. /\ keys' = [keys EXCEPT ![d] = f] /\ told' = [told EXCEPT ![d] = Absent]
      /\ call' = [call EXCEPT ![a] = Idle]
      /\ UNCHANGED <<manifest, own, shard, default_on, tip, crashes>>
  BY <1>1, <1>2 DEF SetOwn, Done
<1> QED BY <1>1, <1>4, <1>5, IdleCall, KeysOnly

LEMMA HintSet ==
    ASSUME NEW c \in Config, NEW hint \in BOOLEAN
    PROVE  LET f == [c EXCEPT !.shard = hint]
           IN  f \in Config /\ f.engine = c.engine /\ f.address = c.address /\ f.ufvk = c.ufvk
BY DEF Config

\* Recording or forgetting where an account was found changes nothing a read opens.
LEMMA HintIsRewritable ==
    ASSUME Disk, NEW d \in DB, Exists(d), NEW f \in Config, f.engine = keys[d].engine,
           f.address = keys[d].address, f.ufvk = keys[d].ufvk
    PROVE  Rewritable(d, f) /\ told[d] \in Height /\ told[d] <= Reach(f, d)
<1>1. Placed(d) /\ told[d] \in Height
  BY DEF Disk
<1>2. Rewritable(d, f)
  BY <1>1 DEF Placed, Rewritable, Exists, is_standalone
<1>3. Reach(f, d) = ReadHeight(d)
  BY DEF Reach, ReadHeight, is_fleet_member
<1> QED BY <1>1, <1>2, <1>3 DEF Placed

LEMMA ForgetShardStep ==
    ASSUME FleetInv, OneAtATime, NEW a \in Actor, ForgetShard(a) PROVE FleetInv'
<1>0. /\ Disk /\ call[a] \in Call /\ call \in [Actor -> Call] /\ CopyFresh(call[a])
      /\ Driven(call[a]) /\ keys \in [DB -> Config] /\ told \in [DB -> Height]
  BY OldCall DEF Disk
<1> PICK d : d = call[a].db
  OBVIOUS
<1>1. /\ d \in DB /\ Exists(d) /\ call[a].cfg = keys[d] /\ call[a].cfg \in Config
      /\ call[a].shard = Absent
  BY <1>0, CopyFacts DEF ForgetShard, At, WithCopy, Driven
<1>2. PICK f : f = IF call[a].cfg.shard THEN [call[a].cfg EXCEPT !.shard = FALSE] ELSE call[a].cfg
  OBVIOUS
<1>3. f \in Config /\ f.engine = keys[d].engine /\ f.address = keys[d].address /\ f.ufvk = keys[d].ufvk
  BY <1>1, <1>2, HintSet
<1>4. Rewritable(d, f) /\ told[d] \in Height /\ told[d] <= Reach(f, d)
  BY <1>0, <1>1, <1>3, HintIsRewritable
<1>5. /\ keys' = [keys EXCEPT ![d] = f]
      /\ UNCHANGED <<manifest, own, shard, default_on, tip, crashes>> /\ told' = [told EXCEPT ![d] = told[d]]
  BY <1>0, <1>1, <1>2 DEF ForgetShard
<1>6. PICK left : left = call[a].rows \ {d}
  OBVIOUS
<1>7. PICK c : c = IF left = {} THEN Idle ELSE [call[a] EXCEPT !.rows = left, !.pc = "row"]
  OBVIOUS
<1>8. call' = [call EXCEPT ![a] = c]
  BY <1>0, <1>6, <1>7 DEF ForgetShard
<1>9. c \in Call /\ (c = Idle \/ (c.pc = "row" /\ c.shard = Absent /\ c.db = d))
  <2>1. CASE left = {}
    BY <1>7, <2>1, IdleCall
  <2>2. CASE left # {}
    BY <1>0, <1>1, <1>6, <1>7, <2>2 DEF Call, Steps
  <2> QED BY <2>1, <2>2
<1>10. CallInv(c)'
  <2>1. CASE c = Idle
    BY <2>1, IdleCall
  <2>2. CASE c # Idle
    BY <1>1, <1>9, <2>2 DEF CallInv, CopyFresh, InPlace, Driven, WithCopy
  <2> QED BY <2>1, <2>2
<1> QED BY <1>1, <1>4, <1>5, <1>8, <1>9, <1>10, KeysOnly

\* What a sync does next, from the heights it has measured.
Goes(c, n, pcs) ==
    /\ n \in Call
    /\ \/ n = Idle
       \/ /\ n.db = c.db /\ n.cfg = c.cfg /\ n.cmd = c.cmd /\ n.own = c.own
          /\ n.shard = c.shard /\ n.drives = c.drives /\ n.node = c.node
          /\ n.pc \in pcs
          /\ n.pc = "flip" => c.shard # Absent
          /\ n.pc = "drive" => c.drives /\ c.shard = Absent

LEMMA AfterFacts ==
    ASSUME NEW c \in Call
    PROVE  /\ Goes(c, AfterSync(c, FALSE), {"flip", "drive"})
           /\ Goes(c, AfterSync(c, TRUE), {"cache"})
           /\ c.shard = Absent => Goes(c, Drive(c), {"drive"})
<1>1. Goes(c, AfterSync(c, TRUE), {"cache"})
  BY DEF AfterSync, Call, Steps, WithCopy, Goes
<1>2. ASSUME c.shard = Absent PROVE Goes(c, Drive(c), {"drive"})
  <2>1. CASE c.drives
    BY <1>2, <2>1 DEF Drive, Call, Steps, Goes
  <2>2. CASE ~c.drives
    BY <2>2, IdleCall DEF Drive, Goes
  <2> QED BY <2>1, <2>2
<1>3. Goes(c, AfterSync(c, FALSE), {"flip", "drive"})
  <2>1. CASE c.shard # Absent
    BY <2>1 DEF AfterSync, Call, Steps, Goes
  <2>2. CASE c.shard = Absent
    <3>1. AfterSync(c, FALSE) = Drive(c)
      BY <2>2 DEF AfterSync
    <3> QED BY <1>2, <2>2, <3>1 DEF Goes
  <2> QED BY <2>1, <2>2
<1> QED BY <1>1, <1>2, <1>3

LEMMA CacheShardStep ==
    ASSUME FleetInv, OneAtATime, NEW a \in Actor, CacheShard(a) PROVE FleetInv'
<1>0. /\ Disk /\ call[a] \in Call /\ call \in [Actor -> Call] /\ CopyFresh(call[a])
      /\ Driven(call[a]) /\ keys \in [DB -> Config] /\ told \in [DB -> Height]
  BY OldCall DEF Disk
<1> PICK d : d = call[a].db
  OBVIOUS
<1>1. /\ d \in DB /\ Exists(d) /\ call[a].cfg = keys[d] /\ call[a].cfg \in Config /\ call[a].pc = "cache"
  BY <1>0, CopyFacts DEF CacheShard, At, WithCopy
<1>2. PICK f : f = [call[a].cfg EXCEPT !.shard = TRUE]
  OBVIOUS
<1>3. f \in Config /\ f.engine = keys[d].engine /\ f.address = keys[d].address /\ f.ufvk = keys[d].ufvk
  BY <1>1, <1>2, HintSet
<1>4. Rewritable(d, f) /\ told[d] \in Height /\ told[d] <= Reach(f, d)
  BY <1>0, <1>1, <1>3, HintIsRewritable
<1>5. /\ keys' = [keys EXCEPT ![d] = f]
      /\ UNCHANGED <<manifest, own, shard, default_on, tip, crashes>> /\ told' = [told EXCEPT ![d] = told[d]]
  BY <1>0, <1>1, <1>2 DEF CacheShard
<1>6. PICK c : c = AfterSync(call[a], FALSE)
  OBVIOUS
<1>7. call' = [call EXCEPT ![a] = c]
  BY <1>0, <1>6 DEF CacheShard
<1>8. Goes(call[a], c, {"flip", "drive"}) /\ c \in Call
  BY <1>0, <1>6, AfterFacts DEF Goes
<1>9. CallInv(c)'
  <2>1. CASE c = Idle
    BY <2>1, IdleCall
  <2>2. CASE c # Idle
    <3>1. CopyFresh(c)' /\ InPlace(c)'
      BY <1>1, <1>8, <2>2 DEF CopyFresh, InPlace, WithCopy, Goes
    <3>2. Driven(c)'
      BY <1>0, <1>1, <1>5, <1>8, <2>2 DEF Driven, Goes
    <3> QED BY <3>1, <3>2 DEF CallInv
  <2> QED BY <2>1, <2>2
<1> QED BY <1>1, <1>4, <1>5, <1>7, <1>8, <1>9, KeysOnly

LEMMA RebuildStep ==
    ASSUME FleetInv, OneAtATime, NEW a \in Actor, Rebuild(a) PROVE FleetInv'
<1>0. Disk /\ keys \in [DB -> Config] /\ \A d \in DB : Placed(d)
  BY FleetParts DEF Disk
<1>1. /\ keys' = [d \in DB |-> IF Located(keys[d]) THEN [keys[d] EXCEPT !.shard = TRUE] ELSE keys[d]]
      /\ UNCHANGED <<manifest, own, shard, default_on, tip, crashes, told>>
  BY DEF Rebuild
<1>2. ASSUME NEW d \in DB
      PROVE  /\ keys'[d] \in Config /\ keys'[d].engine = keys[d].engine
             /\ keys'[d].address = keys[d].address /\ keys'[d].ufvk = keys[d].ufvk
             /\ keys[d] = NoConfig => keys'[d] = keys[d]
  <2>1. ~Located(NoConfig) /\ keys[d] \in Config
    BY <1>0 DEF Located, NoConfig
  <2>2. CASE Located(keys[d])
    BY <1>1, <2>1, <2>2, HintSet
  <2>3. CASE ~Located(keys[d])
    BY <1>1, <2>1, <2>3
  <2> QED BY <2>2, <2>3
<1>3. ASSUME NEW d \in DB PROVE Placed(d)'
  <2>1. Placed(d)
    BY <1>0
  <2> QED BY <1>1, <1>2, <2>1 DEF Placed, Exists, is_standalone, ReadHeight, is_fleet_member
<1>4. keys' \in [DB -> Config]
  BY <1>1, <1>2
<1>5. Disk'
  BY <1>0, <1>1, <1>3, <1>4 DEF Disk
<1>6. PICK rows \in SUBSET DB :
          call' = [call EXCEPT ![a] = [Idle EXCEPT !.cmd = "rebuild", !.pc = "unshard", !.rows = rows]]
  BY DEF Rebuild
<1>7. PICK c : c = [Idle EXCEPT !.cmd = "rebuild", !.pc = "unshard", !.rows = rows]
  OBVIOUS
<1>8. c \in Call /\ c.pc = "unshard" /\ ~c.node /\ c.shard = Absent
  BY <1>7, Nothing DEF Idle, Call, Steps, AllCommands
<1>9. CallInv(c)'
  BY <1>8 DEF CallInv, CopyFresh, InPlace, Driven, WithCopy
<1> QED BY <1>5, <1>6, <1>7, <1>8, <1>9, OneCall

LEMMA CreateStep ==
    ASSUME FleetInv, OneAtATime, NEW a \in Actor, Create(a) PROVE FleetInv'
<1>0. /\ Disk /\ call[a] \in Call /\ call \in [Actor -> Call] /\ CopyFresh(call[a])
      /\ Driven(call[a]) /\ keys \in [DB -> Config] /\ \A d \in DB : Placed(d)
      /\ own \in [DB -> Height] /\ shard \in [Key -> Height]
  BY OldCall DEF Disk
<1> PICK d, f : d = call[a].db /\ f = call[a].cfg
  OBVIOUS
<1>1. /\ d \in DB /\ f \in Config /\ call[a].shard = Absent
      /\ f.address \in Addresses[d] /\ f.engine \in {"Own", "Fleet"}
      /\ f.ufvk = IF is_fleet_member(f) THEN f.address ELSE NoKey
  BY <1>0 DEF Create, At, CopyFresh, Driven, Call
<1>2. CASE Exists(d)
  <2>1. /\ UNCHANGED <<keys, manifest, own, shard, tip, told, default_on, crashes>> /\ Done(a)
    BY <1>2 DEF Create
  <2>2. Disk'
    BY <1>0, <2>1, SameDisk DEF Disk
  <2> QED BY <2>1, <2>2, DoneStep
<1>3. CASE ~Exists(d)
  <2>1. /\ keys' = [keys EXCEPT ![d] = f]
        /\ UNCHANGED <<manifest, own, shard, default_on, tip, crashes, told>>
    BY <1>3 DEF Create
  <2>2. PICK pc : pc = IF is_fleet_member(f) THEN "newmanifest" ELSE "newfiles"
    OBVIOUS
  <2>3. Goto(a, pc) /\ pc \in Steps /\ pc \in {"newmanifest", "newfiles"}
    BY <1>3, <2>2 DEF Create, Steps, WithCopy
  <2>4. PICK c : call' = [call EXCEPT ![a] = c] /\ Moved(call[a], c, pc)
    BY <2>3, GotoFacts, Zenon
  <2>5. c \in Call /\ c.db = d /\ c.cfg = f /\ c.pc = pc /\ c.shard = Absent
    BY <1>1, <2>4 DEF Moved
  <2>6. keys'[d] = f /\ f.engine # "Absent" /\ told[d] = Absent /\ keys' \in [DB -> Config]
    BY <1>0, <1>1, <1>3, <2>1 DEF Placed
  <2>7. Placed(d)'
    <3>1. f.address \in Key /\ f.address # NoKey
      BY <1>1, KeyAssumption
    <3>2. Absent <= own[d] /\ Absent <= shard[f.address]
      BY <1>0, <1>1, <3>1, BoundAssumption DEF Height, Absent
    <3>3. manifest[d] \in Addresses[d] \cup {NoKey} /\ own[d] <= tip
      BY <1>0, <1>1 DEF Placed
    <3>4. Absent <= ReadHeight(d)'
      BY <1>1, <2>1, <2>6, <3>1, <3>2 DEF ReadHeight, is_fleet_member
    <3> QED BY <1>1, <2>1, <2>6, <3>1, <3>3, <3>4 DEF Placed, Exists, is_standalone, is_fleet_member
  <2>8. ASSUME NEW e \in DB, e # d PROVE Placed(e)'
    <3>1. keys'[e] = keys[e] /\ Placed(e)
      BY <1>0, <2>1, <2>8
    <3> QED BY <2>1, <3>1 DEF Placed, Exists, ReadHeight
  <2>9. Disk'
    BY <1>0, <2>1, <2>6, <2>7, <2>8 DEF Disk
  <2>10. CallInv(c)'
    BY <1>1, <2>1, <2>3, <2>5, <2>6 DEF CallInv, CopyFresh, InPlace, Driven, WithCopy, Exists
  <2> QED BY <2>4, <2>5, <2>9, <2>10, OneCall
<1> QED BY <1>2, <1>3

LEMMA RemoveDirectoryStep ==
    ASSUME FleetInv, OneAtATime, NEW a \in Actor, RemoveDirectory(a) PROVE FleetInv'
<1>0. /\ Disk /\ CopyFresh(call[a]) /\ keys \in [DB -> Config] /\ \A d \in DB : Placed(d)
      /\ own \in [DB -> Height] /\ told \in [DB -> Height] /\ tip \in Nat
  BY OldCall, BoundAssumption DEF Disk
<1> PICK d : d = call[a].db
  OBVIOUS
<1>1. d \in DB
  BY <1>0 DEF RemoveDirectory, At, CopyFresh, WithCopy
<1>2. /\ keys' = [keys EXCEPT ![d] = NoConfig] /\ own' = [own EXCEPT ![d] = Absent]
      /\ told' = [told EXCEPT ![d] = Absent]
      /\ UNCHANGED <<manifest, shard, default_on, tip, crashes>> /\ Done(a)
  BY DEF RemoveDirectory
<1>3. /\ keys' \in [DB -> Config] /\ own' \in [DB -> Height] /\ told' \in [DB -> Height]
      /\ keys'[d] = NoConfig /\ own'[d] = Absent /\ told'[d] = Absent
  BY <1>0, <1>1, <1>2, Nothing
<1>4. Placed(d)'
  <2>1. manifest[d] \in Addresses[d] \cup {NoKey}
    BY <1>0, <1>1 DEF Placed
  <2> QED BY <1>0, <1>2, <1>3, <2>1 DEF Placed, Exists, ReadHeight, is_fleet_member, NoConfig, Absent
<1>5. ASSUME NEW e \in DB, e # d PROVE Placed(e)'
  <2>1. keys'[e] = keys[e] /\ own'[e] = own[e] /\ told'[e] = told[e] /\ Placed(e)
    BY <1>0, <1>2, <1>5
  <2> QED BY <1>2, <2>1 DEF Placed, Exists, ReadHeight
<1>6. Disk'
  BY <1>0, <1>2, <1>3, <1>4, <1>5 DEF Disk
<1> QED BY <1>2, <1>6, DoneStep

\* One database's own wallet files, or what has been reported of it.
LEMMA OwnOnly ==
    ASSUME FleetInv, OneAtATime, NEW a \in Actor, NEW c \in Call, call' = [call EXCEPT ![a] = c],
           NEW d \in DB, NEW h \in Height, own' = [own EXCEPT ![d] = h], h <= tip,
           NEW t \in Height, told' = [told EXCEPT ![d] = t], ~Exists(d) => t = Absent,
           is_fleet_member(keys[d]) => t <= ReadHeight(d), ~is_fleet_member(keys[d]) => t <= h,
           UNCHANGED <<keys, manifest, shard, default_on, tip, crashes>>, CallInv(c)'
    PROVE  FleetInv'
<1>0. Disk /\ own \in [DB -> Height] /\ told \in [DB -> Height] /\ \A e \in DB : Placed(e)
  BY FleetParts DEF Disk
<1>1. /\ own' \in [DB -> Height] /\ told' \in [DB -> Height] /\ own'[d] = h /\ told'[d] = t
  BY <1>0
<1>2. Placed(d)'
  <2>1. Placed(d)
    BY <1>0
  <2>2. t <= ReadHeight(d)'
    BY <1>1 DEF ReadHeight
  <2> QED BY <1>1, <2>1, <2>2 DEF Placed, Exists
<1>3. ASSUME NEW e \in DB, e # d PROVE Placed(e)'
  <2>1. own'[e] = own[e] /\ told'[e] = told[e] /\ Placed(e)
    BY <1>0, <1>3
  <2> QED BY <2>1 DEF Placed, Exists, ReadHeight
<1>4. Disk'
  BY <1>0, <1>1, <1>2, <1>3 DEF Disk
<1> QED BY <1>4, OneCall

\* What is known of a database whose keys.toml the command has read.
LEMMA CopyHeights ==
    ASSUME Disk, NEW d \in DB
    PROVE  /\ told[d] \in Height /\ own[d] \in Height /\ ReadHeight(d) \in Height
           /\ tip \in Height /\ 0 \in Height /\ 0 <= tip
           /\ told[d] <= ReadHeight(d) /\ own[d] <= tip /\ ReadHeight(d) <= tip
           /\ Absent <= told[d] /\ Absent <= own[d] /\ Absent <= tip
           /\ told[d] \in Int /\ own[d] \in Int /\ tip \in Int
<1>1. /\ told[d] \in Height /\ own[d] \in Height /\ tip \in 0..MaxTip
      /\ told[d] <= ReadHeight(d) /\ own[d] <= tip /\ keys[d] \in Config
      /\ shard \in [Key -> Height] /\ \A k \in Key : shard[k] <= tip
  BY DEF Disk, Placed
<1>2. tip \in Height /\ 0 \in Height /\ 0 <= tip /\ Absent <= tip
  BY <1>1, BoundAssumption DEF Height, Absent
<1>3. ReadHeight(d) \in Height /\ ReadHeight(d) <= tip
  <2>1. keys[d].ufvk # NoKey => keys[d].ufvk \in Key
    BY <1>1 DEF Config
  <2> QED BY <1>1, <1>2, <2>1, Nothing DEF ReadHeight
<1> QED BY <1>1, <1>2, <1>3, BoundAssumption DEF Height, Absent

LEMMA SyncOwnStep ==
    ASSUME FleetInv, OneAtATime, NEW a \in Actor, SyncOwn(a) PROVE FleetInv'
<1>0. /\ Disk /\ call[a] \in Call /\ call \in [Actor -> Call] /\ CopyFresh(call[a])
      /\ InPlace(call[a]) /\ Driven(call[a])
  BY OldCall
<1> PICK d : d = call[a].db
  OBVIOUS
<1>1. /\ d \in DB /\ Exists(d) /\ call[a].cfg = keys[d] /\ call[a].shard = Absent
      /\ ~is_fleet_member(keys[d])
  BY <1>0, CopyFacts DEF SyncOwn, At, WithCopy, Driven, InPlace
<1>2. told[d] <= tip
  BY <1>0, <1>1, CopyHeights DEF ReadHeight
<1>3. /\ own' = [own EXCEPT ![d] = tip]
      /\ told' = [told EXCEPT ![d] = tip]
      /\ UNCHANGED <<keys, manifest, shard, default_on, tip, crashes>>
  <2>1. (IF tip > told[d] THEN tip ELSE told[d]) = tip
    BY <1>0, <1>1, <1>2, CopyHeights
  <2>2. told' = [told EXCEPT ![d] = IF tip > told[d] THEN tip ELSE told[d]]
    BY DEF SyncOwn, Report
  <2> QED BY <2>1, <2>2 DEF SyncOwn
<1>4. PICK s : s = [call[a] EXCEPT !.own = tip, !.node = TRUE]
  OBVIOUS
<1>5. /\ s \in Call /\ s.db = d /\ s.cfg = keys[d] /\ s.own = tip /\ s.shard = Absent
  BY <1>0, <1>1, <1>4, CopyHeights DEF Call
<1>6. PICK c : c = Drive(s)
  OBVIOUS
<1>7. call' = [call EXCEPT ![a] = c]
  BY <1>0, <1>4, <1>6 DEF SyncOwn
<1>8. Goes(s, c, {"drive"}) /\ c \in Call
  BY <1>5, <1>6, AfterFacts DEF Goes
<1>9. CallInv(c)'
  <2>1. CASE c = Idle
    BY <2>1, IdleCall
  <2>2. CASE c # Idle
    <3>1. told'[d] = tip /\ tip <= tip
      BY <1>0, <1>1, <1>3, CopyHeights DEF Disk
    <3>2. CopyFresh(c)' /\ InPlace(c)'
      BY <1>1, <1>5, <1>8, <2>2 DEF CopyFresh, InPlace, WithCopy, Goes
    <3>3. Driven(c)'
      BY <1>5, <1>8, <2>2, <3>1 DEF Driven, Goes
    <3> QED BY <3>2, <3>3 DEF CallInv
  <2> QED BY <2>1, <2>2
<1>10. tip \in Height /\ tip <= tip
  BY <1>0, <1>1, CopyHeights
<1> QED BY <1>1, <1>3, <1>7, <1>8, <1>9, <1>10, OwnOnly

LEMMA DiscardStep ==
    ASSUME FleetInv, OneAtATime, NEW a \in Actor, Discard(a) PROVE FleetInv'
<1>0. Disk /\ CopyFresh(call[a]) /\ InPlace(call[a]) /\ told \in [DB -> Height]
  BY OldCall DEF Disk
<1> PICK d : d = call[a].db
  OBVIOUS
<1>1. d \in DB /\ Exists(d) /\ is_fleet_member(keys[d])
  BY <1>0, CopyFacts DEF Discard, At, WithCopy, InPlace
<1>2. PICK h \in {Absent, own[d]} : own' = [own EXCEPT ![d] = h]
  BY DEF Discard
<1>3. h \in Height /\ h <= tip /\ told[d] \in Height /\ told[d] <= ReadHeight(d)
  BY <1>0, <1>1, <1>2, CopyHeights, Nothing
<1>4. /\ UNCHANGED <<keys, manifest, shard, default_on, tip, crashes>> /\ told' = [told EXCEPT ![d] = told[d]]
      /\ call' = [call EXCEPT ![a] = Idle]
  BY <1>0 DEF Discard, Done
<1> QED BY <1>1, <1>2, <1>3, <1>4, IdleCall, OwnOnly

LEMMA WipeStep ==
    ASSUME FleetInv, OneAtATime, NEW a \in Actor, Wipe(a) PROVE FleetInv'
<1>0. /\ Disk /\ call[a] \in Call /\ CopyFresh(call[a]) /\ InPlace(call[a]) /\ Driven(call[a])
      /\ told \in [DB -> Height]
  BY OldCall DEF Disk
<1> PICK d : d = call[a].db
  OBVIOUS
<1>1. /\ d \in DB /\ Exists(d) /\ ~is_fleet_member(keys[d]) /\ call[a].cfg = keys[d]
      /\ call[a].shard = Absent
  BY <1>0, CopyFacts DEF Wipe, At, WithCopy, InPlace, Driven
<1>2. PICK c : call' = [call EXCEPT ![a] = c] /\ Moved(call[a], c, "rebootstrap")
  <2>1. Goto(a, "rebootstrap") /\ "rebootstrap" \in Steps
    BY DEF Wipe, Steps, WithCopy
  <2> QED BY <2>1, GotoFacts, Zenon
<1>3. /\ own' = [own EXCEPT ![d] = Absent] /\ told' = [told EXCEPT ![d] = Absent]
      /\ UNCHANGED <<keys, manifest, shard, default_on, tip, crashes>>
  BY DEF Wipe
<1>4. c \in Call /\ c.db = d /\ c.cfg = keys[d] /\ c.shard = Absent /\ c.pc = "rebootstrap"
  BY <1>1, <1>2 DEF Moved
<1>5. CallInv(c)'
  <2>1. told'[d] = Absent
    BY <1>0, <1>1, <1>3
  <2> QED BY <1>1, <1>3, <1>4, <2>1 DEF CallInv, CopyFresh, InPlace, Driven, WithCopy, Exists
<1>6. Absent \in Height /\ Absent <= tip /\ Absent <= Absent
  BY <1>0, <1>1, CopyHeights, Nothing DEF Absent
<1> QED BY <1>1, <1>2, <1>3, <1>4, <1>5, <1>6, OwnOnly

LEMMA RebootstrapStep ==
    ASSUME FleetInv, OneAtATime, NEW a \in Actor, Rebootstrap(a) PROVE FleetInv'
<1>0. /\ Disk /\ call[a] \in Call /\ call \in [Actor -> Call] /\ CopyFresh(call[a])
      /\ InPlace(call[a]) /\ Driven(call[a]) /\ told \in [DB -> Height]
  BY OldCall DEF Disk
<1> PICK d : d = call[a].db
  OBVIOUS
<1>1. /\ d \in DB /\ Exists(d) /\ call[a].cfg = keys[d] /\ call[a].shard = Absent /\ told[d] = Absent
  BY <1>0, CopyFacts DEF Rebootstrap, At, WithCopy, InPlace, Driven
<1>2. UNCHANGED <<keys, manifest, shard, default_on, tip, crashes, told>>
  BY DEF Rebootstrap
<1>3. CASE own' = own /\ Done(a)
  <2>1. Disk'
    BY <1>0, <1>2, <1>3, SameDisk DEF Disk
  <2> QED BY <1>3, <2>1, DoneStep
<1>4. CASE /\ ~is_fleet_member(keys[d]) /\ own' = [own EXCEPT ![d] = 0]
           /\ call' = [call EXCEPT ![a].node = FALSE, ![a].pc = "engine"]
  <2>1. PICK c : c = [call[a] EXCEPT !.node = FALSE, !.pc = "engine"]
    OBVIOUS
  <2>2. call' = [call EXCEPT ![a] = c]
    BY <1>0, <1>4, <2>1
  <2>3. c \in Call /\ c.db = d /\ c.cfg = keys[d] /\ c.shard = Absent /\ c.pc = "engine"
    BY <1>0, <1>1, <2>1 DEF Call, Steps, WithCopy
  <2>4. CallInv(c)'
    BY <1>1, <1>2, <2>3 DEF CallInv, CopyFresh, InPlace, Driven, WithCopy, Exists
  <2>5. 0 \in Height /\ 0 <= tip /\ told[d] \in Height /\ told[d] <= 0
    BY <1>0, <1>1, CopyHeights DEF Absent
  <2>6. told' = [told EXCEPT ![d] = told[d]]
    BY <1>0, <1>2
  <2> QED BY <1>1, <1>2, <1>4, <2>2, <2>3, <2>4, <2>5, <2>6, OwnOnly
<1> QED BY <1>3, <1>4 DEF Rebootstrap

LEMMA CreateFilesStep ==
    ASSUME FleetInv, OneAtATime, NEW a \in Actor, CreateFiles(a) PROVE FleetInv'
<1>0. Disk /\ CopyFresh(call[a]) /\ InPlace(call[a]) /\ told \in [DB -> Height]
  BY OldCall DEF Disk
<1> PICK d : d = call[a].db
  OBVIOUS
<1>1. d \in DB /\ Exists(d) /\ told[d] = Absent
  BY <1>0, CopyFacts DEF CreateFiles, At, WithCopy, InPlace
<1>2. PICK h : h = IF is_fleet_member(keys[d]) THEN own[d] ELSE 0
  OBVIOUS
<1>3. own' = [own EXCEPT ![d] = h]
  BY <1>2 DEF CreateFiles
<1>4. h \in Height /\ h <= tip /\ told[d] \in Height /\ told[d] <= ReadHeight(d) /\ Absent <= 0
  BY <1>0, <1>1, <1>2, CopyHeights DEF Absent
<1>5. /\ UNCHANGED <<keys, manifest, shard, default_on, tip, crashes>> /\ told' = [told EXCEPT ![d] = told[d]]
      /\ call' = [call EXCEPT ![a] = Idle]
  BY <1>0 DEF CreateFiles, Done
<1>6. ~is_fleet_member(keys[d]) => told[d] <= h
  BY <1>1, <1>2, <1>4
<1> QED BY <1>1, <1>3, <1>4, <1>5, <1>6, IdleCall, OwnOnly

LEMMA OwnNodeScanStep ==
    ASSUME FleetInv, OneAtATime, NEW a \in Actor, OwnNodeScan(a) PROVE FleetInv'
<1>0. /\ Disk /\ call[a] \in Call /\ call \in [Actor -> Call] /\ CopyFresh(call[a])
      /\ CallInv(call[a]) /\ told \in [DB -> Height] /\ tip \in 0..MaxTip
  BY OldCall, FleetParts DEF Disk
<1> PICK d : d = call[a].db
  OBVIOUS
<1>1. d \in DB /\ own[d] # Absent /\ own[d] < tip
  BY <1>0 DEF OwnNodeScan, CopyFresh
<1>2. PICK h : h = own[d] + 1
  OBVIOUS
<1>3. h \in Height /\ h <= tip /\ own[d] <= h /\ h \in Int
  <2>1. own[d] \in Height
    BY <1>0, <1>1, CopyHeights
  <2> QED BY <1>0, <1>1, <1>2, <2>1, BoundAssumption DEF Height, Absent
<1>4. /\ own' = [own EXCEPT ![d] = h] /\ call' = [call EXCEPT ![a] = call[a]]
      /\ told' = [told EXCEPT ![d] = told[d]]
      /\ UNCHANGED <<keys, manifest, shard, default_on, tip, crashes, told>>
  BY <1>0, <1>2 DEF OwnNodeScan
<1>5. CallInv(call[a])'
  <2>1. PICK c : c = call[a]
    OBVIOUS
  <2>2. CallInv(c)'
    BY <1>0, <1>4, <2>1, SameCallInv
  <2>3. call'[a] = c
    BY <1>0, <1>4, <2>1
  <2> QED BY <2>2, <2>3 DEF CallInv, CopyFresh, InPlace, Driven, Exists
<1>6. /\ ~Exists(d) => told[d] = Absent
      /\ is_fleet_member(keys[d]) => told[d] <= ReadHeight(d)
      /\ told[d] \in Height
      /\ ~is_fleet_member(keys[d]) => told[d] <= own[d]
  BY <1>0, <1>1, CopyHeights DEF Disk, Placed, ReadHeight
<1>7. ~is_fleet_member(keys[d]) => told[d] <= h
  BY <1>0, <1>1, <1>3, <1>6, CopyHeights
<1>8. PICK c : c = call[a] /\ c \in Call /\ CallInv(c)'
  <2>1. PICK c : c = call[a]
    OBVIOUS
  <2> QED BY <1>0, <1>4, <2>1, SameCallInv
<1> QED BY <1>1, <1>3, <1>4, <1>6, <1>7, <1>8, OwnOnly

\* A sync that finds the files it reads near enough the tip.
LEMMA SkipSyncStep ==
    ASSUME FleetInv, OneAtATime, NEW a \in Actor, SkipSync(a) PROVE FleetInv'
<1>0. /\ Disk /\ call[a] \in Call /\ call \in [Actor -> Call] /\ CopyFresh(call[a])
      /\ Driven(call[a]) /\ own \in [DB -> Height] /\ told \in [DB -> Height]
      /\ keys \in [DB -> Config]
  BY OldCall DEF Disk
<1> PICK d : d = call[a].db
  OBVIOUS
<1> PICK h : h = ReadHeight(d)
  OBVIOUS
<1>1. /\ d \in DB /\ Exists(d) /\ keys[d] \in Config /\ call[a].shard = Absent
  BY <1>0, CopyFacts DEF SkipSync, At, WithCopy, Driven
<1>2. /\ h \in Height /\ told[d] <= h /\ h <= h
  BY <1>0, <1>1, CopyHeights, BoundAssumption DEF Height, Absent
<1>3. told' = [told EXCEPT ![d] = h] /\ own' = [own EXCEPT ![d] = own[d]]
  <2>1. (IF h > told[d] THEN h ELSE told[d]) = h
    BY <1>0, <1>1, <1>2, CopyHeights, BoundAssumption DEF Height, Absent
  <2>2. told' = [told EXCEPT ![d] = IF h > told[d] THEN h ELSE told[d]]
    BY DEF SkipSync, Report
  <2>3. UNCHANGED own
    BY DEF SkipSync
  <2> QED BY <1>0, <2>1, <2>2, <2>3
<1>4. PICK s : s = [call[a] EXCEPT !.own = h, !.cfg = keys[d]]
  OBVIOUS
<1>5. s \in Call /\ s.db = d /\ s.cfg = keys[d] /\ s.own = h /\ s.shard = Absent
  BY <1>0, <1>1, <1>2, <1>4 DEF Call
<1>6. PICK c : /\ call' = [call EXCEPT ![a] = c] /\ c \in Call
               /\ Goes(s, c, {"flip", "drive"}) \/ Goes(s, c, {"cache"})
  <2>1. PICK found \in BOOLEAN : found = (is_fleet_member(keys[d]) /\ Located(keys[d]))
    BY DEF is_fleet_member
  <2>2. PICK c : c = AfterSync(s, found)
    OBVIOUS
  <2>3. call' = [call EXCEPT ![a] = c]
    BY <1>0, <1>4, <2>1, <2>2 DEF SkipSync
  <2>4. Goes(s, c, {"flip", "drive"}) \/ Goes(s, c, {"cache"})
    BY <1>5, <2>2, AfterFacts
  <2>5. c \in Call
    BY <2>4 DEF Goes
  <2> QED BY <2>3, <2>4, <2>5
<1>7. CallInv(c)'
  <2>1. CASE c = Idle
    BY <2>1, IdleCall
  <2>2. CASE c # Idle
    <3>0. /\ c.db = d /\ c.cfg = keys[d] /\ c.own = h /\ c.shard = Absent
          /\ c.pc \in {"cache", "drive"} /\ (c.pc = "drive" => c.drives)
      BY <1>5, <1>6, <2>2 DEF Goes
    <3>1. told'[d] = h /\ keys' = keys
      BY <1>0, <1>1, <1>3 DEF SkipSync
    <3>2. CopyFresh(c)' /\ InPlace(c)'
      BY <1>1, <3>0, <3>1 DEF CopyFresh, InPlace, WithCopy, Exists
    <3>3. Driven(c)'
      BY <1>2, <3>0, <3>1 DEF Driven
    <3> QED BY <3>2, <3>3 DEF CallInv
  <2> QED BY <2>1, <2>2
<1>8. /\ own[d] \in Height /\ own[d] <= tip
      /\ is_fleet_member(keys[d]) => h <= ReadHeight(d)
      /\ ~is_fleet_member(keys[d]) => h <= own[d]
  BY <1>0, <1>1, <1>2, CopyHeights DEF ReadHeight
<1>9. UNCHANGED <<keys, manifest, shard, default_on, tip, crashes>>
  BY DEF SkipSync
<1> QED BY <1>1, <1>2, <1>3, <1>6, <1>7, <1>8, <1>9, OwnOnly

\* The shards get further: what a read of a member opens does not get worse.
Grown ==
    /\ shard' \in [Key -> Height]
    /\ \A k \in Key : shard[k] <= shard'[k] /\ shard'[k] <= tip

LEMMA GrownReads ==
    ASSUME Disk, Grown, UNCHANGED <<keys, own>>, NEW d \in DB
    PROVE  /\ ReadHeight(d) <= ReadHeight(d)'
           /\ told[d] <= ReadHeight(d)' /\ ReadHeight(d)' \in Int
<1>1. /\ keys[d] \in Config /\ own[d] \in Height /\ told[d] \in Height
      /\ told[d] <= ReadHeight(d) /\ ReadHeight(d) \in Height
  BY CopyHeights DEF Disk
<1>2. keys[d].ufvk # NoKey => /\ shard[keys[d].ufvk] <= shard'[keys[d].ufvk]
                              /\ shard'[keys[d].ufvk] \in Height
  BY <1>1 DEF Grown, Config
<1>3. ReadHeight(d) <= ReadHeight(d)' /\ ReadHeight(d)' \in Height
  <2>1. CASE ~is_fleet_member(keys[d])
    <3>1. ReadHeight(d) = own[d] /\ ReadHeight(d)' = own[d] /\ own[d] <= own[d]
      BY <1>1, <2>1, BoundAssumption DEF ReadHeight, Height, Absent
    <3> QED BY <1>1, <3>1
  <2>2. CASE is_fleet_member(keys[d]) /\ keys[d].ufvk = NoKey
    <3>1. ReadHeight(d) = Absent /\ ReadHeight(d)' = Absent /\ Absent <= Absent
      BY <2>2 DEF ReadHeight, Absent
    <3> QED BY <3>1, Nothing
  <2>3. CASE is_fleet_member(keys[d]) /\ keys[d].ufvk # NoKey
    BY <1>2, <2>3 DEF ReadHeight
  <2> QED BY <2>1, <2>2, <2>3
<1> QED BY <1>1, <1>3, BoundAssumption DEF Height, Absent

LEMMA GrownDisk ==
    ASSUME Disk, Grown, UNCHANGED <<keys, manifest, own, default_on, tip, crashes>>,
           told' \in [DB -> Height],
           \A d \in DB : told'[d] <= ReadHeight(d)' /\ (~Exists(d) => told'[d] = Absent)
    PROVE  Disk'
<1>1. \A d \in DB : Placed(d)'
  BY DEF Disk, Placed, Exists
<1> QED BY <1>1 DEF Disk, Grown

LEMMA SyncMemberStep ==
    ASSUME FleetInv, OneAtATime, NEW a \in Actor, SyncMember(a) PROVE FleetInv'
<1>0. /\ Disk /\ call[a] \in Call /\ call \in [Actor -> Call] /\ CopyFresh(call[a])
      /\ InPlace(call[a]) /\ Driven(call[a]) /\ told \in [DB -> Height]
      /\ keys \in [DB -> Config] /\ shard \in [Key -> Height] /\ tip \in 0..MaxTip
      /\ \A e \in DB : Placed(e) /\ \A l \in Key : shard[l] <= tip
  BY OldCall DEF Disk
<1> PICK d : d = call[a].db
  OBVIOUS
<1> PICK k : k = manifest[d]
  OBVIOUS
<1>1. d \in DB /\ call[a].pc \in {"fleetsync", "drive"} /\ k # NoKey /\ shard[k] # Absent
  BY <1>0 DEF SyncMember, CopyFresh, WithCopy
<1>2. k \in Addresses[d] /\ k \in Key /\ \A l \in Addresses[d] : l = k
  BY <1>0, <1>1, KeyAssumption DEF Placed, OneAtATime
<1>3. PICK h \in {shard[k], tip} :
        /\ shard' = [shard EXCEPT ![k] = h]
        /\ IF At(a, "fleetsync") THEN Report(d, h) ELSE UNCHANGED told
        /\ call' = [call EXCEPT ![a] =
            AfterSync(IF At(a, "fleetsync") THEN [@ EXCEPT !.own = h, !.cfg = keys[d]]
                                            ELSE [@ EXCEPT !.shard = h, !.cfg = keys[d]],
                      Located(keys[d]))]
  BY DEF SyncMember
<1>4. UNCHANGED <<keys, manifest, own, default_on, tip, crashes>>
  BY DEF SyncMember
<1>5. h \in Height /\ shard[k] <= h /\ h <= tip /\ h # Absent /\ h <= h
  BY <1>0, <1>1, <1>2, BoundAssumption DEF Height, Absent
<1>6. Grown /\ shard'[k] = h
  <2>1. \A l \in Key : shard[l] <= shard[l] /\ shard[l] <= tip
    BY <1>0, <1>1, BoundAssumption DEF Height, Absent
  <2>2. shard' \in [Key -> Height] /\ \A l \in Key : shard'[l] = IF l = k THEN h ELSE shard[l]
    BY <1>0, <1>2, <1>3, <1>5
  <2> QED BY <1>2, <1>4, <1>5, <2>1, <2>2 DEF Grown
<1>7. PICK s : s = IF At(a, "fleetsync") THEN [call[a] EXCEPT !.own = h, !.cfg = keys[d]]
                                         ELSE [call[a] EXCEPT !.shard = h, !.cfg = keys[d]]
  OBVIOUS
<1>8. PICK c : /\ call' = [call EXCEPT ![a] = c] /\ c \in Call
               /\ \/ Goes(s, c, {"flip", "drive"})
                  \/ Goes(s, c, {"cache"}) /\ Located(keys[d])
  <2>1. PICK found \in BOOLEAN : found = Located(keys[d])
    BY DEF Located
  <2>2. PICK c : c = AfterSync(s, found)
    OBVIOUS
  <2>3. call' = [call EXCEPT ![a] = c]
    BY <1>0, <1>3, <1>7, <2>1, <2>2
  <2>4. s \in Call
    BY <1>0, <1>1, <1>5, <1>7 DEF Call
  <2>5. Goes(s, c, {"flip", "drive"}) \/ (Goes(s, c, {"cache"}) /\ found)
    BY <2>2, <2>4, AfterFacts
  <2>6. c \in Call
    BY <2>5 DEF Goes
  <2> QED BY <2>1, <2>3, <2>5, <2>6
<1>9. CASE call[a].pc = "fleetsync"
  <2>1. /\ Exists(d) /\ is_fleet_member(keys[d]) /\ keys[d].ufvk = k /\ call[a].shard = Absent
    <3>1. /\ Exists(d) /\ call[a].cfg = keys[d] /\ keys[d].address \in Addresses[d]
          /\ keys[d].ufvk \in {NoKey, keys[d].address}
          /\ ~is_standalone(keys[d]) => keys[d].ufvk # NoKey
      BY <1>0, <1>9, CopyFacts DEF WithCopy
    <3>2. is_fleet_member(keys[d])
      BY <1>0, <1>9, <3>1 DEF InPlace
    <3> QED BY <1>0, <1>2, <1>9, <3>1, <3>2 DEF Driven, is_standalone, is_fleet_member
  <2>2. ReadHeight(d)' = h /\ ReadHeight(d) = shard[k]
    BY <1>1, <1>4, <1>6, <2>1 DEF ReadHeight
  <2>3. told' = [told EXCEPT ![d] = h]
    <3>1. told' = [told EXCEPT ![d] = IF h > told[d] THEN h ELSE told[d]]
      BY <1>3, <1>9 DEF Report, At
    <3>2. told[d] <= h /\ told[d] \in Int /\ h \in Int
      BY <1>0, <1>1, <1>4, <1>5, <1>6, <2>2, GrownReads, BoundAssumption DEF Height, Absent
    <3>3. (IF h > told[d] THEN h ELSE told[d]) = h
      BY <3>2
    <3> QED BY <3>1, <3>3
  <2>4. Disk'
    <3>1. ASSUME NEW e \in DB
          PROVE  told'[e] <= ReadHeight(e)' /\ (~Exists(e) => told'[e] = Absent)
      <4>1. CASE e = d
        BY <1>0, <1>1, <1>5, <2>1, <2>2, <2>3, <4>1
      <4>2. CASE e # d
        <5>1. told'[e] = told[e] /\ told[e] <= ReadHeight(e)'
          BY <1>0, <1>4, <1>6, <2>3, <4>2, GrownReads
        <5> QED BY <1>0, <5>1 DEF Placed
      <4> QED BY <4>1, <4>2
    <3>2. told' \in [DB -> Height]
      BY <1>0, <1>5, <2>3
    <3> QED BY <1>0, <1>4, <1>6, <3>1, <3>2, GrownDisk
  <2>5. CallInv(c)'
    <3>1. CASE c = Idle
      BY <3>1, IdleCall
    <3>2. CASE c # Idle
      <4>1. s.db = d /\ s.cfg = keys[d] /\ s.own = h /\ s.shard = Absent
        BY <1>0, <1>7, <1>9, <2>1 DEF At, Call
      <4>2. /\ c.db = d /\ c.cfg = keys[d] /\ c.own = h /\ c.shard = Absent
            /\ c.pc \in {"cache", "drive"} /\ (c.pc = "drive" => c.drives)
        BY <1>8, <3>2, <4>1 DEF Goes
      <4>3. told'[d] = h
        BY <1>0, <1>1, <2>3
      <4>4. CopyFresh(c)' /\ InPlace(c)'
        BY <1>1, <1>4, <2>1, <4>2 DEF CopyFresh, InPlace, WithCopy, Exists
      <4>5. Driven(c)'
        BY <1>5, <4>2, <4>3 DEF Driven
      <4> QED BY <4>4, <4>5 DEF CallInv
    <3> QED BY <3>1, <3>2
  <2> QED BY <1>8, <2>4, <2>5, OneCall
<1>10. CASE call[a].pc = "drive"
  <2>1. told' = told /\ call[a].drives /\ told[d] <= call[a].own
    BY <1>0, <1>3, <1>10 DEF At, Driven
  <2>2. Disk'
    <3>1. \A e \in DB : told'[e] <= ReadHeight(e)' /\ (~Exists(e) => told'[e] = Absent)
      BY <1>0, <1>4, <1>6, <2>1, GrownReads DEF Placed
    <3> QED BY <1>0, <1>4, <1>6, <2>1, <3>1, GrownDisk
  <2>3. CallInv(c)'
    <3>1. CASE c = Idle
      BY <3>1, IdleCall
    <3>2. CASE c # Idle
      <4>1. s.db = d /\ s.cfg = keys[d] /\ s.own = call[a].own /\ s.shard = h /\ s.drives = call[a].drives
        BY <1>0, <1>7, <1>10 DEF At, Call
      <4>2. /\ c.db = d /\ c.cfg = keys[d] /\ c.own = call[a].own /\ c.shard = h /\ c.drives
            /\ c.pc \in {"cache", "flip"} /\ (c.pc = "cache" => Located(keys[d]))
        BY <1>5, <1>8, <2>1, <3>2, <4>1 DEF Goes
      <4>3. Located(keys[d]) => Exists(d)
        BY <1>0, <1>1 DEF Located, Placed, NoConfig
      <4>4. CopyFresh(c)' /\ InPlace(c)'
        BY <1>1, <1>4, <4>2, <4>3 DEF CopyFresh, InPlace, WithCopy, Exists
      <4>5. \A l \in Addresses[d] : h <= shard'[l]
        BY <1>2, <1>5, <1>6
      <4>6. Driven(c)'
        BY <1>5, <2>1, <4>2, <4>5 DEF Driven
      <4> QED BY <4>4, <4>6 DEF CallInv
    <3> QED BY <3>1, <3>2
  <2> QED BY <1>8, <2>2, <2>3, OneCall
<1> QED BY <1>1, <1>9, <1>10

LEMMA DeleteShardsStep ==
    ASSUME FleetInv, OneAtATime, NEW a \in Actor, DeleteShards(a) PROVE FleetInv'
<1>0. /\ Disk /\ call[a] \in Call /\ CopyFresh(call[a]) /\ Driven(call[a])
      /\ told \in [DB -> Height] /\ keys \in [DB -> Config] /\ \A e \in DB : Placed(e)
      /\ tip \in 0..MaxTip
  BY OldCall DEF Disk
<1>1. /\ shard' = [k \in Key |-> Absent]
      /\ told' = [d \in DB |-> IF is_fleet_member(keys[d]) THEN Absent ELSE told[d]]
      /\ UNCHANGED <<keys, manifest, own, default_on, tip, crashes>>
  BY DEF DeleteShards
<1>2. PICK c : call' = [call EXCEPT ![a] = c] /\ Moved(call[a], c, "row")
  <2>1. Goto(a, "row") /\ "row" \in Steps
    BY DEF DeleteShards, Steps, WithCopy
  <2> QED BY <2>1, GotoFacts, Zenon
<1>3. ASSUME NEW d \in DB PROVE Placed(d)'
  <2>1. Placed(d) /\ keys[d] \in Config
    BY <1>0
  <2>2. told'[d] <= ReadHeight(d)'
    <3>1. CASE is_fleet_member(keys[d])
      <4>1. told'[d] = Absent /\ ReadHeight(d)' = Absent
        BY <1>1, <2>1, <3>1 DEF ReadHeight, Config
      <4> QED BY <4>1 DEF Absent
    <3>2. CASE ~is_fleet_member(keys[d])
      BY <1>1, <2>1, <3>2 DEF ReadHeight, Placed
    <3> QED BY <3>1, <3>2
  <2> QED BY <1>1, <2>1, <2>2 DEF Placed, Exists
<1>4. Disk'
  <2>1. /\ shard' \in [Key -> Height] /\ told' \in [DB -> Height]
        /\ \A k \in Key : shard'[k] <= tip
    BY <1>0, <1>1, Nothing, BoundAssumption DEF Absent
  <2> QED BY <1>0, <1>1, <1>3, <2>1 DEF Disk
<1>5. /\ c \in Call /\ c.pc = "row" /\ c.shard = Absent /\ (c.node => c.db \in DB)
  BY <1>0, <1>2 DEF Moved, DeleteShards, At, Driven, CopyFresh
<1>6. CallInv(c)'
  BY <1>5 DEF CallInv, CopyFresh, InPlace, Driven, WithCopy
<1> QED BY <1>2, <1>4, <1>5, <1>6, OneCall

\* Everything else that goes on leaves the commands where they are.
LEMMA WorldStep ==
    ASSUME FleetInv, OneAtATime,
           \/ \E d \in DB : NodeImport(d)
           \/ \E k \in Key : NodeScan(k)
           \/ set_fleet_default
           \/ NewBlock
    PROVE  FleetInv'
<1>0. /\ Disk /\ shard \in [Key -> Height] /\ told \in [DB -> Height] /\ tip \in 0..MaxTip
      /\ manifest \in [DB -> Key \cup {NoKey}] /\ default_on \in BOOLEAN
      /\ \A d \in DB : Placed(d)
      /\ \A k \in Key : shard[k] <= tip
      /\ \A k \in Key : shard[k] \in Int
  <2>1. Disk
    BY FleetParts
  <2> QED BY <2>1, BoundAssumption DEF Disk, Height, Absent
<1>1. UNCHANGED <<keys, manifest, own, call, crashes, told>>
  BY DEF NodeImport, NodeScan, set_fleet_default, NewBlock
<1>2. /\ shard' \in [Key -> Height] /\ tip <= tip' /\ tip' \in 0..MaxTip
      /\ default_on' \in BOOLEAN
      /\ \A k \in Key : shard[k] <= shard'[k] /\ shard'[k] <= tip'
  <2>1. CASE \E d \in DB : NodeImport(d)
    <3>1. PICK k \in Key : /\ shard[k] = Absent /\ shard' = [shard EXCEPT ![k] = 0]
                           /\ UNCHANGED <<default_on, tip>>
      BY <1>0, <2>1 DEF NodeImport
    <3> QED BY <1>0, <3>1, BoundAssumption DEF Height, Absent
  <2>2. CASE \E k \in Key : NodeScan(k)
    <3>1. PICK k \in Key : /\ shard[k] < tip /\ shard' = [shard EXCEPT ![k] = shard[k] + 1]
                           /\ UNCHANGED <<default_on, tip>>
      BY <2>2 DEF NodeScan
    <3>2. shard[k] + 1 \in Height /\ shard[k] + 1 <= tip /\ shard[k] <= shard[k] + 1
      BY <1>0, <3>1, BoundAssumption DEF Height, Absent
    <3>3. tip <= tip /\ \A l \in Key : shard[l] <= shard[l]
      BY <1>0, BoundAssumption
    <3> QED BY <1>0, <3>1, <3>2, <3>3
  <2>3. CASE set_fleet_default
    BY <1>0, <2>3, BoundAssumption DEF set_fleet_default
  <2>4. CASE NewBlock
    <3>1. shard' = shard /\ tip' = tip + 1 /\ tip < MaxTip /\ default_on' = default_on
      BY <2>4 DEF NewBlock
    <3>2. tip' \in 0..MaxTip /\ tip <= tip'
      BY <1>0, <3>1, BoundAssumption
    <3>3. \A k \in Key : shard[k] <= shard[k] /\ shard[k] <= tip'
      BY <1>0, <3>1, BoundAssumption
    <3> QED BY <1>0, <3>1, <3>2, <3>3
  <2> QED BY <2>1, <2>2, <2>3, <2>4
<1>3. ASSUME NEW d \in DB PROVE Placed(d)'
  <2>1. Placed(d) /\ keys[d] \in Config /\ own[d] \in Height
    BY <1>0 DEF Disk
  <2>2. told[d] <= ReadHeight(d)'
    <3>1. CASE ~is_fleet_member(keys[d]) \/ keys[d].ufvk = NoKey
      BY <1>1, <2>1, <3>1 DEF Placed, ReadHeight
    <3>2. CASE is_fleet_member(keys[d]) /\ keys[d].ufvk # NoKey
      <4>1. PICK k \in Key : k = keys[d].ufvk
        BY <2>1, <3>2 DEF Config
      <4>2. told[d] <= shard[k] /\ ReadHeight(d)' = shard'[k]
        BY <1>1, <2>1, <3>2, <4>1 DEF Placed, ReadHeight
      <4>3. told[d] \in Int /\ shard[k] \in Int /\ shard'[k] \in Int
        BY <1>0, <1>2, BoundAssumption DEF Height, Absent
      <4> QED BY <1>2, <4>2, <4>3
    <3> QED BY <3>1, <3>2
  <2>3. own[d] <= tip'
    <3>1. own[d] <= tip /\ own[d] \in Int
      BY <2>1, BoundAssumption DEF Placed, Height, Absent
    <3>2. tip \in Int /\ tip' \in Int /\ tip <= tip'
      BY <1>0, <1>2, BoundAssumption
    <3> QED BY <3>1, <3>2
  <2> QED BY <1>1, <2>1, <2>2, <2>3 DEF Placed, Exists
<1>4. Disk'
  BY <1>0, <1>1, <1>2, <1>3 DEF Disk
<1>5. /\ call' \in [Actor -> Call]
      /\ (\A a \in Actor : CopyFresh(call[a]) /\ InPlace(call[a]) /\ Driven(call[a]))'
  <2>1. /\ call \in [Actor -> Call]
        /\ \A a \in Actor : CopyFresh(call[a]) /\ InPlace(call[a]) /\ Driven(call[a])
    BY OldCall, FleetParts DEF CallInv
  <2>2. ASSUME NEW a \in Actor
        PROVE  CopyFresh(call[a])' /\ InPlace(call[a])'
    BY <1>1, <2>1 DEF CopyFresh, InPlace, Exists
  <2>3. ASSUME NEW a \in Actor PROVE Driven(call[a])'
    <3>1. ASSUME call[a].shard # Absent, NEW k \in Addresses[call[a].db]
          PROVE  call[a].shard <= shard'[k]
      <4>1. call[a] \in Call /\ Driven(call[a]) /\ CopyFresh(call[a])
        BY <2>1
      <4>2. call[a].db \in DB
        BY <3>1, <4>1 DEF Driven, CopyFresh, WithCopy
      <4>3. k \in Key
        BY <4>2, KeyAssumption
      <4>4. call[a].shard <= shard[k] /\ shard[k] <= shard'[k]
        BY <1>2, <3>1, <4>1, <4>3 DEF Driven
      <4>5. call[a].shard \in Int /\ shard[k] \in Int /\ shard'[k] \in Int
        BY <1>0, <1>2, <4>1, <4>3, BoundAssumption DEF Call, Height, Absent
      <4> QED BY <4>4, <4>5
    <3> QED BY <1>1, <2>1, <3>1 DEF Driven
  <2> QED BY <1>1, <2>1, <2>2, <2>3
<1> QED BY <1>1, <1>4, <1>5 DEF FleetInv, TypeOK, Disk

LEMMA FleetInit == ASSUME Init PROVE FleetInv
<1>1. /\ keys \in [DB -> Config] /\ manifest \in [DB -> Key \cup {NoKey}]
      /\ own \in [DB -> Height] /\ told \in [DB -> Height] /\ shard \in [Key -> Height]
      /\ default_on \in BOOLEAN /\ tip = 0 /\ crashes = 0
      /\ manifest = [d \in DB |-> NoKey] /\ told = [d \in DB |-> Absent]
      /\ own = [d \in DB |-> IF Exists(d) THEN 0 ELSE Absent]
      /\ shard = [k \in Key |-> Absent] /\ call = [a \in Actor |-> Idle]
  <2>1. 0 \in Height /\ Absent \in Height
    BY BoundAssumption DEF Height, Absent
  <2>2. {NoConfig} \cup UNION {Legacy(k) : k \in Key} \subseteq Config
    <3>1. ASSUME NEW k \in Key, NEW c \in Legacy(k) PROVE c \in Config
      <4>1. PICK u \in {k, NoKey} :
                c = [engine |-> "Unset", ufvk |-> u, address |-> k, shard |-> FALSE]
        BY <3>1 DEF Legacy
      <4> QED BY <4>1 DEF Config
    <3> QED BY <3>1, Nothing
  <2> QED BY <2>1, <2>2 DEF Init
<1>2. ASSUME NEW d \in DB PROVE Placed(d)
  <2>1. keys[d] = NoConfig \/ \E k \in Key : keys[d] \in Legacy(k)
    BY DEF Init
  <2>2. Exists(d) => keys[d].address \in Addresses[d]
    BY DEF Init
  <2>3. /\ keys[d].ufvk \in {NoKey, keys[d].address} /\ keys[d].engine \in {"Absent", "Unset"}
        /\ ~Exists(d) => keys[d] = NoConfig
    BY <2>1 DEF Legacy, NoConfig, Exists
  <2>4. told[d] <= ReadHeight(d) /\ own[d] <= tip
    BY <1>1, <2>3 DEF ReadHeight, is_fleet_member, Absent
  <2> QED BY <1>1, <2>2, <2>3, <2>4 DEF Placed, Exists, is_standalone
<1>3. Disk
  <2>1. \A k \in Key : shard[k] <= tip
    BY <1>1 DEF Absent
  <2>2. tip \in 0..MaxTip /\ crashes \in 0..MaxCrashes
    BY <1>1, BoundAssumption
  <2> QED BY <1>1, <1>2, <2>1, <2>2 DEF Disk
<1>4. call \in [Actor -> Call] /\ \A a \in Actor : CallInv(call[a])
  BY <1>1, IdleCall
<1> QED BY <1>3, <1>4, FleetParts

LEMMA FleetStuttering == ASSUME FleetInv, UNCHANGED vars PROVE FleetInv'
<1>1. Disk' /\ call' = call
  <2>1. Disk
    BY FleetParts
  <2> QED BY <2>1, SameDisk DEF vars, Disk
<1>2. (\A a \in Actor : CopyFresh(call[a]) /\ InPlace(call[a]) /\ Driven(call[a]))'
  BY DEF FleetInv, vars, CopyFresh, InPlace, Driven, Exists
<1>3. call' \in [Actor -> Call]
  BY <1>1, FleetParts
<1> QED BY <1>1, <1>2, <1>3 DEF FleetInv, TypeOK, Disk

LEMMA FleetStep == ASSUME FleetInv, OneAtATime, Next PROVE FleetInv'
<1>1. ASSUME NEW a \in Actor, Start(a) PROVE FleetInv'
  BY <1>1, StartStep, RebuildStep
<1>2. ASSUME NEW a \in Actor, Continue(a) PROVE FleetInv'
  BY <1>2, PinStep, ManifestStep, SetPendingStep, LookStep, CacheShardStep, SetFleetStep,
     DiscardStep, SetOwnStep, WipeStep, RebootstrapStep, DeleteShardsStep, ForgetShardStep,
     CreateStep, CreateFilesStep, RemoveDirectoryStep
  DEF Continue
<1>3. ASSUME NEW a \in Actor, Answer(a) PROVE FleetInv'
  BY <1>3, SkipSyncStep, SyncOwnStep, SyncMemberStep, LookStep DEF Answer
<1>4. ASSUME NEW a \in Actor, Crash(a) \/ OwnNodeScan(a) PROVE FleetInv'
  BY <1>4, LookStep, OwnNodeScanStep
<1> QED BY <1>1, <1>2, <1>3, <1>4, WorldStep DEF Next

\* One process at a time, killed anywhere, keeps the four places a database lives in together.
THEOREM FleetHolds == ASSUME OneAtATime PROVE Spec => []FleetInv
<1>1. Init => FleetInv
  BY FleetInit
<1>2. FleetInv /\ [Next]_vars => FleetInv'
  BY FleetStep, FleetStuttering
<1> QED BY <1>1, <1>2, PTL DEF Spec

\* Moving a database to a shard does not take its reads back in time: what read_sync and
\* drive_pending_fleet have reported is in the files the next read opens.
THEOREM NeverTakenBack == ASSUME OneAtATime PROVE Spec => []NeverBehindReport
<1>1. FleetInv => NeverBehindReport
  <2>1. ASSUME FleetInv, NEW d \in DB PROVE ReadHeight(d) >= told[d]
    <3>1. Disk
      BY <2>1, FleetParts
    <3>2. ReadHeight(d) \in Int /\ told[d] \in Int /\ told[d] <= ReadHeight(d)
      BY <3>1, CopyHeights, BoundAssumption DEF Height, Absent
    <3> QED BY <3>2
  <2> QED BY <2>1 DEF NeverBehindReport, FleetInv
<1> QED BY <1>1, FleetHolds, PTL

\* What a rewrite of keys.toml from a copy leaves as it was.
LEMMA RewritesKeep ==
    ASSUME FleetInv, NEW a \in Actor,
           PinUfvk(a) \/ SetPending(a) \/ Adopt(a) \/ CacheShard(a) \/ ForgetShard(a)
    PROVE  \E d \in DB : \E f \in Config :
              /\ keys' = [keys EXCEPT ![d] = f] /\ UNCHANGED <<own, shard>> /\ f.engine # "Absent"
              /\ is_fleet_member(keys[d]) => is_fleet_member(f) /\ f.ufvk = keys[d].ufvk
              /\ ~is_fleet_member(keys[d]) => ~is_fleet_member(f)
              /\ keys[d].engine = "Own" /\ f.engine # "Own" => call[a].cmd = "join"
<1>0. /\ Disk /\ CopyFresh(call[a]) /\ InPlace(call[a])
  BY OldCall
<1>p. call[a].pc \in {"pin", "pending", "adopt", "cache", "rowhint"}
  BY DEF PinUfvk, SetPending, Adopt, CacheShard, ForgetShard, At
<1> PICK d : d = call[a].db
  OBVIOUS
<1>1. /\ d \in DB /\ Exists(d) /\ call[a].cfg = keys[d] /\ keys[d] \in Config /\ keys[d].address \in Key
  BY <1>0, <1>p, CopyFacts DEF WithCopy
<1>2. UNCHANGED <<own, shard>>
  BY DEF PinUfvk, SetPending, Adopt, CacheShard, ForgetShard
<1>3. CASE PinUfvk(a) \/ Adopt(a)
  <2>1. PICK f : f = [keys[d] EXCEPT !.ufvk = keys[d].address]
    OBVIOUS
  <2>2. f \in Config /\ f.engine = keys[d].engine /\ ~is_fleet_member(keys[d])
    BY <1>0, <1>1, <1>3, <2>1 DEF Config, PinUfvk, Adopt, At, InPlace, is_standalone, is_fleet_member
  <2>3. keys' = [keys EXCEPT ![d] = f]
    BY <1>1, <1>3, <2>1 DEF PinUfvk, Adopt, Rewrite
  <2> QED BY <1>1, <1>2, <2>2, <2>3 DEF Exists, is_fleet_member
<1>4. CASE SetPending(a)
  <2>1. PICK f : f = set_engine(keys[d], "FleetPending")
    OBVIOUS
  <2>2. f \in Config /\ f.engine = "FleetPending"
    BY <1>1, <2>1, EngineSet
  <2>3. is_standalone(keys[d]) /\ (keys[d].engine = "Own" => call[a].cmd = "join")
    BY <1>0, <1>1, <1>4 DEF SetPending, At, InPlace
  <2>4. keys' = [keys EXCEPT ![d] = f]
    BY <1>1, <1>4, <2>1 DEF SetPending
  <2> QED BY <1>1, <1>2, <2>2, <2>3, <2>4 DEF is_standalone, is_fleet_member
<1>5. CASE CacheShard(a) \/ ForgetShard(a)
  <2>1. PICK f : /\ f \in {[keys[d] EXCEPT !.shard = TRUE], [keys[d] EXCEPT !.shard = FALSE], keys[d]}
                 /\ keys' = [keys EXCEPT ![d] = f]
    BY <1>1, <1>5 DEF CacheShard, ForgetShard
  <2>2. f \in Config /\ f.engine = keys[d].engine /\ f.ufvk = keys[d].ufvk
    BY <1>1, <2>1, HintSet
  <2> QED BY <1>1, <1>2, <2>1, <2>2 DEF Exists, is_fleet_member
<1> QED BY <1>3, <1>4, <1>5

\* Same files for the same keys.toml.
LEMMA SameReads ==
    ASSUME NEW d \in DB, Readable(d), keys'[d].engine # "Absent",
           is_fleet_member(keys[d]) =>
               /\ is_fleet_member(keys'[d]) /\ keys'[d].ufvk = keys[d].ufvk
               /\ keys[d].ufvk # NoKey => shard'[keys[d].ufvk] # Absent,
           ~is_fleet_member(keys[d]) => ~is_fleet_member(keys'[d]) /\ own'[d] # Absent
    PROVE  Readable(d)'
BY DEF Readable, Exists, ReadHeight

LEMMA ReadableStep ==
    ASSUME FleetInv, OneAtATime, Next, NEW d \in DB, Readable(d)
    PROVE  Readable(d)' \/ \E a \in Actor : GivesUpFiles(a)
<1>0. /\ Disk /\ keys \in [DB -> Config] /\ own \in [DB -> Height] /\ shard \in [Key -> Height]
      /\ tip \in Int /\ tip # Absent /\ keys[d] \in Config
  <2>1. Disk
    BY FleetParts
  <2> QED BY <2>1, BoundAssumption DEF Disk, Absent
<1>1. /\ keys[d].engine # "Absent"
      /\ is_fleet_member(keys[d]) => keys[d].ufvk \in Key /\ shard[keys[d].ufvk] # Absent
      /\ ~is_fleet_member(keys[d]) => own[d] # Absent
  BY <1>0 DEF Readable, Exists, ReadHeight, Config
<1>2. ASSUME UNCHANGED <<keys, own, shard>> PROVE Readable(d)'
  BY <1>2 DEF Readable, Exists, ReadHeight
<1>3. ASSUME NEW e \in DB, NEW f \in Config, keys' = [keys EXCEPT ![e] = f], UNCHANGED <<own, shard>>,
             f.engine # "Absent",
             is_fleet_member(keys[e]) => is_fleet_member(f) /\ f.ufvk = keys[e].ufvk,
             ~is_fleet_member(keys[e]) => ~is_fleet_member(f)
      PROVE  Readable(d)'
  BY <1>0, <1>1, <1>3, SameReads
<1>4. ASSUME NEW e, NEW h, own' = [own EXCEPT ![e] = h], UNCHANGED <<keys, shard>>,
             h # Absent \/ (e \in DB /\ is_fleet_member(keys[e]))
      PROVE  Readable(d)'
  <2>1. ~is_fleet_member(keys[d]) => own'[d] # Absent
    BY <1>0, <1>1, <1>4
  <2> QED BY <1>0, <1>1, <1>4, <2>1, SameReads
<1>5. ASSUME NEW k \in Key, NEW h, shard' = [shard EXCEPT ![k] = h], h # Absent, UNCHANGED <<keys, own>>
      PROVE  Readable(d)'
  BY <1>0, <1>1, <1>5, SameReads
<1>6. ASSUME NEW a \in Actor, Start(a) PROVE Readable(d)'
  <2>1. CASE Rebuild(a)
    <3>1. /\ keys' = [e \in DB |-> IF Located(keys[e]) THEN [keys[e] EXCEPT !.shard = TRUE] ELSE keys[e]]
          /\ UNCHANGED <<own, shard>>
      BY <2>1 DEF Rebuild
    <3>2. keys'[d].engine = keys[d].engine /\ keys'[d].ufvk = keys[d].ufvk
      BY <1>0, <3>1, HintSet
    <3> QED BY <1>1, <3>1, <3>2, SameReads DEF is_fleet_member
  <2>2. CASE ~Rebuild(a)
    <3>1. UNCHANGED <<keys, own, shard>>
      BY <1>6, <2>2 DEF Start, Open, Join, Sync, Migrate, Locate, Leave, Resync, Remove, Watch
    <3> QED BY <1>2, <3>1
  <2> QED BY <2>1, <2>2
<1>7. ASSUME NEW a \in Actor, Continue(a), ~GivesUpFiles(a) PROVE Readable(d)'
  <2>0. /\ CopyFresh(call[a]) /\ InPlace(call[a])
    BY OldCall
  <2>1. CASE PinUfvk(a) \/ SetPending(a) \/ Adopt(a) \/ CacheShard(a) \/ ForgetShard(a)
    BY <1>3, <2>1, RewritesKeep
  <2>2. CASE \/ WriteManifest(a) \/ OpenEngine(a) \/ ReadForFlip(a) \/ RemoveManifest(a)
             \/ NextRow(a) \/ ClearRow(a) \/ WriteRow(a) \/ CreateManifest(a)
    <3>1. UNCHANGED <<keys, own, shard>>
      BY <2>2 DEF WriteManifest, OpenEngine, ReadForFlip, RemoveManifest, NextRow, ClearRow, WriteRow,
                  CreateManifest
    <3> QED BY <1>2, <3>1
  <2>3. CASE SetFleet(a)
    <3>0. PICK e : e = call[a].db
      OBVIOUS
    <3>1. /\ e \in DB /\ Exists(e) /\ call[a].cfg = keys[e] /\ keys[e].ufvk \in Key /\ keys[e].ufvk # NoKey
          /\ shard[keys[e].ufvk] # Absent
      BY <2>3, <3>0, FlipReaches DEF SetFleet
    <3>2. PICK f : f = set_engine(keys[e], "Fleet")
      OBVIOUS
    <3>3. f.engine = "Fleet" /\ f.ufvk = keys[e].ufvk
      BY <1>0, <3>1, <3>2, EngineSet
    <3>4. keys' = [keys EXCEPT ![e] = f] /\ UNCHANGED <<own, shard>>
      BY <2>3, <3>0, <3>1, <3>2 DEF SetFleet, Rewrite
    <3>5. CASE d = e
      <4>1. keys'[d] = f
        BY <1>0, <3>4, <3>5
      <4> QED BY <3>1, <3>3, <3>4, <3>5, <4>1 DEF Readable, Exists, ReadHeight, is_fleet_member
    <3>6. CASE d # e
      <4>1. keys'[d] = keys[d]
        BY <1>0, <3>4, <3>6
      <4> QED BY <3>4, <4>1 DEF Readable, Exists, ReadHeight
    <3> QED BY <3>5, <3>6
  <2>4. CASE Discard(a)
    <3>1. call[a].db \in DB /\ is_fleet_member(keys[call[a].db])
      BY <1>0, <2>0, <2>4, CopyFacts DEF Discard, At, WithCopy, InPlace
    <3>2. PICK h : own' = [own EXCEPT ![call[a].db] = h] /\ UNCHANGED <<keys, shard>>
      BY <2>4 DEF Discard
    <3> QED BY <1>4, <3>1, <3>2
  <2>5. CASE Rebootstrap(a)
    <3>1. CASE UNCHANGED own
      BY <1>2, <2>5, <3>1 DEF Rebootstrap
    <3>2. CASE ~UNCHANGED own
      <4>1. own' = [own EXCEPT ![call[a].db] = 0] /\ UNCHANGED <<keys, shard>> /\ 0 # Absent
        BY <2>5, <3>2 DEF Rebootstrap, Absent
      <4> QED BY <1>4, <4>1
    <3> QED BY <3>1, <3>2
  <2>6. CASE CreateFiles(a)
    <3>1. CASE is_fleet_member(keys[call[a].db])
      <4>1. UNCHANGED <<keys, own, shard>>
        BY <1>0, <2>6, <3>1 DEF CreateFiles
      <4> QED BY <1>2, <4>1
    <3>2. CASE ~is_fleet_member(keys[call[a].db])
      <4>1. own' = [own EXCEPT ![call[a].db] = 0] /\ UNCHANGED <<keys, shard>> /\ 0 # Absent
        BY <2>6, <3>2 DEF CreateFiles, Absent
      <4> QED BY <1>4, <4>1
    <3> QED BY <3>1, <3>2
  <2>7. CASE Create(a)
    <3>1. CASE UNCHANGED keys
      BY <1>2, <2>7, <3>1 DEF Create
    <3>2. CASE ~UNCHANGED keys
      <4>1. ~Exists(call[a].db) /\ keys' = [keys EXCEPT ![call[a].db] = call[a].cfg] /\ UNCHANGED <<own, shard>>
        BY <2>7, <3>2 DEF Create
      <4>2. keys'[d] = keys[d]
        BY <1>0, <1>1, <4>1 DEF Exists
      <4> QED BY <4>1, <4>2 DEF Readable, Exists, ReadHeight
    <3> QED BY <3>1, <3>2
  <2> QED BY <1>7, <2>1, <2>2, <2>3, <2>4, <2>5, <2>6, <2>7 DEF Continue, GivesUpFiles
<1>8. ASSUME NEW a \in Actor, Answer(a) \/ Crash(a) \/ OwnNodeScan(a) PROVE Readable(d)'
  <2>1. CASE SkipSync(a) \/ SyncFails(a) \/ Crash(a)
    <3>1. UNCHANGED <<keys, own, shard>>
      BY <2>1 DEF SkipSync, SyncFails, Crash
    <3> QED BY <1>2, <3>1
  <2>2. CASE SyncOwn(a)
    <3>1. own' = [own EXCEPT ![call[a].db] = tip] /\ UNCHANGED <<keys, shard>>
      BY <2>2 DEF SyncOwn
    <3> QED BY <1>0, <1>4, <3>1
  <2>3. CASE SyncMember(a)
    <3>1. /\ CopyFresh(call[a]) /\ manifest \in [DB -> Key \cup {NoKey}]
      BY <1>0, OldCall DEF Disk
    <3>2. call[a].db \in DB /\ manifest[call[a].db] # NoKey /\ shard[manifest[call[a].db]] # Absent
      BY <2>3, <3>1 DEF SyncMember, CopyFresh, WithCopy
    <3>3. PICK h \in {shard[manifest[call[a].db]], tip} :
              shard' = [shard EXCEPT ![manifest[call[a].db]] = h] /\ UNCHANGED <<keys, own>>
      BY <2>3 DEF SyncMember
    <3> QED BY <1>0, <1>5, <3>1, <3>2, <3>3
  <2>4. CASE OwnNodeScan(a)
    <3>0. PICK e : e = call[a].db
      OBVIOUS
    <3>1. /\ own' = [own EXCEPT ![e] = own[e] + 1] /\ UNCHANGED <<keys, shard>>
          /\ e \in DB
      BY <2>4, <3>0, OldCall DEF OwnNodeScan, CopyFresh
    <3>2. own[e] + 1 # Absent
      BY <1>0, <2>4, <3>0, <3>1, BoundAssumption DEF OwnNodeScan, Height, Absent
    <3> QED BY <1>4, <3>1, <3>2
  <2> QED BY <1>8, <2>1, <2>2, <2>3, <2>4 DEF Answer
<1>9. CASE \E e \in DB : NodeImport(e)
  <2>1. PICK e \in DB : NodeImport(e)
    BY <1>9
  <2>2. manifest[e] \in Key /\ shard' = [shard EXCEPT ![manifest[e]] = 0] /\ UNCHANGED <<keys, own>> /\ 0 # Absent
    BY <1>0, <2>1 DEF NodeImport, Disk, Absent
  <2> QED BY <1>5, <2>2
<1>10. CASE \E k \in Key : NodeScan(k)
  <2>1. PICK k \in Key : shard' = [shard EXCEPT ![k] = shard[k] + 1] /\ UNCHANGED <<keys, own>>
                         /\ shard[k] # Absent
    BY <1>10 DEF NodeScan
  <2>2. shard[k] + 1 # Absent
    BY <1>0, <2>1, BoundAssumption DEF Height, Absent
  <2> QED BY <1>5, <2>1, <2>2
<1>11. CASE set_fleet_default \/ NewBlock
  BY <1>2, <1>11 DEF set_fleet_default, NewBlock
<1> QED BY <1>6, <1>7, <1>8, <1>9, <1>10, <1>11 DEF Next

\* Enrolment and conversion never leave a database that nobody can read, wherever a process
\* is killed: only leave, rebuild and removal take files away.
THEOREM StaysReadable == ASSUME OneAtATime PROVE Spec => NeverDark
<1>1. FleetInv /\ [Next]_vars
      => [\A d \in DB : Readable(d) => Readable(d)' \/ \E a \in Actor : GivesUpFiles(a)]_vars
  BY ReadableStep
<1> QED BY <1>1, FleetHolds, PTL DEF Spec, NeverDark

LEMMA DecisionStep ==
    ASSUME FleetInv, OneAtATime, Next, NEW d \in DB, keys[d].engine = "Own", keys'[d].engine # "Own"
    PROVE  \E a \in Actor : call[a].cmd \in {"join", "remove"}
<1>0. Disk /\ keys \in [DB -> Config]
  BY FleetParts DEF Disk
<1>1. keys' # keys
  OBVIOUS
<1>2. PICK a \in Actor :
          \/ PinUfvk(a) \/ SetPending(a) \/ Adopt(a) \/ CacheShard(a) \/ ForgetShard(a)
          \/ SetFleet(a) \/ SetOwn(a) \/ Create(a) \/ RemoveDirectory(a) \/ Rebuild(a)
  <2>1. ASSUME NEW a \in Actor, Start(a) PROVE Rebuild(a)
    BY <1>1, <2>1 DEF Start, Open, Join, Sync, Migrate, Locate, Leave, Resync, Remove, Watch
  <2>2. ASSUME NEW a \in Actor, Continue(a)
        PROVE  \/ PinUfvk(a) \/ SetPending(a) \/ Adopt(a) \/ CacheShard(a) \/ ForgetShard(a)
               \/ SetFleet(a) \/ SetOwn(a) \/ Create(a) \/ RemoveDirectory(a)
    BY <1>1, <2>2 DEF Continue, WriteManifest, OpenEngine, ReadForFlip, Discard, RemoveManifest, Wipe,
                      Rebootstrap, DeleteShards, NextRow, ClearRow, WriteRow, CreateManifest, CreateFiles
  <2>3. ASSUME NEW a \in Actor, Answer(a) \/ Crash(a) \/ OwnNodeScan(a) PROVE FALSE
    BY <1>1, <2>3 DEF Answer, SkipSync, SyncOwn, SyncMember, SyncFails, Crash, OwnNodeScan
  <2>4. ASSUME \/ \E e \in DB : NodeImport(e)
               \/ \E k \in Key : NodeScan(k)
               \/ set_fleet_default
               \/ NewBlock
        PROVE  FALSE
    BY <1>1, <2>4 DEF NodeImport, NodeScan, set_fleet_default, NewBlock
  <2> QED BY <2>1, <2>2, <2>3, <2>4 DEF Next
<1>3. CASE PinUfvk(a) \/ SetPending(a) \/ Adopt(a) \/ CacheShard(a) \/ ForgetShard(a)
  <2>1. PICK e \in DB, f \in Config :
            /\ keys' = [keys EXCEPT ![e] = f]
            /\ keys[e].engine = "Own" /\ f.engine # "Own" => call[a].cmd = "join"
    BY <1>3, RewritesKeep
  <2> QED BY <1>0, <2>1
<1>4. CASE SetFleet(a)
  <2>1. call[a].db \in DB /\ Exists(call[a].db) /\ keys[call[a].db].engine = "FleetPending"
    BY <1>4, FlipReaches DEF SetFleet
  <2>2. PICK f : keys' = [keys EXCEPT ![call[a].db] = f]
    BY <1>4, <2>1 DEF SetFleet, Rewrite
  <2> QED BY <1>0, <2>1, <2>2
<1>5. CASE SetOwn(a)
  <2>0. PICK e : e = call[a].db
    OBVIOUS
  <2>1. /\ e \in DB /\ Exists(e) /\ call[a].cfg \in Config
    BY <1>0, <1>5, <2>0, OldCall, CopyFacts DEF SetOwn, At, WithCopy
  <2>2. keys' = [keys EXCEPT ![e] = set_engine(call[a].cfg, "Own")]
    BY <1>5, <2>0, <2>1 DEF SetOwn
  <2>3. set_engine(call[a].cfg, "Own").engine = "Own"
    BY <2>1, EngineSet
  <2> QED BY <1>0, <2>2, <2>3
<1>6. CASE Create(a)
  <2>1. ~Exists(call[a].db) /\ keys' = [keys EXCEPT ![call[a].db] = call[a].cfg]
    BY <1>1, <1>6 DEF Create
  <2> QED BY <1>0, <2>1 DEF Exists
<1>7. CASE RemoveDirectory(a)
  <2>1. call[a].cmd = "remove"
    BY <1>7, OldCall DEF RemoveDirectory, At, InPlace
  <2> QED BY <2>1
<1>8. CASE Rebuild(a)
  <2>1. keys' = [e \in DB |-> IF Located(keys[e]) THEN [keys[e] EXCEPT !.shard = TRUE] ELSE keys[e]]
    BY <1>8 DEF Rebuild
  <2>2. keys'[d].engine = keys[d].engine
    BY <1>0, <2>1, HintSet
  <2> QED BY <2>2
<1> QED BY <1>2, <1>3, <1>4, <1>5, <1>6, <1>7, <1>8

\* A recorded decision against the shared scan is undone by join and removal alone: neither
\* enrolment on open nor a conversion under way writes over it.
THEOREM DecisionsStand == ASSUME OneAtATime PROVE Spec => DecisionRespected
<1>1. FleetInv /\ [Next]_vars
      => [\A d \in DB : keys[d].engine = "Own" /\ keys'[d].engine # "Own"
              => \E a \in Actor : call[a].cmd \in {"join", "remove"}]_vars
  BY DecisionStep
<1> QED BY <1>1, FleetHolds, PTL DEF Spec, DecisionRespected
=============================================================================
