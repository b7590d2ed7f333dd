# zkv in TLA+

zkv is a key-value store on the Zcash chain: a database is a sequence of signed
memos sent to one shielded address, and its state is what every reader computes
by replaying them. This directory models that computation and what is built
around it: the cache of the read path, the history, the write path, the sync
decisions and gates, the shared wallet engine and the move onto it, the data
directory, the init ceremony, the bounded client that keeps no wallet, what the GUI
shows, and the two oracles that publish by the clock. The modules are
model-checked on small instances (TLC), and the main safety properties of the protocol,
the cache, the history's pages, the sync decisions, the data directory, the init fee, the shared scan, the auto-sync
loop and the GUI's views are proved for every instance (TLAPS).

Paths below are relative to `src/crates/zkv/src/`.

## 1. The system

| Part | Source | State | Operations | Hard behaviour |
|---|---|---|---|---|
| protocol replay | `protocol/replay.rs`, `auth.rs`, `version.rs`, `types.rs` | `ReplayResult`: lifecycle, owner/writer registry, values, high-water sequences per key and target, epoch, pending queues | `classify`, `decide`, `seq_in_window`, `apply_confirmed`, `apply_in_memory`, `prune`, `replay_with_seed`, `verify_memo` | replayed, reordered and forged memos; owners removing each other; sealing |
| role views | `protocol/replay.rs` (`replay_audit`, `granted_roles`, `revoked_roles`) | rows derived from outcomes | fold per row | views drifting from the registry |
| snapshot cache, read path | `internal/state.rs`, `internal/snapshot.rs` | `zkv_state.sqlite`: promoted fold and watermark | `load_state_with_height`, `open`, `wipe`, `promote`, `load_seed` | scan out of chain order, late enhancement, rewinds, reorgs, concurrent readers, no transaction around the read |
| history | `internal/state.rs`, `internal/snapshot.rs`, `commands/history.rs`, `gui/engine.rs` | `kv_history`, the wallet's rows, `pending.toml` | `load_history_page`, `history_page`, `history_locate`, `history_count` | a write wanders between three sources while pages are cut |
| write path | `internal/write.rs`, `pending.rs`, `engine/ship.rs` | `pending.toml`, the wallet's unmined transactions | `do_write`, `do_write_many`, `do_manage`, `prepare*`, `ship`, `record_pending` | sequences picked from a read, nothing reserves them; lost and reordered transactions |
| read sync and gates | `internal/sync.rs`, `commands.rs`, `db.rs`, `gui/engine.rs` | wallet tip, scan ranges, enhancement backlog, the epoch in the snapshot | `read_sync`, `read_sync_skippable`, `wallet_synced_to_tip`, `gate_read`, `ensure_client_supported`, `blocksync_skip` | decisions from values read before a network round-trip; process killed between scan and enhancement; an epoch that changes meanwhile |
| wallet engine | `engine/node.rs`, `engine/fleet.rs` | registry of engines, slot and its async mutex, node handles, datadir lock | `Engine::node`, `start_node`, `sync_wallet`, `shutdown`, `shutdown_all` | lock contention with other processes; shutdown under running syncs |
| GUI auto-sync loop | `gui/engine.rs` | pause switches, cancel token, worker tasks, strikes, banners | `run_auto_sync`, `set_pause`, `set_pause_all` | pauses at any point of a cycle |
| fleet membership and conversion | `fleet.rs`, `commands/fleet.rs`, `config.rs`, `db.rs`, `data.rs`, `internal/recover.rs`, `engine/migrate.rs` | `keys.toml`, manifests, own wallet files, accounts in the shards | `enrol`, `drive_pending_fleet`, `flip_if_caught_up`, join, leave, rebuild, migrate, `init_watch`, `erase_wallet_state` | killed between two file operations; whole-file rewrites from stale copies by several processes |
| data directory | `config.rs`, `data.rs`, `db.rs`, `demo.rs`, `internal/recover.rs` | age identity, `keys.toml`, wallet files, `current`, the demo's marker | create, restore, watch, demo, rebuild, use, remove, forget | made file by file, across a network round-trip, by a terminal and the GUI at once |
| init ceremony | `commands/init.rs`, `gui/engine.rs` | the poll loop's variables, `pending.toml` | `poll_for_init`, `init`, the faucet | rebroadcast racing a late confirmation, answers lost |
| shallow client | `shallow/`, `commands/shallow.rs` | anchor cache, cursor | scan, find, poll, follow | no replay protection, a chain that moves between requests |
| GUI views, funding | `gui/engine.rs`, `internal/funding.rs`, `internal/send.rs` | summary cache, ledger, balance | `list_databases`, `funding`, `send_funds` | cached counts over a wallet that changes underneath |
| oracles | `../../zkv-oracle/`, `../../zkv-version-oracle/` | health counters; tags, writes in flight | `run_tick`, `reconcile`, the probe | retries, restarts, expired and reordered writes |
| memo format, signatures | `protocol/memo.rs`, `sign.rs`, `address.rs` | none | parse, render, sign, recover | |
| network, command line, GUI server | remaining files | connections | | |

How they interact. A read is `read_sync` (engine, or skipped) followed by
`load_state_with_height`, which folds the rows past the snapshot's watermark with
`replay_with_seed` and promotes the deep ones. A write is a read, `prepare`,
`Engine::ship`, `record_pending`. The engine's node fills the wallet database in
the background: it learns the tip, scans blocks newest first and then backfills,
and fetches full transactions (enhancement) in a separate pass. Reads take no
lock: the wallet database is in WAL mode with a busy timeout (`data.rs:587-605`)
so that a read runs beside a sync. The GUI loop calls the engine once per
unpaused database and cycle; its views poll the wallet's files without a lock.

What makes each part correct:
- replay: every reader computes the same state; a memo acts at most once; nobody
  acts without a grant; owners can neither lose control nor be locked out; a
  sealed database never changes; all of which a client may read off `ZkvStore`;
- cache and history: invisible; a page lists every write once with its verdict;
- writer: a client's own writes never knock each other out;
- sync and gates: a skipped scan is not noticed, a gate passes nothing that the
  chain it synced forbids;
- engine: a pause is never lost, no sync hangs, syncing resumes;
- fleet: a conversion never makes a database unreadable or older, and finishes;
- data directory: nothing is clobbered, files of a database fit together;
- init: one fee, and in the end an initialised database;
- shallow client: honest about its window; a follower misses and repeats nothing;
- GUI: what it shows adds up and catches up;
- oracles: publish again after any failure, and say so when they do not.

## 2. The modules

| Module | Models | State ↔ code |
|---|---|---|
| `ZkvProtocol` | the operators of replay: gate, window, effects, prune | `Database` is `ReplayResult` |
| `ZkvStore` | abstract: the map with a counter per key, owners, epoch and seal a client is promised | none; implemented by `ZkvReplay` |
| `ZkvReplay` | one replay pass over an arbitrary stream | `db` the result being folded, `phase` confirmed rows / confirming tail / done, `applied` and `pended` are histories |
| `ZkvRoles` | the audit's role views folded beside the registry | `held` = `granted_roles`, `revoked` = `revoked_roles` |
| `ZkvSnapshot` | chain, wallet, snapshot and readers, one database transaction per step | `snap` = `zkv_state.sqlite`, `reader[r]` the local variables of one call |
| `ZkvHistory` | the history and its pages over wallet rows, `pending.toml` and `kv_history` | `snap`, `recorded`, `page` the call in progress |
| `ZkvWriter` | write calls of one client, its unmined transactions, other writers | `toml` = `pending.toml`, `call[c]` one write call |
| `ZkvReadSync` | the skip rule, the sync barrier, the INIT gate, the epoch gates | `call` the command in progress |
| `ZkvEngine` | the shared engine and the GUI loop | `registry`, `slot`, `mutex`, `holders` (Arc handles of the node), `worker[m]` one task |
| `ZkvFleet` | watch-only databases on their way onto the shared scan and off it, one step per file operation | `keys[d]` = `keys.toml`, `manifest[d]` = `wallets.d/<d>.toml`, `own[d]` and `shard[k]` how far the wallet files and the account in a shard are scanned, `call[a]` one command with the copy of `keys.toml` it holds |
| `ZkvCatalog` | the data directory, file by file, with a terminal and a GUI | `dir[n]` the files of a name, `current`, `provisioned`, `call[c]` |
| `ZkvInit` | `zkv init`, the GUI's init and the faucet over an unreliable network | `cli` the poll loop, `record` = `pending.toml`, `indexed` what the wallet can read |
| `ZkvShallow` | the bounded client, one step per request | `client` options, anchor and cursor, `cache` = `shallow_init.toml`, `call` |
| `ZkvDashboard` | the GUI's sidebar, banner, balance and funding tab | `cache` = `summary_cache`, `strikes`, `banner`, `rows` the wallet's transactions |
| `ZkvOracle` | the price and the version oracle | `health` = `Health`, `flight` the writes sent, `todo` the reconcile loop |
| `MCZkv*` | small instances for TLC | |
| `ZkvProtocolProofs` | lemmas about the operators of replay: types, the fold over a sequence of rows | |
| `ZkvReplayProofs` (replay, role views, refinement of `ZkvStore`, history), `ZkvDatabaseProofs` (snapshot cache and write path), `ZkvReadSyncProofs`, `ZkvCatalogProofs`, `ZkvFleetProofs`, `ZkvClientProofs` (init ceremony and shallow client), `ZkvGuiProofs` (engine and dashboard) | theorems | |

`ZkvReplay`, `ZkvRoles`, `ZkvSnapshot`, `ZkvHistory`, `ZkvWriter`, `ZkvShallow` and
`ZkvOracle` all extend `ZkvProtocol`, so the fold that is proved about is the fold the
cache, the history, the writer and the oracle's database run, and the one the shallow client
is compared with. Every modelled definition is mapped to its lines in `PROJECT.json`. The
chain, the node library, other writers, servers and other processes are external: they
are modelled by what the code relies on and are otherwise free.

Abstractions.
- A memo is a record of op, key, value, sequence and the signer its signature
  recovers to. `NoSigner` stands for every memo that recovers to nobody. Targets
  are wire spellings, and `Canonical` is what parsing one yields, so that hex and
  bech32 spellings of one identity stay apart where the code keeps them apart.
- Sequences are naturals: `seq + 1` cannot overflow, because no sequence is
  honoured further than a window ahead of the high-water.
- In `ZkvSnapshot` one block carries one row, so the lexicographic watermark is a
  height; `ZkvHistory` has several transactions to a block and several outputs to a
  transaction, and takes the promoting read as one step. The wallet's own transactions
  need no enhancement.
- `Rewind` (a wallet truncated and scanned again on an unchanged chain) happens
  when a member with an older birthday joins a shard and when scanning detects a
  continuity error; see `engine/config.rs:147`.
- In `ZkvReadSync` a read is reduced to the set of heights it counts; what is folded
  from them is `ZkvSnapshot`'s subject.
- In `ZkvWriter`, `Serialized` says whether a lock is held from prepare to record (it
  is with the pre-broadcast sync and in the GUI; not with `--no-sync`). Shipping
  stores the transaction in the wallet before broadcasting it (`engine/ship.rs`), so
  both are one step. `RecordLost` covers a crash, a failed write and a concurrent
  rewrite of `pending.toml`.
- In `ZkvEngine` only one node can be alive, because it holds the datadir lock; it lives
  as long as anybody has a handle, exactly as the Arc does.
- In `ZkvFleet` a key stands for the viewing key and birthday of an address, the shards are
  one map from keys to heights, and a manifest is one key. Databases are watch-only and
  of one network; the name "default" and the `blocksync` directive are left out. `told`
  is a history: the greatest height a sync has reported of a database since its user last
  gave its files up. The facade's commands and the ones that bypass it (`zkv sync`, get,
  history, show, balance) are told apart, since only the former drive a conversion.
- In `ZkvCatalog` a call is a number, and what it encrypts is sealed by that number: two
  seals agree exactly when the identity file is the one the seed was wrapped under.
- In `ZkvInit` a transaction is an INIT and carries its payer and the note it spends; time is
  the number of polls. `lapses` counts, from the code's own view, when an INIT in flight went out of
  sight: that is when a second fee is the code's documented choice. A send that fails after the wallet has the
  transaction, or loses its record, is one when the memo is late, whoever sent it.
- In `ZkvShallow` a block holds at most one transaction of the database; decryption yields its
  memos. A reorganisation replaces the last blocks, also between two requests of a call.
- In `ZkvDashboard` a transaction has a kind (a payment in, a send, a self-send, a zkv write of
  ours or of others, a tip with a zkv memo, an INIT the faucet paid for), an amount and an expiry. A received memo is readable
  once it is fetched, a memo the wallet wrote from the moment the transaction is built (`sent_notes`).
- In `ZkvOracle` a unit of time is a retry pause; ages stop counting where no comparison can
  tell them apart.

## 3. The runs

| Run | Shows | Bounds | States |
|---|---|---|---|
| `replay` | `ReplayedMemoIsInert`, `LatestSequenceWins`, `RegistryManageable`, `AuthorityHasProvenance`, `OwnersCanAlwaysWrite`, `RolesViewSound`, `SealedForever`, `ImplementsStore` | window 1, sequences 0..4 for data and 0..1 for management, three identities, two confirming rows | 1,484,765 |
| `snapshot` | `SnapshotAgrees`, `ReadAgrees`, `NeverBuriesGenesis` | chain of 4, safe depth 1, reorg 1, rewinds of any depth, one unmined row, one reader, node idle during a read, kills inside `wipe` | 2,459,715 |
| `writer` | `NoSelfConflict`, `LastWriteWins` | three transactions, one lost, one foreign memo, window 16 | 800,713 |
| `readsync` | `ReadComplete`, `GatesHold` | chain of 3, min_confs 0..2, four kinds of epoch | 3,555,300 |
| `shallow` | `ReadsHonest`, `FollowExact`, `FollowDelivers` | chain of 5, three transactions, one reorganisation, one failed call | 853,164 |
| `history` | `HistoryAgrees`, `PagesRight`, `OwnWritesStay` | chain of 4, four transactions, two of them ours, one rewind | 841,633 |
| `engine` | `PausedIsCancelled`, `WorkersFinish`, `SyncResumes` | two members, two engines, one pause, both kinds of switch | 127,048 |
| `oracle` | `PriceOracleRecovers`, `HealthHonest`, `VersionsRight` | two attempts, interval 3, one outage, one lost write, two channels | 73,786 |
| `catalog` | `FilesAgree`, `NeverClobbered`, `NothingUnasked` | two names, two identities, four calls, one overlap, one kill | 2,065,089 |
| `init` | `PaysOnce`, `InitHappens` | two notes, three INITs, rebroadcast after 2 polls, three mishaps | 2,231,799 |
| `dashboard` | `FundingTabAgrees`, `WritesDontVanish`, `SidebarCatchesUp`, `BannerTracksFailures` | chain of 4, three transactions, one mishap, expiry 2 | 339,262 |
| `fleet` | `NeverBehindReport`, `NeverDark`, `DecisionRespected`, `ConversionFinishes` | one database, all commands, one at a time, two of them killed at any step; chain of 2 | 42,136 |

Each module's `TypeOK` (`HistoryTypeOK`, `EngineTypeOK`) is a conjunct of one of its properties. In `ZkvEngine` it says that
whoever is starting a node, and nobody else, holds its engine's mutex, and in `ZkvSnapshot`
that heights never leave the chain (the saturating subtraction of `promote_cutoff`).

Properties that name several: `RolesViewSound` (the granted rows are the registry's, and every
key once granted is granted or revoked), `ReadComplete` (a skip hides no block the read could confirm; a
synced read is complete), `GatesHold` (INIT gate; epochs), `ReadsHonest` (the anchor stands, the claimed range is
what was read, agreement with a full read or a warning, where the window can tell: `WindowTells`), `FollowExact` (nothing missed, repeated, out of order
or undone), `HistoryAgrees` (the audit's verdicts, an INIT not yet `MinConfs` deep apart; each write once, newest first), `PagesRight` (the slice asked for, a jump finds its page), `FilesAgree` (seeds decrypt,
wallets match), `NothingUnasked` (no double import, no demo after its removal), `PaysOnce` (one fee per INIT that
stays in sight, none for a database known to have its INIT), `FundingTabAgrees` (the ledger adds up, what is confirming
is listed), `HealthHonest` (stale is reported, no restart loop), `VersionsRight` (published in the end, not paid twice,
never back).

Why the bounds are enough.
- *Replay*. Each property relates at most two honoured memos and the rows between
  them; the streams are unbounded in length (only the sets of memos are finite).
  With window 1 there is a sequence below, at both ends of, and above the window from
  every high-water up to 3. The memos are split in four topics (data, registry,
  epochs, role views), one per behaviour, since folding all at once is out of reach: the
  registry and data share only roles, which the data topic changes by grants and
  the registry topic exercises in full. What the split could hide is covered by the
  proofs, which have no split.
- *Snapshot*. Depth 1 on a chain of 4 gives promoted rows, a tail, a gap below a
  promoted candidate and an unenhanced row at the same time. SAFE_DEPTH's value (100)
  only matters against the deepest reorg, so the bound is `MaxReorg <= SafeDepth`.
  `ReadsConverge` (reads reach the chain's state once the node has caught up, also from a
  snapshot an older build left) passes under `FairSpec` with `MaxReorg = MaxRewind = MaxUnmined = 0`
  and `MaxHeight = 3`.
- *Writer*. A conflict needs two live memos; three transactions add one lost or one
  mined between them. With `Serialized` only one call is ever in progress, so a second client
  identity would add only renamings. The window (16 here) is wider than any sequence
  the instance can reach: a client that loses more transactions in a row than the window
  absorbs is outside what `protocol/sign.rs:86-98` promises.
- *Read sync*. The tolerance is `min_confs - 1`; 2 is the least value at which a
  skipped read sits a block behind. Three blocks hold an INIT, an epoch and what follows it.
- *Shallow*. The window is 4, the first chunk 1 and the following ones 2, so a walk has several requests with a
  reorganisation between them; confirmations are 1 and 3, below and above the margin.
- *History*. Blocks hold several transactions and transactions several writes, so pages are cut inside
  a transaction; a rewind takes rows back out of the wallet that the snapshot keeps.
- *Engine*. Two members make every pair of tasks meet; two engines are the most
  that can be in use there after one pause has emptied the registry.
  `PausedIsCancelled` is proved for any number of pauses.
- *Oracle*. Two attempts are the least with a retry; the interval fits one retry but not two
  slow ones; the largest write age is larger than an interval, as the configuration demands.
- *Catalog*. Four calls: two that race, one that repairs and one that finds what is left. Calls of the GUI are
  interchangeable (symmetry). The properties' exceptions (`torn`, `crossed`, `late`, `stray`) name what the code does not
  protect; section 8 has a counterexample for each.
- *Init*. Two notes and three INITs allow a second and a third fee; three mishaps give every pair of them and a
  third that hits the recovery. A send that fails, is not recorded or shows its memo late is a mishap like a kill, a drop or a reorganisation.
- *Dashboard*. With confirmations 1 (trusted) and 2 (untrusted) and four blocks a payment passes every stage;
  an unmined write can expire within the chain. A database created again under the name sees the faucet's INIT and nothing else (`Room`).
- *Fleet*. Two kills are the most that matter in a row: one leaves a half-done command,
  the second interrupts its repair. Commands run one at a time, because with two
  processes `NeverBehindReport`, `DecisionRespected` and `ConvertingHasFiles` fail
  (section 8): the run shows that crashes alone do not break the order of file operations the
  code chose, and the counterexamples that concurrency does. One database is
  enough, since databases share only the shard map and their names: the safety properties also
  pass with `DB = {d1, d2}`, `Key = {k1, k2}`, `MaxTip = 1`, `MaxCrashes = 1` (two million states).
  A name is only given one address: with another one, a left-over manifest stops the
  second database from joining (`ManifestIsMine`, section 8).

Deadlock checking is off only where the system may stop: a replay pass ends (`replay`), a
client may have nothing left to write (`writer`, `history`), bounded calls are used up (`catalog`), the
chain ends and nobody asks any more (`shallow`, `dashboard`), everything is published (`oracle`) and a
database is initialised (`init`).

## 4. Fairness

- `ZkvSnapshot.FairSpec`: weak fairness of each reader's steps (straight-line code) and
  strong fairness of the node's tip, scan and enhancement steps. The node may not
  run during a read in that instance, so its steps are enabled again and again
  rather than continuously; a pass of the node precedes every read (`read_sync`).
  Nothing is assumed of the chain.
- `ZkvEngine.FairSpec`: weak fairness of the loop, of each worker's task, of the
  detached shutdown, of the second half of a pause call and of the node's imports:
  each is a task of the process. No fairness on buttons (`SetPause`, `Resume`), on the
  other process, or on new blocks. `WorkersFinish` holds although the other process
  may keep the lock for ever, because `start_node` has a deadline; a worker's start
  attempt is the disjunction of success and Busy.
- `ZkvFleet.Spec`: weak fairness of the steps a command takes by itself and of a sync being
  answered at all (straight-line code, bounded waits); weak fairness of the shared node's
  import and scan. The database is opened and synced again and again (strong fairness of
  `Open` and `Sync`: the GUI loop does so every cycle), and of infinitely many attempts some are
  answered with success (strong fairness of `OwnSucceeds` and `MemberSucceeds`: a slice of
  `FLEET_NUDGE` seconds suffices once the shard is at the tip). None on users, kills or blocks.
- `ZkvShallow.FairShallow`: weak fairness of the steps of a call, of the follower's next poll (a loop with a sleep)
  and of the chain growing. Requests fail boundedly often.
- `ZkvOracle.Spec`: weak fairness of the program's steps, of time, of the probe's restart, of the interval timer and
  of writes being mined (expiries are bounded). Services come back only where a property assumes so.
- `ZkvInit.Spec`: weak fairness of the poll loop, of a payment maturing and of the network doing something with each
  transaction (mine, drop or expire); a user runs `zkv init` again when a run ended early; a record of an expired
  transaction goes stale by the clock.
- `ZkvDashboard.FairSpec`: weak fairness of the node, of the auto-sync loop, of the frontend's poll (every ten
  seconds) and of a write's second half. None on users, payments, blocks or outages.

## 5. Proofs

All for every value of the constants, under the modules' named assumptions and, where a row says so, a hypothesis
that a counterexample of section 8 shows to be needed.

| Theorem | States |
|---|---|
| `ZkvReplayProofs!TypeCorrect` | `Spec => []TypeOK` |
| `ZkvReplayProofs!ReplayProtection` | `Spec => []ReplayedMemoIsInert`: any identities, keys, spellings, window and stream |
| `ZkvReplayProofs!HighWaterCoversHonoured` | the high-water has passed every honoured sequence |
| `ZkvReplayProofs!NoFreezeByJump` | one row moves a high-water at most a window plus one, never back |
| `ZkvReplayProofs!Sealed` | `Spec => SealedForever` |
| `ZkvReplayProofs!RegistryAlwaysManageable` | `Spec => []RegistryManageable` |
| `ZkvReplayProofs!ReplayImplementsStore` | `Spec => ImplementsStore`, the refinement of `ZkvStore` |
| `ZkvReplayProofs!HighestSequenceWins` | `Spec => []LatestSequenceWins` |
| `ZkvReplayProofs!OwnersNeverLockedOut` | `Spec => []OwnersCanAlwaysWrite` |
| `ZkvReplayProofs!AuthorityIsGranted` | `Spec => []AuthorityHasProvenance` |
| `ZkvReplayProofs!EverybodyIsListed` | `Audit => []RolesPartitionAuthority`: any rows in any spelling |
| `ZkvReplayProofs!RolesTabIsRight` | `Audit => []RolesViewSound`, for management memos spelled canonically |
| `ZkvDatabaseProofs!CacheIsRight` | `Spec => []SnapshotAgrees`, for one read at a time, the node idle during it and no reorg deeper than SAFE_DEPTH (`Undisturbed`) |
| `ZkvDatabaseProofs!CacheIsInvisible` | `Spec => []ReadAgrees`, for `Undisturbed` and min_confs up to SAFE_DEPTH + 1 |
| `ZkvDatabaseProofs!GenesisSafety` | `Spec => NeverBuriesGenesis`: any readers, node steps, rewinds and reorgs |
| `ZkvDatabaseProofs!NeverSelfConflicts` | `WriterSpec /\ []Heard => []NoSelfConflict`: any batches, grants, losses, orders of mining and memos of others, calls taking turns (`Serialized`) |
| `ZkvDatabaseProofs!LatestWriteStands` | `WriterSpec /\ []Heard => []LastWriteWins`, for `Serialized` |
| `ZkvReadSyncProofs!ReadsComplete` | `Spec => []ReadComplete`: any depths, epochs and length of chain |
| `ZkvReadSyncProofs!GatesAlwaysHold` | `Spec => []GatesHold` |
| `ZkvCatalogProofs!FilesAlwaysAgree` | `Spec => []FilesAgree`: any names, identities, calls, overlaps and kills |
| `ZkvCatalogProofs!CreatingNeverClobbers` | `Spec => NeverClobbered` |
| `ZkvCatalogProofs!NothingIsUnasked` | `Spec => NothingUnasked` |
| `ZkvFleetProofs!NeverTakenBack` | `Spec => []NeverBehindReport`: any names, keys, commands, chain and kills, for one process at a time and one address per name (`OneAtATime`) |
| `ZkvFleetProofs!StaysReadable` | `Spec => NeverDark`, for `OneAtATime` |
| `ZkvFleetProofs!DecisionsStand` | `Spec => DecisionRespected`, for `OneAtATime` |
| `ZkvReplayProofs!PagesAreSlices` | `HistorySpec => []PagesRight`: any chain, memos, queries and depths, while no other read promotes inside a page (`~Concurrent`) |
| `ZkvReplayProofs!HistoryIsRight` | `HistorySpec => []HistoryAgrees`: any chain, memos, queries and depths, several rows to a block (`~Concurrent`); the audit judges rows by its own rule |
| `ZkvReplayProofs!OwnWritesListed` | `HistorySpec => []OwnWritesStay`, for `~Concurrent` and recorded values that need no SETL (`OwnValuesShort`) |
| `ZkvClientProofs!FeePaidOnce` | `Spec => PaysOnce`: any notes, transactions, kills, drops, expiries and reorganisations |
| `ZkvClientProofs!ReadsAreHonest` | `ShallowSpec => []ReadsHonest`: any chain, memos, windows, confirmations and failures |
| `ZkvClientProofs!FollowIsExact` | `ShallowSpec => []FollowExact`, for a scan at least as deep as the margin (`Depth >= ReorgMargin`) |
| `ZkvGuiProofs!PauseNeverLost` | `EngineSpec => []PausedIsCancelled`: any fleet and number of pauses |
| `ZkvGuiProofs!SlotMutexOwned` | `EngineSpec => []EngineTypeOK`: whoever starts a node, and nobody else, holds its engine's mutex |
| `ZkvGuiProofs!PermitsRespected` | `EngineSpec => []PermitsKept`: never more databases synced at once than `sync_workers`, with a new semaphore every cycle |
| `ZkvGuiProofs!WrittenStaysShown` | `Spec => WritesDontVanish` (`ZkvDashboard`) |
| `ZkvGuiProofs!FundingAgrees` | `Spec => []FundingTabAgrees`: any transactions of every kind |

*Replay protection* is not inductive: that folding a memo changes nothing says
nothing about the fold after another row. The inductive invariant is type
correctness, the registry's shape and `HonouredBelowHighWater` (every honoured
versioned memo's sequence is strictly below its entity's high-water); it is kept because
high-waters only grow (`bump_hw`) and every honoured memo bumps its own, also
when the policy refuses its effect. From it, the window check drops the copy before
any policy is looked at. `RegistryManageable` needs last-owner protection for
`OWNERDEL` and the clearing of a writer's scope on `OWNERADD`.

*Refinement*. The mapping reads owners, epoch, values, the keys' counters and the seal off the
replayed state. `FoldIsStoreStep` splits a row by what the gate says: dropped rows stutter; an honoured
data row consumes one sequence of its key's window (`HonouredWindow`) and, confirmed, sets the value
(`Write`), confirming, does not (`Reserve`); an INIT, a grant or removal, an epoch and a FINALIZE are `Open`, `Govern`,
`Announce` and `Seal`. The last-owner rule of `Govern` rests on `RegistryManageable`.

*The highest sequence wins* is inductive together with `HonouredBelowHighWater`: a newly honoured write's sequence
is at or above the high-water and so above every earlier one (`WriteTakesOver`), and other rows leave the key
alone. *Owners are never locked out* follows from types and the registry: within the window, authority is the
only other condition of an owner's SET. *Authority has provenance* adds that a role only comes of an honoured grant
(`ManagementRoles`), that an honoured memo's signer held a role, and that an epoch moves up one announced step at
a time (`FoldEpoch`).

*Genesis safety* is a property of single steps: only opening the store and promoting
change it; opening either keeps or wipes it, a wipe that is killed keeps the watermark or drops it
with the last table, and a promote whose fold has no INIT returns early.

*A pause is never lost* is inductive with the shape of the workers' table: the only
step that clears the cancel flag (renewing the token) also puts every worker back in
front of its pause check, so no interleaving with a pause call matters.

*The slot mutex* has one owner because a worker past `engine_for` has an engine and outside a cycle no worker
runs (`SlotInvariant`): spawning a new cycle's workers abandons no mutex. *Permits* are counted
(`PermitsCounted`): while a cycle runs, the free permits and the workers past their checks are `sync_workers` together. A step of a
worker takes one permit, gives its own back or moves none, however it ends (`PermitMoves`), and the next semaphore is made
only when all workers of the last have been joined, which is where `SlotInvariant` is needed.

*The dashboard.* `WalletInvariant` says what the wallet's files may hold of a transaction: what `pending.toml` has, and what is
about to be entered there, are writes the wallet built and stored or INITs the faucet sent (`Recorded`); the wallet is behind the chain and has seen rows only up to its tip (`RowsKnown`); the
cached summary counts a pending key among the keys. That writes do not vanish then follows step by step: `pending.toml` only
drops a write that is mined with its memo readable, expired or an hour old without a server, so a write leaves the read for a named reason only;
an INIT of the faucet is dropped once its memo is fetched, a write of the wallet's as soon as it is mined. That the tab accounts for the
balance is a fact of each single state: row by row the tab's amounts and fees are the wallet's balance delta (a fee is known where
it was paid), and the two sums over different sets of rows agree because a sum over a finite set does not
depend on the order in which its members are picked. This is proved of the fold itself, by the same route as the induction over rows.

*One fee.* `PaidOnce` says nothing of who may pay next. `FeeInvariant` bounds, for each of the two payers, the
INITs paid for that it cannot see: for `zkv init` those the wallet cannot read and it does not await (`LoopSees`), for
the GUI those the wallet cannot read and `pending.toml` does not hold (`GuiSees`), both by `lapses`. A payer ships only when
it sees none, so all that were paid are among the unseen. A GUI init asked of a view that is out of date, shown before the INIT now recorded or
read, counts as a lapse. So does an INIT that was shipped and not recorded (the send failed after the wallet's commit, or the
record was lost) while its memo is late, for then neither view has it; this holds of `zkv init` and of the GUI alike.

*The shallow client.* Everything rests on final blocks: those more than `ReorgDepth` below the tip a call read at its start
stay for good, because branches have the length of what they replace (`MineStands`, `ReorganiseStands`). `ReadInvariant` says
what a call in progress has made of them: each final block between its floor and where it has got to is among the
candidates still to fetch or its updates are among those fetched (`Gathered`), and nothing it holds that counts as confirmed is
from elsewhere; that rests on what a fetched transaction is worth when it was replaced after it was seen (`FetchFacts`: the server may
report another block, or the height it was seen at for one that sits in the mempool). `AnchorsHold` is the same for the walk from the
birthday: no final block it has passed holds a root-signed INIT. `FollowInvariant` adds what `follow` printed: all of it final at the
cursor and in chain order (`EmittedPrinted`, `EmittedSorted`), whatever left the margin printed (`NothingMissed`), and what the next poll
reads again either remembered by the cursor or not deep enough before (`RecentComplete`). That the printed list is sorted needs no more
than that `InOrder` puts each update at its rank (`InOrderFacts`). `Depth >= ReorgMargin` is needed: see `FollowInOrder` in section 8.

*A window agrees with the full read* although it knows no role, epoch or high-water. The full read's value of a key is the last
write its replay honours; the window shows the last root-signed one it saw. Suppose the latter is another, later write. If its sequence is not higher, the
window warns or it is the same memo. If it is higher, the replay would have honoured it as well: an honoured
write leaves its key open to root from the next sequence on (`WriteOpens`), rows that are neither management nor honoured writes of the key
leave it open (`OthersLeaveOpen`), and root stays an owner (`RootStaysOwner`). So a management memo lies in between
(`LaterWriteHonoured`), and as the value shown by the full read is in the window, so is that memo, which is the third warning. Each clause of `WindowTells` is used:
for the first three see `AgreesOrWarns` in section 8; a signer the caller vouches for need not have been granted anything.

*Pages.* `PageInvariant` says that what a page has read is still so: a page's own promote is before its
first read, and with no other read in between watermark, seed, live rows and `kv_history` belong together. The rest is about lists, for every state:
keeping the entries a query wants commutes with concatenation and reversal (`KeptIsSequence` and following); a slice of a list
in two halves is a slice of each, joined (`SliceAcrossSeam`), in either direction; and the offset computed for a jump, the
number of entries ahead in both halves, lies in the page that shows the transaction (`OffsetLocates`). `~Concurrent` is needed:
see `ListedOnce` in section 8. `LocateFinds` excludes a limit of zero, which asks for an empty page.

*The history's list.* `HistoryInvariant` adds to `PageInvariant` that no transaction is mined twice or both mined and in flight
(`BlocksApart`, `InFlightApart`) and that the snapshot is right (`SnapRight`): its watermark ends a block, its tables are the fold of the rows
up to there, each judged settled, and `kv_history` holds the writes among them that took effect, in chain order. A promote keeps it because
the rows it folds are deep enough to be settled (`PromotedHolds`) and because folding some rows and then others is folding both (`FoldsJoined`).
The rest holds in every state: all rows are those up to the watermark followed by those past it (`RowsSplit`), and two folds in which
every row has the same verdict reach the same tables and honour the same writes (`FoldsAlike`), so the live half and the promoted half
together hold what the page's rule yields in a single fold (`AppliedSplit`). The audit is a fold of its own: it counts every row, the shallow and
unmined ones as confirming, and gives the INIT no exception (`AuditStatus`). The rows it confirms come first, and the page confirms
them too (`AuditStatusDown`); so up to the last of them the two folds are one (`AuditIsFold`), and a write the page takes is among them unless it is the
INIT (`TakenWriteIsDeep`). Entering the rows and then what `pending.toml` adds gives one entry to each
write (`EntriesRight`, `MergeFacts`, `OneRowEach`); the sort by ranks is the only list of its members in that order
(`RanksSort`, `SortsUnique`, `SortLiveFacts`); and a page that is a slice of the list inherits all of it (`CutFacts`). `~Concurrent` is
needed for the first theorem (`ListedOnce` of section 8), `OwnValuesShort` for the second (`OwnWritesStay` of section 8).

*Induction over rows.* That a fold over a sequence is what its definition says is proved without an induction
principle: the least natural number with a property exists (`LeastNat`, from the well-foundedness of the naturals),
so a set of naturals closed under successor is everything (`NatSetInduction`), a recursive function on the naturals
exists (`RecursionExists`), and the one that `FoldTo` chooses satisfies its recursion (`FoldToRec`). From there
`ZkvDatabaseProofs` has what the cache needs: folding a prefix and then the rest is folding the whole.

*The cache is right and invisible.* `CacheInv` strengthens both at once: the store is empty or the fold of the chain
up to its watermark, which lies SAFE_DEPTH behind the longest chain ever seen and so below every reorg (`StoreInv`);
and what each read has gathered is what the wallet still holds (`ReaderInv`), so that promoting folds exactly the rows
between two watermarks, with the verdicts they have at the new one. The hypotheses are the limits of section 8: without
any one of them `SnapshotAgrees` or `ReadAgrees` fails.

*Read sync and gates.* `SyncInv` adds what a call has learnt of the wallet and may still rely on (`Measured`: blocks are
scanned and fetched for good, the skip is within its tolerance), what it asked with (`Asked`) and that the snapshot stays
SAFE_DEPTH behind the tip. An epoch in force stays in force only as long as no VERSION memo has been mined since that was not
deep enough at the height the call synced for (`InForce`): over the shorter condition, that the version counted is
the same, the invariant is not inductive, because an announcement and its revocation may be mined meanwhile.

*The write path.* `WriterInvariant` says that every live versioned memo of the client is still unmined or its sequence is used up
(`Accounted`), that transactions carry sequences in the order they were sent (`Ascending`), and that what a call has signed lies
above all that is live (`PreparedFollow`). The last is where the state read before signing matters: the replay with the unmined rows on top has passed each of
them whatever their order (`OverlaidPasses`, `ReadPasses`), and what `pending.toml` adds only moves the sequence further. `KvRight` says who
wrote the confirmed value of a key: the memo with its last sequence; with all mined, that is the latest write. Two hypotheses are needed. `Serialized`: calls of one client take turns
(see `NoSelfConflict` in section 8). `Heard`: the client stays an owner, and its unmined memos stay within the window of what is confirmed; once its role is taken, or
more transactions are lost than the window absorbs, the replay drops an unmined memo and the next call may sign its sequence again, or a later write is never honoured.
In the instance of the `writer` run TLC finds `Heard` true of every reachable state; with a window of 1 `LastWriteWins` fails there.

*Data directory.* `CatalogInv` adds that calls write under seals of their own (`Sealed`), that unless calls have crossed
at most one or those of the GUI on different names are in progress (`Exclusive`), and that what a call expects of its
files is there (`Whole`). `Unasked` is the same for identities. The proof needs a kill in the middle of a removal to count as
stray when the directory belonged to somebody else by then (`Strays`).

*Shared scan.* None of the three is inductive: each rests on what a command has read and still
believes. `FleetInv` says that a name goes with one key, pinned before the database is on the shared scan,
and that the files read reach what was reported (`Placed`); that the copy of `keys.toml` a command holds is still what the
file says (`CopyFresh`); that each step finds the database in the state the command left it in (`InPlace`); and that a conversion's
two heights are bounds for ever: `own_scanned` is at least what was reported, `shard_scanned` at most what the shard has
(`Driven`), so that the comparison in `flip_if_caught_up` carries over to the moment of the rename, and a kill after it leaves a
member that can be read. `OneAtATime` is needed: two processes break `CopyFresh` and with it `DecisionRespected` and
`NeverBehindReport`, and a name used again for another address breaks `NeverBehindReport` (section 8; for
`NeverDark` and `DecisionRespected` one address per name is more than TLC needs).

*Role views.* Every identity with a role in the registry is granted or revoked under some spelling (`Partitioned`), row by row
(`RowEffect`: a row changes the role of its subject only). That the grant shown is the current one needs all
memos about an identity to use the spelling the tab looks under (`CanonicallySpelled`, which all of this program's
writers do): `GrantedRolesSound` of section 8 fails without it.

Only model-checked:
- the liveness properties (fairness and ENABLED are out of the prover's reach);
- the properties of `ZkvOracle`: `HealthHonest` is liveness throughout, `PriceOracleRecovers` and `VersionsRight` have safety conjuncts
  (`RetriesStartInTime`; `NoRebroadcast`, `VersionsNeverGoBack`) beside their liveness.

## 6. Not modelled

- Strict replay mode (returns an error where the other drops, changes no state).
- Parsing, rendering and secp256k1: text and cryptography.
- Signing without a broadcast (`--print`, `sign_memo`), which reserves no sequence, and the funds check of a write.
- Engines of a single database and unloading; `engine/config.rs` and the probe.
- Birthday lookup; several networks and shards, and admin databases, in the fleet.
- Key derivation and encryption; paths.
- The command line's output, the HTTP and desktop layers, connections: pure I/O.
- `regtest-harness`: test scaffolding.

## 7. Plan

Done, in this order: `ZkvProtocol`/`ZkvReplay` (what every other part rests on), its
proofs, `ZkvRoles`, `ZkvSnapshot`, `ZkvWriter`, `ZkvReadSync`, `ZkvEngine`, `ZkvFleet`; then
`ZkvStore` and the refinement with its proof, `ZkvShallow`, `ZkvHistory`, the epoch gates, `ZkvOracle`, `ZkvCatalog`,
`ZkvInit`, `ZkvDashboard`.

Every safety invariant a run checks is proved. Left to prove: the safety conjuncts in `ZkvOracle` (section 5).

## 8. Where the code and its documentation disagree

Each property below states what a doc, a comment or a message says; TLC answers with a counterexample.
Where a configuration is named, run it as it is (`tlc -config <cfg> <module>`). Otherwise check the property in the
module's main configuration, with the constants given in brackets changed (and `SPECIFICATION Spec`, in `MCZkvShallow` `ShallowSpec`, where the property is an
invariant).

Replay (`MCZkvReplay`)
- `MCZkvReplay_spelling.cfg` (`SequencePerIdentity`, protocol/replay.rs:983). seq_in_window and bump_hw key target_versions by the target as the memo spells it, while apply_management canonicalises it. The field is documented as "Keyed by the canonical `zkvid1…` target" (protocol/replay.rs:33-34). Two owner memos about one identity, one spelled in hex, are both honoured with the same sequence.
- `MCZkvReplay_revoked.cfg` (`RevokedIsNotCurrent`, protocol/replay.rs:1315). revoked_roles tombstones whatever role is held when any Applied removal names the key, so a WRITERDEL of an owner (a no-op in the registry) lists an owner as revoked. The doc says "either current there or revoked here, never both" (protocol/replay.rs:1314).
- `MCZkvReplay_verify.cfg` (`VerifyPredicts`, protocol/replay.rs:898). verify_memo stops at the gate, so a management memo the policy refuses (removing the last owner) verifies as Applied, although "`Applied` means the memo would be honored as a confirmed write".
- `GrantedRolesSound` [`Topics = {"spelled"}`] (protocol/replay.rs:1442). granted_roles keys its rows by wire spelling, so an OWNERDEL spelled in hex leaves the canonical spelling listed as an owner the registry no longer has. The doc says "the survivors here agree with [`AuditResult::auth`]" (protocol/replay.rs:1440).

Snapshot (`MCZkvSnapshot`)
- `SnapshotAgrees` [`SyncDuringRead = TRUE, MinConfs = 1, MaxReorg = 0, MaxRewind = 0, MaxUnmined = 0`] (internal/state.rs:546). scan_memos_past_watermark and unenhanced_floor are two queries outside any transaction. When the node fetches a transaction between them, its memo is in neither answer, and a later row is promoted past it. The doc says "so the watermark never passes a transaction whose memos have not been fetched yet" (internal/state.rs:417-418).
- `ReadAgrees` [`MinConfs = 3, MaxReorg = 0, MaxRewind = 0, MaxHeight = 3, MaxUnmined = 0`] (internal/state.rs:596). Rows at or below the promote cutoff are confirmed whatever min_confs the read asked for, so a min_confs above SAFE_DEPTH is ignored for them. The doc says "`min_confs` is the threshold for treating any memo (including INIT) as" confirmed (internal/state.rs:445).
- `SnapshotAgrees` [`Readers = {r1, r2}, MinConfs = 1, MaxReorg = 0, MaxRewind = 0, MaxUnmined = 0`] (internal/snapshot.rs:555). promote folds its batch into whatever the tables hold by then and overwrites the watermark without reading it again, so of two concurrent reads the slower one moves the watermark back or folds rows a second time out of order. The doc requires rows "strictly past the current watermark" (internal/snapshot.rs:547), and open says "the read path promotes into the snapshot while the GUI may read it" (internal/snapshot.rs:132-133).
- `CacheIsDisposable` (internal/snapshot.rs:214). The statements of wipe are not one transaction, and open creates no tables in a file whose user_version is current: after a process was killed inside wipe, a read fails on a missing table until the wallet's tip is again behind the watermark or the file is removed. The doc says "the snapshot is a cache, not a source of truth" and "treat the next read as a full rebuild from the wallet DB" (internal/snapshot.rs:126-128). No read answers from such a file (`ReadAgrees`).

History (`MCZkvHistory`)
- `MCZkvHistory_torn.cfg` (`ListedOnce`, internal/snapshot.rs:256). A page reads the watermark, the seed, the wallet's rows and kv_history one after another; a promote by another read in between moves a row into kv_history after the live rows were taken, and the write is listed twice.
- `OwnWritesStay` [`MemosOf <- MCLongValue`] (internal/state.rs:868). An empty or multi-line value is written as SETL and recorded under that name (internal/write.rs:138), and the merge of pending.toml into the history passes over every record but SET, DEL and INIT, so such a write is missing from the log until the wallet has its row. The comments say "then add locally-broadcast txs the wallet hasn't surfaced yet" (internal/state.rs:847-848) and that a record's op is `"INIT" | "SET" | "DEL"` (internal/pending.rs:35); the read path takes both names (db.rs:1989).

Writer (`MCZkvWriter`, with `Batches <- OneWrite`, no managements and no other writers)
- `SignsConfirmedPlusInflight` (internal/write.rs:198). The replayed high-water prepare starts from already counts the client's own pending rows, and inflight_count adds them again, so each write in flight moves the next sequence by two. The doc says "A writer signs its sequence from `confirmed + own in-flight count`" (protocol/sign.rs:90-91).
- `NoSelfConflict` [`Serialized = FALSE, Clients = {c1, c2}, MaxSent = 2, MaxLost = 0`] (internal/write.rs:684). With no_sync, prepare reads the state and signs before ship starts a node and takes the datadir lock, so two writes of one client can sign the same sequence and one is dropped as a replay. The docs say "a writer's own rapid successive same-key writes don't" self-conflict (internal/write.rs:188) and the lock "spans the sync and the send together" (internal/write.rs:673).

Read sync and gates (`MCZkvReadSync`)
- `FacadeSkipIsInvisible` (db.rs:861). Database::sync skips with a fixed tolerance of one block at any depth, so a read at one confirmation or the mempool misses the newest block. The doc says "the newest block or two never changes a confirmed read" (db.rs:851-852), while read_tip_tolerance was introduced because "the old fixed 1 could hide it" (internal/sync.rs:62).
- `SkipIsInvisible` (internal/sync.rs:321). A skipped read judges the depth of the rows it has at the wallet's own tip, up to min_confs - 1 blocks behind, so a scanned write that is deep enough at the live tip is still shown unconfirmed; INIT, which confirms at one block, can be missed altogether. The doc says "the confirmed read is identical whether or not we scan" (internal/sync.rs:56).
- `SkipMissesNothingScanned` (internal/sync.rs:306). read_sync_skippable looks at the scan ranges and the tip but not at the enhancement backlog, so a wallet whose process ended between scan and enhancement skips, and its read misses memos of scanned blocks. The docs say "the confirmed state a" reader sees "is provably identical with or without it" (internal/sync.rs:270-271).
- `NoDoubleInit` (internal/sync.rs:263). wallet_synced_to_tip accepts a wallet NEAR_TIP_TOLERANCE (one) block behind, and the INIT may be in that block. The doc says "first require a full sync to tip so" we "don't double-INIT a db whose valid INIT is still unscanned" (gui/engine.rs:1109-1110). The duplicate is dropped by replay; its fee is spent.
- `BumpCanBeUndone` [`SafeDepth = 0, Epochs = {"blocksync", "downgrade"}`] (db.rs:956). A client that `blocksync` keeps from scanning never sees the memo that takes the epoch back. The doc says "free downgrades let a later owner undo a mistaken or malicious bump in a single memo" (protocol/version.rs:47-48).
- `ShowsNothingForbidden` (commands/roles.rs:72). roles, verify and history gate on one load and show another; an epoch promoted in between is not respected.

Engine (`MCZkvEngine`, with `Engines = {e1, e2, e3}, GlobalSwitch = FALSE`, except where stated)
- `OneEngine` (engine/fleet.rs:81). shutdown_all drains the registry while workers keep their Arc, so the next worker builds a second engine beside the first. The doc says "so the node is a process-wide singleton and every member's handle" is a clone of the same Arc (engine/fleet.rs:16).
- `StopsOnlyWhenAllPaused` (gui/engine.rs:1701). set_pause spawns shutdown_all whenever one database is paused. The doc says "which the GUI calls when it exits and when every database is paused" (engine/fleet.rs:23).
- `PausingReleasesLock` in the main configuration (gui/engine.rs:1708). set_pause_all stops the workers but never calls shutdown_all, so the node and its lock stay. The comment says "Pausing everything means the shared scan should stop too" (gui/engine.rs:1696).
- `PausingReleasesLock` [`MaxPauses = 2`] (gui/engine.rs:1701). A worker that passed its pause check builds the engine and starts the node after the detached shutdown_all has run, sees the cancel flag and ends; the engine stays in the registry with its node and lock although every database is paused. The comment says "the loop is already halted by the" flag above (gui/engine.rs:1699).
- `NoSelfWait` (engine/node.rs:334). sync_wallet_once keeps its node handle while cross_check_member asks Engine::node again; if shutdown emptied the slot in between, start_node retries against the lock its own caller's handle holds, with the slot mutex locked, until the busy deadline. The doc says "nothing may hold a file lock" on that path "across a call that starts a node" (engine/mod.rs:26-27).

Fleet (`MCZkvFleet`, with `MaxTip = 1`, `CHECK_DEADLOCK FALSE`)
- `MCZkvFleet_race.cfg` (`ConvertingHasFiles`, fleet.rs:456). Two opens of a database nobody has decided about: the slower one's `set_engine` rewrites all of keys.toml from the copy it read before the faster one finished the conversion, so the file says `fleet-pending` while the own wallet files are deleted. FleetPending's doc says "reads and syncs still use this database's own files, so it never goes dark" (config.rs:585-586).
- `MCZkvFleet_duplicate.cfg` (`NoDuplicate`, db.rs:1780). find_duplicate_by_ufvk skips a database whose wallet cannot be read, which a member that waits for its import cannot be. The comment says "Refuse to import the same database twice under a different name." (db.rs:609).
- `ConversionFinishes` [`Commands = {"sync", "join"}, MaxCrashes = 0`] (commands/sync.rs:74). `zkv sync` calls the engine without the facade, and only the facade calls drive_pending_fleet. `zkv fleet join` says "Run `zkv sync` a few times, or leave the GUI open, to get there." (commands/fleet.rs:231), and drive_pending_fleet's doc names `zkv get`, which bypasses it too (db.rs:1533).
- `ConvertingHasFiles` [`Commands = {"facade", "leave", "join"}, MaxCrashes = 0`] (commands/fleet.rs:227). A member that leaves has no wallet files until it has synced; joining again before that makes it converting with nothing to read. The comment says "The database keeps reading from its own files until its shard has caught up with them, which is what makes this safe to do at any moment" (commands/fleet.rs:224-226).
- `ImportingHasManifest` [`Commands = {"facade", "leave", "watch"}, MaxCrashes = 1`] (db.rs:623). A process killed between keys.toml and the manifest of a new member (or between remove_manifest and set_engine in leave) leaves a member without a manifest, which no later command but leave or rebuild repairs. leave's doc calls this "the one state that reads as "importing" forever", and gives it as the reason for removing the manifest first (fleet.rs:466-468), which is the order that produces it.
- `RemovedIsForgotten` [`Commands = {"facade", "remove"}, MaxCrashes = 1`] (data.rs:525). An enrolment killed between the manifest and `fleet-pending` leaves a standalone database with a manifest; removing it skips the manifest. The comment warns of exactly that: "Left behind, the scan would keep a deleted database's viewing key on disk and keep scanning for it" (data.rs:517-518).
- `ManifestIsMine` [`Key = {k1, k2}, Addresses <- AnyEach, Commands = {"facade", "remove", "watch"}, MaxCrashes = 1`] (db.rs:640). A new member under the name of such a left-over manifest is created with keys.toml written and the manifest refused. enrol's doc calls the left-over "inert" (fleet.rs:432).
- `NeverBehindReport` [`Key = {k1, k2}, Addresses <- AnyEach, MaxTip = 2, MaxCrashes = 1`] (engine/node.rs:170). The same left-over manifest: the shared node syncs the account it names and sync_wallet reports that height for the new member, whose own account is not scanned as far. The doc says of the wait 'it can say "not yet" while this member is already complete, never the reverse' (engine/node.rs:168-169).
- `DecisionRespected` [`Actor = {a1, a2}, Commands = {"facade", "leave", "locate"}, MaxCrashes = 0`] (config.rs:350). A read of another process that caches its placement hint after a leave writes the old engine back. The comment says "An explicit `own` (what `--standalone` and `zkv fleet leave` write) is a decision" (fleet.rs:411-412).
- `NeverBehindReport` [`Actor = {a1, a2}, Commands = {"facade"}, MaxTip = 2, MaxCrashes = 0`] (fleet.rs:491). own_scanned is the height of this handle's sync; when another process has synced the database's own files further meanwhile, the flip takes its reads back. The doc says "the old files stay authoritative until the shard has demonstrably caught up with them" (fleet.rs:480-481).

Data directory (`MCZkvCatalog`; the last three without symmetry and with `MaxOverlaps = 0`)
- `RemovalIsExact` (gui/engine.rs:1620). forget and `zkv remove` check the database before they wait for the lock or the user's answer; a database made under the name in between is what they delete.
- `DemoNeverRecreated` (demo.rs:181). A demo whose provisioning did not reach the marker and that the user removes is made again at the next start. The doc says a user who "removes it does not get it silently recreated" (demo.rs:11).
- `NoDuplicates` (db.rs:1867). The demo's provisioning and a rebuild import an account without looking for it under other names. The comment says "Refuse to import the same database [...] twice under a different name".
- `NameReusable` (config.rs:712). A creation that fails after the identity file leaves a name that `create_new` refuses for ever and that is not listed.
An interrupted removal can leave a wallet that the next database of the name inherits (`torn` in the properties).

Init (`MCZkvInit`)
- `MCZkvInit_faucet.cfg` (`RecordIsRespected`, commands/init.rs:578). `zkv init` looks at the wallet and its own variable, not at pending.toml, so it pays for an INIT while the GUI's or the faucet's is recorded and in flight; the GUI reads such a record as "initializing".
- `ConfirmedIsMined` (commands/init.rs:542). "INIT confirmed." is said at one confirmation and the block may be undone.

Shallow client (`MCZkvShallow`)
- `FollowInOrder` [`Confs = {2}, Depth = 2, ReorgMargin = 3`] (shallow/validate.rs:275). With a margin larger than the first scan's depth, the first poll reads below that scan and prints older values of a key after newer ones.
- `AgreesOrWarns` [`MCMemosOf[3]` with sequence 0, or 6] (shallow/validate.rs:243). Of two writes of a key signed under one sequence the full read keeps the first and the shallow one shows the last; so it does with a write beyond the window, and with one of a root that was demoted to a writer below the window. The comparison is strict, so none is warned of. The doc says it "surfaces what it *cannot* check as [`ShallowWarning`]s" (shallow/validate.rs:13-14).
- `ShowsOnlyLiveKeys` (shallow/validate.rs:145). A write mined before the INIT is dropped by the full read and shown here without a warning.
- `AnchorAsDeepAsAsked` (shallow/mod.rs:661). The cached anchor does not record how deep it was when verified, so a client that asks for more confirmations relies on one that fewer confirmations established.

GUI views (`MCZkvDashboard`)
- `MCZkvDashboard_flap.cfg` (`NeverFlaps`, internal/sync.rs:463). A block rolled back after the prune, or before the entry is written, takes a write out of the read until it is mined again. The comment says the gate "keeps the pending entry until the on-chain row can take over seamlessly".
- `KeyTellsChanges` (gui/engine.rs:660). Enhancement adds a memo without moving the scanned height or pending.toml, so the cached counts stay behind. The doc says "The confirmed KV state changes only when the wallet scans" new blocks or a local write changes pending.toml.
- `NothingInherited` (gui/engine.rs:1649). A poll that began before forget puts its summary back afterwards; "a same-named db later must not inherit" it.
- `SuccessClears` (gui/engine.rs:1842). A manual sync that succeeds leaves strikes and banner; only the loop clears them. The doc says "An entry is removed the moment that db's sync next succeeds" (gui/engine.rs:669-670).
The doc of Database::funding says the database's own writes "are excluded" (db.rs:1100-1101), while funding.rs lists them as operations with their fee.

Oracles (`MCZkvOracle`)
- `MCZkvOracle_stuck.cfg` (`StuckIsCaught`, zkv-oracle/src/main.rs:212). The lag is measured after a successful sync only, so a wallet that cannot sync keeps its last lag and, before a first write, a healthy answer. The comment says "a genuinely stuck wallet is still caught".
- `MCZkvOracle_rebroadcast.cfg` (`NeverRebroadcast`, zkv-version-oracle/src/main.rs:254). pending.toml forgets an entry after STALE_AFTER_SECS although the transaction may still be mined, and a second pending write of the key hides the first. The comment says a value just broadcast "is not re-broadcast next tick".
- `RetriesBeforeNextTick` (zkv-oracle/src/main.rs:421). The check is made before the pause and counts from this tick's own start; a tick that started late retries past the next scheduled one. The doc says "Retries never bleed past the" next scheduled tick (73-74).

Seen and not run: after `zkv fleet rebuild`, "Reads keep working from each database's snapshot
meanwhile" (commands/fleet.rs:272-273), and after leave "its reads stay correct" (249-250), while every
read resolves its wallet files first and fails until the account exists again.
