----------------------------- MODULE ZkvSnapshot -----------------------------
(***************************************************************************)
(* The read path (load_state_with_height) over its three stores: the       *)
(* chain, the wallet database the node fills by scanning (tip first, then  *)
(* backfill) and by fetching full transactions (enhancement), and the      *)
(* sidecar snapshot that caches the fold of every row up to a watermark.   *)
(*                                                                         *)
(* Reads take no lock.  Each one is a sequence of separate database        *)
(* transactions, so the node, and other readers (the CLI beside the GUI),  *)
(* may run between any two of them; SyncDuringRead says whether the node   *)
(* does.                                                                   *)
(*                                                                         *)
(* One block carries one row, so the lexicographic watermark (height,      *)
(* txid, output_index) is a height and 0 is the empty watermark.           *)
(***************************************************************************)
EXTENDS ZkvProtocol

CONSTANTS
    Rows,           \* the rows blocks carry: [memo : Memo, self_sent : BOOLEAN]
    Readers,        \* concurrent calls of load_state_with_height
    SafeDepth,      \* SAFE_DEPTH, 100 in the code
    MinConfs,       \* min_confs of the reads
    MaxReorg,       \* deepest reorg of the chain
    MaxRewind,      \* deepest rewind of the wallet on an unchanged chain
    MaxHeight,      \* bound: chain length
    MaxUnmined,     \* bound: unmined rows the wallet holds
    SyncDuringRead  \* may the node run while a read is in progress?

ASSUME RowsAssumption    == Rows \subseteq [memo : Memo, self_sent : BOOLEAN]
ASSUME BoundsAssumption  == {SafeDepth, MinConfs, MaxReorg, MaxRewind, MaxHeight, MaxUnmined}
                                \subseteq Nat
ASSUME HeightAssumption  == MaxHeight >= 1
ASSUME SwitchAssumption  == SyncDuringRead \in BOOLEAN

VARIABLES
    chain,      \* the rows of the best chain, by height
    peak,       \* history: the greatest length the chain has had
    tip,        \* the wallet's chain_height
    scanned,    \* heights the wallet has scanned
    enhanced,   \* scanned heights whose full transaction has been fetched
    unmined,    \* unmined rows of the wallet (transactions with no mined_height)
    snap,       \* zkv_state.sqlite: its contents and how many of its tables there are
    reader      \* the local variables of each call

wallet == <<chain, peak, tip, scanned, enhanced, unmined>>
vars   == <<chain, peak, tip, scanned, enhanced, unmined, snap, reader>>

-----------------------------------------------------------------------------
(* Depths, statuses and folds.                                             *)

MinOf(a, b) == IF a <= b THEN a ELSE b
MaxOf(a, b) == IF a >= b THEN a ELSE b

\* WalletSummary::fully_scanned_height: scanned from the birthday with no gap.
FullyScanned ==
    CHOOSE n \in 0..MaxHeight : 1..n \subseteq scanned /\ (n + 1) \notin scanned

\* unenhanced_floor: the lowest scanned row whose memos are unknown, if any.
UnenhancedHeights == scanned \ enhanced

\* Mutant: scanned is taken for fetched.
promote_cutoff_unfetched(at, fully, unenhanced) == MinOf(MaxOf(at - SafeDepth, 0), fully)

promote_cutoff(at, fully, unenhanced) ==
    LET scanned_safe == MinOf(MaxOf(at - SafeDepth, 0), fully)
    IN  IF unenhanced = {} THEN scanned_safe
        ELSE MinOf(scanned_safe, (CHOOSE h \in unenhanced : \A g \in unenhanced : h <= g) - 1)

effective_min_confs(row) ==
    IF row.memo.op = "INIT" THEN MinOf(1, MinConfs) ELSE MinConfs

\* Mined rows as scan_memos_past_watermark returns them, by height: ascending height is
\* the order they are replayed in.
Decoded == UNION {[H -> Rows] : H \in SUBSET (1..MaxHeight)}

\* Status of a mined row at a given tip; "Dropped" is a received row that is too shallow.
TailStatus(at, h, row) ==
    IF MaxOf(at - h, 0) + 1 >= effective_min_confs(row) THEN "Confirmed"
    ELSE IF row.self_sent THEN "Confirming"
    ELSE "Dropped"

\* The memos to replay with their statuses: of rows judged at a tip, and of rows a
\* promote takes to be confirmed.
JudgedAt(rows, at) ==
    [h \in {g \in DOMAIN rows : TailStatus(at, g, rows[g]) # "Dropped"} |->
        [memo |-> rows[h].memo, status |-> TailStatus(at, h, rows[h])]]

AllConfirmed(rows) == [h \in DOMAIN rows |-> [memo |-> rows[h].memo, status |-> "Confirmed"]]

\* The replay loop over judged rows, up to each height.
FoldTo(seed, judged) ==
    LET f[h \in 0..MaxHeight] ==
            IF h = 0 THEN seed
            ELSE IF h \in DOMAIN judged THEN Fold(f[h - 1], judged[h].memo, judged[h].status)
            ELSE f[h - 1]
    IN  f

FoldMined(seed, judged) == FoldTo(seed, judged)[MaxHeight]

\* The replay loop over unmined rows, which come last and are all Confirming.
FoldUnmined(seed, rows) ==
    LET f[i \in 0..Len(rows)] ==
            IF i = 0 THEN seed ELSE Fold(f[i - 1], rows[i].memo, "Confirming")
    IN  f[Len(rows)]

\* replay_with_seed.
replay_with_seed(seed, judged, pending) == prune(FoldUnmined(FoldMined(seed, judged), pending))

\* apply_row over a batch: a promotable row is buried deep, hence Confirmed, and
\* passes the same gate and has the same effects as in the in-memory replay.
apply_rows(db, batch) == FoldMined(db, AllConfirmed(batch))

\* The heights whose memo the wallet can read: an output's own memo once fetched,
\* or the memo the wallet itself sent.
Readable == {h \in scanned : h \in enhanced \/ chain[h].self_sent}

\* The mined rows at the given heights.
RowsAt(heights) == [h \in heights |-> chain[h]]

scan_memos_past_watermark(wm) == RowsAt({h \in Readable : h > wm})

\* The state the first n rows of the chain fold to, all of them confirmed.
ChainState(n) == FoldMined(EmptyDatabase, AllConfirmed(RowsAt(1..n)))

-----------------------------------------------------------------------------
(* Initial states.                                                         *)

FreshSnapshot == [db |-> EmptyDatabase, wm |-> 0, tables |-> "all"]

Idle == [pc |-> "idle", tip |-> 0, fully |-> 0, wm |-> 0, rows |-> << >>,
         pending |-> << >>, cutoff |-> 0,
         result |-> EmptyDatabase]

\* A new database, or one whose snapshot an older build left with the watermark
\* past an INIT it never saw.
Init ==
    /\ \/ chain = << >> /\ snap = FreshSnapshot
       \/ \E row \in Rows : chain = <<row>> /\ snap = [FreshSnapshot EXCEPT !.wm = 1]
    /\ peak = Len(chain)
    /\ tip = Len(chain)
    /\ scanned = 1..Len(chain)
    /\ enhanced = scanned
    /\ unmined = << >>
    /\ reader = [r \in Readers |-> Idle]

-----------------------------------------------------------------------------
(* The chain and the node.                                                 *)

NodeMayRun == SyncDuringRead \/ \A r \in Readers : reader[r].pc = "idle"

\* A block is mined on the best chain.
Mine(row) ==
    /\ NodeMayRun
    /\ Len(chain) < MaxHeight
    /\ chain' = Append(chain, row)
    /\ peak' = MaxOf(peak, Len(chain) + 1)
    /\ UNCHANGED <<tip, scanned, enhanced, unmined, snap, reader>>

\* The node learns the tip at the start of a pass (update_chain_tip).
UpdateTip ==
    /\ NodeMayRun
    /\ tip < Len(chain)
    /\ tip' = Len(chain)
    /\ UNCHANGED <<chain, peak, scanned, enhanced, unmined, snap, reader>>

\* It scans blocks in any order; the wallet's own transactions are known in full.
ScanBlock(h) ==
    /\ NodeMayRun
    /\ h \in (1..tip) \ scanned
    /\ scanned' = scanned \cup {h}
    /\ enhanced' = enhanced \cup {g \in {h} : chain[g].self_sent}
    /\ UNCHANGED <<chain, peak, tip, unmined, snap, reader>>

\* The enhancement pass fetches one full transaction.
Enhance(h) ==
    /\ NodeMayRun
    /\ h \in scanned \ enhanced
    /\ enhanced' = enhanced \cup {h}
    /\ UNCHANGED <<chain, peak, tip, scanned, unmined, snap, reader>>

\* The wallet forgets what lies above n and scans it again: a newcomer with an
\* older birthday joined its shard, or a continuity error rewound it.
Rewind(n) ==
    /\ NodeMayRun
    /\ n \in 1..(tip - 1) /\ tip - n <= MaxRewind
    /\ tip' = n
    /\ scanned' = scanned \cap (1..n)
    /\ enhanced' = enhanced \cap (1..n)
    /\ UNCHANGED <<chain, peak, unmined, snap, reader>>

\* The best chain loses its newest blocks, and the wallet with it.
Reorg(n) ==
    /\ NodeMayRun
    /\ n < Len(chain) /\ peak - n <= MaxReorg
    /\ chain' = SubSeq(chain, 1, n)
    /\ tip' = MinOf(tip, n)
    /\ scanned' = scanned \cap (1..n)
    /\ enhanced' = enhanced \cap (1..n)
    /\ UNCHANGED <<peak, unmined, snap, reader>>

\* An unmined row appears (a broadcast of ours or the mempool) or goes away (mined, expired).
SeeUnmined(row) ==
    /\ NodeMayRun
    /\ Len(unmined) < MaxUnmined
    /\ unmined' = Append(unmined, row)
    /\ UNCHANGED <<chain, peak, tip, scanned, enhanced, snap, reader>>

DropUnmined ==
    /\ NodeMayRun
    /\ unmined # << >>
    /\ unmined' = Tail(unmined)
    /\ UNCHANGED <<chain, peak, tip, scanned, enhanced, snap, reader>>

-----------------------------------------------------------------------------
(* A read, one database transaction at a time.                             *)

\* tip_and_fully_scanned.
ReadTip(r) ==
    /\ reader[r].pc = "idle"
    /\ reader' = [reader EXCEPT ![r] = [Idle EXCEPT !.pc = "tip", !.tip = tip,
                                                    !.fully = FullyScanned]]
    /\ UNCHANGED <<wallet, snap>>

\* The wallet's tip is behind the watermark, or the watermark moved while no INIT was
\* promoted.
MustWipe(r) ==
    \/ reader[r].tip # 0 /\ reader[r].tip < snap.wm
    \/ snap.wm > 0 /\ snap.db.init = "Uninitialized"

\* Open the snapshot, wipe it if need be, and read the watermark.
OpenSnapshot(r) ==
    LET opened == IF MustWipe(r) THEN FreshSnapshot ELSE snap
    IN  /\ reader[r].pc = "tip" /\ snap.tables # "none"
        /\ snap' = opened
        /\ reader' = [reader EXCEPT ![r].pc = "open", ![r].wm = opened.wm]
        /\ UNCHANGED wallet

\* The process is killed between two statements of wipe, which drops the tables one by
\* one and meta, with the watermark, last.
KillInWipe(r) ==
    /\ reader[r].pc = "tip" /\ snap.tables # "none" /\ MustWipe(r)
    /\ snap' \in {[snap EXCEPT !.tables = "some"], [FreshSnapshot EXCEPT !.tables = "none"]}
    /\ reader' = [reader EXCEPT ![r] = Idle]
    /\ UNCHANGED wallet

\* The memo query over data.sqlite.
ScanMemos(r) ==
    /\ reader[r].pc = "open"
    /\ reader' = [reader EXCEPT ![r].pc = "rows",
           ![r].rows = scan_memos_past_watermark(reader[r].wm), ![r].pending = unmined]
    /\ UNCHANGED <<wallet, snap>>

\* unenhanced_floor, then the cutoff that splits the rows.
ReadFloor(r) ==
    /\ reader[r].pc = "rows"
    /\ reader' = [reader EXCEPT ![r].pc = "cut",
           ![r].cutoff = promote_cutoff(reader[r].tip, reader[r].fully, UnenhancedHeights)]
    /\ UNCHANGED <<wallet, snap>>

\* The rows at or below the cutoff, and the others.
Promotable(r) ==
    [h \in DOMAIN reader[r].rows \cap 1..reader[r].cutoff |-> reader[r].rows[h]]

\* Mutant: the promoted rows stay in the tail.
TailRows_all(r) == reader[r].rows

TailRows(r) ==
    [h \in DOMAIN reader[r].rows \ 1..reader[r].cutoff |-> reader[r].rows[h]]

\* The height of a batch's last row.
LastOf(batch) == CHOOSE h \in DOMAIN batch : \A g \in DOMAIN batch : g <= h

\* Mutant: without genesis safety.
promote_buries(s, batch) ==
    IF DOMAIN batch = {} THEN s
    ELSE [db |-> apply_rows(s.db, batch), wm |-> LastOf(batch), tables |-> "all"]

\* promote: one transaction that folds the batch into the tables as they are now
\* and sets the watermark to the batch's last row, unless that would bury blocks
\* behind a watermark with no INIT before it.
promote(s, batch) ==
    LET folded == apply_rows(s.db, batch)
    IN  IF DOMAIN batch = {} \/ folded.init = "Uninitialized" THEN s
        ELSE [db |-> folded, wm |-> LastOf(batch), tables |-> "all"]

Promote(r) ==
    /\ reader[r].pc = "cut"
    /\ DOMAIN Promotable(r) = {} \/ snap.tables = "all"
    /\ snap' = promote(snap, Promotable(r))
    /\ reader' = [reader EXCEPT ![r].pc = "promoted"]
    /\ UNCHANGED wallet

\* load_seed, then replay_with_seed over the tail.
Replay(r) ==
    /\ reader[r].pc = "promoted" /\ snap.tables = "all"
    /\ reader' = [reader EXCEPT ![r].pc = "done",
           ![r].result = replay_with_seed(clear_pending(snap.db),
                             JudgedAt(TailRows(r), reader[r].tip), reader[r].pending)]
    /\ UNCHANGED <<wallet, snap>>

\* A query of a table that is not there: open creates none in a file of the current
\* schema version, so the read ends with an error.
Fail(r) ==
    /\ \/ reader[r].pc = "tip" /\ snap.tables = "none"
       \/ reader[r].pc = "cut" /\ snap.tables # "all" /\ DOMAIN Promotable(r) # {}
       \/ reader[r].pc = "promoted" /\ snap.tables # "all"
    /\ reader' = [reader EXCEPT ![r] = Idle]
    /\ UNCHANGED <<wallet, snap>>

Return(r) ==
    /\ reader[r].pc = "done"
    /\ reader' = [reader EXCEPT ![r] = Idle]
    /\ UNCHANGED <<wallet, snap>>

Next ==
    \/ \E row \in Rows : Mine(row) \/ SeeUnmined(row)
    \/ UpdateTip \/ DropUnmined
    \/ \E h \in 1..MaxHeight : ScanBlock(h) \/ Enhance(h)
    \/ \E n \in 0..MaxHeight : Rewind(n) \/ Reorg(n)
    \/ \E r \in Readers : \/ ReadTip(r) \/ OpenSnapshot(r) \/ ScanMemos(r) \/ ReadFloor(r)
                          \/ Promote(r) \/ Replay(r) \/ Fail(r) \/ Return(r) \/ KillInWipe(r)

Spec == Init /\ [][Next]_vars

\* A pass of the node precedes every read, and a read in progress runs to its end.
Fairness ==
    /\ SF_vars(UpdateTip)
    /\ \A h \in 1..MaxHeight : SF_vars(ScanBlock(h)) /\ SF_vars(Enhance(h))
    /\ \A r \in Readers : WF_vars(\/ ReadTip(r) \/ OpenSnapshot(r) \/ ScanMemos(r)
                                  \/ ReadFloor(r) \/ Promote(r) \/ Replay(r) \/ Fail(r) \/ Return(r))

FairSpec == Spec /\ Fairness

-----------------------------------------------------------------------------
(* Properties.                                                             *)

Pc == {"idle", "tip", "open", "rows", "cut", "promoted", "done"}

\* The stores and the readers' variables are well formed; every scanned block
\* is on the chain and every fetched one scanned.
TypeOK ==
    /\ chain \in Seq(Rows)
    /\ peak \in 0..MaxHeight /\ Len(chain) <= peak
    /\ tip \in 0..Len(chain)
    /\ scanned \subseteq 1..tip /\ enhanced \subseteq scanned
    /\ unmined \in Seq(Rows)
    /\ snap \in [db : Database, wm : 0..MaxHeight, tables : {"all", "some", "none"}]
    /\ reader \in [Readers -> [pc : Pc, tip : 0..MaxHeight, fully : 0..MaxHeight,
                               wm : 0..MaxHeight, rows : Decoded, pending : Seq(Rows),
                               cutoff : 0..MaxHeight, result : Database]]

\* The stores are well formed and the cache is right: an initialised snapshot is exactly
\* the fold of every row of the chain up to its watermark, whatever order blocks were
\* scanned and fetched in, however often the wallet rewound and wherever a wipe was
\* interrupted (promote_cutoff, wipe).
SnapshotAgrees ==
    /\ TypeOK
    /\ snap.db.init = "Initialized" => snap.wm <= Len(chain) /\ snap.db = ChainState(snap.wm)

\* The tip a row is judged at for a read: a row behind the watermark is known to be at
\* least SAFE_DEPTH deep even if the wallet has since rewound.
TipFor(r, h) ==
    IF h <= snap.wm THEN MaxOf(reader[r].tip, snap.wm + SafeDepth) ELSE reader[r].tip

JudgedForRead(r) ==
    LET status(h) == TailStatus(TipFor(r, h), h, chain[h])
    IN  [h \in {g \in Readable \cup 1..snap.wm : status(g) # "Dropped"} |->
            [memo |-> chain[h].memo, status |-> status(h)]]

\* The cache is invisible: a read returns what replaying every known row from
\* genesis at the read's min_confs would return ("min_confs is the threshold
\* for treating any memo (including INIT) as confirmed").
ReadAgrees ==
    \A r \in Readers : reader[r].pc = "done" =>
        reader[r].result = replay_with_seed(EmptyDatabase, JudgedForRead(r), unmined)

\* Genesis safety, with any number of readers beside a running node: no step
\* leaves the watermark past a block while no INIT has been promoted.
GenesisNotBuried == snap'.db.init = "Uninitialized" => snap'.wm = 0 \/ snap'.wm = snap.wm
NeverBuriesGenesis == [][GenesisNotBuried]_vars

\* Why the two hold, when no two reads overlap and the node is idle during a read: the
\* store is empty or a fold SAFE_DEPTH behind the longest chain seen, where no reorg
\* reaches, and what a read has gathered is still what the wallet holds.
StoreInv ==
    \/ snap.db = EmptyDatabase
    \/ /\ snap.db.init = "Initialized" /\ snap.db = ChainState(snap.wm)
       /\ snap.wm <= Len(chain) /\ snap.wm + SafeDepth <= peak

\* A read replays its tail on top of the fold of every row up to here.
Base(r) == MaxOf(snap.wm, reader[r].cutoff)

ReaderInv(r) ==
    /\ reader[r].pc # "idle" => reader[r].tip = tip /\ reader[r].fully = FullyScanned
    /\ reader[r].pc \in {"open", "rows", "cut"} =>
           reader[r].wm = snap.wm /\ snap.wm <= Len(chain) /\ snap.db = ChainState(snap.wm)
    /\ reader[r].pc \in {"rows", "cut", "promoted", "done"} =>
           /\ reader[r].rows = scan_memos_past_watermark(reader[r].wm)
           /\ reader[r].pending = unmined
    /\ reader[r].pc \in {"cut", "promoted", "done"} =>
           reader[r].cutoff = promote_cutoff(tip, FullyScanned, UnenhancedHeights)
    /\ reader[r].pc \in {"promoted", "done"} =>
           /\ Base(r) = MaxOf(reader[r].wm, reader[r].cutoff)
           /\ Base(r) <= Len(chain) /\ snap.db = ChainState(Base(r))
    /\ reader[r].pc = "done" /\ MinConfs <= SafeDepth + 1 =>
           reader[r].result = replay_with_seed(EmptyDatabase, JudgedForRead(r), unmined)

Undisturbed ==
    /\ ~SyncDuringRead
    /\ \A r, s \in Readers : r = s
    /\ MaxReorg <= SafeDepth

CacheInv == TypeOK /\ StoreInv /\ \A r \in Readers : ReaderInv(r)

\* Reads converge: once the node has caught up and the chain stands still, every
\* read returns the state of the whole chain, also from a snapshot that an older
\* build had left with a buried INIT.
ReadsConverge ==
    <>[](\A r \in Readers : reader[r].pc = "done" =>
            reader[r].result = replay_with_seed(EmptyDatabase,
                                   JudgedAt(RowsAt(1..Len(chain)), Len(chain)), unmined))

\* "The snapshot is a cache, not a source of truth" (open): a read that begins finds the
\* tables or makes them.
CacheIsDisposable == \A r \in Readers : reader[r].pc = "tip" => snap.tables = "all" \/ MustWipe(r)

=============================================================================
