----------------------------- MODULE ZkvHistory -----------------------------
(***************************************************************************)
(* The write history: load_history_page, the command and the GUI view that *)
(* page through it.  A page is cut from a list nobody stores: the writes   *)
(* this client has in flight, the wallet's rows past the snapshot's        *)
(* watermark folded on top of the snapshot, and the snapshot's kv_history  *)
(* below it.  Rows wander from the first part to the last as transactions  *)
(* are mined, synced and promoted, by this process or another one.         *)
(*                                                                         *)
(* A write is <<height, txid, output>>, height 0 while it is not mined.    *)
(* The wallet holds every block up to its tip; scanning in pieces, late    *)
(* enhancement and the steps of the read that promotes are ZkvSnapshot's.  *)
(***************************************************************************)
EXTENDS ZkvProtocol, SequencesExt

CONSTANTS
    Tx,             \* transactions, numbered in the order of their txids
    MemosOf,        \* the memos of a transaction, by output
    Own,            \* transactions this wallet builds
    Queries,        \* the pages asked for
    MinConfs,       \* confirmations asked for
    SafeDepth,      \* blocks below the tip that are not promoted
    Concurrent,     \* TRUE: another read may promote while a page is put together
    MaxHeight, MaxRewinds       \* bounds

ASSUME HistoryTxAssumption == Tx \subseteq Nat \ {0} /\ IsFiniteSet(Tx) /\ Own \subseteq Tx
ASSUME HistoryMemosAssumption == MemosOf \in [Tx -> Seq(Memo)]
ASSUME HistoryDepthAssumption == MinConfs \in Nat /\ SafeDepth \in Nat /\ MinConfs =< SafeDepth + 1
ASSUME HistoryBoundsAssumption == {MaxHeight, MaxRewinds} \subseteq Nat

\* A query: the keys it matches, the operations it shows (all of them when none is named),
\* the direction, the page and the transaction the page should hold, if any.
NoFilter == Keys \cup {NoValue}

OpToken == {"SET", "SETL", "DEL", "INIT"}

Query == [filter : SUBSET NoFilter, ops : SUBSET OpToken, order : {"Desc", "Asc"},
          limit : Nat, offset : Nat, locate : Nat]

ASSUME QueriesAssumption == Queries # {} /\ Queries \subseteq Query

VARIABLES
    chain,      \* the transactions of each block
    tip,        \* the wallet's tip
    unmined,    \* transactions the wallet holds that no block it knows contains
    recorded,   \* transactions in pending.toml
    snap,       \* zkv_state.sqlite: watermark, state, kv_history (oldest first)
    page,       \* the page being put together
    rewinds

historyVars == <<chain, tip, unmined, recorded, snap, page, rewinds>>

-----------------------------------------------------------------------------
(* The wallet's rows.                                                      *)

MemoAt(u) == MemosOf[u[2]][u[3]]

\* Chain order; rows that are not mined come last.
Before(u, w) ==
    LET place(x) == IF x[1] = 0 THEN MaxHeight + 1 ELSE x[1]
    IN  \/ place(u) < place(w)
        \/ place(u) = place(w) /\ u[2] < w[2]
        \/ place(u) = place(w) /\ u[2] = w[2] /\ u[3] < w[3]

OutputsOf(h, txs) == UNION {{<<h, t, i>> : i \in DOMAIN MemosOf[t]} : t \in txs}

MinedRows(top) == UNION {OutputsOf(h, chain[h]) : h \in 1..top}

\* A set of rows in chain order.
Ordered(rows) ==
    [n \in 1..Cardinality(rows) |->
        CHOOSE u \in rows : Cardinality({w \in rows : Before(w, u)}) = n - 1]

\* The members of a sequence that are in the set, in their order.
Kept(s, wanted) ==
    LET kept[n \in 0..Len(s)] ==
            IF n = 0 THEN << >>
            ELSE IF s[n] \in wanted THEN Append(kept[n - 1], s[n]) ELSE kept[n - 1]
    IN  kept[Len(s)]

\* scan_memos_past_watermark.
RowsPast(wm) ==
    LET rows == MinedRows(tip) \cup OutputsOf(0, unmined)
    IN  Kept(Ordered(rows), {u \in rows : u[1] = 0 \/ wm = <<0, 0, 0>> \/ Before(wm, u)})

LowerOf(a, b) == IF a =< b THEN a ELSE b
Minus(a, b)   == IF a >= b THEN a - b ELSE 0      \* saturating_sub

effective_min_confs(m) == IF m.op = "INIT" THEN LowerOf(1, MinConfs) ELSE MinConfs

Confirmations(u, at) == IF u[1] = 0 THEN 0 ELSE Minus(at, u[1]) + 1

\* Mutant: the exception for the wallet's own writes is lost.
StatusOf_received(u, at) ==
    IF u[1] = 0 THEN "Pending"
    ELSE IF Confirmations(u, at) >= effective_min_confs(MemoAt(u)) THEN "Confirmed"
    ELSE "Dropped"

\* The display status of a row; a received row that is too shallow has none.
StatusOf(u, at) ==
    IF u[1] = 0 THEN "Pending"
    ELSE IF Confirmations(u, at) >= effective_min_confs(MemoAt(u)) THEN "Confirmed"
    ELSE IF u[2] \in Own THEN "Confirming" ELSE "Dropped"

WriteStatus(status) == IF status = "Confirmed" THEN "Confirmed" ELSE "Confirming"

InWriteLog(op) == op \in DataOps \cup {"INIT"}

\* history_entry_folding over the rows, oldest first: every row is folded, the key/value
\* writes are listed with the verdict of their own position.
FoldHistory(seed, rows, at) ==
    LET status(n) == StatusOf(rows[n], at)
        past[n \in 0..Len(rows)] ==
            IF n = 0 THEN <<seed>>
            ELSE LET p == past[n - 1]
                 IN  Append(p, IF status(n) = "Dropped" THEN p[n]
                               ELSE Fold(p[n], MemoAt(rows[n]), WriteStatus(status(n))))
        db      == past[Len(rows)]      \* db[n]: what row n is folded on
        entries ==
            [n \in 1..Len(rows) |->
                [at |-> rows[n], out |-> rows[n][3], status |-> status(n),
                 ok |-> outcome(db[n], MemoAt(rows[n]), WriteStatus(status(n)))
                            \in {"Applied", "Pending"}]]
    IN  [db   |-> db[Len(rows) + 1],
         list |-> Kept(entries, {e \in Range(entries) : e.status # "Dropped"
                                                        /\ InWriteLog(MemoAt(e.at).op)})]

-----------------------------------------------------------------------------
(* The list and its pages.                                                 *)

Matches(key, filter) == key \in filter

\* pending.toml: mempool rows that are not ours are hidden, and a transaction of ours
\* the wallet does not show yet is listed from the record.
MergePending(list, filter) ==
    LET own    == Kept(list, {e \in Range(list) : \/ MinConfs = 0 \/ e.status # "Pending"
                                                  \/ e.at[2] \in recorded})
        seen   == {own[n].at[2] : n \in DOMAIN own}
        listed == {u \in OutputsOf(0, recorded \ seen) : /\ MemoAt(u).op \in {"SET", "DEL", "INIT"}
                                                         /\ Matches(MemoAt(u).key, filter)}
    IN  own \o [n \in 1..Cardinality(listed) |->
                   LET u == Ordered(listed)[n]
                   IN  [at |-> u, out |-> 0, status |-> "Pending", ok |-> MemoAt(u).signer = Root]]

inflight_rank(status) ==
    CASE status = "Pending" -> 0 [] status = "Confirming" -> 1 [] status = "Confirmed" -> 2

\* In-flight writes first, then by height and output, newest first; ties keep their order.
SortLive(list) ==
    LET place(e)  == IF e.at[1] = 0 THEN MaxHeight + 1 ELSE e.at[1]
        less(p, q) ==
            LET a == list[p]
                b == list[q]
            IN  \/ inflight_rank(a.status) < inflight_rank(b.status)
                \/ /\ inflight_rank(a.status) = inflight_rank(b.status)
                   /\ \/ place(a) > place(b)
                      \/ place(a) = place(b) /\ a.out > b.out
                      \/ place(a) = place(b) /\ a.out = b.out /\ p < q
        after(q)  == Cardinality({p \in DOMAIN list : less(p, q)})
    IN  [n \in DOMAIN list |-> list[CHOOSE q \in DOMAIN list : after(q) = n - 1]]

OpShown(op, ops) == ops = {} \/ op \in ops

\* The --op tokens; SET and SETL are synonyms.
normalize_ops(tokens) ==
    IF tokens \cap {"SET", "SETL"} = {} THEN tokens ELSE tokens \cup {"SET", "SETL"}

\* The live part of the list for a query.
LiveList(seed, rows, at, q) ==
    LET folded == FoldHistory(seed, rows, at).list
        listed == Kept(folded, {e \in Range(folded) : Matches(MemoAt(e.at).key, q.filter)})
        sorted == SortLive(MergePending(listed, q.filter))
    IN  Kept(sorted, {e \in Range(sorted) : OpShown(MemoAt(e.at).op, q.ops)})

\* kv_history rows as entries, oldest first, under history_where.
DeepRows(hist, q) ==
    LET kept == Kept(hist, {u \in Range(hist) : /\ Matches(MemoAt(u).key, q.filter)
                                                /\ OpShown(MemoAt(u).op, q.ops)})
    IN  [n \in DOMAIN kept |-> [at |-> kept[n], out |-> kept[n][3], status |-> "Confirmed",
                                ok |-> TRUE]]

\* skip(off).take(count) of a sequence.
Slice(s, off, count) == SubSeq(s, off + 1, LowerOf(off + count, Len(s)))

history_count(hist, q) == Len(DeepRows(hist, q))

\* history_page: the rows of kv_history in the order asked for, LIMIT and OFFSET.
history_page(hist, q, ascending, take, off) ==
    LET rows == DeepRows(hist, q)
    IN  Slice(IF ascending THEN rows ELSE Reverse(rows), off, take)

\* history_locate: how many rows come before the newest row of the transaction.
history_locate(hist, q) ==
    LET rows == Reverse(DeepRows(hist, [q EXCEPT !.ops = {}]))
        hits == {n \in DOMAIN rows : rows[n].at[2] = q.locate}
    IN  IF hits = {} THEN -1 ELSE Min(hits) - 1

\* The offset of the page that holds the located transaction.
PageOffset(live, hist, q) ==
    LET hits == {n \in DOMAIN live : live[n].at[2] = q.locate}
        deep == history_locate(hist, q)
        rank == IF hits # {} THEN Min(hits) - 1 ELSE IF deep = -1 THEN -1 ELSE Len(live) + deep
    IN  IF q.locate = 0 \/ q.order = "Asc" \/ q.limit = 0 \/ rank = -1 THEN q.offset
        ELSE (rank \div q.limit) * q.limit

\* Mutant: the deep part is not shifted by the live rows before it.
PageEntries_unshifted(live, hist, q, off) ==
    LET count == history_count(hist, q)
        shown == Slice(live, off, q.limit)
        old   == LowerOf(q.limit, Minus(count, off))
    IN  IF q.order = "Desc"
        THEN shown \o history_page(hist, q, FALSE, q.limit - Len(shown), off)
        ELSE history_page(hist, q, TRUE, old, LowerOf(off, count))
             \o Slice(Reverse(live), Minus(off, count), q.limit - old)

\* Newest first the page is cut from live ++ deep, oldest first from the reverse; the
\* deep part is cut by the query and the live part in memory.
PageEntries(live, hist, q, off) ==
    LET count == history_count(hist, q)
        shown == Slice(live, off, q.limit)
        old   == LowerOf(q.limit, Minus(count, off))
    IN  IF q.order = "Desc"
        THEN shown \o history_page(hist, q, FALSE, q.limit - Len(shown), Minus(off, Len(live)))
        ELSE history_page(hist, q, TRUE, old, LowerOf(off, count))
             \o Slice(Reverse(live), Minus(off, count), q.limit - old)

-----------------------------------------------------------------------------
(* The machine.                                                            *)

Start == <<0, 0, 0>>

FreshSnapshot == [wm |-> Start, db |-> EmptyDatabase, hist |-> << >>]

NoPage == [pc |-> "idle", q |-> CHOOSE q \in Queries : TRUE, tip |-> 0, wm |-> Start,
           seed |-> EmptyDatabase, live |-> << >>, entries |-> << >>, total |-> 0, offset |-> 0]

HistoryInit ==
    /\ chain = << >>
    /\ tip = 0
    /\ unmined = {}
    /\ recorded = {}
    /\ snap = FreshSnapshot
    /\ page = NoPage
    /\ rewinds = 0

Quiet == page.pc = "idle"

Mined(top) == UNION {chain[h] : h \in 1..top}

Initialized == FoldHistory(EmptyDatabase, RowsPast(Start), tip).db.init = "Initialized"

\* A write of ours is sent and recorded once the database is initialised; the wallet
\* holds its transaction at once or learns of it from the chain.
Broadcast(t, stored) ==
    /\ Quiet
    /\ MemosOf[t][1].op = "INIT" \/ Initialized
    /\ t \in Own \ (recorded \cup Mined(Len(chain)))
    /\ recorded' = recorded \cup {t}
    /\ unmined' = IF stored THEN unmined \cup {t} ELSE unmined
    /\ UNCHANGED <<chain, tip, snap, page, rewinds>>

\* The mempool shows somebody else's transaction.
SeeMempool(t) ==
    /\ Quiet
    /\ t \in Tx \ (Own \cup unmined \cup Mined(tip))
    /\ unmined' = unmined \cup {t}
    /\ UNCHANGED <<chain, tip, recorded, snap, page, rewinds>>

Mine(txs) ==
    /\ Quiet
    /\ Len(chain) < MaxHeight
    /\ txs \cap Mined(Len(chain)) = {} /\ txs \cap Own \subseteq recorded
    /\ chain' = Append(chain, txs)
    /\ UNCHANGED <<tip, unmined, recorded, snap, page, rewinds>>

\* A sync to the tip, which prunes what the wallet can read now from pending.toml.
Sync ==
    /\ Quiet
    /\ tip < Len(chain)
    /\ tip' = Len(chain)
    /\ unmined' = unmined \ Mined(Len(chain))
    /\ recorded' = recorded \ Mined(Len(chain))
    /\ UNCHANGED <<chain, snap, page, rewinds>>

\* The wallet is rewound, as after a continuity error.
Rewind(n) ==
    /\ Quiet
    /\ rewinds < MaxRewinds /\ n \in 1..(tip - 1)
    /\ tip' = n
    /\ rewinds' = rewinds + 1
    /\ UNCHANGED <<chain, unmined, recorded, snap, page>>

\* Mutant: every write is promoted, whatever its verdict.
PromotedWrite_unjudged(db, m) == InWriteLog(m.op)

\* What goes to kv_history: the key/value writes that replay applies.
PromotedWrite(db, m) == InWriteLog(m.op) /\ classify(db, m, "Confirmed") = "Applied"

\* promote: the applied key/value writes go to kv_history, and the watermark moves once
\* the database is initialised.
Promoted(s, rows) ==
    LET past[n \in 0..Len(rows)] ==
            IF n = 0 THEN <<s.db>>
            ELSE LET p == past[n - 1] IN Append(p, Fold(p[n], MemoAt(rows[n]), "Confirmed"))
        db      == past[Len(rows)]      \* db[n]: what row n is folded on
        applied == {n \in 1..Len(rows) : PromotedWrite(db[n], MemoAt(rows[n]))}
        last    == db[Len(rows) + 1]
    IN  IF rows = << >> \/ last.init = "Uninitialized" THEN s
        ELSE [wm   |-> rows[Len(rows)],
              db   |-> last,
              hist |-> s.hist \o Kept(rows, {rows[n] : n \in applied})]

\* ensure_fresh: a snapshot ahead of the wallet is wiped.
FreshEnough(s) == IF tip # 0 /\ tip < s.wm[1] THEN FreshSnapshot ELSE s

\* The snapshot a load_state leaves: the rows deep enough are promoted.
LoadedState ==
    LET s    == FreshEnough(snap)
        rows == RowsPast(s.wm)
    IN  Promoted(s, Kept(rows, {u \in Range(rows) : u[1] \in 1..Minus(tip, SafeDepth)}))

\* A read of the state, by any process.
ReadState ==
    /\ Concurrent \/ Quiet
    /\ snap' = LoadedState
    /\ snap' # snap
    /\ UNCHANGED <<chain, tip, unmined, recorded, page, rewinds>>

\* load_history_page: the tip, the snapshot (wiped when it is ahead) and its watermark.
OpenPage(s, q) ==
    /\ page.pc = "idle"
    /\ snap' = FreshEnough(s)
    /\ page' = [NoPage EXCEPT !.pc = "open", !.tip = tip, !.wm = FreshEnough(s).wm, !.q = q]
    /\ UNCHANGED <<chain, tip, unmined, recorded, rewinds>>

\* Database::history: every operation, newest first.
OpenHistory(q) ==
    /\ q.ops = {} /\ q.order = "Desc" /\ q.locate = 0
    /\ OpenPage(snap, q)

\* Database::history_at_txid: the page that holds a transaction.
OpenAtTxid(q) ==
    /\ q.ops = {} /\ q.order = "Desc" /\ q.offset = 0 /\ q.locate # 0
    /\ OpenPage(snap, q)

\* `zkv history`: the version gate's load_state promotes before the page is opened.
OpenCli(q) ==
    /\ q.locate = 0
    /\ OpenPage(LoadedState, [q EXCEPT !.ops = normalize_ops(@)])

LoadSeed ==
    /\ page.pc = "open"
    /\ page' = [page EXCEPT !.pc = "seed", !.seed = clear_pending(snap.db)]
    /\ UNCHANGED <<chain, tip, unmined, recorded, snap, rewinds>>

\* The rows past the watermark, folded on the seed and merged with pending.toml.
ScanTail ==
    /\ page.pc = "seed"
    /\ page' = [page EXCEPT !.pc = "live",
                    !.live = LiveList(page.seed, RowsPast(page.wm), page.tip, page.q)]
    /\ UNCHANGED <<chain, tip, unmined, recorded, snap, rewinds>>

\* The count, the offset and the page itself.
CutPage ==
    /\ page.pc = "live"
    /\ LET off == PageOffset(page.live, snap.hist, page.q)
       IN  page' = [page EXCEPT !.pc = "done", !.offset = off,
                        !.entries = PageEntries(page.live, snap.hist, page.q, off),
                        !.total = Len(page.live) + history_count(snap.hist, page.q)]
    /\ UNCHANGED <<chain, tip, unmined, recorded, snap, rewinds>>

Return ==
    /\ page.pc = "done"
    /\ page' = NoPage
    /\ UNCHANGED <<chain, tip, unmined, recorded, snap, rewinds>>

HistoryNext ==
    \/ \E t \in Tx : Broadcast(t, TRUE) \/ Broadcast(t, FALSE) \/ SeeMempool(t)
    \/ \E txs \in SUBSET Tx : Mine(txs)
    \/ Sync
    \/ \E n \in 1..MaxHeight : Rewind(n)
    \/ ReadState
    \/ \E q \in Queries : OpenHistory(q) \/ OpenAtTxid(q) \/ OpenCli(q)
    \/ LoadSeed \/ ScanTail \/ CutPage \/ Return

HistorySpec == HistoryInit /\ [][HistoryNext]_historyVars

-----------------------------------------------------------------------------
(* Correctness.                                                            *)

\* The state is well formed.
HistoryTypeOK ==
    /\ chain \in Seq(SUBSET Tx) /\ Len(chain) =< MaxHeight /\ tip \in 0..Len(chain)
    /\ unmined \subseteq Tx /\ recorded \subseteq Own
    /\ snap.db \in Database /\ snap.db.pending = EmptyDatabase.pending
    /\ page.pc \in {"idle", "open", "seed", "live", "done"}
    /\ rewinds \in 0..MaxRewinds

\* The whole list of a query at this moment, newest first, as one unpaged call sees it.
WholeList(q) ==
    LiveList(clear_pending(snap.db), RowsPast(snap.wm), tip, q) \o Reverse(DeepRows(snap.hist, q))

\* load_audit judges a row by its confirmations alone: the INIT has no exception, and rows in
\* the mempool or too shallow are folded as confirming, whoever sent them.
AuditStatus(u) ==
    IF u[1] # 0 /\ Confirmations(u, tip) >= MinConfs THEN "Confirmed" ELSE "Confirming"

\* The audit's answer: the key/value writes that took effect, replayed by replay_audit from
\* all the rows of the wallet and no snapshot.
AuditApplied ==
    LET rows == RowsPast(Start)
        past[n \in 0..Len(rows)] ==
            IF n = 0 THEN <<EmptyDatabase>>
            ELSE LET p == past[n - 1]
                 IN  Append(p, Fold(p[n], MemoAt(rows[n]), AuditStatus(rows[n])))
        db         == past[Len(rows)]       \* db[n]: what row n is folded on
        verdict(n) == outcome(db[n], MemoAt(rows[n]), AuditStatus(rows[n]))
    IN  {rows[n] : n \in {m \in 1..Len(rows) : /\ AuditStatus(rows[m]) = "Confirmed"
                                             /\ InWriteLog(MemoAt(rows[m]).op)
                                             /\ verdict(m) = "Applied"}}

\* The mined writes that take effect, whatever their confirmations now.
AppliedInTheEnd ==
    LET list == FoldHistory(EmptyDatabase, RowsPast(Start), MaxHeight + MinConfs).list
    IN  {e.at : e \in {f \in Range(list) : f.ok /\ f.status = "Confirmed"}}

\* The page shows the whole list.
ShowsAll ==
    /\ page.pc = "done" /\ page.q.filter = NoFilter /\ page.q.ops = {}
    /\ Len(page.entries) = page.total

\* The history and the audit agree, although they judge rows by rules of their own and only
\* one of them reads the snapshot: the confirmed writes the history shows as verified are
\* the writes the audit applies, wherever the watermark stands (history_entry_folding "cannot
\* drift from what readers actually apply").  Promotion moves rows between the two halves of
\* the list and neither loses one nor changes its verdict.  The one write the history
\* confirms before the audit does is an INIT that is not MinConfs deep yet.  (A rewound
\* wallet counts confirmations from its lower tip until it has caught up with the snapshot.)
VerdictsAgree ==
    ShowsAll /\ tip >= snap.wm[1] + SafeDepth =>
        LET shown == {e.at : e \in {f \in Range(page.entries) : f.ok /\ f.status = "Confirmed"}}
        IN  {u \in shown : MemoAt(u).op # "INIT" \/ AuditStatus(u) = "Confirmed"} = AuditApplied

\* No write is listed twice, although it may be in pending.toml, in the wallet's mempool
\* rows, in its mined rows and in kv_history.
ListedOnce ==
    page.pc = "done" =>
        \A m, n \in DOMAIN page.entries :
            page.entries[m].at[2] = page.entries[n].at[2]
                /\ page.entries[m].at[3] = page.entries[n].at[3] => m = n

\* A page is the slice of the whole list its offset and limit name, in either direction
\* and across the seam between the live rows and the snapshot's; total counts the list.
PageIsSlice ==
    page.pc = "done" =>
        LET whole == WholeList(page.q)
        IN  /\ page.total = Len(whole)
            /\ page.entries = Slice(IF page.q.order = "Desc" THEN whole ELSE Reverse(whole),
                                    page.offset, page.q.limit)

\* A jump to a transaction lands on a page that shows it, whenever the list has it and the
\* page has room for a write (history_at_txid).
LocateFinds ==
    page.pc = "done" /\ page.q.locate # 0 /\ page.q.limit # 0 =>
        \/ \E n \in DOMAIN page.entries : page.entries[n].at[2] = page.q.locate
        \/ \A n \in DOMAIN WholeList(page.q) : WholeList(page.q)[n].at[2] # page.q.locate

\* In-flight writes are on top and the rest is newest first, across the seam too.
NewestFirst ==
    page.pc = "done" /\ page.q.order = "Desc" =>
        \A m, n \in DOMAIN page.entries :
            m < n => \/ inflight_rank(page.entries[m].status) < inflight_rank(page.entries[n].status)
                     \/ /\ page.entries[m].status = page.entries[n].status
                        /\ page.entries[m].at[1] >= page.entries[n].at[1]

\* The list is right: the verdicts of the audit, each write once, newest first.
HistoryAgrees == HistoryTypeOK /\ VerdictsAgree /\ ListedOnce /\ NewestFirst

\* The pages of the list are right: the slice asked for, wherever the seam falls, and the
\* page of the transaction looked for.
PagesRight == PageIsSlice /\ LocateFinds

\* A write of this client stays in its history from the moment it is sent: in flight,
\* mined, pruned from pending.toml and promoted.  Only a write that replay refused
\* disappears, when it is promoted past.
OwnWritesStay ==
    ShowsAll =>
        \A u \in OutputsOf(0, recorded \cup (Own \cap Mined(tip))) :
            InWriteLog(MemoAt(u).op) =>
                \/ \E n \in DOMAIN page.entries :
                      page.entries[n].at[2] = u[2] /\ page.entries[n].at[3] = u[3]
                \/ \E h \in 1..snap.wm[1] :
                      u[2] \in chain[h] /\ <<h, u[2], u[3]>> \notin AppliedInTheEnd

=============================================================================
