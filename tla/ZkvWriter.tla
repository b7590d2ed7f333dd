------------------------------ MODULE ZkvWriter ------------------------------
(***************************************************************************)
(* The write path of one client: prepare a memo over the next sequence,    *)
(* ship it, record it in pending.toml, and watch it being mined or lost.   *)
(*                                                                         *)
(* The sequence is picked from the client's own read of the database (its  *)
(* unmined transactions folded on top of the confirmed rows) plus a count  *)
(* of in-flight transactions, and is committed to only when the memo is    *)
(* signed: nothing reserves it.  Serialized says whether the caller holds  *)
(* a lock from prepare to record (the node's datadir lock taken by the     *)
(* pre-broadcast sync, or the GUI's per-database mutex); a write with      *)
(* --no-sync prepares before it takes any.                                 *)
(***************************************************************************)
EXTENDS ZkvProtocol

CONSTANTS
    Me,             \* the client's signing identity
    Spelling,       \* pubkey_bech32: the canonical wire spelling of an identity
    Clients,        \* concurrent write calls on the same database directory
    Batches,        \* write requests: sequences of [op, key, value]
    Managements,    \* management requests: [op, target, scope], target as typed
    Others,         \* memos other writers may get mined
    Serialized,     \* are the calls serialised from prepare to record?
    MaxSent,        \* bound: transactions the client broadcasts
    MaxLost,        \* bound: transactions that expire unmined
    MaxOthers       \* bound: memos of other writers

ASSUME MeAssumption       == Me \in Pubkeys
ASSUME WriterSpellingAssumption ==
    /\ Spelling \in [Pubkeys -> Targets]
    /\ \A p \in Pubkeys : Canonical[Spelling[p]] = p
ASSUME BatchAssumption    ==
    Batches \subseteq Seq([op : SetOps, key : Keys, value : Values]
                          \cup [op : {"DEL"}, key : Keys, value : {NoValue}])
ASSUME ManagementAssumption ==
    Managements \subseteq [op : RegistryOps, target : Targets, scope : Scope]
                       \cup [op : {"FINALIZE"}, target : {NoValue}, scope : {{}}]
ASSUME OthersAssumption   == Others \subseteq Memo
ASSUME WriterBoundsAssumption ==
    {MaxSent, MaxLost, MaxOthers} \subseteq Nat /\ Serialized \in BOOLEAN

VARIABLES
    db,         \* the confirmed state every reader folds from the mined rows
    waiting,    \* the wallet's unmined rows [tx, memo] in (txid, output_index) order
    toml,       \* pending.toml: entries [tx, op, key]
    call,       \* per client: [pc, memos, entries]
    sent,       \* history: the memos of each broadcast transaction, in order
    lost,       \* history: transactions that expired unmined
    others      \* history: how many memos of other writers were mined

writerVars == <<db, waiting, toml, call, sent, lost, others>>

IdleCall == [pc |-> "idle", memos |-> << >>, entries |-> {}]

\* A new database, or one whose INIT has confirmed; nothing has been written.
WriterInit ==
    /\ db \in {EmptyDatabase, [insert_owner(EmptyDatabase, Root) EXCEPT !.init = "Initialized"]}
    /\ waiting = << >>
    /\ toml = {}
    /\ call = [c \in Clients |-> IdleCall]
    /\ sent = << >>
    /\ lost = {}
    /\ others = 0

-----------------------------------------------------------------------------
(* What the client reads: load_state at one confirmation, and pending.toml. *)

\* A transaction of ours is mined: neither unmined nor lost.
Mined(tx) == tx \in 1..Len(sent) /\ tx \notin lost /\ \A i \in DOMAIN waiting : waiting[i].tx # tx

\* gc_pending: drop the entries whose transaction has been mined.
Pruned == {e \in toml : ~Mined(e.tx)}

\* Mutant: the read leaves the unmined rows out.
View_confirmed_only(file) == [db |-> db, txs |-> [k \in Keys |-> {}], toml |-> file]

\* The confirmed rows with the unmined ones folded on top, and the transactions
\* whose data ops are pending on each key.
Overlaid ==
    LET f[i \in 0..Len(waiting)] ==
            IF i = 0 THEN [db |-> db, txs |-> [k \in Keys |-> {}]]
            ELSE LET m == waiting[i].memo
                     honoured == classify(f[i - 1].db, m, "Confirming") = "Pending"
                 IN  [db  |-> Fold(f[i - 1].db, m, "Confirming"),
                      txs |-> IF honoured /\ m.op \in DataOps
                              THEN [f[i - 1].txs EXCEPT ![m.key] = @ \cup {waiting[i].tx}]
                              ELSE f[i - 1].txs]
    IN  f[Len(waiting)]

\* What a call works from: that replay, pruned, and the pending.toml read beside it.
View(file) == [db |-> prune(Overlaid.db), txs |-> Overlaid.txs, toml |-> file]

\* inflight_count: distinct transactions of the read's pending queue and pending.toml.
inflight_count(view, key, ops) ==
    LET queued == IF ops = DataOps /\ view.db.pending[key] # << >> THEN view.txs[key] ELSE {}
    IN  Cardinality(queued \cup {e.tx : e \in {x \in view.toml : x.key = key /\ x.op \in ops}})

\* prepare's and prepare_batch's base version of a key.
base(view, key) == view.db.kv_versions[key] + inflight_count(view, key, DataOps)

\* sequence_versions: ops of one batch on the same key take consecutive versions.
sequence_versions(view, batch) ==
    [i \in 1..Len(batch) |->
        LET earlier == {j \in 1..(i - 1) : batch[j].key = batch[i].key}
        IN  [op |-> batch[i].op, key |-> batch[i].key, value |-> batch[i].value,
             seq |-> base(view, batch[i].key) + Cardinality(earlier), signer |-> Me]]

\* The pre-checks: initialised, not sealed, this build not blocked from writing.
WritesAllowed(view) ==
    /\ view.db.init = "Initialized"
    /\ ~view.db.finalized
    /\ ~(view.db.version > 0 /\ "WRITE" \in view.db.blocks)

\* Authority for every op, judged as if the earlier ops of the batch had applied.
BatchAuthorized(view, batch) ==
    \A i \in 1..Len(batch) :
        LET earlier == {j \in 1..(i - 1) : batch[j].key = batch[i].key}
            exists  == IF earlier = {} THEN view.db.kv[batch[i].key] # NoValue
                       ELSE batch[CHOOSE j \in earlier : \A h \in earlier : h <= j].op \in SetOps
        IN  authorize(view.db, Me, batch[i].op, exists) = "Ok"

-----------------------------------------------------------------------------
(* A write call.                                                           *)

Turn(c) == call[c].pc = "idle" /\ (Serialized => \A d \in Clients : call[d].pc = "idle")

\* The pre-broadcast sync prunes pending.toml before the read.
Synced(sync) == IF sync THEN Pruned ELSE toml

Prepared(c, memos, entries) ==
    call' = [call EXCEPT ![c] = [pc |-> "prepared", memos |-> memos, entries |-> entries]]

\* prepare / prepare_batch, after the pre-broadcast sync unless it is skipped.
PrepareBatch(c, batch, sync) ==
    LET view == View(Synced(sync))
    IN  /\ Turn(c)
        /\ Len(sent) < MaxSent
        /\ WritesAllowed(view) /\ BatchAuthorized(view, batch)
        /\ Prepared(c, sequence_versions(view, batch),
                    {[op |-> batch[i].op, key |-> batch[i].key] : i \in 1..Len(batch)})
        /\ toml' = Synced(sync)
        /\ UNCHANGED <<db, waiting, sent, lost, others>>

\* prepare_management: the memo names the canonical spelling; pending.toml will
\* record the target as typed.  FINALIZE names nobody and carries no sequence.
PrepareManagement(c, req, sync) ==
    LET view   == View(Synced(sync))
        target == IF req.op = "FINALIZE" THEN NoValue ELSE Spelling[Canonical[req.target]]
        seq    == IF req.op = "FINALIZE" THEN 0
                  ELSE view.db.target_versions[target] + inflight_count(view, target, RegistryOps)
        value  == CASE req.op = "FINALIZE"  -> NoValue
                    [] req.op = "WRITERADD" -> req.scope
                    [] OTHER                -> {}
    IN  /\ Turn(c)
        /\ Len(sent) < MaxSent
        /\ req.op # "FINALIZE" => Canonical[req.target] # NotAPubkey
        /\ WritesAllowed(view) /\ Me \in view.db.owners
        /\ Prepared(c, <<[op |-> req.op, key |-> target, value |-> value,
                          seq |-> seq, signer |-> Me]>>,
                    {[op |-> req.op, key |-> req.target]})
        /\ toml' = Synced(sync)
        /\ UNCHANGED <<db, waiting, sent, lost, others>>

\* Database::set and del: one operation.
do_write(c, batch, sync) ==
    /\ Len(batch) = 1
    /\ PrepareBatch(c, batch, sync)

\* Database::write_many: an empty batch is refused.
do_write_many(c, batch, sync) ==
    /\ batch # << >>
    /\ PrepareBatch(c, batch, sync)

\* The owners' calls, from Database or `zkv owner`, `zkv writer`, `zkv finalize`.
do_manage(c, req, sync) == PrepareManagement(c, req, sync)

\* prepare_init: the caller has seen an uninitialised database.
PrepareInit(c) ==
    /\ Turn(c)
    /\ Len(sent) < MaxSent
    /\ View(toml).db.init = "Uninitialized"
    /\ Prepared(c, <<[op |-> "INIT", key |-> NoValue, value |-> NoValue, seq |-> 0, signer |-> Me]>>,
                {[op |-> "INIT", key |-> NoValue]})
    /\ UNCHANGED <<db, waiting, toml, sent, lost, others>>

\* ship: the wallet stores the transaction before broadcasting it.  Where it
\* sorts among the unmined ones is up to its txid, and where each memo sorts
\* within it up to the transaction builder.
Ship(c) ==
    /\ call[c].pc = "prepared"
    /\ \E p \in 0..Len(waiting), n \in 0..1 :
           LET memos == call[c].memos
               at(i) == IF n = 0 THEN i ELSE Len(memos) + 1 - i
               rows  == [i \in 1..Len(memos) |-> [tx |-> Len(sent) + 1, memo |-> memos[at(i)]]]
           IN  /\ p \in 1..(Len(waiting) - 1) => waiting[p].tx # waiting[p + 1].tx
               /\ waiting' = SubSeq(waiting, 1, p) \o rows \o SubSeq(waiting, p + 1, Len(waiting))
    /\ sent' = Append(sent, call[c].memos)
    /\ call' = [call EXCEPT ![c] = [pc |-> "shipped", memos |-> @.memos,
           entries |-> {[tx |-> Len(sent) + 1, op |-> e.op, key |-> e.key] : e \in @.entries}]]
    /\ UNCHANGED <<db, toml, lost, others>>

\* record_pending is best effort: a crash, a failed write or a concurrent
\* rewrite of the file loses the entries.
Record(c) ==
    /\ call[c].pc = "shipped"
    /\ toml' = toml \cup call[c].entries
    /\ call' = [call EXCEPT ![c] = IdleCall]
    /\ UNCHANGED <<db, waiting, sent, lost, others>>

RecordLost(c) ==
    /\ call[c].pc = "shipped"
    /\ call' = [call EXCEPT ![c] = IdleCall]
    /\ UNCHANGED <<db, waiting, toml, sent, lost, others>>

-----------------------------------------------------------------------------
(* The chain, other writers and the passing of time.                       *)

\* The unmined rows of some transactions, in their order.
RowsOf(txs) ==
    LET f[i \in 0..Len(waiting)] ==
            IF i = 0 THEN << >>
            ELSE IF waiting[i].tx \in txs THEN Append(f[i - 1], waiting[i]) ELSE f[i - 1]
    IN  f[Len(waiting)]

\* Those of every transaction but one.
RowsBut(tx) == RowsOf((1..Len(sent)) \ {tx})

\* The confirmed state with some rows folded on top as confirmed.
Confirmed(rows) ==
    LET f[i \in 0..Len(rows)] ==
            IF i = 0 THEN db ELSE Fold(f[i - 1], rows[i].memo, "Confirmed")
    IN  f[Len(rows)]

\* A transaction is mined: its rows are folded in output order.
MineTx(tx) ==
    /\ RowsOf({tx}) # << >>
    /\ db' = Confirmed(RowsOf({tx}))
    /\ waiting' = RowsBut(tx)
    /\ UNCHANGED <<toml, call, sent, lost, others>>

\* It expires instead, and the wallet stops listing it.
Expire(tx) ==
    /\ \E i \in DOMAIN waiting : waiting[i].tx = tx
    /\ Cardinality(lost) < MaxLost
    /\ lost' = lost \cup {tx}
    /\ waiting' = RowsBut(tx)
    /\ UNCHANGED <<db, toml, call, sent, others>>

\* Somebody else's memo is mined.
OtherMined(m) ==
    /\ others < MaxOthers
    /\ others' = others + 1
    /\ db' = Fold(db, m, "Confirmed")
    /\ UNCHANGED <<waiting, toml, call, sent, lost>>

\* A read's sync prunes pending.toml.
ReadSync ==
    /\ Pruned # toml
    /\ toml' = Pruned
    /\ UNCHANGED <<db, waiting, call, sent, lost, others>>

\* An entry passes STALE_AFTER_SECS; its transaction has been mined or has
\* expired by then.
Age(e) ==
    /\ e \in toml
    /\ \A i \in DOMAIN waiting : waiting[i].tx # e.tx
    /\ toml' = toml \ {e}
    /\ UNCHANGED <<db, waiting, call, sent, lost, others>>

WriterNext ==
    \/ \E c \in Clients, sync \in BOOLEAN :
           \/ \E batch \in Batches : do_write(c, batch, sync) \/ do_write_many(c, batch, sync)
           \/ \E req \in Managements : do_manage(c, req, sync)
    \/ \E c \in Clients : PrepareInit(c) \/ Ship(c) \/ Record(c) \/ RecordLost(c)
    \/ \E tx \in 1..MaxSent : MineTx(tx) \/ Expire(tx)
    \/ \E m \in Others : OtherMined(m)
    \/ \E e \in toml : Age(e)
    \/ ReadSync

WriterSpec == WriterInit /\ [][WriterNext]_writerVars

-----------------------------------------------------------------------------
(* Properties.                                                             *)

\* The transactions that can still take effect, or have.
Live == (1..Len(sent)) \ lost

\* The state and the client's records are well formed, and every entry of
\* pending.toml names a broadcast transaction.
WriterTypeOK ==
    /\ db \in Database
    /\ \A i \in DOMAIN waiting : waiting[i].tx \in Live /\ waiting[i].memo \in Memo
    /\ \A e \in toml : e.tx \in 1..Len(sent)
    /\ \A c \in Clients : call[c].pc \in {"idle", "prepared", "shipped"}
    /\ lost \subseteq 1..Len(sent) /\ others \in 0..MaxOthers

\* The client goes on being heard: while a versioned memo of its is unmined, it is an
\* owner of the database and the memo's sequence is within the window of what is confirmed.
Heard ==
    \A i \in DOMAIN waiting :
        LET m == waiting[i].memo
        IN  is_versioned(m.op) => Me \in db.owners /\ m.seq <= high_water(db, m) + VersionWindow

\* No two memos of the client that can still take effect claim the same
\* sequence of the same key or target, so none is dropped as a replay of
\* another ("a writer's own rapid successive same-key writes don't self-conflict").
NoSelfConflict ==
    /\ WriterTypeOK
    /\ \A s, t \in Live : \A i \in DOMAIN sent[s], j \in DOMAIN sent[t] :
           LET m == sent[s][i]
               n == sent[t][j]
           IN  (<<s, i>> # <<t, j>> /\ is_versioned(m.op) /\ is_versioned(n.op)
                /\ (m.op \in DataOps <=> n.op \in DataOps) /\ m.key = n.key) => m.seq # n.seq

\* The places of the data memos sent for a key: a transaction and an index in it.
WritesTo(k) ==
    {x \in UNION {{t} \X DOMAIN sent[t] : t \in DOMAIN sent} :
        sent[x[1]][x[2]].op \in DataOps /\ sent[x[1]][x[2]].key = k}

NoEarlier(x, y) == y[1] < x[1] \/ (y[1] = x[1] /\ y[2] <= x[2])

\* The last write wins: when everything the client broadcast has been mined, in
\* whatever order the blocks and the builder put it, each key holds what its
\* latest write set, unless somebody else wrote too or the database was sealed.
LastWriteWins ==
    (waiting = << >> /\ lost = {} /\ others = 0 /\ ~db.finalized) =>
        \A k \in Keys :
            LET last == CHOOSE x \in WritesTo(k) : \A y \in WritesTo(k) : NoEarlier(x, y)
            IN  WritesTo(k) # {} => db.kv[k] = sent[last[1]][last[2]].value

\* A signed sequence is "confirmed + own in-flight count": at most one ahead of
\* the confirmed high-water per transaction in flight, so a gap left by lost
\* ones "still lands within current + W".
SignsConfirmedPlusInflight ==
    \A i \in DOMAIN waiting :
        waiting[i].memo.op \in DataOps =>
            waiting[i].memo.seq <= db.kv_versions[waiting[i].memo.key]
                                   + Cardinality({waiting[j].tx : j \in DOMAIN waiting} \cup lost)

=============================================================================
