---------------------------- MODULE ZkvDashboard ----------------------------
(***************************************************************************)
(* What the GUI shows of one database while its wallet moves underneath:   *)
(* the sidebar's key counts, memoised by list_databases under (fully       *)
(* scanned height, pending.toml fingerprint); the failing-sync banner the  *)
(* auto-sync loop raises and clears; the balance and the funding ledger of *)
(* the payments in and out of the wallet, zkv writes included.             *)
(*                                                                         *)
(* Nothing the sidebar does is serialised with the rest: the wallet node   *)
(* scans and enhances in the background, syncs, writes and sends take the  *)
(* database's lock, and a poll takes none.                                 *)
(***************************************************************************)
EXTENDS Integers, FiniteSets, Sequences, FiniteSetsExt

CONSTANTS
    Keys,           \* the keys writes set
    Amounts,        \* what others pay into the wallet
    Typed,          \* amounts a user types: [whole : Nat, frac : Seq(0..9)]
    Decimals,       \* decimal places of a ZEC amount
    MAX_MONEY,      \* the most a Zatoshis value can be
    Fee,            \* what a transaction costs
    MinConfs,       \* Confirmations::Default
    TRUSTED_CONFIRMATIONS, UNTRUSTED_CONFIRMATIONS,
    SYNC_ERROR_THRESHOLD,
    Expiry,         \* blocks an unmined transaction lives
    MaxHeight, MaxTxs,  \* bounds on blocks and transactions
    MaxEvents,      \* bound: reorganisations, outages, removals and restarts together
    None            \* no cached summary, no database

ASSUME DashboardAssumption ==
    /\ {Fee, MinConfs, TRUSTED_CONFIRMATIONS, SYNC_ERROR_THRESHOLD, Expiry} \subseteq Nat \ {0}
    /\ UNTRUSTED_CONFIRMATIONS \in TRUSTED_CONFIRMATIONS..MaxHeight
    /\ Amounts \subseteq Nat \ {0} /\ {Decimals, MAX_MONEY} \subseteq Nat
    /\ {MaxHeight, MaxTxs, MaxEvents} \subseteq Nat
    /\ Typed \subseteq [whole : Nat, frac : Seq(0..9)]
ASSUME KeysAssumption == Keys # {} /\ None \notin Keys

VARIABLES
    \* the chain
    height,     \* its tip
    txs,        \* the transactions that touch the wallet: [kind, amount, key, expiry]
    mined,      \* per transaction: the block that holds it, 0 in the mempool
    fork,       \* the lowest block replaced since the wallet last looked, 0 if none
    \* the wallet's files
    exists,     \* is there a database of this name?
    tip,        \* chain_height: the tip the wallet knows
    scanned,    \* fully_scanned_height
    rows,       \* per transaction, what the wallet recorded: [known, at, enhanced, built]
    toml,       \* pending.toml
    \* the GUI
    writing,    \* the write that is shipped and not recorded yet, 0 if none
    poll,       \* a list_databases call under way: [pc, synced, fp, counts]
    cache,      \* summary_cache: None or [synced, fp, counts]
    shown,      \* the counts in the sidebar
    strikes,    \* sync_fail_counts, capped at the threshold
    banner,     \* sync_errors: is a failure shown?
    up,         \* does the server answer?
    \* history
    stale,      \* may a summary under the present key be out of date?
    used        \* how many of MaxEvents have happened

chain  == <<height, txs, mined, fork>>
wallet == <<exists, tip, scanned, rows, toml>>
bar    == <<poll, cache, shown>>
errors == <<strikes, banner, up>>
vars   == <<chain, wallet, writing, bar, errors, stale, used>>

Tx == 1..Len(txs)
OwnKinds == {"write", "send", "self"}
ZkvKinds == {"write", "foreign", "tip", "init"}
Own(i)   == txs[i].kind \in OwnKinds

NoCounts == [keys |-> 0, unsynced |-> 0]
IdlePoll == [pc |-> "idle", synced |-> 0, fp |-> {}, counts |-> NoCounts]

FirstKey == CHOOSE k \in Keys : TRUE

\* A funded database with one write: a deposit and a transaction of its own, both
\* deep.  A wallet restored from its phrase did not build that one itself, and has
\* yet to fetch it.
Init ==
    /\ height = UNTRUSTED_CONFIRMATIONS /\ fork = 0
    /\ \E a \in Amounts, restored \in BOOLEAN :
           /\ txs = <<[kind |-> "deposit", amount |-> a, key |-> None, expiry |-> MaxHeight],
                      [kind |-> "write", amount |-> 0, key |-> FirstKey,
                       expiry |-> MaxHeight]>>
           /\ rows = <<[known |-> TRUE, at |-> 1, enhanced |-> TRUE, built |-> FALSE],
                       [known |-> TRUE, at |-> 1, enhanced |-> ~restored, built |-> ~restored]>>
    /\ mined = <<1, 1>>
    /\ exists = TRUE /\ tip = height /\ scanned = height /\ toml = {}
    /\ writing = 0 /\ poll = IdlePoll /\ cache = None /\ shown = NoCounts
    /\ strikes = 0 /\ banner = FALSE /\ up = TRUE
    /\ stale = FALSE /\ used = 0

-----------------------------------------------------------------------------
(* What the wallet's files say.                                            *)

Depth(i) == tip - rows[i].at + 1

\* The memo, the fee and the sender are known for what the wallet built itself, and
\* for the rest once the full transaction has been fetched.
Seen(i) == rows[i].built \/ rows[i].enhanced

\* scan_memos_past_watermark: a mined output whose memo is known.
Readable(i) == rows[i].known /\ rows[i].at > 0 /\ txs[i].kind \in ZkvKinds /\ Seen(i)

effective_min_confs(i) == IF txs[i].kind = "init" THEN 1 ELSE MinConfs

ConfirmedTxs == {i \in Tx : Readable(i) /\ Depth(i) >= effective_min_confs(i)}

\* merge_pending: the wallet's own rows below the threshold, and every local entry.
PendingTxs == {i \in Tx : Readable(i) /\ Own(i) /\ Depth(i) < MinConfs} \cup toml

KeysOf(set) == {txs[i].key : i \in set} \ {None}

\* count_keys over Database::read.
Counts == [keys     |-> Cardinality(KeysOf(ConfirmedTxs \cup PendingTxs)),
           unsynced |-> Cardinality(KeysOf(PendingTxs))]

\* Mutant: a mined transaction is dropped although its memo has not been fetched.
Surfaced_mined == {i \in toml : rows[i].known /\ rows[i].at > 0}

\* mined_with_memo_txids, what gc_pending drops from pending.toml: the memo may be on the
\* received note or, for what the wallet built itself, in sent_notes from the start.
Surfaced == {i \in toml : rows[i].known /\ rows[i].at > 0 /\ Seen(i)}
Pruned   == toml \ Surfaced

\* v_transactions.account_balance_delta and fee_paid: a fee is known once the
\* transaction is enhanced, and is then reported on incoming rows as well.
balance_delta(i) ==
    CASE txs[i].kind \in {"deposit", "tip", "foreign", "init"} -> txs[i].amount
      [] txs[i].kind = "send"                                  -> -(txs[i].amount + Fee)
      [] OTHER                                                 -> -Fee
fee_paid(i) == IF Seen(i) THEN Fee ELSE 0

\* The rows of the ledger's query: mined, or not expired by the known tip.
Live(i) == rows[i].known /\ (rows[i].at > 0 \/ txs[i].expiry >= tip)

\* Total value of the non-change outputs back to the account.
self_value(i) == CASE txs[i].kind \in {"self", "deposit", "tip"} -> txs[i].amount
                   [] OTHER                                      -> 0

\* The value transferred: the fee is put back on the outgoing side only.
signed(i) == IF balance_delta(i) < 0 THEN balance_delta(i) + fee_paid(i) ELSE balance_delta(i)

\* load_funding's classification; "dropped" rows are not listed.
direction(i) ==
    CASE signed(i) > 0                                           -> "Received"
      [] signed(i) < 0                                           -> "Sent"
      [] signed(i) = 0 /\ self_value(i) > 0                      -> "SelfTransfer"
      [] signed(i) = 0 /\ self_value(i) = 0 /\ txs[i].kind \in ZkvKinds
         /\ Seen(i) /\ balance_delta(i) < 0                     -> "ZkvOperation"
      [] OTHER                                                   -> "dropped"

\* Mutant: every row counts as confirmed at the depth of our own outputs.
required_trusted(i) == TRUSTED_CONFIRMATIONS

required(i) == IF direction(i) = "Received" THEN UNTRUSTED_CONFIRMATIONS
               ELSE TRUSTED_CONFIRMATIONS

\* One row of the Funding tab.
FundingTx(i) ==
    [direction |-> direction(i),
     amount    |-> CASE direction(i) = "Received" -> signed(i)
                     [] direction(i) = "Sent"     -> -signed(i)
                     [] OTHER                     -> fee_paid(i),
     fee       |-> IF balance_delta(i) < 0 THEN fee_paid(i) ELSE 0,
     confirmed |-> rows[i].at > 0 /\ Depth(i) >= required(i)]

Ledger == {i \in Tx : Live(i) /\ direction(i) # "dropped"}

\* get_wallet_summary: the total, and the part of it not spendable yet.  An
\* output to ourselves is trusted, one from outside is not.
balance == MapThenSumSet(balance_delta, {i \in Tx : rows[i].known /\ rows[i].at > 0})
Confirming(i) ==
    /\ rows[i].known /\ rows[i].at > 0
    /\ Depth(i) < IF Own(i) THEN TRUSTED_CONFIRMATIONS ELSE UNTRUSTED_CONFIRMATIONS
    /\ ~Own(i) => txs[i].amount > 0

\* What a new transaction can spend at most: confirmed receipts, less what our
\* own transactions, mined or in flight, have taken.
Spendable ==
    MapThenSumSet(balance_delta,
        {i \in Tx : rows[i].known /\ IF Own(i) THEN Live(i) ELSE rows[i].at > 0 /\ ~Confirming(i)})

-----------------------------------------------------------------------------
(* The chain and the server (outside this code).                           *)

\* Bound: a database created under the old name sees its INIT and no other transaction.
Room == Len(txs) \in 2..(MaxTxs - 1)

Mempool == {i \in Tx : mined[i] = 0 /\ height < txs[i].expiry}

NewBlock(S) ==
    /\ height < MaxHeight /\ S \subseteq Mempool
    /\ height' = height + 1
    /\ mined' = [i \in Tx |-> IF i \in S THEN height + 1 ELSE mined[i]]
    /\ UNCHANGED <<txs, fork, wallet, writing, bar, errors, used>>

\* The newest block is replaced by two empty ones; what it held waits again.
Reorg ==
    /\ used < MaxEvents /\ height + 1 =< MaxHeight /\ height > UNTRUSTED_CONFIRMATIONS
    /\ used' = used + 1
    /\ fork' = IF fork = 0 THEN height ELSE fork
    /\ mined' = [i \in Tx |-> IF mined[i] = height THEN 0 ELSE mined[i]]
    /\ height' = height + 1
    /\ UNCHANGED <<txs, wallet, writing, bar, errors>>

\* Somebody pays us, with or without a zkv memo; a writer pays nothing.
Pay(kind, amount, key) ==
    /\ exists /\ Room
    /\ kind = "foreign" <=> amount = 0
    /\ kind = "deposit" <=> key = None
    /\ txs' = Append(txs, [kind |-> kind, amount |-> amount, key |-> key,
                           expiry |-> height + Expiry])
    /\ mined' = Append(mined, 0)
    /\ rows' = Append(rows, [known |-> FALSE, at |-> 0, enhanced |-> FALSE, built |-> FALSE])
    /\ UNCHANGED <<height, fork, exists, tip, scanned, toml, writing, bar, errors, used>>

Outage ==
    /\ up /\ used < MaxEvents
    /\ up' = FALSE /\ used' = used + 1
    /\ UNCHANGED <<chain, wallet, writing, bar, strikes, banner>>

Recover ==
    /\ ~up /\ up' = TRUE
    /\ UNCHANGED <<chain, wallet, writing, bar, strikes, banner, used>>

-----------------------------------------------------------------------------
(* The wallet node, in the background (outside this code).                 *)

\* update_chain_tip, rolling back to the fork first.
NodeTip ==
    /\ exists /\ up /\ (tip # height \/ fork # 0)
    /\ tip' = height /\ fork' = 0
    /\ scanned' = IF fork # 0 /\ fork <= scanned THEN fork - 1 ELSE scanned
    /\ rows' = [i \in Tx |-> IF fork # 0 /\ rows[i].at >= fork THEN [rows[i] EXCEPT !.at = 0]
                             ELSE rows[i]]
    /\ UNCHANGED <<height, txs, mined, exists, toml, writing, bar, errors, used>>

\* A compact block: what it holds for the account, without memos.
NodeScan ==
    /\ exists /\ up /\ fork = 0 /\ scanned < tip
    /\ scanned' = scanned + 1
    /\ rows' = [i \in Tx |-> IF mined[i] = scanned + 1
                             THEN [rows[i] EXCEPT !.known = TRUE, !.at = scanned + 1]
                             ELSE rows[i]]
    /\ UNCHANGED <<chain, exists, tip, toml, writing, bar, errors, used>>

\* The full transaction: its memo and its fee.
NodeEnhance(i) ==
    /\ exists /\ up
    /\ i \in Tx /\ rows[i].known /\ rows[i].at > 0 /\ ~rows[i].enhanced
    /\ rows' = [rows EXCEPT ![i].enhanced = TRUE]
    /\ UNCHANGED <<chain, exists, tip, scanned, toml, writing, bar, errors, used>>

-----------------------------------------------------------------------------
(* set_key and send: under the database's lock, after a sync unless the    *)
(* call skips it; the node's own steps stand for the scanning in it.       *)

LockFree == exists /\ writing = 0

\* Engine::ship: the wallet stores its own transaction before broadcasting it.
Ship(kind, amount, key) ==
    /\ LockFree /\ up
    /\ Room
    /\ Spendable >= Fee + IF kind = "send" THEN amount ELSE 0
    /\ txs' = Append(txs, [kind |-> kind, amount |-> amount, key |-> key,
                           expiry |-> tip + Expiry])
    /\ mined' = Append(mined, 0)
    /\ rows' = Append(rows, [known |-> TRUE, at |-> 0, enhanced |-> FALSE, built |-> TRUE])
    /\ UNCHANGED <<height, fork, exists, tip, scanned, bar, errors, used>>

SetKey(key, sync) ==
    /\ Ship("write", 0, key)
    /\ toml' = IF sync THEN Pruned ELSE toml
    /\ writing' = Len(txs) + 1

\* record_pending, best effort.
Record ==
    /\ writing # 0
    /\ \E lost \in BOOLEAN : toml' = IF lost THEN toml ELSE toml \cup {writing}
    /\ writing' = 0
    /\ UNCHANGED <<chain, exists, tip, scanned, rows, bar, errors, used>>

\* parse_zec: the fraction is padded to Decimals digits; 0 stands for a refusal, of
\* an amount that is too fine, nothing, or too large.
parse_zec(t) ==
    LET digit(i) == IF i <= Len(t.frac) THEN t.frac[i] ELSE 0
        padded[i \in 0..Decimals] == IF i = 0 THEN t.whole ELSE 10 * padded[i - 1] + digit(i)
        zats == padded[Decimals]
    IN  IF Len(t.frac) > Decimals \/ zats \notin 1..MAX_MONEY THEN 0 ELSE zats

\* describe_recipient: an address of this network, of any kind.
Recipients == {"own", "shielded", "transparent", "other_network", "garbage"}
ValidRecipient(r) == r \in {"own", "shielded", "transparent"}

\* send_funds: only shielded recipients can carry a memo.  Its sync prunes nothing.
send_funds(amount, r, memo) ==
    /\ ValidRecipient(r)
    /\ memo => r # "transparent"
    /\ r = "own" => Spendable >= Fee + amount
    /\ Ship(IF r = "own" THEN "self" ELSE "send", amount, None)
    /\ UNCHANGED <<toml, writing>>

\* Database::send, from the Send button or `zkv send`.
Send(typed, r, memo) ==
    /\ parse_zec(typed) > 0
    /\ send_funds(parse_zec(typed), r, memo)

\* faucet_init: the faucet pays for the INIT of a database that has none; its entry is
\* appended, under no lock, when the answer names the transaction.
FaucetInit ==
    /\ exists /\ txs = << >>
    /\ txs' = <<[kind |-> "init", amount |-> 0, key |-> None, expiry |-> height + Expiry]>>
    /\ mined' = <<0>>
    /\ rows' = <<[known |-> FALSE, at |-> 0, enhanced |-> FALSE, built |-> FALSE]>>
    /\ \E lost \in BOOLEAN : toml' = IF lost THEN toml ELSE toml \cup {1}
    /\ UNCHANGED <<height, fork, exists, tip, scanned, writing, bar, errors, used>>

\* An entry of pending.toml passes STALE_AFTER_SECS: in an hour the wallet has seen
\* its transaction mined and has its memo, or it expired, unless the server is away; and
\* the sidebar has been polled hundreds of times.
Age(i) ==
    /\ i \in toml
    /\ ~up \/ IF rows[i].at > 0 THEN Seen(i) ELSE height >= txs[i].expiry
    /\ cache # None /\ cache.fp = toml
    /\ toml' = toml \ {i}
    /\ UNCHANGED <<chain, exists, tip, scanned, rows, writing, bar, errors, used>>

-----------------------------------------------------------------------------
(* The auto-sync loop's verdicts on this database.                         *)

Clear == strikes' = 0 /\ banner' = FALSE

\* read_sync: near enough the tip, or brought there; pending.toml is pruned.
AutoSync ==
    /\ LockFree /\ up
    /\ toml' = Pruned
    /\ Clear
    /\ UNCHANGED <<chain, exists, tip, scanned, rows, writing, bar, up, used>>

\* The block cache was pruned under the scan, or a pause cancelled it: as good as
\* a success for the banner.
AutoSyncBenign ==
    /\ LockFree /\ up
    /\ Clear
    /\ UNCHANGED <<chain, wallet, writing, bar, up, used>>

\* Mutant: every failure is the first.
Strike_restarts == strikes' = 1

Strike == strikes' = IF strikes < SYNC_ERROR_THRESHOLD THEN strikes + 1 ELSE strikes

AutoSyncFails ==
    /\ LockFree /\ ~up
    /\ Strike
    /\ banner' = (banner \/ strikes' >= SYNC_ERROR_THRESHOLD)
    /\ UNCHANGED <<chain, wallet, writing, bar, up, used>>

\* Engine::sync, the user's button: it keeps no strikes and clears none.
ManualSync ==
    /\ LockFree /\ up
    /\ toml' = Pruned
    /\ UNCHANGED <<chain, exists, tip, scanned, rows, writing, bar, errors, used>>

-----------------------------------------------------------------------------
(* list_databases / summarize_db_full, polled by the frontend.             *)

\* The entries of pending.toml, hashed.
pending_fingerprint == toml

\* The key is read first; a cached summary under the same key is served.
PollKey ==
    /\ exists /\ poll.pc = "idle"
    /\ IF cache # None /\ cache.synced = scanned /\ cache.fp = pending_fingerprint
       THEN shown' = cache.counts /\ UNCHANGED poll
       ELSE /\ poll' = [IdlePoll EXCEPT !.pc = "read", !.synced = scanned,
                                           !.fp = pending_fingerprint]
            /\ UNCHANGED shown
    /\ UNCHANGED <<chain, wallet, writing, cache, errors, used>>

\* Then the replay; a read that fails shows nothing and is not cached.
PollRead ==
    /\ poll.pc = "read"
    /\ IF exists
       THEN poll' = [poll EXCEPT !.pc = "insert", !.counts = Counts] /\ UNCHANGED shown
       ELSE poll' = IdlePoll /\ shown' = NoCounts
    /\ UNCHANGED <<chain, wallet, writing, cache, errors, used>>

\* Mutant: the counts are cached under a key read after them.
PollInsert_late_key ==
    /\ poll.pc = "insert"
    /\ cache' = [synced |-> scanned, fp |-> toml, counts |-> poll.counts]
    /\ shown' = poll.counts
    /\ poll' = IdlePoll
    /\ UNCHANGED <<chain, wallet, writing, errors, used>>

\* The counts are cached under the key that was read before them.
PollInsert ==
    /\ poll.pc = "insert"
    /\ cache' = [synced |-> poll.synced, fp |-> poll.fp, counts |-> poll.counts]
    /\ shown' = poll.counts
    /\ poll' = IdlePoll
    /\ UNCHANGED <<chain, wallet, writing, errors, used>>

-----------------------------------------------------------------------------
(* forget, and another database created under the same name.               *)

Forget ==
    /\ LockFree
    /\ used < MaxEvents
    /\ used' = used + 1
    /\ exists' = FALSE /\ txs' = << >> /\ mined' = << >> /\ rows' = << >> /\ toml' = {}
    /\ tip' = 0 /\ scanned' = 0
    /\ cache' = None
    /\ UNCHANGED <<height, fork, writing, poll, shown, strikes, banner, up>>

Recreate ==
    /\ ~exists /\ up
    /\ exists' = TRUE /\ tip' = height /\ scanned' = height /\ fork' = 0
    /\ UNCHANGED <<height, txs, mined, rows, toml, writing, bar, errors, used>>

\* The GUI is quit, or dies, and is started again: its memory is gone, a shipped write
\* is not recorded, and the launch paints the databases with zeroed counts
\* (list_databases_basic) before the first poll.
Relaunch ==
    /\ used < MaxEvents
    /\ used' = used + 1
    /\ writing' = 0 /\ poll' = IdlePoll /\ cache' = None /\ shown' = NoCounts
    /\ strikes' = 0 /\ banner' = FALSE
    /\ UNCHANGED <<chain, wallet, up>>

-----------------------------------------------------------------------------

NodeStep == NodeTip \/ NodeScan \/ \E i \in 1..MaxTxs : NodeEnhance(i)
Poll     == PollKey \/ PollRead \/ PollInsert
LoopStep == AutoSync \/ AutoSyncFails

Step ==
    \/ \E S \in SUBSET Mempool : NewBlock(S)
    \/ \E kind \in {"deposit", "tip", "foreign"}, a \in Amounts \cup {0}, k \in Keys \cup {None} :
           Pay(kind, a, k)
    \/ Reorg \/ Outage \/ Recover
    \/ NodeStep \/ Poll \/ LoopStep
    \/ \E k \in Keys, sync \in BOOLEAN : SetKey(k, sync)
    \/ \E t \in Typed, r \in Recipients, memo \in BOOLEAN : Send(t, r, memo)
    \/ Record \/ FaucetInit \/ \E i \in 1..MaxTxs : Age(i)
    \/ AutoSyncBenign \/ ManualSync
    \/ Forget \/ Recreate \/ Relaunch

\* The cache's key.  It tells nothing when the counts move and it does not, and
\* when it comes back to a value under which a summary is cached or being read.  A
\* program just started has no summary.
SummaryKey == <<exists, scanned, toml>>
Track ==
    stale' = IF cache' = None /\ poll'.pc = "idle" THEN FALSE
             ELSE IF SummaryKey' = SummaryKey THEN stale \/ Counts' # Counts
             ELSE \/ poll.pc # "idle" /\ <<scanned', toml'>> = <<poll.synced, poll.fp>>
                  \/ cache # None /\ <<scanned', toml'>> = <<cache.synced, cache.fp>>

Next == Step /\ Track

Spec == Init /\ [][Next]_vars

\* The node and the loop go on working, the frontend polls every ten seconds, and
\* a write that was shipped is recorded or not.
Fairness ==
    /\ WF_vars(NodeStep /\ Track)
    /\ WF_vars(Poll /\ Track)
    /\ WF_vars(LoopStep /\ Track)
    /\ WF_vars(Record /\ Track)

FairSpec == Spec /\ Fairness

-----------------------------------------------------------------------------
(* Properties.                                                             *)

\* The variables are well formed: the wallet never runs ahead of the chain, and
\* every entry of pending.toml is a write of our own or an INIT.
TypeOK ==
    /\ scanned =< tip /\ tip =< height /\ height =< MaxHeight
    /\ Len(rows) = Len(txs) /\ Len(mined) = Len(txs)
    /\ \A i \in toml : i \in Tx /\ txs[i].kind \in {"write", "init"}
    /\ cache = None \/ cache.counts.unsynced =< cache.counts.keys
    /\ strikes \in 0..SYNC_ERROR_THRESHOLD

\* The Funding tab accounts for the balance: its mined rows, receipts less
\* payments less fees, add up to what the wallet holds, whether or not the fees
\* of the rows are known and whoever reports them.
LedgerBalances ==
    LET value(i) == LET e == FundingTx(i)
                    IN  CASE e.direction = "Received" -> e.amount
                          [] e.direction = "Sent"     -> -(e.amount + e.fee)
                          [] OTHER                    -> -e.amount
    IN  MapThenSumSet(value, {i \in Ledger : rows[i].at > 0}) = balance

\* "So the Funding tab agrees with the balance": whatever of the balance is still
\* confirming, the tab lists a transaction that is not confirmed.
ConfirmingIsListed ==
    \A i \in Tx : Confirming(i) => i \in Ledger /\ ~FundingTx(i).confirmed

\* The Funding tab agrees with the wallet.
FundingTabAgrees == TypeOK /\ LedgerBalances /\ ConfirmingIsListed

\* A write the user has seen does not vanish, nor does an INIT the faucet sent (the
\* database would "flap back to 'uninitialized'"): it stays in the read, through mining,
\* the fetch of its memo, pruning and confirmation, until it expires unmined, its block
\* is rolled back, the wallet has no server for an hour or its database goes.
WriteStays ==
    exists' => \A i \in Tx : (txs[i].kind \in {"write", "init"} /\ i \in ConfirmedTxs \cup PendingTxs) =>
        \/ i \in (ConfirmedTxs \cup PendingTxs)'
        \/ rows'[i].at = 0 /\ (rows[i].at > 0 \/ height >= txs[i].expiry \/ ~up)
        \/ ~Seen(i) /\ ~up
WritesDontVanish == [][WriteStays]_vars

\* The sidebar catches up: once the server answers, and since the cache's key last
\* moved to a fresh value the counts have not, the counts shown are those of a read.
SidebarCatchesUp ==
    <>[](up /\ exists /\ ~stale) => <>[](shown = Counts)

\* A failure that lasts is shown, and a banner goes once the server answers.
FailureSurfaces == <>[](~up /\ exists) => <>banner
BannerClears    == <>[](up /\ exists) => <>[](~banner)

\* The failure banner comes with a lasting failure and goes with it.
BannerTracksFailures == FailureSurfaces /\ BannerClears

\* "The confirmed KV state changes only when the wallet scans new blocks ... or a
\* local write mutates pending.toml": the cache's key tells every change.
KeyTellsChanges == <>[](up /\ exists) => <>[](shown = Counts)

\* "A same-named db later must not inherit" the cached summary.
NothingInherited == exists /\ txs = << >> => cache = None \/ cache.counts = NoCounts

\* "An entry is removed the moment that db's sync next succeeds."
SuccessClears == [][ManualSync => ~banner']_vars

\* "Gating on the decrypted memo keeps the pending entry until the on-chain row
\* can take over seamlessly": a recorded write never vanishes before it expires.
NoFlap ==
    exists' => \A i \in Tx : (txs[i].kind = "write" /\ i \in ConfirmedTxs \cup PendingTxs) =>
        \/ i \in (ConfirmedTxs \cup PendingTxs)'
        \/ height >= txs[i].expiry \/ ~up
NeverFlaps == [][NoFlap]_vars

=============================================================================
