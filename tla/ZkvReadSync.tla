----------------------------- MODULE ZkvReadSync -----------------------------
(***************************************************************************)
(* Bringing a wallet up to date for a read (read_sync), the rule that lets *)
(* a read skip it (read_sync_skippable), the gate on re-broadcasting INIT  *)
(* (wallet_synced_to_tip), and the epoch gates: a VERSION memo of an epoch *)
(* newer than this build may forbid it to scan, to read or to write.       *)
(*                                                                         *)
(* The decision is made from the wallet's own height and then the server's *)
(* tip, with a network round-trip in between, while a node (of this        *)
(* process or another) may be scanning, may be killed between its scan and *)
(* its enhancement pass, and the chain goes on.  The scan is forbidden by  *)
(* what an earlier load promoted into the snapshot, reading and writing by *)
(* what the load of the call itself folds.                                 *)
(*                                                                         *)
(* What a read shows is abstracted to the set of heights whose memo it     *)
(* counts as confirmed; ZkvSnapshot models what is folded from them, and   *)
(* ZkvProtocol which VERSION memos are honoured: here every one is, so the *)
(* newest decides.                                                         *)
(***************************************************************************)
EXTENDS Integers, Sequences, FiniteSets, FiniteSetsExt

CONSTANTS
    Confs,              \* the min_confs reads ask for
    Epochs,             \* the VERSION memos owners send
    NearTipTolerance,   \* NEAR_TIP_TOLERANCE, 1 in the code
    SafeDepth,          \* SAFE_DEPTH, 100 in the code
    MaxHeight           \* bound: chain length

\* What each kind of VERSION memo forbids a build that does not know its epoch; a
\* downgrade returns to an epoch it knows.
Forbids == [blocksync |-> {"sync"}, blockread |-> {"read"}, blockwrite |-> {"write"},
            blockall |-> {"sync", "read", "write"}, downgrade |-> {}]

ASSUME ConfsAssumption  == Confs \subseteq Nat
ASSUME EpochsAssumption == Epochs \subseteq DOMAIN Forbids
ASSUME HeightAssumption == {NearTipTolerance, SafeDepth, MaxHeight} \subseteq Nat

VARIABLES
    chain,      \* what each block carries: a write, an INIT or a VERSION memo
    node,       \* is a node scanning this wallet?
    tip,        \* the wallet's chain_height, 0 before the first pass
    scanned,    \* heights scanned
    enhanced,   \* scanned heights whose full transaction has been fetched
    promoted,   \* the snapshot's watermark
    call        \* the command in progress

vars == <<chain, node, tip, scanned, enhanced, promoted, call>>

Wallet == <<node, tip, scanned, enhanced>>

Memos == {"write", "INIT"} \cup Epochs

\* The heights whose memo a read of data.sqlite finds.
Readable == scanned \cap enhanced

\* Mutant: one block too many.
read_tip_tolerance_loose(min_confs) == min_confs

\* How far behind the live tip the wallet may sit and still skip the scan.
read_tip_tolerance(min_confs) == IF min_confs > 0 THEN min_confs - 1 ELSE 0

Threshold(what, min_confs) == IF what = "INIT" /\ min_confs > 1 THEN 1 ELSE min_confs

\* What a read at min_confs counts as confirmed among the given heights, judged at a tip.
Confirmed(heights, at, min_confs) ==
    {h \in heights : (at - h) + 1 >= Threshold(chain[h], min_confs)}

\* VersionState, from the memos at the given heights: VERSION counts after INIT only.
VersionMemos(heights) ==
    {h \in heights : chain[h] \in Epochs /\ \E i \in heights : i < h /\ chain[i] = "INIT"}

Version(heights) ==
    LET memos == VersionMemos(heights)
    IN  IF memos = {} THEN "downgrade" ELSE chain[Max(memos)]

\* blocks_sync, blocks_read, blocks_write.
blocks(version, op) == op \in Forbids[version]

\* cached_version: of the snapshot alone.
cached_version == Version(1..promoted)

\* The scan is skipped on the snapshot's word, before the network is asked.
blocksync_skip == blocks(cached_version, "sync")

\* load_state promotes what is SAFE_DEPTH deep, scanned without a gap and fetched, once
\* an INIT is among it.
Promote ==
    LET gaps   == (1..MaxHeight + 1) \ Readable
        cutoff == Min({Max({tip - SafeDepth, 0}), Min(gaps) - 1})
    IN  promoted' = IF \E h \in 1..cutoff : chain[h] = "INIT" THEN Max({promoted, cutoff})
                    ELSE promoted

IdleCall == [pc |-> "idle", what |-> "get", confs |-> 0, tol |-> 0, wtip |-> 0, rpc |-> 0,
             how |-> "none", height |-> 0, rows |-> {}, view |-> {}]

Init ==
    /\ chain = << >>
    /\ node = FALSE
    /\ tip = 0
    /\ scanned = {}
    /\ enhanced = {}
    /\ promoted = 0
    /\ call = IdleCall

-----------------------------------------------------------------------------
(* The chain and the node.                                                 *)

Mine(what) ==
    /\ Len(chain) < MaxHeight
    /\ chain' = Append(chain, what)
    /\ UNCHANGED <<Wallet, promoted, call>>

NodeStart ==
    /\ ~node
    /\ node' = TRUE
    /\ UNCHANGED <<chain, tip, scanned, enhanced, promoted, call>>

\* A pass learns the tip, scans in any order, then fetches full transactions.
UpdateTip ==
    /\ node
    /\ tip < Len(chain)
    /\ tip' = Len(chain)
    /\ UNCHANGED <<chain, node, scanned, enhanced, promoted, call>>

ScanBlock(h) ==
    /\ node
    /\ h \in (1..tip) \ scanned
    /\ scanned' = scanned \cup {h}
    /\ UNCHANGED <<chain, node, tip, enhanced, promoted, call>>

Enhance(h) ==
    /\ node
    /\ h \in scanned \ enhanced
    /\ enhanced' = enhanced \cup {h}
    /\ UNCHANGED <<chain, node, tip, scanned, promoted, call>>

\* The process that runs the node exits, is cancelled or is killed.
NodeStop ==
    /\ node
    /\ node' = FALSE
    /\ UNCHANGED <<chain, tip, scanned, enhanced, promoted, call>>

-----------------------------------------------------------------------------
(* A read: the blocksync check, read_sync, then load_state.                *)

\* Where a read goes first: it shows the cache of a database whose promoted epoch
\* forbids scanning, never skips at 0 confirmations, and else looks at the wallet.
Begin(what, min_confs, tol) ==
    LET c == [IdleCall EXCEPT !.what = what, !.confs = min_confs, !.tol = tol]
    IN  IF blocksync_skip
        THEN [c EXCEPT !.pc = "load", !.how = "stopped", !.height = tip]
        ELSE [c EXCEPT !.pc = IF what = "get" /\ min_confs = 0 THEN "sync" ELSE "check"]

\* `zkv get` and `zkv history`: the tolerance follows the depth asked for.
StartGet(min_confs) ==
    /\ call.pc = "idle"
    /\ call' = Begin("get", min_confs, read_tip_tolerance(min_confs))
    /\ UNCHANGED <<chain, Wallet, promoted>>

\* Database::sync and sync_cancellable, as `zkv roles`, `zkv verify` and the GUI's loop
\* call them before they read: one tolerance for every depth.
StartRoles(min_confs) ==
    /\ call.pc = "idle"
    /\ call' = Begin("roles", min_confs, NearTipTolerance)
    /\ UNCHANGED <<chain, Wallet, promoted>>

\* sync_with_mempool before a facade read at 0 confirmations: never skips.
StartMempool ==
    LET c == Begin("roles", 0, 0)
    IN  /\ call.pc = "idle"
        /\ call' = IF c.pc = "check" THEN [c EXCEPT !.pc = "sync"] ELSE c
        /\ UNCHANGED <<chain, Wallet, promoted>>

\* --offline: no sync and no blocksync check.
StartOffline(min_confs) ==
    /\ call.pc = "idle"
    /\ call' = [IdleCall EXCEPT !.pc = "load", !.confs = min_confs, !.how = "offline"]
    /\ UNCHANGED <<chain, Wallet, promoted>>

\* The wallet's height and its outstanding scan ranges: a wallet that never
\* scanned or has a gap anywhere must sync (a read) or refuses (the INIT gate).
CheckWallet ==
    /\ call.pc = "check"
    /\ call' = IF tip # 0 /\ scanned = 1..tip THEN [call EXCEPT !.pc = "ask", !.wtip = tip]
               ELSE [call EXCEPT !.pc = IF call.what = "init" THEN "refused" ELSE "sync"]
    /\ UNCHANGED <<chain, Wallet, promoted>>

\* GetLatestBlock, and the verdict.
AskServer ==
    LET rpc == Len(chain)
    IN  /\ call.pc = "ask"
        /\ call.what # "init"
        /\ call' = IF rpc - call.wtip <= call.tol
                   THEN [call EXCEPT !.pc = "load", !.rpc = rpc, !.how = "skipped",
                                     !.height = call.wtip]
                   ELSE [call EXCEPT !.pc = "sync"]
        /\ UNCHANGED <<chain, Wallet, promoted>>

\* sync_wallet: the barrier is passed once the node reports the scan at its tip
\* and the enhancement backlog drained.
SyncDone ==
    /\ call.pc = "sync"
    /\ node /\ tip # 0
    /\ scanned = 1..tip /\ enhanced = scanned
    /\ call' = [call EXCEPT !.pc = "load", !.how = "synced", !.height = tip]
    /\ UNCHANGED <<chain, Wallet, promoted>>

\* The sync fails, or the node cannot be had: so does the call.  A cancelled read
\* is answered from the height reached.
SyncFails ==
    /\ call.pc = "sync"
    /\ \/ call' = IdleCall
       \/ /\ call.what = "roles"
          /\ call' = [call EXCEPT !.pc = "load", !.how = "cancelled", !.height = tip]
    /\ UNCHANGED <<chain, Wallet, promoted>>

\* load_state, at the wallet's tip of that moment, and gate_read on what it found;
\* `roles` and `verify` then load again for what they show.
Load ==
    LET view == Confirmed(Readable, tip, call.confs)
    IN  /\ call.pc = "load"
        /\ call.what # "write"
        /\ Promote
        /\ call' = IF blocks(Version(view), "read") THEN [call EXCEPT !.pc = "refused"]
                   ELSE IF call.what = "roles" THEN [call EXCEPT !.pc = "show"]
                   ELSE [call EXCEPT !.pc = "done", !.rows = Readable, !.view = view]
        /\ UNCHANGED <<chain, Wallet>>

Show ==
    /\ call.pc = "show"
    /\ Promote
    /\ call' = [call EXCEPT !.pc = "done", !.rows = Readable,
                            !.view = Confirmed(Readable, tip, call.confs)]
    /\ UNCHANGED <<chain, Wallet>>

-----------------------------------------------------------------------------
(* A write: sync_to_tip unless no_sync, prepare's guards, ship.            *)

\* A write syncs whatever the epoch says of scanning.
StartWrite(no_sync) ==
    /\ call.pc = "idle"
    /\ call' = IF no_sync
               THEN [IdleCall EXCEPT !.pc = "load", !.what = "write", !.how = "offline"]
               ELSE [IdleCall EXCEPT !.pc = "sync", !.what = "write"]
    /\ UNCHANGED <<chain, Wallet, promoted>>

\* Mutant: the write is judged by the epoch of the snapshot, as the scan is.
WriteEpoch_cached == cached_version

\* The epoch ensure_client_supported judges: of a load at INIT_CONFIRMATIONS.
WriteEpoch == Version(Confirmed(Readable, tip, 1))

\* prepare: ensure_initialized and ensure_client_supported.
Prepare ==
    /\ call.pc = "load"
    /\ call.what = "write"
    /\ Promote
    /\ call' = [call EXCEPT !.pc =
           IF /\ \E h \in Confirmed(Readable, tip, 1) : chain[h] = "INIT"
              /\ ~blocks(WriteEpoch, "write")
           THEN "ship" ELSE "refused"]
    /\ UNCHANGED <<chain, Wallet>>

-----------------------------------------------------------------------------
(* Re-broadcasting INIT on an existing database.                           *)

\* The GUI offers it on a database that reads as uninitialised.
StartInit ==
    /\ call.pc = "idle"
    /\ \A h \in Readable : chain[h] # "INIT"
    /\ call' = [IdleCall EXCEPT !.pc = "check", !.what = "init"]
    /\ UNCHANGED <<chain, Wallet, promoted>>

\* wallet_synced_to_tip: ship only from a wallet within the near-tip tolerance.
AskGate ==
    LET rpc == Len(chain)
    IN  /\ call.pc = "ask"
        /\ call.what = "init"
        /\ call' = [call EXCEPT !.rpc = rpc,
               !.pc = IF rpc - call.wtip <= NearTipTolerance THEN "ship" ELSE "refused"]
        /\ UNCHANGED <<chain, Wallet, promoted>>

Return ==
    /\ call.pc \in {"done", "ship", "refused"}
    /\ call' = IdleCall
    /\ UNCHANGED <<chain, Wallet, promoted>>

Next ==
    \/ \E what \in Memos : Mine(what)
    \/ NodeStart \/ UpdateTip \/ NodeStop
    \/ \E h \in 1..MaxHeight : ScanBlock(h) \/ Enhance(h)
    \/ \E c \in Confs : StartGet(c) \/ StartRoles(c) \/ StartOffline(c)
    \/ StartMempool
    \/ \E no_sync \in BOOLEAN : StartWrite(no_sync)
    \/ CheckWallet \/ AskServer \/ SyncDone \/ SyncFails \/ Load \/ Show \/ Prepare
    \/ StartInit \/ AskGate \/ Return

Spec == Init /\ [][Next]_vars

-----------------------------------------------------------------------------
(* Properties.                                                             *)

CallType ==
    [pc : {"idle", "check", "ask", "sync", "load", "show", "done", "ship", "refused"},
     what : {"get", "roles", "init", "write"}, confs : Nat, tol : Nat, wtip : Nat, rpc : Nat,
     how : {"none", "stopped", "offline", "skipped", "synced", "cancelled"}, height : Nat,
     rows : SUBSET Nat, view : SUBSET Nat]

\* The wallet's sets are nested, the watermark covers fetched blocks only, and the call's
\* variables are well formed.
TypeOK ==
    /\ chain \in Seq(Memos) /\ Len(chain) <= MaxHeight
    /\ tip \in 0..Len(chain) /\ scanned \subseteq 1..tip /\ enhanced \subseteq scanned
    /\ promoted \in Nat /\ 1..promoted \subseteq Readable
    /\ call \in CallType /\ call.view \subseteq 1..Len(chain)

\* The skip never hides an unscanned write: whatever a skipped read has not
\* scanned is, at the server's tip, below the depth the read asked for or within
\* its tolerance, even though the wallet was measured before the server was asked.
SkipHidesNoDeepBlock ==
    call.pc \in {"load", "done"} /\ call.how = "skipped" =>
        \A h \in 1..call.rpc :
            (call.rpc - h) + 1 >= call.confs /\ (call.what = "roles" => call.rpc - h >= call.tol)
                => h \in scanned

\* A read that synced is complete: it counts every memo of the chain up to the
\* height it reports that is deep enough there.
SyncedReadComplete ==
    call.pc = "done" /\ call.how = "synced" =>
        Confirmed(1..call.height, call.height, call.confs) \subseteq call.view

\* What a read may rely on, over a well-formed wallet: the skip rule hides nothing the
\* read could confirm, and a read that synced is complete.
ReadComplete == TypeOK /\ SkipHidesNoDeepBlock /\ SyncedReadComplete

\* The INIT gate passes only a wallet that has scanned everything but the last
\* NEAR_TIP_TOLERANCE blocks.
GateScannedAllButTip ==
    call.pc = "ship" /\ call.what = "init" =>
        1..(call.rpc - NearTipTolerance) \subseteq scanned

\* The epoch that forbids an operation at the height and depth the call synced for, unless
\* a VERSION memo that was not yet as deep there may have replaced it since.
InForce(op) ==
    LET seen == Confirmed(1..call.height, call.height, call.confs)
    IN  /\ call.how = "synced"
        /\ blocks(Version(seen), op)
        /\ VersionMemos(1..Len(chain)) \subseteq seen

\* "An out-of-date client doesn't broadcast a write the new epoch's rules may
\* misinterpret" (ensure_client_supported), nor shows what the epoch says it cannot
\* read (gate_read): no call that synced proceeds under an epoch that forbids it; and
\* only a directive at least SAFE_DEPTH deep keeps a client from scanning.
EpochRespected ==
    /\ call.pc = "ship" /\ call.what = "write" => ~InForce("write")
    /\ call.pc = "done" => ~InForce("read")
    /\ call.how = "stopped" => \E h \in 1..tip - SafeDepth : blocks(Version(1..h), "sync")

\* What the gates let through: the INIT gate and the epoch gates together.
GatesHold == GateScannedAllButTip /\ EpochRespected

\* Why the two hold: what a call has learnt of the wallet stays true of it, since blocks
\* are scanned and fetched for good; a skip is within the tolerance the call began with;
\* and the snapshot stays SAFE_DEPTH behind the wallet's tip.
Measured ==
    /\ \/ call.pc = "ask" \/ call.how = "skipped" \/ (call.pc = "ship" /\ call.what = "init")
       => 1..call.wtip \subseteq scanned
    /\ call.how = "skipped" => call.rpc - call.wtip <= call.tol
    /\ call.pc = "ship" /\ call.what = "init" => call.rpc - call.wtip <= NearTipTolerance
    /\ call.how = "synced" => 1..call.height \subseteq Readable

Asked ==
    /\ call.pc \in {"check", "ask"} \/ call.how = "skipped" =>
           /\ call.what # "write"
           /\ call.what = "get" => call.tol = read_tip_tolerance(call.confs)
    /\ call.pc \in {"check", "ask"} => call.how = "none"
    /\ call.what = "init" => call.how = "none" /\ call.pc # "sync"
    /\ call.what = "write" => call.confs = 0

SyncInv ==
    /\ TypeOK /\ Measured /\ Asked /\ SyncedReadComplete /\ EpochRespected
    /\ call.pc = "show" => ~InForce("read")
    /\ promoted = 0 \/ promoted <= tip - SafeDepth

\* "The newest block or two never changes a confirmed read" (Database::sync): whatever a
\* skipped facade read has not scanned is below the depth it asked for.
FacadeSkipIsInvisible ==
    call.pc = "done" /\ call.what = "roles" /\ call.how = "skipped" =>
        \A h \in 1..call.rpc : (call.rpc - h) + 1 >= call.confs => h \in scanned

\* "Free downgrades let a later owner undo a mistaken or malicious bump in a single memo"
\* (VersionState): a client stops scanning only while the epoch stands.
BumpCanBeUndone ==
    call.pc = "done" /\ call.how = "stopped" =>
        blocks(Version(1..Max({Len(chain) - SafeDepth, 0})), "sync")

\* "Refuse to interpret or display state": no read shows a state whose epoch forbids it.
ShowsNothingForbidden == call.pc = "done" => ~blocks(Version(call.view), "read")

\* "The confirmed read is identical whether or not we scan": of the memos it
\* read, a skipped read confirms those it would confirm after a sync to the
\* server's tip.
SkipIsInvisible ==
    call.pc = "done" /\ call.how = "skipped" =>
        Confirmed(call.rows \cap 1..call.rpc, call.rpc, call.confs) \subseteq call.view

\* A read must not be one "that silently misses a confirmed write": a skipped
\* read shows every memo that is deep enough at the height it reports.
SkipMissesNothingScanned ==
    call.pc = "done" /\ call.how = "skipped" =>
        Confirmed(1..call.height, call.height, call.confs) \subseteq call.view

\* The gate exists "so we don't double-INIT a db whose valid INIT is still
\* unscanned": INIT is shipped only when no unscanned block holds one.
NoDoubleInit ==
    call.pc = "ship" /\ call.what = "init" =>
        \A h \in (1..call.rpc) \ scanned : chain[h] # "INIT"

=============================================================================
