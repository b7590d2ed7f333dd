------------------------------ MODULE ZkvInit ------------------------------
(***************************************************************************)
(* The init ceremony: a funded wallet broadcasts the INIT that makes its   *)
(* database exist, from `zkv init` polling in a terminal, from the GUI, or *)
(* by asking the hosted faucet to pay for it.                              *)
(*                                                                         *)
(* Nothing on chain stops a second INIT: replay ignores it, but its fee is *)
(* paid.  What stops the callers is what they can see of the first one:    *)
(* the wallet's rows, the poll loop's own variable and, for the GUI,       *)
(* pending.toml.  Transactions may be dropped by the network, runs may     *)
(* time out or be killed at any step, and the faucet's answer may get lost.*)
(***************************************************************************)
EXTENDS Naturals, FiniteSets

CONSTANTS
    Notes,          \* the notes the wallet may be funded with, each enough for an INIT
    Txs,            \* names for INIT transactions in flight or mined
    None,           \* no transaction
    RebroadcastAfter,   \* REBROADCAST_AFTER_POLLS
    MaxEvents       \* bound: runs cut short, transactions dropped or indexed late, faucet
                    \* calls, INITs sent from the GUI, records gone stale, reorganisations

ASSUME InitAssumption ==
    /\ IsFiniteSet(Notes) /\ IsFiniteSet(Txs) /\ None \notin Txs \cup Notes
    /\ RebroadcastAfter \in Nat \ {0}
    /\ MaxEvents \in Nat

VARIABLES
    funds,          \* per note: "absent", "immature" or "ripe"
    tx,             \* per transaction: [payer, note, at]
    scanned,        \* transactions the wallet has scanned in a block
    indexed,        \* transactions whose memo the wallet can read
    record,         \* transactions in pending.toml
    cli,            \* zkv init: [pc, awaiting, polls]; history: tip, mined at its last sync
    shown,          \* the init state the GUI last displayed
    asked,          \* a faucet call awaits its answer
    count,          \* history: bounded events so far
    lapses          \* history: occasions on which an INIT in flight went out of sight

wallet == <<scanned, indexed, record>>
vars   == <<funds, tx, wallet, cli, shown, asked, count, lapses>>

Unborn == [payer |-> "nobody", note |-> None, at |-> "unborn"]
Off    == [pc |-> "off", awaiting |-> None, polls |-> 0, tip |-> {}]

\* One more of the bounded events.
Event == count < MaxEvents /\ count' = count + 1

Init ==
    /\ funds = [n \in Notes |-> "absent"]
    /\ tx = [t \in Txs |-> Unborn]
    /\ scanned = {} /\ indexed = {} /\ record = {}
    /\ cli = Off
    /\ shown = "Uninitialized" /\ asked = FALSE
    /\ count = 0 /\ lapses = 0

-----------------------------------------------------------------------------
(* What is on chain and what the wallet makes of it.                       *)

Mined    == {t \in Txs : tx[t].at = "mined"}
\* Not mined, and not known never to be: the wallet waits for these to expire.
InFlight == {t \in Txs : tx[t].at \in {"committed", "mempool", "dropped"}}
\* Paid for by this wallet, and mined or able to be.
Paid     == {t \in Txs : tx[t].payer = "own" /\ tx[t].at \in {"committed", "mempool", "mined"}}

\* load_state at INIT_CONFIRMATIONS.
load_state ==
    IF indexed \cap scanned # {} THEN "Initialized"
    ELSE IF indexed # {} THEN "Initializing"
    ELSE "Uninitialized"

\* merge_pending: an INIT this machine has recorded counts as in flight.
merge_pending ==
    IF load_state = "Uninitialized" /\ record # {} THEN "Initializing" ELSE load_state

\* init_balance: the notes the wallet can spend now.
spendable ==
    {n \in Notes : funds[n] = "ripe" /\ \A t \in InFlight : tx[t].note # n}

\* sync_to_tip and read_sync without tolerance: to the tip, memos included.
Scan ==
    /\ scanned' = Mined
    /\ indexed' = indexed \cup Mined

\* Names for a new transaction; one somebody still holds is not given again.
Free == {t \in Txs : tx[t] = Unborn /\ t \notin record \cup cli.tip /\ t # cli.awaiting}

\* broadcast_init: the wallet commits the transaction before it broadcasts, and may be
\* late to show the memo as its own; the send may fail after the commit, and what
\* succeeds is recorded as best it can be.
Ship(t, late, recorded) ==
    /\ Free # {} /\ t = CHOOSE f \in Free : TRUE
    /\ spendable # {}
    /\ tx' = [tx EXCEPT ![t] = [payer |-> "own", note |-> CHOOSE n \in spendable : TRUE,
                               at |-> "committed"]]
    /\ indexed' = IF late THEN indexed ELSE indexed \cup {t}
    /\ record' = IF recorded THEN record \cup {t} ELSE record
    /\ UNCHANGED scanned

-----------------------------------------------------------------------------
(* zkv init.                                                               *)

\* A new database is polled for straight away, an existing one is resumed.  An
\* INIT in flight whose memo the wallet cannot read is out of this run's sight.
StartInit ==
    /\ cli.pc = "off"
    /\ \E pc \in {"sync", "resume"} : cli' = [Off EXCEPT !.pc = pc]
    /\ lapses' = IF Paid \ indexed # {} THEN lapses + 1 ELSE lapses
    /\ UNCHANGED <<funds, tx, wallet, shown, asked, count>>

\* resume: sync, prune pending.toml, and look; --non-interactive goes no further.
Resume ==
    /\ cli.pc = "resume"
    /\ Scan
    /\ record' = record \ {t \in record : t \in Mined}
    /\ \/ /\ cli' = IF load_state' = "Initialized" THEN [Off EXCEPT !.pc = "done"]
                    ELSE [cli EXCEPT !.pc = "sync"]
          /\ UNCHANGED count
       \/ /\ load_state' # "Initialized"
          /\ Event
          /\ cli' = Off
    /\ UNCHANGED <<funds, tx, shown, asked, lapses>>

\* The top of poll_for_init's loop.
PollSync ==
    /\ cli.pc = "sync"
    /\ Scan
    /\ cli' = [cli EXCEPT !.pc = "look", !.tip = Mined]
    /\ UNCHANGED <<funds, tx, record, shown, asked, count, lapses>>

PollInitialized ==
    /\ cli.pc = "look" /\ load_state = "Initialized"
    /\ cli' = [Off EXCEPT !.pc = "done"]
    /\ UNCHANGED <<funds, tx, wallet, shown, asked, count, lapses>>

PollInitializing ==
    /\ cli.pc = "look" /\ load_state = "Initializing"
    /\ cli' = [Off EXCEPT !.pc = "sync"]
    /\ UNCHANGED <<funds, tx, wallet, shown, asked, count, lapses>>

\* Mutant: a broadcast that is not indexed is waited for without end.
PollAwaiting_for_ever ==
    /\ cli.pc = "look" /\ load_state = "Uninitialized" /\ cli.awaiting # None
    /\ cli' = [cli EXCEPT !.pc = "sync"]
    /\ UNCHANGED <<funds, tx, wallet, shown, asked, count, lapses>>

\* WaitingForIndex: after so many polls the broadcast is taken for lost.
PollAwaiting ==
    /\ cli.pc = "look" /\ load_state = "Uninitialized" /\ cli.awaiting # None
    /\ IF cli.polls + 1 >= RebroadcastAfter
       THEN /\ cli' = [Off EXCEPT !.pc = "sync"]
            /\ lapses' = IF cli.awaiting \in Paid THEN lapses + 1 ELSE lapses
       ELSE /\ cli' = [cli EXCEPT !.pc = "sync", !.polls = @ + 1]
            /\ UNCHANGED lapses
    /\ UNCHANGED <<funds, tx, wallet, shown, asked, count>>

\* WaitingForFunds, WaitingForMaturity.
PollUnfunded ==
    /\ cli.pc = "look" /\ load_state = "Uninitialized" /\ cli.awaiting = None
    /\ spendable = {}
    /\ cli' = [cli EXCEPT !.pc = "sync"]
    /\ UNCHANGED <<funds, tx, wallet, shown, asked, count, lapses>>

\* Mutant: the loop does not remember what it has sent.
PollShip_unremembered ==
    /\ cli.pc = "look" /\ load_state = "Uninitialized" /\ cli.awaiting = None
    /\ \E t \in Txs, late, recorded \in BOOLEAN :
           /\ Ship(t, late, recorded) /\ (IF late \/ ~recorded THEN Event ELSE UNCHANGED count)
           /\ lapses' = IF late /\ ~recorded THEN lapses + 1 ELSE lapses
    /\ cli' = [cli EXCEPT !.pc = "sync"]
    /\ UNCHANGED <<funds, shown, asked>>

\* The broadcast: answered and awaited, if perhaps not recorded; or it failed after the
\* wallet had already committed the transaction, and the loop goes round.
PollShip ==
    /\ cli.pc = "look" /\ load_state = "Uninitialized" /\ cli.awaiting = None
    /\ \E t \in Txs, late, recorded, answered \in BOOLEAN :
           /\ recorded => answered
           /\ Ship(t, late, recorded) /\ (IF late \/ ~recorded THEN Event ELSE UNCHANGED count)
           /\ cli' = IF answered THEN [cli EXCEPT !.pc = "sync", !.awaiting = t, !.polls = 0]
                     ELSE [cli EXCEPT !.pc = "sync"]
           /\ lapses' = IF late /\ ~recorded THEN lapses + 1 ELSE lapses
    /\ UNCHANGED <<funds, shown, asked>>

\* The timeout, a sync that fails, Ctrl-C: the run ends where it stands.
Exit ==
    /\ cli.pc \in {"sync", "look", "resume"}
    /\ Event
    /\ cli' = Off
    /\ UNCHANGED <<funds, tx, wallet, shown, asked, lapses>>

Poll == \/ Resume \/ PollSync \/ PollInitialized \/ PollInitializing \/ PollAwaiting
        \/ PollUnfunded \/ PollShip

-----------------------------------------------------------------------------
(* The GUI; its engine waits while a zkv init holds the datadir lock.      *)

\* Auto-sync: scan, then prune what is mined with its memo.
GuiSync ==
    /\ cli.pc \in {"off", "done"}
    /\ scanned # Mined
    /\ Scan
    /\ record' = record \ Mined
    /\ UNCHANGED <<funds, tx, cli, shown, asked, count, lapses>>

GuiShow ==
    /\ shown # merge_pending
    /\ shown' = merge_pending
    /\ UNCHANGED <<funds, tx, wallet, cli, asked, count, lapses>>

\* init: asked of a database shown uninitialized, with or without require_sync;
\* what it shows now is not asked again.  Nothing but the wallet and pending.toml tells
\* of an INIT whose send failed, or was not recorded.
GuiInit(requireSync) ==
    /\ cli.pc \in {"off", "done"}
    /\ shown = "Uninitialized"
    /\ requireSync => scanned = Mined
    /\ Event
    /\ \E t \in Txs, late, recorded \in BOOLEAN :
           /\ Ship(t, late, recorded)
           /\ lapses' = IF merge_pending = "Uninitialized" /\ (late => recorded) THEN lapses
                        ELSE lapses + 1
    /\ UNCHANGED <<funds, cli, shown, asked>>

\* faucet_init: the memo is signed and posted; no lock is held.
FaucetAsk ==
    /\ ~asked /\ shown = "Uninitialized"
    /\ Event
    /\ asked' = TRUE
    /\ UNCHANGED <<funds, tx, wallet, cli, shown, lapses>>

\* faucet_call: what an answer is taken for.  A 2xx is Ok, another status an Error, and
\* one that is lost or mentions an update is Outdated.
FaucetCall == {"Ok", "Outdated", "Error"}

\* The faucet pays whenever it says Ok, and perhaps when it does not; an Ok is recorded
\* if it names its txid.
FaucetAnswer ==
    /\ asked
    /\ asked' = FALSE
    /\ \E answer \in FaucetCall, paid, named \in BOOLEAN :
           /\ answer = "Ok" => paid
           /\ IF ~paid THEN UNCHANGED <<tx, record>>
              ELSE LET t == CHOOSE f \in Free : TRUE
                   IN  /\ Free # {}
                       /\ tx' = [tx EXCEPT ![t] = [payer |-> "faucet", note |-> None,
                                                   at |-> "mempool"]]
                       /\ record' = IF answer = "Ok" /\ named THEN record \cup {t} ELSE record
    /\ UNCHANGED <<funds, scanned, indexed, cli, shown, count, lapses>>

\* pending::load drops an entry an hour old, or one of a transaction long expired.
RecordGoesStale(t) ==
    /\ t \in record
    /\ IF tx[t] = Unborn THEN UNCHANGED count ELSE Event
    /\ record' = record \ {t}
    /\ lapses' = IF t \in Paid \ indexed THEN lapses + 1 ELSE lapses
    /\ UNCHANGED <<funds, tx, scanned, indexed, cli, shown, asked>>

-----------------------------------------------------------------------------
(* The chain and the network.                                              *)

\* A payment arrives (notes are named in the order they come); a payment or change becomes
\* spendable.
Receive(n) ==
    /\ funds[n] = "absent" /\ n = CHOOSE m \in Notes : funds[m] = "absent"
    /\ funds' = [funds EXCEPT ![n] = "immature"]
    /\ UNCHANGED <<tx, wallet, cli, shown, asked, count, lapses>>

Ripen(n) ==
    /\ funds[n] = "immature"
    /\ funds' = [funds EXCEPT ![n] = "ripe"]
    /\ UNCHANGED <<tx, wallet, cli, shown, asked, count, lapses>>

\* The node broadcasts what the wallet has committed, again if it must.
Broadcast(t) ==
    /\ tx[t].at = "committed"
    /\ tx' = [tx EXCEPT ![t].at = "mempool"]
    /\ UNCHANGED <<funds, wallet, cli, shown, asked, count, lapses>>

\* Mined: the note comes back as change.
Mine(t) ==
    /\ tx[t].at = "mempool"
    /\ tx' = [tx EXCEPT ![t].at = "mined"]
    /\ funds' = IF tx[t].note = None THEN funds ELSE [funds EXCEPT ![tx[t].note] = "immature"]
    /\ UNCHANGED <<wallet, cli, shown, asked, count, lapses>>

Drop(t) ==
    /\ tx[t].at = "mempool"
    /\ Event
    /\ tx' = [tx EXCEPT ![t].at = "dropped"]
    /\ UNCHANGED <<funds, wallet, cli, shown, asked, lapses>>

\* Its expiry height passes: the wallet no longer counts it.
Expire(t) ==
    /\ tx[t].at = "dropped"
    /\ tx' = [tx EXCEPT ![t] = Unborn]
    /\ indexed' = indexed \ {t} /\ scanned' = scanned \ {t}
    /\ UNCHANGED <<funds, record, cli, shown, asked, count, lapses>>

\* A reorganisation puts it back; the wallet rewinds when it next scans.
Reorg(t) ==
    /\ tx[t].at = "mined"
    /\ Event
    /\ tx' = [tx EXCEPT ![t].at = "mempool"]
    /\ funds' = IF tx[t].note = None THEN funds ELSE [funds EXCEPT ![tx[t].note] = "ripe"]
    /\ UNCHANGED <<wallet, cli, shown, asked, lapses>>

Chain(t) == Broadcast(t) \/ Mine(t) \/ Drop(t) \/ Expire(t)

Next ==
    \/ StartInit \/ Poll \/ Exit
    \/ GuiSync \/ GuiShow \/ (\E requireSync \in BOOLEAN : GuiInit(requireSync))
    \/ FaucetAsk \/ FaucetAnswer
    \/ \E n \in Notes : Receive(n) \/ Ripen(n)
    \/ \E t \in Txs : Chain(t) \/ Reorg(t) \/ RecordGoesStale(t)

\* The loop runs, the user runs zkv init again after a run that ended early, a
\* payment matures, and the network mines, drops or expires what it is given.
Fairness ==
    /\ WF_vars(Poll) /\ WF_vars(StartInit)
    /\ \A n \in Notes : WF_vars(Ripen(n))
    /\ \A t \in Txs : WF_vars(Chain(t)) /\ WF_vars(tx[t] = Unborn /\ RecordGoesStale(t))

Spec == Init /\ [][Next]_vars /\ Fairness

-----------------------------------------------------------------------------
(* Properties.                                                             *)

\* Funds, transactions and the loop's variables are well formed; the loop gives a
\* broadcast up before REBROADCAST_AFTER_POLLS is exceeded.
TypeOK ==
    /\ \A n \in Notes : funds[n] \in {"absent", "immature", "ripe"}
    /\ \A t \in Txs : tx[t].at \in {"unborn", "committed", "mempool", "dropped", "mined"}
    /\ scanned \cup indexed \cup record \subseteq Txs
    /\ cli.pc \in {"off", "resume", "sync", "look", "done"}
    /\ cli.awaiting \in Txs \cup {None} /\ cli.polls < RebroadcastAfter

\* An INIT is paid for once, and once more only for each time an earlier one in
\* flight went out of sight: the wallet could not yet read it and the loop gave it
\* up, was run anew or never learnt of it, its pending.toml entry was never written or
\* went stale, or the GUI was asked for one by a stale view.  Timeouts, kills, failed
\* broadcasts the wallet shows, drops, expiries and syncs, in any order, cost no second fee.
PaidOnce == Cardinality(Paid) <= 1 + lapses

\* "Always syncs first [...] so we never broadcast against stale local state":
\* zkv init pays for no INIT when one was mined at its last sync, whoever sent it.
CliShips == cli.pc = "look" /\ \E t \in Txs : tx[t].at = "unborn" /\ tx'[t].at = "committed"
NeverPaysForInitialized == [][CliShips => cli.tip \cap Mined = {}]_vars

\* The fee of an INIT is paid once and never for a database that has its INIT.
PaysOnce == [](TypeOK /\ PaidOnce) /\ NeverPaysForInitialized

\* Once a wallet is funded an INIT is mined, whatever was dropped or timed out (a
\* block undone after zkv init called its INIT confirmed apart).
InitHappens == (\E n \in Notes : funds[n] = "ripe") ~> (Mined # {} \/ cli.pc = "done")

\* "INIT confirmed. Database is now initialized.": as reported, at one confirmation.
ConfirmedIsMined == cli.pc = "done" => Mined # {}

\* "A locally-broadcast INIT the wallet DB hasn't indexed yet still means the
\* database is initializing": zkv init pays for none while one is recorded.
RecordIsRespected == [][CliShips => record \cap InFlight = {}]_vars

=============================================================================
