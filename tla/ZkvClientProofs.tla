--------------------------- MODULE ZkvClientProofs ---------------------------
(***************************************************************************)
(* Two procedures a client runs on its own, without the engine: the INIT   *)
(* ceremony (ZkvInit) and the shallow client (ZkvShallow).                 *)
(*                                                                         *)
(* The fee of an INIT is paid once, for any number of notes, transactions, *)
(* cut runs, drops, faucet calls, stale records and reorganisations.       *)
(* Cardinality(Paid) <= 1 + lapses says nothing of who may pay next.  The  *)
(* inductive invariant bounds, for each of the two payers, the INITs that  *)
(* it cannot see: those the wallet cannot read and the poll loop does not  *)
(* await, and those the wallet cannot read and pending.toml does not hold. *)
(* A payer ships only when it sees none, so all are among these.           *)
(*                                                                         *)
(* The shallow client reads a chain that moves between its requests.  A    *)
(* block that was too deep to be replaced when the tip of a call was read  *)
(* is final: ReadInvariant says what a call in progress has made of the    *)
(* final blocks, that nothing else it holds counts as confirmed, and that  *)
(* the walk for the INIT passed over none.  FollowInvariant relates what   *)
(* `follow` printed to the cursor: what is on the list is final and in     *)
(* order, what left the margin is on it, and what the next poll reads      *)
(* again the cursor remembers.  That a window agrees with the full read is *)
(* about the replay: a write that is honoured opens its key to any later   *)
(* root write of a higher sequence, until a management memo intervenes.    *)
(***************************************************************************)
EXTENDS ZkvInit, ZkvShallow, ZkvProtocolProofs

-----------------------------------------------------------------------------
(* The INIT ceremony.                                                       *)

Stages == {"unborn", "committed", "mempool", "dropped", "mined"}

Running == cli.pc \in {"resume", "sync", "look"}

CliRecord == [pc : {"off", "resume", "sync", "look", "done"}, awaiting : Txs \cup {None},
              polls : 0..(RebroadcastAfter - 1), tip : SUBSET Txs]

\* The shape of the state, TypeOK included.
Shape ==
    /\ funds \in [Notes -> {"absent", "immature", "ripe"}]
    /\ tx \in [Txs -> [payer : {"nobody", "own", "faucet"}, note : Notes \cup {None}, at : Stages]]
    /\ scanned \subseteq Txs /\ indexed \subseteq Txs /\ record \subseteq Txs
    /\ cli \in CliRecord
    /\ lapses \in Nat

\* Paid INITs that zkv init, and the GUI, have no trace of.
HiddenFromLoop == Paid \ (indexed \cup {cli.awaiting})
HiddenFromGui  == Paid \ (indexed \cup record)

\* A run sees all it has paid for, but for the lapses.
LoopSees == Running => Cardinality(HiddenFromLoop) <= lapses

\* So does the GUI, at any time.
GuiSees == Cardinality(HiddenFromGui) <= lapses

\* What a run awaits was sent when the wallet could read no INIT, so whatever it can
\* read since is that one, or is mined; without a broadcast nothing is awaited.
AwaitedFirst ==
    /\ cli.awaiting # None /\ cli.pc = "sync" => indexed \subseteq {cli.awaiting}
    /\ cli.awaiting # None /\ cli.pc = "look" => indexed \subseteq {cli.awaiting} \cup scanned
    /\ cli.pc = "resume" => cli.awaiting = None

\* The INITs mined at the last sync are readable, or have left the chain for good.
TipIsRead == cli.pc = "look" => \A t \in cli.tip : t \in indexed \/ tx[t].at = "unborn"

FeeInvariant == Shape /\ PaidOnce /\ LoopSees /\ GuiSees /\ AwaitedFirst /\ TipIsRead

-----------------------------------------------------------------------------
(* Counting.                                                               *)

LEMMA FiniteTxs == IsFiniteSet(Txs) /\ None \notin Txs /\ RebroadcastAfter \in Nat \ {0}
BY InitAssumption

\* A set of transactions is counted by a number, and a part of it by no larger one.
LEMMA CountSubset ==
    ASSUME NEW A, NEW B, B \subseteq Txs, A \subseteq B
    PROVE  Cardinality(A) \in Nat /\ Cardinality(B) \in Nat /\ Cardinality(A) <= Cardinality(B)
<1>1. IsFiniteSet(B)
  BY FiniteTxs, FS_Subset
<1>2. IsFiniteSet(A) /\ Cardinality(A) <= Cardinality(B)
  BY <1>1, FS_Subset
<1> QED
  BY <1>1, <1>2, FS_CardinalityType

\* One more transaction counts at most one more.
LEMMA CountOneMore ==
    ASSUME NEW A, NEW B, NEW x, B \subseteq Txs, A \subseteq B \cup {x}
    PROVE  Cardinality(A) <= Cardinality(B) + 1
<1>1. IsFiniteSet(B)
  BY FiniteTxs, FS_Subset
<1>2. IsFiniteSet(B \cup {x}) /\ Cardinality(B \cup {x}) \in Nat
  BY <1>1, FS_AddElement, FS_CardinalityType
<1>3. Cardinality(B) \in Nat /\ Cardinality(B \cup {x}) <= Cardinality(B) + 1
  <2>1. Cardinality(B) \in Nat
    BY <1>1, FS_CardinalityType
  <2>2. Cardinality(B \cup {x}) = IF x \in B THEN Cardinality(B) ELSE Cardinality(B) + 1
    BY <1>1, FS_AddElement
  <2> QED
    BY <2>1, <2>2
<1>4. Cardinality(A) \in Nat /\ Cardinality(A) <= Cardinality(B \cup {x})
  BY <1>2, FS_Subset, FS_CardinalityType
<1> QED
  BY <1>2, <1>3, <1>4

LEMMA EmptyCount == Cardinality({}) = 0
BY FS_EmptySet

\* The bounds carry over a step in which no INIT is paid for, when each payer sees what
\* it saw before or its bound is shown afresh.
LEMMA NothingPaid ==
    ASSUME FeeInvariant, lapses' \in Nat, lapses <= lapses', Paid' \subseteq Paid,
           Running' => \/ Running /\ HiddenFromLoop' \subseteq HiddenFromLoop
                       \/ Cardinality(HiddenFromLoop') <= lapses',
           \/ HiddenFromGui' \subseteq HiddenFromGui
           \/ Cardinality(HiddenFromGui') <= lapses'
    PROVE  PaidOnce' /\ LoopSees' /\ GuiSees'
<1>0. Paid \subseteq Txs /\ HiddenFromLoop \subseteq Txs /\ HiddenFromGui \subseteq Txs
  BY DEF Paid, HiddenFromLoop, HiddenFromGui
<1>1. lapses \in Nat
  BY DEF FeeInvariant, Shape
<1>2. PaidOnce'
  <2>1. Cardinality(Paid) \in Nat /\ Cardinality(Paid') \in Nat
        /\ Cardinality(Paid') <= Cardinality(Paid)
    BY <1>0, CountSubset
  <2>2. Cardinality(Paid) <= 1 + lapses
    BY DEF FeeInvariant, PaidOnce
  <2> QED
    BY <1>1, <2>1, <2>2 DEF PaidOnce
<1>3. LoopSees'
  <2>1. ASSUME Running, HiddenFromLoop' \subseteq HiddenFromLoop
        PROVE  Cardinality(HiddenFromLoop') <= lapses'
    <3>1. Cardinality(HiddenFromLoop) \in Nat /\ Cardinality(HiddenFromLoop') \in Nat
          /\ Cardinality(HiddenFromLoop') <= Cardinality(HiddenFromLoop)
      BY <1>0, <2>1, CountSubset
    <3>2. Cardinality(HiddenFromLoop) <= lapses
      BY <2>1 DEF FeeInvariant, LoopSees
    <3> QED
      BY <1>1, <3>1, <3>2
  <2> QED
    BY <2>1 DEF LoopSees
<1>4. GuiSees'
  <2>1. ASSUME HiddenFromGui' \subseteq HiddenFromGui
        PROVE  Cardinality(HiddenFromGui') <= lapses'
    <3>1. Cardinality(HiddenFromGui) \in Nat /\ Cardinality(HiddenFromGui') \in Nat
          /\ Cardinality(HiddenFromGui') <= Cardinality(HiddenFromGui)
      BY <1>0, <2>1, CountSubset
    <3>2. Cardinality(HiddenFromGui) <= lapses
      BY DEF FeeInvariant, GuiSees
    <3> QED
      BY <1>1, <3>1, <3>2
  <2> QED
    BY <2>1 DEF GuiSees
<1> QED
  BY <1>2, <1>3, <1>4

-----------------------------------------------------------------------------
(* The shape of the state.                                                 *)

LEMMA ShapeGivesType == Shape => TypeOK
BY FiniteTxs DEF Shape, TypeOK, Stages, CliRecord

\* What a broadcast does to the transactions: one name nobody uses becomes an INIT of
\* the wallet's own.
LEMMA ShipFacts ==
    ASSUME Shape, NEW t \in Txs, NEW late \in BOOLEAN, NEW recorded \in BOOLEAN,
           Ship(t, late, recorded)
    PROVE  /\ tx' \in [Txs -> [payer : {"nobody", "own", "faucet"}, note : Notes \cup {None},
                               at : Stages]]
           /\ Paid' = Paid \cup {t}
           /\ t \notin cli.tip /\ tx[t].at = "unborn"
           /\ \A u \in Txs \ {t} : tx'[u] = tx[u]
           /\ indexed' = IF late THEN indexed ELSE indexed \cup {t}
           /\ record' = IF recorded THEN record \cup {t} ELSE record
           /\ scanned' = scanned
<1> DEFINE n == CHOOSE m \in spendable : TRUE
<1> DEFINE paid == [payer |-> "own", note |-> n, at |-> "committed"]
<1>1. n \in Notes
  BY DEF Ship, spendable
<1>2. paid \in [payer : {"nobody", "own", "faucet"}, note : Notes \cup {None}, at : Stages]
  BY <1>1 DEF Stages
<1>3. tx' = [tx EXCEPT ![t] = paid]
  BY DEF Ship
<1>4. t \in Free
  BY DEF Ship
<1>5. paid.payer = "own" /\ paid.at = "committed"
  OBVIOUS
<1> HIDE DEF n, paid
<1>6. tx[t].at = "unborn" /\ t \notin cli.tip
  BY <1>4 DEF Free, Unborn
<1>7. tx'[t] = paid /\ \A u \in Txs \ {t} : tx'[u] = tx[u]
  BY <1>3 DEF Shape
<1>8. Paid' = Paid \cup {t}
  BY <1>5, <1>7 DEF Paid
<1> QED
  BY <1>2, <1>3, <1>6, <1>7, <1>8 DEF Shape, Ship

\* The record of the poll loop after a step is again one: started afresh, or moved on.
LEMMA FreshCli ==
    ASSUME NEW pc \in {"off", "resume", "sync", "look", "done"}
    PROVE  /\ [Off EXCEPT !.pc = pc] \in CliRecord
           /\ [Off EXCEPT !.pc = pc].pc = pc /\ [Off EXCEPT !.pc = pc].awaiting = None
           /\ Off \in CliRecord /\ Off.pc = "off" /\ Off.awaiting = None
<1>1. 0 \in 0..(RebroadcastAfter - 1)
  BY FiniteTxs
<1>2. [pc |-> pc, awaiting |-> None, polls |-> 0, tip |-> {}] \in CliRecord
  BY <1>1 DEF CliRecord
<1>3. Off \in CliRecord
  BY <1>1 DEF CliRecord, Off
<1>4. [Off EXCEPT !.pc = pc] = [pc |-> pc, awaiting |-> None, polls |-> 0, tip |-> {}]
  BY DEF Off
<1>5. Off.pc = "off" /\ Off.awaiting = None
  BY DEF Off
<1> QED
  BY <1>2, <1>3, <1>4, <1>5

LEMMA MovedCli ==
    ASSUME Shape, NEW pc \in {"off", "resume", "sync", "look", "done"}
    PROVE  /\ [cli EXCEPT !.pc = pc] \in CliRecord
           /\ [cli EXCEPT !.pc = pc].pc = pc /\ [cli EXCEPT !.pc = pc].awaiting = cli.awaiting
           /\ [cli EXCEPT !.pc = pc].tip = cli.tip
BY DEF Shape, CliRecord

-----------------------------------------------------------------------------
(* zkv init, step by step.                                                 *)

LEMMA StartStep == ASSUME FeeInvariant, StartInit PROVE FeeInvariant'
<1>0. Shape /\ PaidOnce /\ lapses \in Nat /\ Paid \subseteq Txs
  BY DEF FeeInvariant, Shape, Paid
<1>1. UNCHANGED <<funds, tx, scanned, indexed, record>>
  BY DEF StartInit, wallet
<1>2. PICK pc \in {"sync", "resume"} : cli' = [Off EXCEPT !.pc = pc]
  BY DEF StartInit
<1>3. cli'.pc = pc /\ cli'.awaiting = None
  BY <1>0, <1>2, FreshCli
<1>4. lapses' = IF Paid \ indexed # {} THEN lapses + 1 ELSE lapses
  BY DEF StartInit
<1>5. Paid' = Paid
  BY <1>1 DEF Paid
<1>6. lapses' \in Nat /\ lapses <= lapses'
  BY <1>0, <1>4
<1>7. Shape'
  BY <1>0, <1>1, <1>2, <1>6, FreshCli DEF Shape
<1>8. HiddenFromLoop' = Paid \ indexed
  BY <1>0, <1>1, <1>3, <1>5, FiniteTxs DEF HiddenFromLoop
<1>9. Cardinality(HiddenFromLoop') <= lapses'
  <2>1. CASE Paid \ indexed = {}
    <3>1. HiddenFromLoop' = {} /\ lapses' = lapses
      BY <1>4, <1>8, <2>1
    <3> QED
      BY <1>0, <3>1, EmptyCount
  <2>2. CASE Paid \ indexed # {}
    <3>1. Cardinality(Paid \ indexed) \in Nat /\ Cardinality(Paid) \in Nat
          /\ Cardinality(Paid \ indexed) <= Cardinality(Paid)
      BY <1>0, CountSubset
    <3> QED
      BY <1>0, <1>4, <1>8, <2>2, <3>1 DEF PaidOnce
  <2> QED
    BY <2>1, <2>2
<1>10. HiddenFromGui' = HiddenFromGui
  BY <1>1, <1>5 DEF HiddenFromGui
<1>11. PaidOnce' /\ LoopSees' /\ GuiSees'
  BY <1>5, <1>9, <1>10, <1>6, NothingPaid
<1>12. AwaitedFirst' /\ TipIsRead'
  BY <1>3 DEF AwaitedFirst, TipIsRead
<1> QED
  BY <1>7, <1>11, <1>12 DEF FeeInvariant

LEMMA ResumeStep == ASSUME FeeInvariant, Resume PROVE FeeInvariant'
<1>0. Shape /\ lapses \in Nat /\ cli.pc = "resume" /\ cli.awaiting = None
  BY DEF FeeInvariant, Shape, Resume, AwaitedFirst
<1>1. UNCHANGED <<funds, tx, lapses>>
  BY DEF Resume
<1>2. scanned' = Mined /\ indexed' = indexed \cup Mined /\ record' = record \ {t \in record : t \in Mined}
  BY DEF Resume, Scan
<1>3. PICK c \in {Off, [Off EXCEPT !.pc = "done"], [cli EXCEPT !.pc = "sync"]} : cli' = c
  BY DEF Resume
<1>4. cli'.pc \in {"off", "done", "sync"} /\ cli'.awaiting = None /\ cli' \in CliRecord
  BY <1>0, <1>3, FreshCli, MovedCli
<1>5. Paid' = Paid
  BY <1>1 DEF Paid
<1>6. Shape'
  BY <1>0, <1>1, <1>2, <1>4 DEF Shape, Mined
<1>7. Running /\ HiddenFromLoop' \subseteq HiddenFromLoop
  BY <1>0, <1>2, <1>4, <1>5 DEF HiddenFromLoop, Running
<1>8. HiddenFromGui' \subseteq HiddenFromGui
  BY <1>2, <1>5 DEF HiddenFromGui
<1>9. PaidOnce' /\ LoopSees' /\ GuiSees'
  BY <1>0, <1>1, <1>5, <1>7, <1>8, NothingPaid
<1>10. AwaitedFirst' /\ TipIsRead'
  BY <1>4 DEF AwaitedFirst, TipIsRead
<1> QED
  BY <1>6, <1>9, <1>10 DEF FeeInvariant

LEMMA PollSyncStep == ASSUME FeeInvariant, PollSync PROVE FeeInvariant'
<1>0. Shape /\ lapses \in Nat /\ cli.pc = "sync"
  BY DEF FeeInvariant, Shape, PollSync
<1>1. UNCHANGED <<funds, tx, record, lapses>>
  BY DEF PollSync
<1>2. scanned' = Mined /\ indexed' = indexed \cup Mined /\ Mined \subseteq Txs
  BY DEF PollSync, Scan, Mined
<1>3. cli' = [cli EXCEPT !.pc = "look", !.tip = Mined]
  BY DEF PollSync
<1>4. cli'.pc = "look" /\ cli'.awaiting = cli.awaiting /\ cli'.tip = Mined /\ cli' \in CliRecord
  BY <1>0, <1>2, <1>3 DEF Shape, CliRecord
<1>5. Paid' = Paid
  BY <1>1 DEF Paid
<1>6. Shape'
  BY <1>0, <1>1, <1>2, <1>4 DEF Shape
<1>7. Running /\ HiddenFromLoop' \subseteq HiddenFromLoop
  BY <1>0, <1>2, <1>4, <1>5 DEF HiddenFromLoop, Running
<1>8. HiddenFromGui' \subseteq HiddenFromGui
  BY <1>1, <1>2, <1>5 DEF HiddenFromGui
<1>9. PaidOnce' /\ LoopSees' /\ GuiSees'
  BY <1>0, <1>1, <1>5, <1>7, <1>8, NothingPaid
<1>10. AwaitedFirst'
  BY <1>0, <1>2, <1>4 DEF FeeInvariant, AwaitedFirst
<1>11. TipIsRead'
  BY <1>2, <1>4 DEF TipIsRead
<1> QED
  BY <1>6, <1>9, <1>10, <1>11 DEF FeeInvariant

\* An INIT the wallet reads and has not scanned is the awaited one, so the loop may
\* forget it; one it has scanned ends the run.
LEMMA PollInitStep ==
    ASSUME FeeInvariant, PollInitialized \/ PollInitializing PROVE FeeInvariant'
<1>0. Shape /\ lapses \in Nat /\ Running /\ cli.pc = "look"
  BY DEF FeeInvariant, Shape, PollInitialized, PollInitializing, Running
<1>1. UNCHANGED <<funds, tx, scanned, indexed, record, lapses>>
  BY DEF PollInitialized, PollInitializing, wallet
<1>2. PICK pc \in {"done", "sync"} : cli' = [Off EXCEPT !.pc = pc]
  BY DEF PollInitialized, PollInitializing
<1>3. cli'.pc = pc /\ cli'.awaiting = None /\ cli' \in CliRecord
  BY <1>2, FreshCli
<1>4. Paid' = Paid
  BY <1>1 DEF Paid
<1>5. Shape'
  BY <1>0, <1>1, <1>3 DEF Shape
<1>6. ASSUME Running' PROVE HiddenFromLoop' \subseteq HiddenFromLoop
  <2>1. PollInitializing
    BY <1>3, <1>6, FreshCli DEF PollInitialized, Running
  <2>2. indexed # {} /\ indexed \cap scanned = {}
    BY <2>1 DEF PollInitializing, load_state
  <2>3. cli.awaiting # None => cli.awaiting \in indexed
    BY <1>0, <2>2 DEF FeeInvariant, AwaitedFirst
  <2> QED
    BY <1>1, <1>3, <1>4, <2>3, FiniteTxs DEF HiddenFromLoop, Paid
<1>7. HiddenFromGui' \subseteq HiddenFromGui
  BY <1>1, <1>4 DEF HiddenFromGui
<1>8. PaidOnce' /\ LoopSees' /\ GuiSees'
  BY <1>0, <1>1, <1>4, <1>6, <1>7, NothingPaid
<1>9. AwaitedFirst' /\ TipIsRead'
  BY <1>3 DEF AwaitedFirst, TipIsRead
<1> QED
  BY <1>5, <1>8, <1>9 DEF FeeInvariant

\* A broadcast given up counts as a lapse if it may yet be mined.
LEMMA AwaitingStep == ASSUME FeeInvariant, PollAwaiting PROVE FeeInvariant'
<1>0. Shape /\ lapses \in Nat /\ Running /\ cli.pc = "look" /\ cli.awaiting # None
  BY DEF FeeInvariant, Shape, PollAwaiting, Running
<1>1. UNCHANGED <<funds, tx, scanned, indexed, record>>
  BY DEF PollAwaiting, wallet
<1>2. indexed = {}
  BY DEF PollAwaiting, load_state
<1>3. Paid' = Paid /\ Paid \subseteq Txs
  BY <1>1 DEF Paid
<1>4. CASE cli.polls + 1 >= RebroadcastAfter
  <2>1. cli' = [Off EXCEPT !.pc = "sync"]
    BY <1>4 DEF PollAwaiting
  <2>2. cli'.pc = "sync" /\ cli'.awaiting = None /\ cli' \in CliRecord
    BY <2>1, FreshCli
  <2>3. lapses' = IF cli.awaiting \in Paid THEN lapses + 1 ELSE lapses
    BY <1>4 DEF PollAwaiting
  <2>4. lapses' \in Nat /\ lapses <= lapses'
    BY <1>0, <2>3
  <2>5. Shape'
    BY <1>0, <1>1, <2>2, <2>4 DEF Shape
  <2>6. HiddenFromLoop' = Paid /\ HiddenFromLoop = Paid \ {cli.awaiting}
    BY <1>1, <1>2, <1>3, <2>2, FiniteTxs DEF HiddenFromLoop
  <2>7. HiddenFromLoop \subseteq Txs
    BY <1>3, <2>6
  <2>8. \/ HiddenFromLoop' \subseteq HiddenFromLoop
        \/ Cardinality(HiddenFromLoop') <= lapses'
    <3>1. CASE cli.awaiting \in Paid
      <4>1. Paid \subseteq HiddenFromLoop \cup {cli.awaiting}
        BY <2>6
      <4>2. Cardinality(Paid) <= Cardinality(HiddenFromLoop) + 1
        BY <2>7, <4>1, CountOneMore
      <4>3. Cardinality(HiddenFromLoop) \in Nat /\ Cardinality(Paid) \in Nat
        BY <1>3, <2>7, CountSubset
      <4>4. Cardinality(HiddenFromLoop) <= lapses
        BY <1>0 DEF FeeInvariant, LoopSees
      <4>5. lapses' = lapses + 1
        BY <2>3, <3>1
      <4> HIDE DEF HiddenFromLoop
      <4> QED
        BY <1>0, <2>6, <4>2, <4>3, <4>4, <4>5
    <3>2. CASE cli.awaiting \notin Paid
      BY <2>6, <3>2
    <3> QED
      BY <3>1, <3>2
  <2>9. HiddenFromGui' \subseteq HiddenFromGui
    BY <1>1, <1>3 DEF HiddenFromGui
  <2>10. PaidOnce' /\ LoopSees' /\ GuiSees'
    BY <1>0, <1>3, <2>4, <2>8, <2>9, NothingPaid
  <2>11. AwaitedFirst' /\ TipIsRead'
    BY <2>2 DEF AwaitedFirst, TipIsRead
  <2> QED
    BY <2>5, <2>10, <2>11 DEF FeeInvariant
<1>5. CASE ~(cli.polls + 1 >= RebroadcastAfter)
  <2>1. cli' = [cli EXCEPT !.pc = "sync", !.polls = @ + 1] /\ lapses' = lapses
    BY <1>5 DEF PollAwaiting
  <2>2. cli.polls + 1 \in 0..(RebroadcastAfter - 1)
    BY <1>0, <1>5, FiniteTxs DEF Shape, CliRecord
  <2>3. cli'.pc = "sync" /\ cli'.awaiting = cli.awaiting /\ cli' \in CliRecord
    BY <1>0, <2>1, <2>2 DEF Shape, CliRecord
  <2>4. Shape'
    BY <1>0, <1>1, <2>1, <2>3 DEF Shape
  <2>5. HiddenFromLoop' = HiddenFromLoop /\ HiddenFromGui' = HiddenFromGui
    BY <1>1, <1>3, <2>3 DEF HiddenFromLoop, HiddenFromGui
  <2>6. PaidOnce' /\ LoopSees' /\ GuiSees'
    BY <1>0, <1>3, <2>1, <2>5, NothingPaid
  <2>7. AwaitedFirst' /\ TipIsRead'
    BY <1>1, <1>2, <2>3 DEF AwaitedFirst, TipIsRead
  <2> QED
    BY <2>4, <2>6, <2>7 DEF FeeInvariant
<1> QED
  BY <1>4, <1>5

LEMMA UnfundedStep == ASSUME FeeInvariant, PollUnfunded PROVE FeeInvariant'
<1>0. Shape /\ lapses \in Nat /\ Running /\ cli.awaiting = None
  BY DEF FeeInvariant, Shape, PollUnfunded, Running
<1>1. UNCHANGED <<funds, tx, scanned, indexed, record, lapses>>
  BY DEF PollUnfunded, wallet
<1>2. cli' = [cli EXCEPT !.pc = "sync"]
  BY DEF PollUnfunded
<1>3. cli'.pc = "sync" /\ cli'.awaiting = None /\ cli' \in CliRecord
  BY <1>0, <1>2, MovedCli
<1>4. Paid' = Paid
  BY <1>1 DEF Paid
<1>5. HiddenFromLoop' = HiddenFromLoop /\ HiddenFromGui' = HiddenFromGui
  BY <1>0, <1>1, <1>3, <1>4 DEF HiddenFromLoop, HiddenFromGui
<1>6. Shape'
  BY <1>0, <1>1, <1>3 DEF Shape
<1>7. PaidOnce' /\ LoopSees' /\ GuiSees'
  BY <1>0, <1>1, <1>4, <1>5, NothingPaid
<1>8. AwaitedFirst' /\ TipIsRead'
  BY <1>3 DEF AwaitedFirst, TipIsRead
<1> QED
  BY <1>6, <1>7, <1>8 DEF FeeInvariant

LEMMA ExitStep == ASSUME FeeInvariant, Exit PROVE FeeInvariant'
<1>0. Shape /\ lapses \in Nat
  BY DEF FeeInvariant, Shape
<1>1. UNCHANGED <<funds, tx, scanned, indexed, record, lapses>> /\ cli' = Off
  BY DEF Exit, wallet
<1>2. cli'.pc = "off" /\ cli'.awaiting = None /\ cli' \in CliRecord
  BY <1>1, FreshCli
<1>3. Paid' = Paid
  BY <1>1 DEF Paid
<1>4. HiddenFromGui' = HiddenFromGui /\ ~Running'
  BY <1>1, <1>2, <1>3 DEF HiddenFromGui, Running
<1>5. Shape'
  BY <1>0, <1>1, <1>2 DEF Shape
<1>6. PaidOnce' /\ LoopSees' /\ GuiSees'
  BY <1>0, <1>1, <1>3, <1>4, NothingPaid
<1>7. AwaitedFirst' /\ TipIsRead'
  BY <1>2 DEF AwaitedFirst, TipIsRead
<1> QED
  BY <1>5, <1>6, <1>7 DEF FeeInvariant

\* A payer that sees no INIT has all of them hidden from it, so the bound on those is
\* a bound on what is paid for.
LEMMA ShippedBound ==
    ASSUME FeeInvariant, NEW t \in Txs, Paid' = Paid \cup {t}, lapses' \in Nat,
           \/ Cardinality(Paid) <= lapses /\ lapses <= lapses'
           \/ lapses' = lapses + 1
    PROVE  PaidOnce'
<1>1. Paid \subseteq Txs /\ Paid' \subseteq Txs
  BY DEF Paid
<1>2. Cardinality(Paid) \in Nat /\ Cardinality(Paid') \in Nat
  BY <1>1, CountSubset
<1>3. Cardinality(Paid') <= Cardinality(Paid) + 1
  BY <1>1, CountOneMore
<1>4. Cardinality(Paid) <= 1 + lapses /\ lapses \in Nat
  BY DEF FeeInvariant, PaidOnce, Shape
<1> QED
  BY <1>2, <1>3, <1>4 DEF PaidOnce

\* The loop ships when it reads no INIT and awaits none; what it ships it awaits, the
\* wallet shows, or it lapses.
LEMMA ShipStep == ASSUME FeeInvariant, PollShip PROVE FeeInvariant'
<1>0. Shape /\ lapses \in Nat /\ Running /\ cli.pc = "look" /\ cli.awaiting = None
  BY DEF FeeInvariant, Shape, PollShip, Running
<1>1. indexed = {} /\ UNCHANGED funds
  BY DEF PollShip, load_state
<1>2. PICK t \in Txs, late \in BOOLEAN, recorded \in BOOLEAN, answered \in BOOLEAN :
          /\ recorded => answered
          /\ Ship(t, late, recorded)
          /\ cli' = IF answered THEN [cli EXCEPT !.pc = "sync", !.awaiting = t, !.polls = 0]
                    ELSE [cli EXCEPT !.pc = "sync"]
          /\ lapses' = IF late /\ ~recorded THEN lapses + 1 ELSE lapses
  BY DEF PollShip
<1>3. /\ tx' \in [Txs -> [payer : {"nobody", "own", "faucet"}, note : Notes \cup {None},
                          at : Stages]]
      /\ Paid' = Paid \cup {t} /\ scanned' = scanned
      /\ indexed' = IF late THEN indexed ELSE indexed \cup {t}
      /\ record' = IF recorded THEN record \cup {t} ELSE record
  BY <1>0, <1>2, ShipFacts
<1>4. Paid \subseteq Txs /\ HiddenFromLoop = Paid
  BY <1>0, <1>1, FiniteTxs DEF Paid, HiddenFromLoop
<1>5. Cardinality(Paid) <= lapses /\ Cardinality(Paid) \in Nat
  BY <1>0, <1>4, CountSubset DEF FeeInvariant, LoopSees
<1>6. lapses' \in Nat /\ lapses <= lapses'
  BY <1>0, <1>2
<1>7. PaidOnce'
  BY <1>3, <1>5, <1>6, ShippedBound
<1>8. cli'.pc = "sync" /\ cli'.awaiting = (IF answered THEN t ELSE None) /\ cli' \in CliRecord
  <2>1. 0 \in 0..(RebroadcastAfter - 1)
    BY FiniteTxs
  <2>2. CASE answered
    BY <1>0, <1>2, <2>1, <2>2 DEF Shape, CliRecord
  <2>3. CASE ~answered
    BY <1>0, <1>2, <2>3, MovedCli
  <2> QED
    BY <2>2, <2>3
<1>9. Shape'
  BY <1>0, <1>1, <1>3, <1>6, <1>8 DEF Shape
<1>10. Paid' \subseteq Txs /\ HiddenFromLoop' \subseteq Paid' /\ HiddenFromGui' \subseteq Paid'
  BY <1>3, <1>4 DEF HiddenFromLoop, HiddenFromGui
<1>11. CASE late /\ ~recorded
  <2>1. Cardinality(HiddenFromLoop') \in Nat /\ Cardinality(HiddenFromGui') \in Nat
        /\ Cardinality(Paid') \in Nat
        /\ Cardinality(HiddenFromLoop') <= Cardinality(Paid')
        /\ Cardinality(HiddenFromGui') <= Cardinality(Paid')
    BY <1>10, CountSubset
  <2>2. Cardinality(Paid') <= Cardinality(Paid) + 1
    BY <1>3, <1>4, CountOneMore
  <2>3. lapses' = lapses + 1
    BY <1>2, <1>11
  <2>4. LoopSees' /\ GuiSees'
    BY <1>0, <1>5, <2>1, <2>2, <2>3 DEF LoopSees, GuiSees
  <2>5. AwaitedFirst' /\ TipIsRead'
    BY <1>1, <1>3, <1>8, <1>11 DEF AwaitedFirst, TipIsRead
  <2> QED
    BY <1>7, <1>9, <2>4, <2>5 DEF FeeInvariant
<1>12. CASE ~(late /\ ~recorded)
  <2>1. lapses' = lapses /\ (t \in indexed' \/ (t \in record' /\ cli'.awaiting = t))
    BY <1>2, <1>3, <1>8, <1>12
  <2>2. HiddenFromLoop' \subseteq Paid
    BY <1>3, <2>1 DEF HiddenFromLoop
  <2>3. HiddenFromGui' \subseteq HiddenFromGui /\ HiddenFromGui \subseteq Txs
    BY <1>3, <1>4, <2>1 DEF HiddenFromGui
  <2>4. LoopSees'
    <3>1. Cardinality(HiddenFromLoop') \in Nat /\ Cardinality(HiddenFromLoop') <= Cardinality(Paid)
      BY <1>4, <2>2, CountSubset
    <3> QED
      BY <1>0, <1>5, <2>1, <3>1 DEF LoopSees
  <2>5. GuiSees'
    <3>1. Cardinality(HiddenFromGui') \in Nat /\ Cardinality(HiddenFromGui) \in Nat
          /\ Cardinality(HiddenFromGui') <= Cardinality(HiddenFromGui)
      BY <2>3, CountSubset
    <3> QED
      BY <1>0, <2>1, <3>1 DEF FeeInvariant, GuiSees
  <2>6. AwaitedFirst' /\ TipIsRead'
    BY <1>1, <1>3, <1>8, <2>1 DEF AwaitedFirst, TipIsRead
  <2> QED
    BY <1>7, <1>9, <2>4, <2>5, <2>6 DEF FeeInvariant
<1> QED
  BY <1>11, <1>12

-----------------------------------------------------------------------------
(* The GUI and the faucet.                                                 *)

LEMMA GuiSyncStep == ASSUME FeeInvariant, GuiSync PROVE FeeInvariant'
<1>0. Shape /\ lapses \in Nat /\ cli.pc \in {"off", "done"}
  BY DEF FeeInvariant, Shape, GuiSync
<1>1. UNCHANGED <<funds, tx, cli, lapses>>
  BY DEF GuiSync
<1>2. scanned' = Mined /\ indexed' = indexed \cup Mined /\ record' = record \ Mined
      /\ Mined \subseteq Txs
  BY DEF GuiSync, Scan, Mined
<1>3. Paid' = Paid
  BY <1>1 DEF Paid
<1>4. HiddenFromGui' \subseteq HiddenFromGui /\ ~Running'
  BY <1>0, <1>1, <1>2, <1>3 DEF HiddenFromGui, Running
<1>5. Shape'
  BY <1>0, <1>1, <1>2 DEF Shape
<1>6. PaidOnce' /\ LoopSees' /\ GuiSees'
  BY <1>0, <1>1, <1>3, <1>4, NothingPaid
<1>7. AwaitedFirst' /\ TipIsRead'
  BY <1>0, <1>1 DEF AwaitedFirst, TipIsRead
<1> QED
  BY <1>5, <1>6, <1>7 DEF FeeInvariant

\* The GUI pays by the view it shows; when that view is current nothing is hidden.
LEMMA GuiInitStep ==
    ASSUME FeeInvariant, NEW requireSync \in BOOLEAN, GuiInit(requireSync) PROVE FeeInvariant'
<1>0. Shape /\ lapses \in Nat /\ cli.pc \in {"off", "done"} /\ UNCHANGED <<funds, cli>>
  BY DEF FeeInvariant, Shape, GuiInit
<1>1. PICK t \in Txs, late \in BOOLEAN, recorded \in BOOLEAN :
          /\ Ship(t, late, recorded)
          /\ lapses' = IF merge_pending = "Uninitialized" /\ (late => recorded) THEN lapses
                       ELSE lapses + 1
  BY DEF GuiInit
<1>2. /\ tx' \in [Txs -> [payer : {"nobody", "own", "faucet"}, note : Notes \cup {None},
                          at : Stages]]
      /\ Paid' = Paid \cup {t} /\ scanned' = scanned
      /\ indexed' = IF late THEN indexed ELSE indexed \cup {t}
      /\ record' = IF recorded THEN record \cup {t} ELSE record
  BY <1>0, <1>1, ShipFacts
<1>3. \/ lapses' = lapses /\ merge_pending = "Uninitialized" /\ (late => recorded)
      \/ lapses' = lapses + 1
  BY <1>1
<1>4. lapses' \in Nat /\ lapses <= lapses'
  BY <1>0, <1>3
<1>5. Shape'
  BY <1>0, <1>2, <1>4 DEF Shape
<1>6. HiddenFromGui \subseteq Txs /\ HiddenFromGui' \subseteq HiddenFromGui \cup {t}
  BY <1>2 DEF HiddenFromGui, Paid
<1>7. GuiSees'
  <2>1. Cardinality(HiddenFromGui) <= lapses /\ Cardinality(HiddenFromGui) \in Nat
    BY <1>6, CountSubset DEF FeeInvariant, GuiSees
  <2>2. CASE lapses' = lapses + 1
    <3>1. HiddenFromGui \cup {t} \subseteq Txs
      BY <1>6
    <3>2. Cardinality(HiddenFromGui') \in Nat /\ Cardinality(HiddenFromGui \cup {t}) \in Nat
          /\ Cardinality(HiddenFromGui') <= Cardinality(HiddenFromGui \cup {t})
      BY <1>6, <3>1, CountSubset
    <3>3. Cardinality(HiddenFromGui \cup {t}) <= Cardinality(HiddenFromGui) + 1
      BY <1>6, CountOneMore
    <3> QED
      BY <1>0, <2>1, <2>2, <3>2, <3>3 DEF GuiSees
  <2>3. CASE lapses' = lapses /\ (late => recorded)
    <3>1. HiddenFromGui' \subseteq HiddenFromGui
      BY <1>2, <2>3 DEF HiddenFromGui
    <3>2. Cardinality(HiddenFromGui') \in Nat
          /\ Cardinality(HiddenFromGui') <= Cardinality(HiddenFromGui)
      BY <1>6, <3>1, CountSubset
    <3> QED
      BY <1>0, <2>1, <2>3, <3>2 DEF GuiSees
  <2> QED
    BY <1>3, <2>2, <2>3
<1>8. merge_pending = "Uninitialized" => Cardinality(Paid) <= lapses
  <2>1. ASSUME merge_pending = "Uninitialized" PROVE HiddenFromGui = Paid
    <3>1. load_state = "Uninitialized" /\ record = {}
      BY <2>1 DEF merge_pending
    <3>2. indexed = {}
      BY <3>1 DEF load_state
    <3> QED
      BY <3>1, <3>2 DEF HiddenFromGui
  <2> QED
    BY <2>1 DEF FeeInvariant, GuiSees
<1>9. PaidOnce'
  BY <1>2, <1>3, <1>4, <1>8, ShippedBound
<1>10. LoopSees' /\ AwaitedFirst' /\ TipIsRead'
  BY <1>0 DEF LoopSees, Running, AwaitedFirst, TipIsRead
<1> QED
  BY <1>5, <1>7, <1>9, <1>10 DEF FeeInvariant

\* Steps outside the two payers: no INIT of ours is added, nothing but what is gone for
\* good leaves the wallet's index, and no name the loop still holds is used again.
LEMMA OutsideStep ==
    ASSUME FeeInvariant, Shape', UNCHANGED <<cli, lapses>>,
           Paid' \subseteq Paid, record \subseteq record',
           indexed' \subseteq indexed, indexed' \cap scanned \subseteq scanned',
           \A u \in Txs : u \in cli.tip /\ tx[u].at = "unborn" => tx'[u].at = "unborn",
           \A u \in indexed \ indexed' : tx'[u].at = "unborn"
    PROVE  FeeInvariant'
<1>0. Shape /\ lapses \in Nat /\ cli.tip \subseteq Txs
  BY DEF FeeInvariant, Shape, CliRecord
<1>1. \A u \in Paid' : u \in indexed => u \in indexed'
  BY DEF Paid
<1>2. HiddenFromLoop' \subseteq HiddenFromLoop /\ HiddenFromGui' \subseteq HiddenFromGui
  BY <1>1 DEF HiddenFromLoop, HiddenFromGui
<1>3. Running' => Running
  BY DEF Running
<1>4. PaidOnce' /\ LoopSees' /\ GuiSees'
  BY <1>0, <1>2, <1>3, NothingPaid
<1>5. AwaitedFirst'
  BY DEF FeeInvariant, AwaitedFirst
<1>6. TipIsRead'
  BY <1>0 DEF FeeInvariant, TipIsRead
<1> QED
  BY <1>4, <1>5, <1>6 DEF FeeInvariant

\* The faucet's INIT is not ours to pay for.
LEMMA FaucetStep == ASSUME FeeInvariant, FaucetAnswer PROVE FeeInvariant'
<1>0. Shape
  BY DEF FeeInvariant
<1>1. UNCHANGED <<funds, scanned, indexed, cli, lapses>>
  BY DEF FaucetAnswer
<1> DEFINE t == CHOOSE f \in Free : TRUE
<1> DEFINE born == [payer |-> "faucet", note |-> None, at |-> "mempool"]
<1>2. CASE UNCHANGED <<tx, record>>
  <2>1. Shape'
    BY <1>0, <1>1, <1>2 DEF Shape
  <2>2. Paid' = Paid
    BY <1>2 DEF Paid
  <2> QED
    BY <1>1, <1>2, <2>1, <2>2, OutsideStep
<1>3. CASE Free # {} /\ tx' = [tx EXCEPT ![t] = born] /\ record' \in {record, record \cup {t}}
  <2>1. t \in Free
    BY <1>3
  <2>2. born \in [payer : {"nobody", "own", "faucet"}, note : Notes \cup {None}, at : Stages]
        /\ born.payer = "faucet"
    BY DEF Stages
  <2> HIDE DEF t, born
  <2>3. t \in Txs /\ t \notin cli.tip
    BY <2>1 DEF Free
  <2>4. tx'[t] = born /\ \A u \in Txs \ {t} : tx'[u] = tx[u]
    BY <1>0, <1>3, <2>3 DEF Shape
  <2>5. Shape'
    BY <1>0, <1>1, <1>3, <2>2, <2>3 DEF Shape
  <2>6. Paid' \subseteq Paid
    BY <2>2, <2>4 DEF Paid
  <2>7. \A u \in Txs : u \in cli.tip /\ tx[u].at = "unborn" => tx'[u].at = "unborn"
    BY <2>3, <2>4
  <2>8. record \subseteq record'
    BY <1>3
  <2> QED
    BY <1>1, <2>5, <2>6, <2>7, <2>8, OutsideStep
<1> QED
  BY <1>2, <1>3 DEF FaucetAnswer

\* A stale record hides an INIT from the GUI, and is counted when it does.
LEMMA StaleStep ==
    ASSUME FeeInvariant, NEW t \in Txs, RecordGoesStale(t) PROVE FeeInvariant'
<1>0. Shape /\ lapses \in Nat /\ UNCHANGED <<funds, tx, scanned, indexed, cli>>
      /\ record' = record \ {t}
  BY DEF FeeInvariant, Shape, RecordGoesStale
<1>1. lapses' = IF t \in Paid \ indexed THEN lapses + 1 ELSE lapses
  BY DEF RecordGoesStale
<1>2. lapses' \in Nat /\ lapses <= lapses'
  BY <1>0, <1>1
<1>3. Shape'
  BY <1>0, <1>2 DEF Shape
<1>4. Paid' = Paid /\ HiddenFromGui \subseteq Txs
  BY <1>0 DEF Paid, HiddenFromGui
<1>5. HiddenFromLoop' = HiddenFromLoop /\ (Running' => Running)
  BY <1>0, <1>4 DEF HiddenFromLoop, Running
<1>6. \/ HiddenFromGui' \subseteq HiddenFromGui
      \/ Cardinality(HiddenFromGui') <= lapses'
  <2>1. CASE t \in Paid \ indexed
    <3>1. HiddenFromGui' \subseteq HiddenFromGui \cup {t} /\ HiddenFromGui' \subseteq Txs
      BY <1>0, <1>4 DEF HiddenFromGui, Paid
    <3>2. Cardinality(HiddenFromGui') <= Cardinality(HiddenFromGui) + 1
      BY <1>4, <3>1, CountOneMore
    <3>3. Cardinality(HiddenFromGui') \in Nat /\ Cardinality(HiddenFromGui) \in Nat
      BY <1>4, <3>1, CountSubset
    <3>4. Cardinality(HiddenFromGui) <= lapses
      BY DEF FeeInvariant, GuiSees
    <3>5. lapses' = lapses + 1
      BY <1>1, <2>1
    <3> QED
      BY <1>0, <3>2, <3>3, <3>4, <3>5
  <2>2. CASE t \notin Paid \ indexed
    BY <1>0, <1>4, <2>2 DEF HiddenFromGui
  <2> QED
    BY <2>1, <2>2
<1>7. PaidOnce' /\ LoopSees' /\ GuiSees'
  BY <1>2, <1>4, <1>5, <1>6, NothingPaid
<1>8. AwaitedFirst' /\ TipIsRead'
  BY <1>0 DEF FeeInvariant, AwaitedFirst, TipIsRead
<1> QED
  BY <1>3, <1>7, <1>8 DEF FeeInvariant

-----------------------------------------------------------------------------
(* The chain.                                                              *)

\* A transaction moves between its stages in flight, and stays ours.
LEMMA StageStep ==
    ASSUME FeeInvariant, NEW t \in Txs, NEW stage \in {"mempool", "mined", "dropped"},
           tx[t].at \in {"committed", "mempool", "mined"}, tx' = [tx EXCEPT ![t].at = stage],
           funds' \in [Notes -> {"absent", "immature", "ripe"}],
           UNCHANGED <<scanned, indexed, record, cli, lapses>>
    PROVE  FeeInvariant'
<1>0. Shape
  BY DEF FeeInvariant
<1>1. /\ tx'[t].at = stage /\ tx'[t].payer = tx[t].payer
      /\ \A u \in Txs \ {t} : tx'[u] = tx[u]
      /\ tx' \in [Txs -> [payer : {"nobody", "own", "faucet"}, note : Notes \cup {None},
                          at : Stages]]
  BY <1>0 DEF Shape, Stages
<1>2. Shape'
  BY <1>0, <1>1 DEF Shape
<1>3. Paid' \subseteq Paid
  BY <1>1 DEF Paid
<1>4. \A u \in Txs : u \in cli.tip /\ tx[u].at = "unborn" => tx'[u].at = "unborn"
  BY <1>1
<1> QED
  BY <1>2, <1>3, <1>4, OutsideStep

LEMMA ExpireStep == ASSUME FeeInvariant, NEW t \in Txs, Expire(t) PROVE FeeInvariant'
<1>0. Shape /\ UNCHANGED <<funds, record, cli, lapses>>
  BY DEF FeeInvariant, Expire
<1>1. tx' = [tx EXCEPT ![t] = Unborn] /\ indexed' = indexed \ {t} /\ scanned' = scanned \ {t}
  BY DEF Expire
<1>2. Unborn \in [payer : {"nobody", "own", "faucet"}, note : Notes \cup {None}, at : Stages]
      /\ Unborn.at = "unborn"
  BY DEF Unborn, Stages
<1>3. tx'[t] = Unborn /\ \A u \in Txs \ {t} : tx'[u] = tx[u]
  BY <1>0, <1>1 DEF Shape
<1>4. Shape'
  BY <1>0, <1>1, <1>2 DEF Shape
<1>5. Paid' \subseteq Paid
  BY <1>2, <1>3 DEF Paid
<1>6. \A u \in Txs : u \in cli.tip /\ tx[u].at = "unborn" => tx'[u].at = "unborn"
  BY <1>2, <1>3
<1>7. \A u \in indexed \ indexed' : tx'[u].at = "unborn"
  BY <1>1, <1>2, <1>3
<1> QED
  BY <1>0, <1>1, <1>4, <1>5, <1>6, <1>7, OutsideStep

\* Funds and the GUI's view say nothing of what is paid for.
LEMMA BystanderStep ==
    ASSUME FeeInvariant, UNCHANGED <<tx, scanned, indexed, record, cli, lapses>>,
           funds' \in [Notes -> {"absent", "immature", "ripe"}]
    PROVE  FeeInvariant'
<1>1. Shape'
  BY DEF FeeInvariant, Shape
<1>2. Paid' = Paid
  BY DEF Paid
<1> QED
  BY <1>1, <1>2, OutsideStep

-----------------------------------------------------------------------------

LEMMA FeeInit == Init => FeeInvariant
<1> SUFFICES ASSUME Init PROVE FeeInvariant
  OBVIOUS
<1>1. Shape
  BY FreshCli DEF Init, Shape, Unborn, Stages
<1>2. Paid = {}
  BY DEF Init, Paid, Unborn
<1>3. HiddenFromLoop = {} /\ HiddenFromGui = {} /\ lapses = 0 /\ cli = Off
  BY <1>2 DEF Init, HiddenFromLoop, HiddenFromGui
<1>4. cli.pc = "off"
  BY <1>3, FreshCli
<1>5. PaidOnce /\ LoopSees /\ GuiSees
  BY <1>2, <1>3, EmptyCount DEF PaidOnce, LoopSees, GuiSees
<1>6. AwaitedFirst /\ TipIsRead
  BY <1>4 DEF AwaitedFirst, TipIsRead
<1> QED
  BY <1>1, <1>5, <1>6 DEF FeeInvariant

LEMMA FeeNext == FeeInvariant /\ [Next]_vars => FeeInvariant'
<1> SUFFICES ASSUME FeeInvariant, [Next]_vars PROVE FeeInvariant'
  OBVIOUS
<1>0. Shape /\ funds \in [Notes -> {"absent", "immature", "ripe"}]
  BY DEF FeeInvariant, Shape
<1>1. CASE StartInit
  BY <1>1, StartStep
<1>2. CASE Poll
  BY <1>2, ResumeStep, PollSyncStep, PollInitStep, AwaitingStep, UnfundedStep, ShipStep DEF Poll
<1>3. CASE Exit
  BY <1>3, ExitStep
<1>4. CASE GuiSync
  BY <1>4, GuiSyncStep
<1>5. CASE GuiShow
  BY <1>0, <1>5, BystanderStep DEF GuiShow, wallet
<1>6. ASSUME NEW requireSync \in BOOLEAN, GuiInit(requireSync) PROVE FeeInvariant'
  BY <1>6, GuiInitStep
<1>7. CASE FaucetAsk
  BY <1>0, <1>7, BystanderStep DEF FaucetAsk, wallet
<1>8. CASE FaucetAnswer
  BY <1>8, FaucetStep
<1>9. ASSUME NEW n \in Notes, Receive(n) \/ Ripen(n) PROVE FeeInvariant'
  <2>1. funds' \in [Notes -> {"absent", "immature", "ripe"}]
    BY <1>0, <1>9 DEF Receive, Ripen
  <2>2. UNCHANGED <<tx, scanned, indexed, record, cli, lapses>>
    BY <1>9 DEF Receive, Ripen, wallet
  <2> QED
    BY <2>1, <2>2, BystanderStep
<1>10. ASSUME NEW t \in Txs, Broadcast(t) \/ Drop(t) PROVE FeeInvariant'
  BY <1>0, <1>10, StageStep DEF Broadcast, Drop, wallet
<1>11. ASSUME NEW t \in Txs, Mine(t) \/ Reorg(t) PROVE FeeInvariant'
  <2>1. funds' \in [Notes -> {"absent", "immature", "ripe"}]
    BY <1>0, <1>11 DEF Mine, Reorg
  <2> QED
    BY <1>11, <2>1, StageStep DEF Mine, Reorg, wallet
<1>12. ASSUME NEW t \in Txs, Expire(t) PROVE FeeInvariant'
  BY <1>12, ExpireStep
<1>13. ASSUME NEW t \in Txs, RecordGoesStale(t) PROVE FeeInvariant'
  BY <1>13, StaleStep
<1>14. CASE UNCHANGED vars
  BY <1>0, <1>14, BystanderStep DEF vars, wallet
<1> QED
  BY <1>1, <1>2, <1>3, <1>4, <1>5, <1>6, <1>7, <1>8, <1>9, <1>10, <1>11, <1>12, <1>13, <1>14
  DEF Next, Chain

\* Only a broadcast turns a free name into a committed transaction, and while zkv init
\* is at its look only the loop itself broadcasts.
LEMMA OnlyTheLoopShips ==
    ASSUME Shape, Next, CliShips PROVE PollShip
<1>0. PICK t \in Txs : tx[t].at = "unborn" /\ tx'[t].at = "committed"
  BY DEF CliShips
<1>1. cli.pc = "look"
  BY DEF CliShips
<1>2. ASSUME UNCHANGED tx PROVE FALSE
  BY <1>0, <1>2
<1>3. ~StartInit /\ ~Resume /\ ~PollSync /\ ~PollInitialized /\ ~PollInitializing
      /\ ~PollAwaiting /\ ~PollUnfunded /\ ~Exit
  BY <1>2 DEF StartInit, Resume, PollSync, PollInitialized, PollInitializing, PollAwaiting,
     PollUnfunded, Exit
<1>4. ~GuiSync /\ ~GuiShow /\ ~FaucetAsk /\ \A requireSync \in BOOLEAN : ~GuiInit(requireSync)
  BY <1>1, <1>2 DEF GuiSync, GuiShow, FaucetAsk, GuiInit
<1>5. ASSUME FaucetAnswer PROVE FALSE
  <2> DEFINE f == CHOOSE u \in Free : TRUE
  <2> DEFINE born == [payer |-> "faucet", note |-> None, at |-> "mempool"]
  <2>1. tx' = [tx EXCEPT ![f] = born]
    BY <1>2, <1>5 DEF FaucetAnswer
  <2>2. born.at = "mempool"
    OBVIOUS
  <2> HIDE DEF f, born
  <2>3. tx'[t] \in {tx[t], born}
    BY <2>1 DEF Shape
  <2> QED
    BY <1>0, <2>2, <2>3
<1>6. ASSUME NEW n \in Notes PROVE ~Receive(n) /\ ~Ripen(n)
  BY <1>2 DEF Receive, Ripen
<1>7. ASSUME NEW u \in Txs, NEW stage \in {"mempool", "mined", "dropped"},
             tx' = [tx EXCEPT ![u].at = stage]
      PROVE  FALSE
  <2>1. tx'[t].at \in {tx[t].at, stage}
    BY <1>7 DEF Shape
  <2> QED
    BY <1>0, <2>1
<1>8. ASSUME NEW u \in Txs, Expire(u) PROVE FALSE
  <2>1. tx' = [tx EXCEPT ![u] = Unborn]
    BY <1>8 DEF Expire
  <2>2. tx'[t] \in {tx[t], Unborn}
    BY <2>1 DEF Shape
  <2> QED
    BY <1>0, <2>2 DEF Unborn
<1>9. ASSUME NEW u \in Txs PROVE ~Chain(u) /\ ~Reorg(u) /\ ~RecordGoesStale(u)
  BY <1>2, <1>7, <1>8 DEF Chain, Broadcast, Mine, Drop, Reorg, RecordGoesStale
<1> QED
  BY <1>3, <1>4, <1>5, <1>6, <1>9 DEF Next, Poll

LEMMA NoFeeForInitialized ==
    FeeInvariant /\ [Next]_vars => [CliShips => cli.tip \cap Mined = {}]_vars
<1> SUFFICES ASSUME FeeInvariant, Next, CliShips PROVE cli.tip \cap Mined = {}
  OBVIOUS
<1>1. PollShip
  BY OnlyTheLoopShips DEF FeeInvariant
<1>2. cli.pc = "look" /\ indexed = {}
  BY <1>1 DEF PollShip, load_state
<1>3. \A t \in cli.tip : tx[t].at = "unborn"
  BY <1>2 DEF FeeInvariant, TipIsRead
<1> QED
  BY <1>3 DEF Mined

\* The fee of an INIT is paid once, and once more only for each time an INIT in flight
\* went out of its payer's sight; and zkv init pays for none that its last sync saw
\* mined.  For every number of notes and transactions and every order of timeouts,
\* kills, drops, expiries, reorganisations, stale records and lost answers.
THEOREM FeePaidOnce == Spec => PaysOnce
<1>1. FeeInvariant => TypeOK /\ PaidOnce
  BY ShapeGivesType DEF FeeInvariant
<1>2. Spec => []FeeInvariant
  BY FeeInit, FeeNext, PTL DEF Spec
<1>3. Spec => [][CliShips => cli.tip \cap Mined = {}]_vars
  BY <1>2, NoFeeForInitialized, PTL DEF Spec
<1>4. Spec => [](TypeOK /\ PaidOnce)
  BY <1>1, <1>2, PTL
<1> QED
  BY <1>3, <1>4 DEF PaysOnce, NeverPaysForInitialized

-----------------------------------------------------------------------------
(* Updates and their order.                                                *)

\* An update names an output of a transaction at a height.
UpdateShape(u) ==
    /\ u = <<u[1], u[2], u[3]>>
    /\ u[1] \in Nat \ {0} /\ u[2] \in Tx /\ u[3] \in DOMAIN MemosOf[u[2]]

LEMMA OutputsAreNumbers ==
    ASSUME NEW t \in Tx
    PROVE  t \in Nat \ {0} /\ DOMAIN MemosOf[t] \subseteq Nat /\ IsFiniteSet(DOMAIN MemosOf[t])
<1>1. MemosOf[t] \in Seq(Memo) /\ t \in Nat \ {0}
  BY TxAssumption
<1>2. DOMAIN MemosOf[t] = 1..Len(MemosOf[t]) /\ Len(MemosOf[t]) \in Nat
  BY <1>1
<1> QED BY <1>1, <1>2, FS_Interval

\* Before is a strict total order of updates.
LEMMA BeforeOrders ==
    ASSUME NEW u, NEW w, UpdateShape(u), UpdateShape(w)
    PROVE  /\ ~Before(u, u)
           /\ u # w => Before(u, w) \/ Before(w, u)
           /\ ~(Before(u, w) /\ Before(w, u))
<1>1. u[2] \in Nat /\ w[2] \in Nat /\ u[3] \in Nat /\ w[3] \in Nat /\ u[1] \in Nat /\ w[1] \in Nat
  BY OutputsAreNumbers DEF UpdateShape
<1>2. u = <<u[1], u[2], u[3]>> /\ w = <<w[1], w[2], w[3]>>
  BY DEF UpdateShape
<1>3. u[1] = w[1] /\ u[2] = w[2] /\ u[3] = w[3] => u = w
  BY <1>2
<1> QED BY <1>1, <1>3 DEF Before

LEMMA BeforeTransitive ==
    ASSUME NEW u, NEW w, NEW x, UpdateShape(u), UpdateShape(w), UpdateShape(x),
           Before(u, w), Before(w, x)
    PROVE  Before(u, x)
<1>1. \A y \in {u, w, x} : y[1] \in Nat /\ y[2] \in Nat /\ y[3] \in Nat
  BY OutputsAreNumbers DEF UpdateShape
<1> QED BY <1>1 DEF Before

\* The updates of a set that come before one of them, and how many they are.
Earlier(updates, u) == {w \in updates : Before(w, u)}
Rank(updates, u) == Cardinality(Earlier(updates, u))

LEMMA RanksDiffer ==
    ASSUME NEW S, IsFiniteSet(S), \A x \in S : UpdateShape(x), NEW u \in S, NEW w \in S, Before(u, w)
    PROVE  /\ Rank(S, u) \in Nat /\ Rank(S, w) \in Nat
           /\ Rank(S, u) < Rank(S, w) /\ Rank(S, w) < Cardinality(S)
<1>1. /\ IsFiniteSet(Earlier(S, u)) /\ IsFiniteSet(Earlier(S, w))
      /\ u \notin Earlier(S, u) /\ w \notin Earlier(S, w)
  BY FS_Subset, BeforeOrders DEF Earlier
<1>2. Earlier(S, u) \cup {u} \subseteq Earlier(S, w)
  BY BeforeTransitive DEF Earlier
<1>3. Earlier(S, w) \cup {w} \subseteq S
  BY DEF Earlier
<1>4. /\ IsFiniteSet(Earlier(S, u) \cup {u}) /\ IsFiniteSet(Earlier(S, w) \cup {w})
      /\ Cardinality(Earlier(S, u) \cup {u}) = Rank(S, u) + 1
      /\ Cardinality(Earlier(S, w) \cup {w}) = Rank(S, w) + 1
  BY <1>1, FS_AddElement DEF Rank
<1>5. Rank(S, u) + 1 <= Rank(S, w) /\ Rank(S, w) + 1 <= Cardinality(S)
  BY <1>1, <1>2, <1>3, <1>4, FS_Subset DEF Rank
<1>6. Rank(S, u) \in Nat /\ Rank(S, w) \in Nat /\ Cardinality(S) \in Nat
  BY <1>1, FS_CardinalityType DEF Rank
<1> QED BY <1>5, <1>6

\* Every number below the cardinality is the rank of one update.
LEMMA RanksCover ==
    ASSUME NEW S, IsFiniteSet(S), \A x \in S : UpdateShape(x)
    PROVE  /\ Cardinality(S) \in Nat
           /\ \A u \in S : Rank(S, u) \in 0..(Cardinality(S) - 1)
           /\ \A u, w \in S : Rank(S, u) = Rank(S, w) => u = w
           /\ \A n \in 0..(Cardinality(S) - 1) : \E u \in S : Rank(S, u) = n
<1> DEFINE n == Cardinality(S)
           T == 0..(n - 1)
           f == [u \in S |-> Rank(S, u)]
<1>1. n \in Nat
  BY FS_CardinalityType
<1>2. IsFiniteSet(T) /\ Cardinality(T) = n
  BY <1>1, FS_Interval
<1>3. ASSUME NEW u \in S PROVE Rank(S, u) \in T
  <2>1. IsFiniteSet(Earlier(S, u)) /\ u \notin Earlier(S, u) /\ Earlier(S, u) \cup {u} \subseteq S
    BY FS_Subset, BeforeOrders DEF Earlier
  <2>2. /\ IsFiniteSet(Earlier(S, u) \cup {u})
        /\ Cardinality(Earlier(S, u) \cup {u}) = Rank(S, u) + 1
    BY <2>1, FS_AddElement DEF Rank
  <2>3. Rank(S, u) + 1 <= n
    BY <2>1, <2>2, FS_Subset
  <2>4. Rank(S, u) \in Nat
    BY <2>1, FS_CardinalityType DEF Rank
  <2> QED BY <1>1, <2>3, <2>4
<1>4. ASSUME NEW u \in S, NEW w \in S, u # w PROVE Rank(S, u) # Rank(S, w)
  <2>1. Before(u, w) \/ Before(w, u)
    BY <1>4, BeforeOrders
  <2> QED BY <2>1, RanksDiffer
<1>5. f \in Injection(S, T)
  BY <1>3, <1>4 DEF Injection, IsInjective
<1>6. f \in Surjection(S, T)
  BY <1>2, <1>5, FS_Injection
<1>7. ASSUME NEW k \in T PROVE \E u \in S : Rank(S, u) = k
  BY <1>6 DEF Surjection
<1> QED BY <1>1, <1>3, <1>4, <1>7

LEMMA ListIsSeq ==
    ASSUME NEW R, NEW n \in Nat, NEW f \in [1..n -> R]
    PROVE  f \in Seq(R)
OBVIOUS

\* InOrder lists each update once and in order.
LEMMA InOrderFacts ==
    ASSUME NEW S, IsFiniteSet(S), \A x \in S : UpdateShape(x)
    PROVE  /\ InOrder(S) \in Seq(S)
           /\ \A u \in S : \E i \in DOMAIN InOrder(S) : InOrder(S)[i] = u
           /\ \A i, j \in DOMAIN InOrder(S) : i < j => Before(InOrder(S)[i], InOrder(S)[j])
<1> DEFINE n == Cardinality(S)
           s == InOrder(S)
<1>0. n \in Nat /\ s = [i \in 1..n |-> CHOOSE u \in S : Rank(S, u) = i - 1]
  BY RanksCover DEF InOrder, Rank, Earlier
<1>1. ASSUME NEW i \in 1..n PROVE s[i] \in S /\ Rank(S, s[i]) = i - 1
  <2>1. i - 1 \in 0..(n - 1)
    BY <1>0
  <2>2. \E u \in S : Rank(S, u) = i - 1
    BY <2>1, RanksCover
  <2>3. s[i] = CHOOSE u \in S : Rank(S, u) = i - 1
    BY <1>0
  <2> QED BY <2>2, <2>3
<1>2. s \in [1..n -> S] /\ DOMAIN s = 1..n
  BY <1>0, <1>1
<1> HIDE DEF s
<1>n. n \in Nat
  BY <1>0
<1>3. s \in Seq(S)
  <2> HIDE DEF n
  <2> QED BY <1>n, <1>2, ListIsSeq
<1>4. ASSUME NEW u \in S PROVE \E i \in 1..n : s[i] = u
  <2>1. Rank(S, u) \in 0..(n - 1)
    BY RanksCover
  <2>2. Rank(S, u) + 1 \in 1..n /\ Rank(S, u) \in Int
    BY <1>0, <2>1
  <2>3. s[Rank(S, u) + 1] \in S /\ Rank(S, s[Rank(S, u) + 1]) = Rank(S, u)
    BY <1>1, <2>2
  <2>4. s[Rank(S, u) + 1] = u
    BY <2>3, RanksCover
  <2> QED BY <2>2, <2>4
<1>5. ASSUME NEW i \in 1..n, NEW j \in 1..n, i < j PROVE Before(s[i], s[j])
  <2>1. s[i] \in S /\ s[j] \in S /\ Rank(S, s[i]) = i - 1 /\ Rank(S, s[j]) = j - 1
    BY <1>1
  <2>2. s[i] # s[j]
    BY <1>5, <2>1
  <2>3. CASE Before(s[j], s[i])
    <3>1. Rank(S, s[j]) < Rank(S, s[i])
      BY <2>1, <2>3, RanksDiffer
    <3> QED BY <1>5, <2>1, <3>1
  <2> QED BY <2>1, <2>2, <2>3, BeforeOrders
<1> QED BY <1>2, <1>3, <1>4, <1>5 DEF s

-----------------------------------------------------------------------------
(* The chain: what a reorganisation cannot reach, and what a candidate of   *)
(* a block range is worth by the time its transaction is fetched.           *)

\* A block too deep to be replaced by a time the tip was seen at `tip'.
Final(h, tip) == h \in 1..tip /\ h + ReorgDepth =< tip

\* A transaction is mined once.
ChainTyped ==
    /\ chain \in Seq(Tx \cup {0})
    /\ \A i, j \in DOMAIN chain : chain[i] = chain[j] => i = j \/ chain[i] = 0

\* A step leaves the chain's settled part alone.
ChainStands ==
    /\ ChainTyped /\ ChainTyped'
    /\ Len(chain') >= Len(chain)
    /\ \A h \in Nat : Final(h, Len(chain)) => chain'[h] = chain[h]

LEMMA ConcatFacts ==
    ASSUME NEW R, NEW a \in Seq(R), NEW b \in Seq(R)
    PROVE  /\ a \o b \in Seq(R) /\ Len(a \o b) = Len(a) + Len(b)
           /\ \A i \in 1..Len(a) : (a \o b)[i] = a[i]
           /\ \A i \in 1..Len(b) : (a \o b)[Len(a) + i] = b[i]
OBVIOUS

LEMMA PrefixFacts ==
    ASSUME NEW R, NEW s \in Seq(R), NEW n \in Nat, n <= Len(s)
    PROVE  /\ SubSeq(s, 1, n) \in Seq(R) /\ Len(SubSeq(s, 1, n)) = n
           /\ DOMAIN SubSeq(s, 1, n) = 1..n
           /\ \A i \in 1..n : SubSeq(s, 1, n)[i] = s[i]
OBVIOUS

LEMMA MineStands ==
    ASSUME ChainTyped, NEW t \in Tx \cup {0}, MineBlock(t)
    PROVE  ChainStands
<1> DEFINE n == Len(chain)
<1>1. chain' = Append(chain, t) /\ t \in (Tx \ OnChain) \cup {0}
  BY DEF MineBlock
<1>2. chain \in Seq(Tx \cup {0}) /\ n \in Nat /\ DOMAIN chain = 1..n
  BY DEF ChainTyped
<1>3. /\ chain' \in Seq(Tx \cup {0}) /\ Len(chain') = n + 1 /\ DOMAIN chain' = 1..(n + 1)
      /\ \A i \in 1..n : chain'[i] = chain[i]
      /\ chain'[n + 1] = t
  BY <1>1, <1>2
<1>4. \A i \in 1..n : chain[i] = t => t = 0
  BY <1>1, <1>2, TxAssumption DEF OnChain
<1>5. ASSUME NEW i \in DOMAIN chain', NEW j \in DOMAIN chain', chain'[i] = chain'[j]
      PROVE  i = j \/ chain'[i] = 0
  BY <1>2, <1>3, <1>4, <1>5 DEF ChainTyped
<1>6. ChainTyped'
  BY <1>3, <1>5 DEF ChainTyped
<1> QED BY <1>2, <1>3, <1>6 DEF ChainStands, Final

LEMMA ReorganiseStands ==
    ASSUME ChainTyped, NEW depth \in 1..ReorgDepth, Reorganise(depth)
    PROVE  ChainStands
<1> DEFINE n == Len(chain)
           k == n - depth
           kept == SubSeq(chain, 1, k)
           free == (Tx \ {kept[h] : h \in DOMAIN kept}) \cup {0}
<1>0. ReorgDepth \in Nat
  BY DepthAssumption
<1>1. chain \in Seq(Tx \cup {0}) /\ n \in Nat /\ DOMAIN chain = 1..n
  BY DEF ChainTyped
<1>2. depth \in Nat /\ depth <= n /\ depth <= ReorgDepth /\ k \in Nat /\ k <= n
  BY <1>0, <1>1 DEF Reorganise
<1>3. PICK branch \in [1..depth -> free] :
          /\ \A i, j \in 1..depth : branch[i] = branch[j] => i = j \/ branch[i] = 0
          /\ chain' = kept \o branch
  BY DEF Reorganise
<1>4. /\ kept \in Seq(Tx \cup {0}) /\ Len(kept) = k /\ DOMAIN kept = 1..k
      /\ \A i \in 1..k : kept[i] = chain[i]
  <2>1. chain \in Seq(Tx \cup {0}) /\ k \in Nat /\ k <= Len(chain)
    BY <1>1, <1>2
  <2> QED BY ONLY <2>1, PrefixFacts
<1> HIDE DEF kept
<1>5. branch \in Seq(Tx \cup {0}) /\ Len(branch) = depth /\ DOMAIN branch = 1..depth
  <2>1. branch \in [1..depth -> Tx \cup {0}]
    BY <1>3
  <2>2. branch \in Seq(Tx \cup {0})
    BY <1>2, <2>1, ListIsSeq
  <2> QED BY <1>2, <2>1, <2>2
<1>6. /\ chain' \in Seq(Tx \cup {0}) /\ Len(chain') = n
      /\ \A i \in 1..k : chain'[i] = kept[i]
      /\ \A i \in 1..depth : chain'[k + i] = branch[i]
  <2>1. /\ chain' \in Seq(Tx \cup {0}) /\ Len(chain') = k + depth
        /\ \A i \in 1..k : chain'[i] = kept[i]
        /\ \A i \in 1..depth : chain'[k + i] = branch[i]
    <3>1. /\ kept \o branch \in Seq(Tx \cup {0}) /\ Len(kept \o branch) = Len(kept) + Len(branch)
          /\ \A i \in 1..Len(kept) : (kept \o branch)[i] = kept[i]
          /\ \A i \in 1..Len(branch) : (kept \o branch)[Len(kept) + i] = branch[i]
      <4>1. kept \in Seq(Tx \cup {0}) /\ branch \in Seq(Tx \cup {0})
        BY <1>4, <1>5
      <4> QED BY ONLY <4>1, ConcatFacts
    <3> QED BY <1>3, <1>4, <1>5, <3>1
  <2> QED BY <1>1, <1>2, <2>1
<1>7. DOMAIN chain' = 1..n
  BY <1>6
<1>8. \A i \in 1..depth, j \in 1..k : branch[i] = kept[j] => branch[i] = 0
  BY <1>3, <1>4
<1>9. ASSUME NEW i \in 1..n, NEW j \in 1..n, chain'[i] = chain'[j], i # j
      PROVE  chain'[i] = 0
  <2>1. \A x \in 1..n : x \in 1..k \/ (x - k \in 1..depth /\ k + (x - k) = x)
    BY <1>1, <1>2
  <2>2. CASE i \in 1..k /\ j \in 1..k
    BY <1>1, <1>2, <1>4, <1>6, <1>9, <2>2 DEF ChainTyped
  <2>3. CASE i \in 1..k /\ j - k \in 1..depth /\ k + (j - k) = j
    BY <1>6, <1>8, <1>9, <2>3
  <2>4. CASE j \in 1..k /\ i - k \in 1..depth /\ k + (i - k) = i
    BY <1>6, <1>8, <1>9, <2>4
  <2>5. CASE /\ i - k \in 1..depth /\ k + (i - k) = i
             /\ j - k \in 1..depth /\ k + (j - k) = j
    <3>1. chain'[i] = branch[i - k] /\ chain'[j] = branch[j - k]
      BY <1>6, <2>5
    <3>2. i - k # j - k
      BY <1>2, <1>9
    <3> QED BY <1>3, <1>9, <2>5, <3>1, <3>2
  <2> QED BY <2>1, <2>2, <2>3, <2>4, <2>5
<1>10. ChainTyped'
  BY <1>6, <1>7, <1>9 DEF ChainTyped
<1>11. ASSUME NEW h \in Nat, Final(h, n) PROVE chain'[h] = chain[h]
  <2>1. h \in 1..k
    BY <1>0, <1>1, <1>2, <1>11 DEF Final
  <2> QED BY <1>4, <1>6, <2>1
<1> QED BY <1>1, <1>6, <1>10, <1>11 DEF ChainStands

LEMMA SameChainStands ==
    ASSUME ChainTyped, UNCHANGED chain
    PROVE  ChainStands
<1>1. ChainTyped' /\ Len(chain') \in Nat /\ Len(chain') = Len(chain)
  BY DEF ChainTyped
<1> QED BY <1>1 DEF ChainStands

\* A block that is final stays final and keeps its transaction.
LEMMA FinalStands ==
    ASSUME ChainStands, NEW tip \in Nat, tip <= Len(chain), NEW h, Final(h, tip)
    PROVE  chain'[h] = chain[h] /\ h \in DOMAIN chain /\ h \in DOMAIN chain' /\ h \in Nat
<1>1. /\ Len(chain) \in Nat /\ DOMAIN chain = 1..Len(chain)
      /\ Len(chain') \in Nat /\ DOMAIN chain' = 1..Len(chain')
  BY DEF ChainStands, ChainTyped
<1>2. h \in Nat /\ Final(h, Len(chain))
  BY <1>1, DepthAssumption DEF Final
<1> QED BY <1>1, <1>2 DEF ChainStands, Final

\* A candidate seen after the tip: if its block was final it is right, and if its
\* transaction is in a final block, it is that one.
HitHolds(c, tip) ==
    /\ c = <<c[1], c[2]>> /\ c[1] \in 1..tip /\ c[2] \in Tx
    /\ Final(c[1], tip) => chain[c[1]] = c[2]
    /\ \A h \in 1..tip : Final(h, tip) /\ chain[h] = c[2] => h = c[1]

LEMMA HitStands ==
    ASSUME ChainStands, NEW tip \in Nat, tip <= Len(chain), NEW c, HitHolds(c, tip)
    PROVE  HitHolds(c, tip)'
BY FinalStands DEF HitHolds, Final

LEMMA CandidatesHold ==
    ASSUME ChainTyped, NEW tip \in Nat, tip <= Len(chain),
           NEW lo \in Nat \ {0}, NEW hi \in Int, hi <= tip
    PROVE  /\ \A c \in Candidates(lo, hi) : HitHolds(c, tip) /\ lo <= c[1] /\ c[1] <= hi
           /\ \A h \in lo..hi : chain[h] # 0 => <<h, chain[h]>> \in Candidates(lo, hi)
<1>1. Len(chain) \in Nat /\ DOMAIN chain = 1..Len(chain) /\ chain \in Seq(Tx \cup {0})
  BY DEF ChainTyped
<1>2. ASSUME NEW h \in lo..hi, chain[h] # 0
      PROVE  <<h, chain[h]>> \in Candidates(lo, hi)
  BY <1>1, <1>2 DEF Candidates, PaysUs
<1>3. ASSUME NEW c \in Candidates(lo, hi)
      PROVE  HitHolds(c, tip) /\ lo <= c[1] /\ c[1] <= hi
  <2>1. PICK h \in lo..hi : h \in DOMAIN chain /\ chain[h] # 0 /\ c = <<h, chain[h]>>
    BY DEF Candidates, PaysUs
  <2>2. h \in 1..tip /\ chain[h] \in Tx
    BY <1>1, <2>1
  <2>3. \A j \in 1..tip : chain[j] = chain[h] => j = h
    BY <1>1, <2>1, <2>2 DEF ChainTyped
  <2> QED BY <2>1, <2>2, <2>3 DEF HitHolds
<1> QED BY <1>2, <1>3

\* Where the transaction of a candidate is fetched from, if that is worth counting.
LEMMA FetchFacts ==
    ASSUME ChainTyped, NEW tip \in Nat, tip <= Len(chain), NEW c, HitHolds(c, tip),
           NEW height \in FetchedAt(c[2], c[1])
    PROVE  /\ height \in Nat
           /\ Final(c[1], tip) => height = c[1]
           /\ \A confs \in Nat :
                  height # 0 /\ ReorgDepth < confs /\ Minus(tip, height) + 1 >= confs
                      => height = c[1] /\ Final(c[1], tip)
<1>1. /\ Len(chain) \in Nat /\ DOMAIN chain = 1..Len(chain)
      /\ c[1] \in 1..tip /\ c[2] \in Tx /\ ReorgDepth \in Nat /\ c[2] # 0
  BY DepthAssumption, TxAssumption DEF ChainTyped, HitHolds
<1>2. CASE c[2] \in OnChain
  <2>1. PICK h \in DOMAIN chain : chain[h] = c[2]
    BY <1>2 DEF OnChain
  <2>2. MinedAt(c[2]) = {h}
    BY <1>1, <1>2, <2>1 DEF MinedAt, ChainTyped
  <2>3. height = h
    BY <1>1, <2>2 DEF FetchedAt
  <2>4. Final(c[1], tip) => h = c[1]
    BY <1>1, <2>1 DEF HitHolds, ChainTyped
  <2>5. ASSUME NEW confs \in Nat, height # 0, ReorgDepth < confs, Minus(tip, height) + 1 >= confs
        PROVE  height = c[1] /\ Final(c[1], tip)
    <3>1. CASE Final(h, tip)
      BY <1>1, <2>1, <2>3, <3>1 DEF HitHolds, Final
    <3>2. CASE ~Final(h, tip)
      <4>1. h > tip /\ ReorgDepth = 0
        BY <1>1, <2>3, <2>5, <3>2 DEF Final, Minus
      <4>2. Final(c[1], tip)
        BY <1>1, <4>1 DEF Final
      <4> QED BY <1>1, <2>4, <4>1, <4>2
    <3> QED BY <3>1, <3>2
  <2> QED BY <1>1, <2>3, <2>4, <2>5
<1>3. CASE c[2] \notin OnChain
  <2>1. height \in {c[1], 0}
    BY <1>3 DEF FetchedAt, MinedAt
  <2>2. ~Final(c[1], tip)
    BY <1>1, <1>3 DEF HitHolds, OnChain
  <2>3. ASSUME NEW confs \in Nat, height # 0, ReorgDepth < confs, Minus(tip, height) + 1 >= confs
        PROVE  FALSE
    BY <1>1, <2>1, <2>2, <2>3 DEF Final, Minus
  <2> QED BY <1>1, <2>1, <2>2, <2>3
<1> QED BY <1>2, <1>3

-----------------------------------------------------------------------------
(* A call: what it has gathered, and what that is still worth.              *)

\* h is as deep as asked for, seen from the tip.
DeepEnough(h, tip, confs) == Minus(tip, h) + 1 >= confs

CallRecord(c) ==
    c = [pc |-> c.pc, op |-> c.op, want |-> c.want, pattern |-> c.pattern, tip |-> c.tip,
         from |-> c.from, at |-> c.at, size |-> c.size, hits |-> c.hits, raw |-> c.raw,
         stop |-> c.stop]

CallShape ==
    /\ CallRecord(call)
    /\ call.pc \in {"idle", "init", "walk", "window", "enhance", "find", "done"}
    /\ call.tip \in Nat /\ call.from \in Nat /\ call.at \in Nat
    /\ call.size \in Nat /\ call.stop \in Nat
    /\ call.tip =< Len(chain)
    /\ call.pc # "idle" => call.from >= Birthday /\ call.op \in {"scan", "find", "poll"}
    /\ \A c \in call.hits : HitHolds(c, call.tip)
    /\ \A u \in call.raw : UpdateShape(u)
    /\ IsFiniteSet(call.raw)

ClientShape ==
    /\ client = [open |-> client.open, confs |-> client.confs, verify |-> client.verify,
                 anchor |-> client.anchor, cursor |-> client.cursor, since |-> client.since,
                 first |-> client.first]
    /\ client.confs \in Nat /\ client.cursor.height \in Nat
    /\ ~client.open => client.cursor = NoCursor /\ call.pc = "idle"

\* Where the candidates of a call lie.
Placed ==
    /\ call.pc \in {"init", "done"} => call.hits = {}
    /\ call.pc \in {"idle", "init", "walk", "window"} => call.raw = {} /\ call.stop = 0
    /\ call.pc = "walk" => /\ call.at >= Birthday
                           /\ \A c \in call.hits : Birthday =< c[1] /\ c[1] < call.at
    /\ call.pc = "window" => call.at >= call.from
    /\ call.pc \in {"window", "enhance", "find"} => \A c \in call.hits : call.from =< c[1]
    /\ call.pc = "find" => /\ call.op = "find" /\ call.at =< call.tip
                           /\ \A c \in call.hits : call.at < c[1]

\* A height of the range a read claims whose block it has looked at.
Listed(h) ==
    /\ h \in call.from..call.tip
    /\ call.pc = "window" => h < call.at
    /\ call.pc = "find" => call.at < h

\* What settled block a read has looked at it holds, or still has to fetch.
NothingLeftOut ==
    call.pc \in {"window", "enhance", "find", "done"} =>
        \A h \in Nat : Listed(h) /\ Final(h, call.tip) /\ chain[h] # 0 =>
            <<h, chain[h]>> \in call.hits \/ Hits(chain[h], h) \subseteq call.raw

\* What a read holds that is deep enough is on the chain, where it says.
Standing(u) ==
    Settled(client.confs) /\ DeepEnough(u[1], call.tip, client.confs) =>
        Final(u[1], call.tip) /\ chain[u[1]] = u[2] /\ call.from =< u[1]
RawStands == \A u \in call.raw : Standing(u)

\* A search goes down and keeps above its floor.
Downward ==
    call.pc = "find" /\ Settled(client.confs) =>
        \A u \in call.raw : DeepEnough(u[1], call.tip, client.confs) =>
            /\ call.at < u[1] /\ call.stop =< u[1]
            /\ \A c \in call.hits : c[1] =< u[1]

\* The walk for the INIT has met none that counts.
NoInitAt(h) == RootInits(Hits(chain[h], h)) = {}
Walked ==
    call.pc = "walk" /\ Settled(InitConfs) =>
        \A h \in Nat :
            Birthday =< h /\ h < call.at /\ chain[h] # 0
                /\ Final(h, call.tip) /\ DeepEnough(h, call.tip, InitConfs) =>
            <<h, chain[h]>> \in call.hits \/ NoInitAt(h)

\* An anchor is in a block that stays, and the first.
AnchorHolds(a) ==
    a # NoAnchor /\ Settled(a.confs) =>
        /\ Final(a.at[1], Len(chain)) /\ chain[a.at[1]] = a.at[2]
        /\ RootInits({a.at}) # {}
        /\ \A h \in Nat : Birthday =< h /\ h < a.at[1] /\ chain[h] # 0 => NoInitAt(h)
AnchorsHold == AnchorHolds(client.anchor) /\ (cache.receiver = "own" => AnchorHolds(cache.anchor))

Gathered == Placed /\ NothingLeftOut /\ RawStands /\ Downward /\ Walked

ReadInvariant == ChainTyped /\ CallShape /\ ClientShape /\ Gathered /\ AnchorsHold

LEMMA ChainNumbers ==
    ASSUME ChainTyped
    PROVE  Len(chain) \in Nat /\ DOMAIN chain = 1..Len(chain) /\ \A h \in DOMAIN chain : chain[h] \in Tx \cup {0}
BY DEF ChainTyped

LEMMA Bounds ==
    /\ Depth \in Nat \ {0} /\ FirstChunk \in Nat \ {0} /\ Chunk \in Nat \ {0} /\ Birthday \in Nat \ {0}
    /\ Grace \in Nat /\ ReorgMargin \in Nat /\ InitScanLimit \in Nat /\ ReorgDepth \in Nat
    /\ Confs \subseteq Nat
BY DepthAssumption

LEMMA NothingIsFinite == IsFiniteSet({})
BY FS_EmptySet

\* Blocks that come, and blocks that go, leave what a call relies on alone.
LEMMA ChainKeepsReads ==
    ASSUME ReadInvariant, ChainStands, UNCHANGED <<cache, client, call>>
    PROVE  ReadInvariant'
<1>1. CallShape /\ ClientShape /\ Placed /\ NothingLeftOut /\ RawStands /\ Downward /\ Walked /\ AnchorsHold
  BY DEF ReadInvariant, Gathered
<1>2. call.tip \in Nat /\ call.tip <= Len(chain) /\ Len(chain) \in Nat /\ Len(chain') \in Nat /\ Len(chain) <= Len(chain')
  BY <1>1 DEF CallShape, ChainStands, ChainTyped
<1>3. \A h : Final(h, call.tip) => chain'[h] = chain[h]
  BY <1>2, FinalStands
<1>4. \A h : Final(h, Len(chain)) => chain'[h] = chain[h]
  BY <1>2, FinalStands
<1>5. CallShape'
  <2>1. \A c \in call.hits : HitHolds(c, call.tip)'
    BY <1>1, <1>2, <1>3 DEF CallShape, HitHolds, Final
  <2> QED BY <1>1, <1>2, <2>1 DEF CallShape
<1>6. ClientShape' /\ Placed' /\ Downward'
  BY <1>1 DEF ClientShape, Placed, Downward
<1>7. NothingLeftOut' /\ RawStands'
  BY <1>1, <1>3 DEF NothingLeftOut, Listed, RawStands, Standing
<1>8. Walked'
  BY <1>1, <1>3 DEF Walked, NoInitAt, InitConfs
<1>9. ASSUME NEW a, AnchorHolds(a) PROVE AnchorHolds(a)'
  <2> SUFFICES ASSUME a # NoAnchor, Settled(a.confs) PROVE AnchorHolds(a)'
    BY DEF AnchorHolds
  <2>1. /\ Final(a.at[1], Len(chain)) /\ chain[a.at[1]] = a.at[2]
        /\ RootInits({a.at}) # {}
        /\ \A h \in Nat : Birthday =< h /\ h < a.at[1] /\ chain[h] # 0 => NoInitAt(h)
    BY <1>9 DEF AnchorHolds
  <2>2. a.at[1] \in Nat /\ Final(a.at[1], Len(chain')) /\ chain'[a.at[1]] = chain[a.at[1]]
    BY <1>2, <1>4, <2>1, Bounds DEF Final
  <2>3. ASSUME NEW h \in Nat, Birthday =< h, h < a.at[1], chain'[h] # 0
        PROVE  NoInitAt(h)'
    <3>1. Final(h, Len(chain))
      BY <1>2, <2>1, <2>2, <2>3, Bounds DEF Final
    <3>2. chain'[h] = chain[h]
      BY <1>4, <3>1
    <3> QED BY <2>1, <2>3, <3>2 DEF NoInitAt
  <2> QED BY <2>1, <2>2, <2>3 DEF AnchorHolds
<1>10. AnchorsHold'
  BY <1>1, <1>9 DEF AnchorsHold
<1> QED BY <1>5, <1>6, <1>7, <1>8, <1>10 DEF ReadInvariant, Gathered, ChainStands

\* A fetch begins with nothing gathered.
LEMMA FetchStarts ==
    ASSUME ChainTyped, UNCHANGED chain,
           NEW c, CallRecord(c), c.hits = {}, c.raw = {}, c.stop = 0,
           c.tip \in Nat, c.tip <= Len(chain), c.from \in Nat, c.from >= Birthday,
           c.op \in {"scan", "find", "poll"},
           call' = Fetch(c)
    PROVE  CallShape' /\ Gathered' /\ call'.pc # "idle"
           /\ call'.op = c.op /\ call'.from = c.from /\ call'.tip = c.tip
<1>1. \/ /\ c.op = "find"
         /\ call' = [c EXCEPT !.pc = "find", !.at = c.tip, !.size = FirstChunk]
      \/ /\ c.op # "find"
         /\ call' = [c EXCEPT !.pc = "window", !.at = c.from, !.size = Chunk]
  BY DEF Fetch
<1>2. /\ CallRecord(call') /\ call'.hits = {} /\ call'.raw = {} /\ call'.stop = 0
      /\ call'.tip = c.tip /\ call'.from = c.from /\ call'.op = c.op
      /\ \/ call'.pc = "find" /\ call'.op = "find" /\ call'.at = c.tip /\ call'.size = FirstChunk
         \/ call'.pc = "window" /\ call'.at = c.from /\ call'.size = Chunk
  BY <1>1 DEF CallRecord
<1>3. CallShape'
  BY <1>2, Bounds, NothingIsFinite DEF CallShape
<1>4. Placed'
  BY <1>2 DEF Placed
<1>5. NothingLeftOut' /\ RawStands' /\ Downward' /\ Walked'
  BY <1>2 DEF NothingLeftOut, Listed, RawStands, Downward, Walked
<1> QED BY <1>2, <1>3, <1>4, <1>5 DEF Gathered

\* Without a call nothing is gathered.
LEMMA IdleHolds ==
    ASSUME ChainTyped, UNCHANGED chain, call' = IdleCall
    PROVE  CallShape' /\ Gathered'
<1>1. /\ CallRecord(call') /\ call'.hits = {} /\ call'.raw = {} /\ call'.pc = "idle"
      /\ call'.tip = 0 /\ call'.from = 0 /\ call'.at = 0 /\ call'.size = 0 /\ call'.stop = 0
  BY DEF CallRecord, IdleCall
<1>2. CallShape'
  BY <1>1, ChainNumbers, NothingIsFinite DEF CallShape
<1>3. Placed' /\ NothingLeftOut' /\ RawStands' /\ Downward' /\ Walked'
  BY <1>1 DEF Placed, NothingLeftOut, RawStands, Downward, Walked
<1> QED BY <1>2, <1>3 DEF Gathered

-----------------------------------------------------------------------------
(* Each step of a call keeps ReadInvariant.                                 *)

LEMMA AnchorsStay ==
    ASSUME UNCHANGED chain, AnchorsHold, UNCHANGED cache,
           client'.anchor \in {client.anchor, NoAnchor}
    PROVE  AnchorsHold'
BY DEF AnchorsHold, AnchorHolds, NoInitAt, Final

LEMMA ClientOpens ==
    ASSUME ReadInvariant, NEW confs \in Confs, NEW verify, Open(confs, verify)
    PROVE  ReadInvariant'
<1>1. /\ UNCHANGED <<chain, cache, call>>
      /\ client' = [Closed EXCEPT !.open = TRUE, !.confs = confs, !.verify = verify]
      /\ ~client.open
  BY DEF Open
<1>2. client'.confs = confs /\ client'.anchor = NoAnchor /\ client'.open /\ ClientShape'
  BY <1>1, Bounds DEF Closed, NoCursor, ClientShape
<1>3. call.pc = "idle"
  BY <1>1 DEF ReadInvariant, ClientShape
<1>4. CallShape'
  BY <1>1 DEF ReadInvariant, CallShape, HitHolds, Final
<1>5. Gathered'
  BY <1>1, <1>3
  DEF ReadInvariant, Gathered, Placed, NothingLeftOut, RawStands, Downward, Walked
<1>6. AnchorsHold'
  BY <1>1, <1>2, AnchorsStay DEF ReadInvariant
<1> QED BY <1>1, <1>2, <1>4, <1>5, <1>6 DEF ReadInvariant, ChainTyped

LEMMA ClientCloses ==
    ASSUME ReadInvariant, Close
    PROVE  ReadInvariant'
<1>1. UNCHANGED <<chain, cache>> /\ client' = Closed /\ call' = IdleCall
  BY DEF Close
<1>2. CallShape' /\ Gathered'
  BY <1>1, IdleHolds DEF ReadInvariant
<1>3. ClientShape' /\ client'.anchor = NoAnchor
  BY <1>1 DEF ClientShape, Closed, NoCursor, IdleCall
<1>4. AnchorsHold'
  BY <1>1, <1>3, AnchorsStay DEF ReadInvariant
<1> QED BY <1>1, <1>2, <1>3, <1>4 DEF ReadInvariant, ChainTyped

LEMMA CallFails ==
    ASSUME ReadInvariant, Fail
    PROVE  ReadInvariant'
<1>1. UNCHANGED <<chain, cache, client>> /\ call' = IdleCall
  BY DEF Fail
<1>2. CallShape' /\ Gathered'
  BY <1>1, IdleHolds DEF ReadInvariant
<1>3. ClientShape'
  BY <1>1 DEF ReadInvariant, ClientShape, IdleCall
<1>4. AnchorsHold'
  BY <1>1, AnchorsStay DEF ReadInvariant
<1> QED BY <1>1, <1>2, <1>3, <1>4 DEF ReadInvariant, ChainTyped

\* A call returns: what it changes of the client are the cursor and where it began.
LEMMA ClientAfterReturn ==
    ASSUME ReadInvariant, Return
    PROVE  /\ UNCHANGED <<chain, cache>> /\ call' = IdleCall
           /\ client'.open = client.open /\ client'.confs = client.confs
           /\ client'.anchor = client.anchor
           /\ call.op = "scan" =>
                  /\ emitted' = InOrder(Matching(Latest(ValidUpdates(call.raw))))
                  /\ client' = [client EXCEPT !.cursor = NewCursor, !.since = call.from,
                                              !.first = Verified(ValidUpdates(call.raw))]
           /\ call.op = "poll" =>
                  /\ emitted' = emitted \o
                         InOrder(Matching(Verified(Fresh(ValidUpdates(call.raw)))))
                  /\ client' = [client EXCEPT !.cursor = NewCursor]
           /\ call.op = "find" => UNCHANGED <<emitted, client>>
           /\ ClientShape'
           /\ call.pc = "done" /\ call.op \in {"scan", "poll", "find"}
<1>0. /\ ClientShape /\ call.pc = "done" /\ call.tip \in Nat
      /\ call.op \in {"scan", "poll", "find"}
  BY DEF ReadInvariant, CallShape, Return
<1>1. UNCHANGED <<chain, cache>> /\ call' = IdleCall
  BY DEF Return
<1>2. CASE call.op = "scan"
  <2>1. /\ emitted' = InOrder(Matching(Latest(ValidUpdates(call.raw))))
        /\ client' = [client EXCEPT !.cursor = NewCursor, !.since = call.from,
                                    !.first = Verified(ValidUpdates(call.raw))]
    BY <1>2 DEF Return
  <2> QED BY <1>0, <1>1, <1>2, <2>1 DEF ClientShape, NewCursor, IdleCall
<1>3. CASE call.op = "poll"
  <2>1. /\ emitted' = emitted \o InOrder(Matching(Verified(Fresh(ValidUpdates(call.raw)))))
        /\ client' = [client EXCEPT !.cursor = NewCursor]
    BY <1>3 DEF Return
  <2> QED BY <1>0, <1>1, <1>3, <2>1 DEF ClientShape, NewCursor, IdleCall
<1>4. CASE call.op = "find"
  <2>1. UNCHANGED <<emitted, client>>
    BY <1>4 DEF Return
  <2> QED BY <1>0, <1>1, <1>4, <2>1 DEF ClientShape, IdleCall
<1> QED BY <1>0, <1>2, <1>3, <1>4

LEMMA CallReturns ==
    ASSUME ReadInvariant, Return
    PROVE  ReadInvariant'
<1>1. CallShape' /\ Gathered'
  BY ClientAfterReturn, IdleHolds DEF ReadInvariant
<1>2. AnchorsHold'
  BY ClientAfterReturn, AnchorsStay DEF ReadInvariant
<1> QED BY <1>1, <1>2, ClientAfterReturn DEF ReadInvariant, ChainTyped

LEMMA WindowIsRange ==
    ASSUME NEW tip \in Nat
    PROVE  WindowFloor(tip) \in Nat /\ WindowFloor(tip) >= Birthday
BY Bounds DEF WindowFloor, AtLeast, Minus

LEMMA CallStarts ==
    ASSUME ReadInvariant, NEW op \in {"scan", "find"}, NEW want, NEW pattern,
           Start(op, want, pattern)
    PROVE  /\ ReadInvariant' /\ UNCHANGED <<client, emitted>>
           /\ client.cursor = NoCursor /\ client.open
           /\ call'.pc = "init" /\ call'.op = op
           /\ call'.tip >= Birthday /\ call'.from = WindowFloor(call'.tip)
<1>1. /\ UNCHANGED <<chain, cache, client, emitted>> /\ client.open /\ client.cursor = NoCursor
      /\ call' = [IdleCall EXCEPT !.pc = "init", !.op = op, !.want = want, !.pattern = pattern,
                                  !.tip = Len(chain), !.from = WindowFloor(Len(chain))]
      /\ Len(chain) >= Birthday
  BY DEF Start
<1>2. /\ CallRecord(call') /\ call'.pc = "init" /\ call'.hits = {} /\ call'.raw = {}
      /\ call'.stop = 0 /\ call'.at = 0 /\ call'.size = 0 /\ call'.op = op
      /\ call'.tip = Len(chain) /\ call'.from = WindowFloor(Len(chain))
  BY <1>1 DEF CallRecord, IdleCall
<1>3. Len(chain) \in Nat /\ WindowFloor(Len(chain)) \in Nat /\ WindowFloor(Len(chain)) >= Birthday
  BY WindowIsRange, ChainNumbers DEF ReadInvariant
<1>4. CallShape'
  <2>1. IsFiniteSet({}) /\ call'.op \in {"scan", "find", "poll"} /\ Len(chain') = Len(chain)
    BY <1>1, <1>2, NothingIsFinite
  <2> QED BY <1>2, <1>3, <2>1 DEF CallShape
<1>5. Gathered'
  BY <1>2 DEF Gathered, Placed, NothingLeftOut, RawStands, Downward, Walked
<1>6. ClientShape' /\ AnchorsHold'
  BY <1>1, AnchorsStay DEF ReadInvariant, ClientShape
<1> QED BY <1>1, <1>2, <1>4, <1>5, <1>6 DEF ReadInvariant, ChainTyped

LEMMA PollStarts ==
    ASSUME ReadInvariant, StartPoll
    PROVE  /\ ReadInvariant' /\ UNCHANGED <<client, emitted>>
           /\ call'.pc # "idle" /\ call'.op = "poll" /\ client.cursor # NoCursor
           /\ client.cursor.height < call'.tip
           /\ call'.from = PollFrom(client.cursor.height, client.confs)
<1>1. /\ UNCHANGED <<chain, cache, client, emitted>> /\ client.cursor # NoCursor
      /\ Len(chain) > client.cursor.height
  BY DEF StartPoll
<1>2. PICK c : c = [IdleCall EXCEPT !.op = "poll", !.tip = Len(chain),
                        !.from = PollFrom(client.cursor.height, client.confs)]
  OBVIOUS
<1>3. call' = Fetch(c)
  BY <1>2 DEF StartPoll
<1>4. /\ CallRecord(c) /\ c.hits = {} /\ c.raw = {} /\ c.stop = 0 /\ c.op = "poll"
      /\ c.tip = Len(chain) /\ c.from = PollFrom(client.cursor.height, client.confs)
  BY <1>2 DEF CallRecord, IdleCall
<1>5. c.tip \in Nat /\ c.tip <= Len(chain) /\ c.from \in Nat /\ c.from >= Birthday
  <2>1. client.cursor.height \in Nat /\ client.confs \in Nat /\ Len(chain) \in Nat
    BY ChainNumbers DEF ReadInvariant, ClientShape
  <2> QED BY <1>4, <2>1, Bounds DEF PollFrom, Margin, AtLeast, Minus
<1>6. /\ CallShape' /\ Gathered' /\ call'.pc # "idle"
      /\ call'.op = "poll" /\ call'.from = c.from /\ call'.tip = c.tip
  BY <1>1, <1>3, <1>4, <1>5, FetchStarts DEF ReadInvariant
<1>7. ClientShape' /\ AnchorsHold'
  BY <1>1, AnchorsStay DEF ReadInvariant, ClientShape
<1> QED BY <1>1, <1>4, <1>6, <1>7 DEF ReadInvariant, ChainTyped

\* A step of a call that leaves the client alone.
LEMMA ClientStays ==
    ASSUME ReadInvariant, UNCHANGED <<chain, cache, client>>, call'.pc # "idle", call.pc # "idle"
    PROVE  ClientShape' /\ AnchorsHold' /\ ChainTyped'
<1>1. AnchorsHold'
  BY AnchorsStay DEF ReadInvariant
<1> QED BY <1>1 DEF ReadInvariant, ClientShape, ChainTyped

LEMMA InitEnsured ==
    ASSUME ReadInvariant, EnsureInit
    PROVE  /\ ReadInvariant' /\ UNCHANGED emitted /\ call'.pc # "idle"
           /\ \E anchor : client' = [client EXCEPT !.anchor = anchor]
           /\ call'.op = call.op /\ call'.from = call.from /\ call'.tip = call.tip
<1> DEFINE known  == ~client.verify \/ client.anchor # NoAnchor
           cached == ~known /\ cache.receiver = "own"
<1>1. /\ call.pc = "init" /\ UNCHANGED <<chain, cache, emitted>>
      /\ client' = [client EXCEPT !.anchor = IF cached THEN cache.anchor ELSE @]
      /\ call' = IF known \/ cached THEN Fetch(call)
                 ELSE [call EXCEPT !.pc = "walk", !.at = Birthday, !.size = FirstChunk]
  BY DEF EnsureInit
<1> HIDE DEF known
<1>2. CallShape /\ ClientShape /\ Placed /\ AnchorsHold /\ ChainTyped
  BY DEF ReadInvariant, Gathered
<1>3. client'.anchor = client.anchor \/ (client'.anchor = cache.anchor /\ cache.receiver = "own")
  BY <1>1, <1>2 DEF ClientShape
<1>4. AnchorsHold'
  BY <1>1, <1>2, <1>3 DEF AnchorsHold, AnchorHolds, NoInitAt, Final
<1>5. ASSUME call'.pc # "idle" PROVE ClientShape'
  BY <1>1, <1>2 DEF ClientShape
<1>6. CASE known \/ cached
  <2>1. PICK c : c = call
    OBVIOUS
  <2>2. call' = Fetch(c)
    BY <1>1, <1>6, <2>1
  <2>3. /\ CallRecord(c) /\ c.hits = {} /\ c.raw = {} /\ c.stop = 0
        /\ c.tip \in Nat /\ c.tip <= Len(chain) /\ c.from \in Nat /\ c.from >= Birthday
        /\ c.op \in {"scan", "find", "poll"}
    BY <1>1, <1>2, <2>1 DEF CallShape, Placed
  <2>4. /\ CallShape' /\ Gathered' /\ call'.pc # "idle"
        /\ call'.op = c.op /\ call'.from = c.from /\ call'.tip = c.tip
    BY <1>1, <1>2, <2>2, <2>3, FetchStarts
  <2> QED BY <1>1, <1>2, <1>4, <1>5, <2>1, <2>4 DEF ReadInvariant, ChainTyped
<1>7. CASE ~(known \/ cached)
  <2>1. /\ CallRecord(call') /\ call'.pc = "walk" /\ call'.at = Birthday /\ call'.size = FirstChunk
        /\ call'.hits = {} /\ call'.raw = {} /\ call'.stop = 0 /\ call'.tip = call.tip
        /\ call'.from = call.from /\ call'.op = call.op
    BY <1>1, <1>2, <1>7 DEF CallShape, CallRecord, Placed
  <2>2. CallShape'
    <3>1. call'.from >= Birthday /\ call'.op \in {"scan", "find", "poll"} /\ call'.from \in Nat
      BY <1>1, <1>2, <2>1 DEF CallShape
    <3>2. call'.tip \in Nat /\ call'.tip =< Len(chain')
      BY <1>1, <1>2, <2>1 DEF CallShape
    <3> QED BY <2>1, <3>1, <3>2, Bounds, NothingIsFinite DEF CallShape
  <2>3. Placed' /\ NothingLeftOut' /\ RawStands' /\ Downward'
    BY <2>1, Bounds DEF Placed, NothingLeftOut, RawStands, Downward
  <2>4. \A h \in Nat : ~(Birthday =< h /\ h < Birthday)
    BY Bounds
  <2>5. Gathered'
    BY <2>1, <2>3, <2>4 DEF Gathered, Walked
  <2> QED BY <1>1, <1>2, <1>4, <1>5, <2>1, <2>2, <2>5 DEF ReadInvariant, ChainTyped
<1> QED BY <1>6, <1>7

\* The walk lists the candidates of its next chunk, or ends.
LEMMA WalkGoesOn ==
    ASSUME ReadInvariant, WalkChunk
    PROVE  /\ ReadInvariant' /\ UNCHANGED <<client, emitted>>
           /\ call'.pc # "idle" => call'.op = call.op /\ call'.from = call.from /\ call'.tip = call.tip
<1> DEFINE top == AtMost(call.at + call.size - 1, InitCap)
<1>1. /\ call.pc = "walk" /\ call.hits = {} /\ UNCHANGED <<chain, cache, client, emitted>>
      /\ call' = IF call.at > InitCap THEN IdleCall
                 ELSE [call EXCEPT !.hits = Candidates(call.at, top), !.at = top + 1,
                                   !.size = NextSize(@)]
  BY DEF WalkChunk
<1>2. CallShape /\ ClientShape /\ Placed /\ Walked /\ AnchorsHold /\ ChainTyped
  BY DEF ReadInvariant, Gathered
<1>3. CASE call.at > InitCap
  <2>1. call' = IdleCall
    BY <1>1, <1>3
  <2>2. CallShape' /\ Gathered' /\ ClientShape' /\ AnchorsHold'
    BY <1>1, <1>2, <2>1, IdleHolds, AnchorsStay DEF ClientShape, IdleCall
  <2> QED BY <1>1, <1>2, <2>1, <2>2 DEF ReadInvariant, ChainTyped, IdleCall
<1>4. CASE ~(call.at > InitCap)
  <2>1. /\ call.tip \in Nat /\ InitCap \in Nat /\ InitCap <= call.tip /\ call.at \in Nat /\ call.size \in Nat
        /\ call.at >= Birthday /\ call.at \in Nat \ {0}
    <3>1. /\ call.tip \in Nat /\ call.at \in Nat /\ call.size \in Nat
      BY <1>1, <1>2 DEF CallShape
    <3>2. call.at >= Birthday
      BY <1>1, <1>2 DEF Placed
    <3>3. Birthday \in Nat \ {0} /\ Birthday + InitScanLimit \in Nat
      BY Bounds
    <3>4. InitCap \in Nat /\ InitCap <= call.tip
      BY <3>1, <3>3 DEF InitCap, AtMost
    <3> QED BY <3>1, <3>2, <3>3, <3>4
  <2>2. top \in Int /\ top <= call.tip /\ top + 1 >= call.at /\ top + 1 \in Nat
    <3>1. InitCap >= call.at
      BY <1>4, <2>1
    <3> HIDE DEF AtMost
    <3>2. \/ top = InitCap
          \/ top = call.at + call.size - 1 /\ call.at + call.size - 1 < InitCap
      BY <2>1 DEF AtMost
    <3> HIDE DEF top
    <3> QED BY <2>1, <3>1, <3>2
  <2>3. /\ CallRecord(call') /\ call'.pc = "walk" /\ call'.hits = Candidates(call.at, top)
        /\ call'.at = top + 1 /\ call'.size = NextSize(call.size)
        /\ UNCHANGED <<call.op, call.from, call.tip, call.raw, call.stop>>
    BY <1>1, <1>2, <1>4 DEF CallShape, CallRecord
  <2> HIDE DEF top
  <2>4. PICK lo, tip : lo = call.at /\ tip = call.tip
    OBVIOUS
  <2>5. /\ \A c \in call'.hits : HitHolds(c, tip) /\ lo <= c[1] /\ c[1] <= top
        /\ \A h \in lo..top : chain[h] # 0 => <<h, chain[h]>> \in call'.hits
    BY <1>2, <2>1, <2>2, <2>3, <2>4, CandidatesHold DEF CallShape
  <2>6. NextSize(call.size) \in Nat
    BY <2>1, Bounds DEF NextSize, AtMost
  <2>7. CallShape'
    BY <1>1, <1>2, <2>2, <2>3, <2>4, <2>5, <2>6 DEF CallShape, HitHolds, Final
  <2>8. Placed'
    BY <1>1, <1>2, <2>1, <2>2, <2>3, <2>4, <2>5, Bounds DEF Placed, HitHolds
  <2>9. Walked'
    <3>0. /\ InitConfs' = InitConfs /\ \A h : NoInitAt(h)' <=> NoInitAt(h)
          /\ chain' = chain /\ call'.tip = tip /\ call'.at = top + 1
      BY <1>1, <2>3, <2>4 DEF NoInitAt, InitConfs
    <3> SUFFICES ASSUME Settled(InitConfs), NEW h \in Nat, Birthday =< h, h < top + 1,
                        Final(h, tip), DeepEnough(h, tip, InitConfs), chain[h] # 0
                 PROVE  <<h, chain[h]>> \in call'.hits \/ NoInitAt(h)
      BY <3>0, Zenon DEF Walked
    <3>1. CASE h < lo
      BY <1>1, <1>2, <2>4, <3>1 DEF Walked
    <3>2. CASE ~(h < lo)
      BY <2>1, <2>2, <2>4, <2>5, <3>2
    <3> QED BY <3>1, <3>2
  <2>10. Gathered'
    BY <1>1, <1>2, <2>3, <2>8, <2>9 DEF Gathered, Placed, NothingLeftOut, RawStands, Downward
  <2> QED BY <1>1, <2>3, <2>7, <2>10, ClientStays DEF ReadInvariant
<1> QED BY <1>3, <1>4

\* The first and the last of a set of candidates.
LEMMA LowestIs ==
    ASSUME NEW hits, hits # {}, \A c \in hits : c[1] \in Nat
    PROVE  Lowest(hits) \in hits /\ \A d \in hits : Lowest(hits)[1] =< d[1]
<1>1. PICK n \in {c[1] : c \in hits} : \A m \in {c[1] : c \in hits} : n <= m
  BY LeastNat
<1>2. \E c \in hits : \A d \in hits : c[1] =< d[1]
  BY <1>1
<1> QED BY <1>2 DEF Lowest

LEMMA HighestIs ==
    ASSUME NEW hits, hits # {}, NEW tip \in Nat, \A c \in hits : c[1] \in Nat /\ c[1] <= tip
    PROVE  Highest(hits) \in hits /\ \A d \in hits : d[1] =< Highest(hits)[1]
<1>1. PICK n \in {tip - c[1] : c \in hits} : \A m \in {tip - c[1] : c \in hits} : n <= m
  <2>1. {tip - c[1] : c \in hits} \subseteq Nat /\ {tip - c[1] : c \in hits} # {}
    OBVIOUS
  <2> QED BY <2>1, LeastNat
<1>2. PICK c \in hits : n = tip - c[1]
  BY <1>1
<1>3. ASSUME NEW d \in hits PROVE d[1] =< c[1]
  <2>1. n <= tip - d[1]
    BY <1>1
  <2> QED BY <1>2, <2>1
<1> QED BY <1>3 DEF Highest

\* The memos of a transaction, at a height.
LEMMA HitsFacts ==
    ASSUME NEW t \in Tx, NEW height \in Nat
    PROVE  /\ IsFiniteSet(Hits(t, height))
           /\ height = 0 => Hits(t, height) = {}
           /\ \A u \in Hits(t, height) :
                  UpdateShape(u) /\ u[1] = height /\ u[2] = t /\ height # 0
<1>1. ASSUME height # 0 PROVE IsFiniteSet(Hits(t, height))
  <2>1. IsFiniteSet(DOMAIN MemosOf[t])
    BY OutputsAreNumbers
  <2>2. IsFiniteSet({<<height, t, i>> : i \in DOMAIN MemosOf[t]})
    <3> DEFINE T == {<<height, t, i>> : i \in DOMAIN MemosOf[t]}
               f == [i \in DOMAIN MemosOf[t] |-> <<height, t, i>>]
    <3>1. f \in Surjection(DOMAIN MemosOf[t], T)
      BY DEF Surjection
    <3> HIDE DEF f, T
    <3>2. IsFiniteSet(T)
      BY <2>1, <3>1, FS_Surjection
    <3> QED BY <3>2 DEF T
  <2> QED BY <1>1, <2>2 DEF Hits
<1> QED BY <1>1, NothingIsFinite DEF Hits, UpdateShape

LEMMA InitsFacts ==
    ASSUME NEW t \in Tx, NEW height \in Nat, NEW tip, NEW confs
    PROVE  LET inits == RootInits(Deep(Hits(t, height), tip, confs))
           IN  /\ \A u \in inits : /\ UpdateShape(u) /\ u[1] = height /\ u[2] = t /\ height # 0
                                   /\ DeepEnough(height, tip, confs) /\ RootInits({u}) # {}
               /\ inits = {} /\ DeepEnough(height, tip, confs) => RootInits(Hits(t, height)) = {}
BY HitsFacts DEF RootInits, Deep, Confirmations, DeepEnough

LEMMA FirstInit ==
    ASSUME NEW t \in Tx, NEW height \in Nat, NEW inits, inits # {},
           \A u \in inits : UpdateShape(u) /\ u[1] = height /\ u[2] = t
    PROVE  (CHOOSE u \in inits : \A w \in inits : ~Before(w, u)) \in inits
<1>1. \A u \in inits : u[3] \in Nat /\ u[1] \in Nat /\ u[2] \in Nat
  BY OutputsAreNumbers DEF UpdateShape
<1>2. PICK n \in {u[3] : u \in inits} : \A m \in {u[3] : u \in inits} : n <= m
  BY <1>1, LeastNat
<1>3. PICK u \in inits : u[3] = n
  BY <1>2
<1>4. ASSUME NEW w \in inits PROVE ~Before(w, u)
  <2>1. u[3] <= w[3] /\ u[1] = w[1] /\ u[2] = w[2]
    BY <1>2, <1>3
  <2> QED BY <1>1, <2>1 DEF Before
<1> QED BY <1>4

LEMMA EarlierIsDeeper ==
    ASSUME NEW tip \in Nat, NEW confs \in Nat, NEW height \in Nat, NEW h \in Nat,
           Birthday =< h, h <= height, Final(height, tip), DeepEnough(height, tip, confs)
    PROVE  Final(h, tip) /\ DeepEnough(h, tip, confs)
BY Bounds DEF Final, DeepEnough, Minus

\* One candidate of the walk: it holds no INIT that counts, or the anchor is found.
LEMMA WalkLooks ==
    ASSUME ReadInvariant, WalkHeight
    PROVE  /\ ReadInvariant' /\ UNCHANGED emitted /\ call'.pc # "idle"
           /\ \E anchor : client' = [client EXCEPT !.anchor = anchor]
           /\ call'.op = call.op /\ call'.from = call.from /\ call'.tip = call.tip
<1>2. CallShape /\ ClientShape /\ Placed /\ Walked /\ AnchorsHold /\ ChainTyped
  BY DEF ReadInvariant, Gathered
<1>3. PICK hit, tip, confs : hit = Lowest(call.hits) /\ tip = call.tip /\ confs = InitConfs
  OBVIOUS
<1>4. PICK height \in FetchedAt(hit[2], hit[1]) :
          LET inits  == RootInits(Deep(Hits(hit[2], height), tip, confs))
              anchor == [at |-> CHOOSE u \in inits : \A w \in inits : ~Before(w, u),
                         confs |-> confs]
          IN  IF inits = {}
              THEN /\ call' = [call EXCEPT !.hits = @ \ {hit}]
                   /\ UNCHANGED <<cache, client>>
              ELSE /\ client' = [client EXCEPT !.anchor = anchor]
                   /\ cache' = [receiver |-> "own", anchor |-> anchor]
                   /\ call' = Fetch([call EXCEPT !.hits = {}])
  BY <1>3 DEF WalkHeight
<1>5. call.pc = "walk" /\ call.hits # {} /\ UNCHANGED <<chain, emitted>>
  BY DEF WalkHeight
<1>6. /\ tip \in Nat /\ tip <= Len(chain) /\ Len(chain) \in Nat /\ confs \in Nat
      /\ hit \in call.hits /\ \A d \in call.hits : hit[1] =< d[1]
      /\ HitHolds(hit, tip) /\ hit[1] < call.at
  <2>1. \A c \in call.hits : HitHolds(c, tip) /\ c[1] \in Nat
    BY <1>2, <1>3 DEF CallShape, HitHolds
  <2>2. hit \in call.hits /\ \A d \in call.hits : hit[1] =< d[1]
    BY <1>3, <1>5, <2>1, LowestIs
  <2> QED BY <1>2, <1>3, <1>5, <2>1, <2>2, ChainNumbers
          DEF CallShape, ClientShape, Placed, InitConfs, AtLeast
<1>7. /\ hit = <<hit[1], hit[2]>> /\ hit[1] \in Nat /\ hit[2] \in Tx /\ height \in Nat
      /\ Final(hit[1], tip) => height = hit[1] /\ chain[hit[1]] = hit[2]
      /\ height # 0 /\ ReorgDepth < confs /\ DeepEnough(height, tip, confs)
             => height = hit[1] /\ Final(hit[1], tip)
  BY <1>2, <1>6, FetchFacts DEF HitHolds, DeepEnough
<1> DEFINE inits == RootInits(Deep(Hits(hit[2], height), tip, confs))
<1>8. CASE inits = {}
  <2>1. call' = [call EXCEPT !.hits = @ \ {hit}] /\ UNCHANGED <<cache, client>>
    BY <1>4, <1>8
  <2>2. /\ CallRecord(call') /\ call'.hits = call.hits \ {hit}
        /\ UNCHANGED <<call.pc, call.op, call.from, call.tip, call.at, call.size, call.raw, call.stop>>
    BY <1>2, <2>1 DEF CallShape, CallRecord
  <2>3. CallShape'
    BY <1>2, <1>5, <2>2 DEF CallShape, HitHolds, Final
  <2>4. Placed'
    BY <1>2, <1>5, <2>2 DEF Placed
  <2>5. InitConfs' = confs /\ \A h : NoInitAt(h)' <=> NoInitAt(h)
    BY <1>3, <1>5, <2>1 DEF InitConfs, NoInitAt
  <2>6. ASSUME Settled(confs), NEW h \in Nat, Birthday =< h, h < call.at, chain[h] # 0,
               Final(h, tip), DeepEnough(h, tip, confs), <<h, chain[h]>> \notin call.hits \ {hit}
        PROVE  NoInitAt(h)
    <3>1. CASE <<h, chain[h]>> \notin call.hits
      BY <1>2, <1>3, <1>5, <2>6, <3>1 DEF Walked
    <3>2. CASE <<h, chain[h]>> = hit
      <4>1. h = hit[1] /\ chain[h] = hit[2]
        BY <3>2
      <4>2. height = h
        BY <1>7, <2>6, <4>1
      <4>3. RootInits(Hits(hit[2], height)) = {}
        BY <1>7, <1>8, <2>6, <4>2, InitsFacts
      <4> QED BY <4>1, <4>2, <4>3 DEF NoInitAt
    <3> QED BY <2>6, <3>1, <3>2
  <2>7. Walked'
    BY <1>3, <1>5, <2>2, <2>5, <2>6 DEF Walked
  <2>8. Gathered'
    BY <1>2, <1>5, <2>2, <2>4, <2>7 DEF Gathered, Placed, NothingLeftOut, RawStands, Downward
  <2>9. client' = [client EXCEPT !.anchor = client.anchor]
    BY <1>2, <2>1 DEF ClientShape
  <2> QED BY <1>5, <2>1, <2>2, <2>3, <2>8, <2>9, ClientStays DEF ReadInvariant
<1>9. CASE inits # {}
  <2>1. PICK at : at = CHOOSE u \in inits : \A w \in inits : ~Before(w, u)
    OBVIOUS
  <2>2. PICK anchor : anchor = [at |-> at, confs |-> confs]
    OBVIOUS
  <2>3. /\ client' = [client EXCEPT !.anchor = anchor]
        /\ cache' = [receiver |-> "own", anchor |-> anchor]
        /\ call' = Fetch([call EXCEPT !.hits = {}])
    BY <1>4, <1>9, <2>1, <2>2
  <2>4. \A u \in inits : /\ UpdateShape(u) /\ u[1] = height /\ u[2] = hit[2] /\ height # 0
                         /\ DeepEnough(height, tip, confs) /\ RootInits({u}) # {}
    BY <1>7, InitsFacts
  <2> HIDE DEF inits
  <2>5. at \in inits
    BY <1>7, <1>9, <2>1, <2>4, FirstInit
  <2>6. AnchorHolds(anchor)
    <3> SUFFICES ASSUME ReorgDepth < confs PROVE AnchorHolds(anchor)
      BY <2>2 DEF AnchorHolds, Settled
    <3>1. height = hit[1] /\ Final(height, tip) /\ chain[height] = hit[2]
      BY <1>7, <2>4, <2>5
    <3>2. Final(height, Len(chain))
      BY <1>6, <1>7, <3>1, Bounds DEF Final
    <3>3. ASSUME NEW h \in Nat, Birthday =< h, h < height, chain[h] # 0 PROVE NoInitAt(h)
      <4>1. Final(h, tip) /\ DeepEnough(h, tip, confs)
        <5>1. DeepEnough(height, tip, confs)
          BY ONLY <2>4, <2>5
        <5>2. tip \in Nat /\ confs \in Nat /\ height \in Nat
          BY <1>6, <1>7
        <5>3. h <= height
          BY ONLY <3>3, <5>2, h \in Nat
        <5> QED BY <3>1, <3>3, <5>1, <5>2, <5>3, EarlierIsDeeper
      <4>2. <<h, chain[h]>> \notin call.hits
        BY <1>6, <1>7, <3>1, <3>3
      <4>3. h < call.at
        BY <1>2, <1>6, <1>7, <3>1, <3>3 DEF CallShape
      <4> QED BY <1>2, <1>3, <1>5, <3>3, <4>1, <4>2, <4>3 DEF Walked, Settled
    <3> QED BY <2>2, <2>4, <2>5, <3>1, <3>2, <3>3 DEF AnchorHolds
  <2>7. AnchorHolds(anchor)'
    BY <1>5, <2>6 DEF AnchorHolds, NoInitAt, Final
  <2>8. client'.anchor = anchor /\ cache'.anchor = anchor
    BY <1>2, <2>3 DEF ClientShape
  <2>9. AnchorsHold'
    BY <2>7, <2>8 DEF AnchorsHold
  <2>10. PICK c : c = [call EXCEPT !.hits = {}]
    OBVIOUS
  <2>11. /\ CallRecord(c) /\ c.hits = {} /\ c.raw = {} /\ c.stop = 0
         /\ c.tip = tip /\ c.from \in Nat /\ c.from >= Birthday
         /\ c.op \in {"scan", "find", "poll"} /\ c.op = call.op /\ c.from = call.from
    BY <1>2, <1>3, <1>5, <2>10 DEF CallShape, CallRecord, Placed
  <2>12. /\ CallShape' /\ Gathered' /\ call'.pc # "idle"
         /\ call'.op = c.op /\ call'.from = c.from /\ call'.tip = c.tip
    BY <1>2, <1>5, <1>6, <2>3, <2>10, <2>11, FetchStarts
  <2>13. ClientShape'
    BY <1>2, <1>5, <2>3, <2>12 DEF ClientShape
  <2> QED BY <1>2, <1>3, <1>5, <2>3, <2>9, <2>11, <2>12, <2>13 DEF ReadInvariant, ChainTyped
<1> QED BY <1>8, <1>9

\* The window of a scan or a poll: the next chunk of it is listed.
LEMMA WindowGoesOn ==
    ASSUME ReadInvariant, WindowChunk
    PROVE  /\ ReadInvariant' /\ UNCHANGED <<client, emitted>> /\ call'.pc # "idle"
           /\ call'.op = call.op /\ call'.from = call.from /\ call'.tip = call.tip
<1> DEFINE top == AtMost(call.at + call.size - 1, call.tip)
           new == {c \in Candidates(call.at, top) : \A d \in call.hits : d[2] # c[2]}
<1>1. /\ call.pc = "window" /\ UNCHANGED <<chain, cache, client, emitted>>
      /\ call' = [call EXCEPT !.hits = @ \cup new, !.at = top + 1,
                              !.pc = IF top = call.tip THEN "enhance" ELSE "window"]
  BY DEF WindowChunk
<1>2. CallShape /\ ClientShape /\ Placed /\ NothingLeftOut /\ AnchorsHold /\ ChainTyped
  BY DEF ReadInvariant, Gathered
<1>3. PICK lo, tip, from, size : lo = call.at /\ tip = call.tip /\ from = call.from /\ size = call.size
  OBVIOUS
<1>4. /\ tip \in Nat /\ lo \in Nat /\ from \in Nat /\ from >= Birthday /\ size \in Nat
      /\ tip <= Len(chain) /\ lo >= from
  BY <1>1, <1>2, <1>3 DEF CallShape, Placed
<1>5. top \in Int /\ top <= tip /\ top + 1 \in Nat /\ (top # tip => top + 1 >= lo)
  <2>1. top = IF lo + size - 1 =< tip THEN lo + size - 1 ELSE tip
    BY <1>3 DEF AtMost
  <2> HIDE DEF top
  <2> QED BY <1>4, <2>1
<1>6. /\ CallRecord(call') /\ call'.hits = call.hits \cup new /\ call'.at = top + 1
      /\ UNCHANGED <<call.op, call.from, call.tip, call.size, call.raw, call.stop>>
      /\ call'.pc = IF top = tip THEN "enhance" ELSE "window"
  BY <1>1, <1>2, <1>3 DEF CallShape, CallRecord
<1>7. /\ \A c \in Candidates(lo, top) : HitHolds(c, tip) /\ lo <= c[1] /\ c[1] <= top
      /\ \A h \in lo..top : chain[h] # 0 => <<h, chain[h]>> \in Candidates(lo, top)
  <2>1. lo \in Nat \ {0}
    BY <1>4, Bounds
  <2> HIDE DEF top
  <2> QED BY <1>2, <1>4, <1>5, <2>1, CandidatesHold
<1>8. new = {c \in Candidates(lo, top) : \A d \in call.hits : d[2] # c[2]}
  BY <1>3
<1> HIDE DEF new, top
<1>9. \A c \in call'.hits : HitHolds(c, tip) /\ from =< c[1]
  <2>1. \A c \in call.hits : HitHolds(c, tip) /\ from =< c[1]
    BY <1>1, <1>2, <1>3 DEF CallShape, Placed
  <2>2. ASSUME NEW c \in new PROVE HitHolds(c, tip) /\ from =< c[1]
    <3>1. c \in Candidates(lo, top)
      BY <1>8
    <3>2. HitHolds(c, tip) /\ lo <= c[1] /\ c[1] \in Nat
      BY <1>7, <3>1 DEF HitHolds
    <3> QED BY <1>4, <3>2
  <2> QED BY <1>6, <2>1, <2>2
<1>10. CallShape'
  <2>1. \A c \in call'.hits : HitHolds(c, call.tip)'
    BY <1>1, <1>3, <1>6, <1>9 DEF HitHolds, Final
  <2>2. call'.at \in Nat /\ call'.pc \in {"window", "enhance"}
    BY <1>5, <1>6
  <2> QED BY <1>1, <1>2, <1>6, <2>1, <2>2 DEF CallShape
<1>11. Placed'
  <2>1. call'.pc = "window" => call'.at >= call'.from
    BY <1>3, <1>4, <1>5, <1>6
  <2>2. call'.pc \in {"window", "enhance"} /\ \A c \in call'.hits : call'.from =< c[1]
    BY <1>3, <1>6, <1>9
  <2>3. call'.pc = "window" => call'.raw = {} /\ call'.stop = 0
    BY <1>1, <1>2, <1>6 DEF Placed
  <2> QED BY <2>1, <2>2, <2>3 DEF Placed
<1>12. NothingLeftOut'
  <2> SUFFICES ASSUME NEW h \in Nat, Listed(h)', Final(h, tip), chain[h] # 0
               PROVE  <<h, chain[h]>> \in call'.hits \/ Hits(chain[h], h) \subseteq call'.raw
    BY <1>1, <1>3, <1>6 DEF NothingLeftOut
  <2>1. h \in from..tip /\ h <= top
    BY <1>3, <1>4, <1>5, <1>6 DEF Listed
  <2>2. CASE h < lo
    BY <1>1, <1>2, <1>3, <1>6, <2>1, <2>2 DEF NothingLeftOut, Listed
  <2>3. CASE ~(h < lo)
    <3>1. <<h, chain[h]>> \in Candidates(lo, top)
      BY <1>4, <1>5, <1>7, <2>1, <2>3
    <3>2. ASSUME NEW d \in call.hits, d[2] = chain[h] PROVE d = <<h, chain[h]>>
      <4>1. HitHolds(d, tip)
        BY <1>6, <1>9
      <4> QED BY <3>2, <4>1 DEF HitHolds, Final
    <3> QED BY <1>6, <1>8, <3>1, <3>2
  <2> QED BY <2>2, <2>3
<1>13. Gathered'
  <2>1. call'.raw = {} /\ call'.pc \notin {"find", "walk"}
    BY <1>1, <1>2, <1>6 DEF Placed
  <2> QED BY <1>11, <1>12, <2>1 DEF Gathered, RawStands, Downward, Walked
<1>14. call'.pc # "idle"
  BY <1>6
<1> QED BY <1>1, <1>6, <1>10, <1>13, <1>14, ClientStays DEF ReadInvariant

\* The memos of one candidate join what the call has gathered.
LEMMA MemosJoin ==
    ASSUME ReadInvariant, call.pc \in {"enhance", "find"},
           NEW hit \in call.hits, NEW height \in FetchedAt(hit[2], hit[1]),
           UNCHANGED <<chain, client>>, CallRecord(call'), call'.hits = call.hits \ {hit},
           call'.raw = call.raw \cup Hits(hit[2], height), call'.stop \in Nat,
           UNCHANGED <<call.pc, call.op, call.from, call.tip, call.at, call.size>>
    PROVE  /\ CallShape' /\ NothingLeftOut' /\ RawStands'
           /\ \A u \in Hits(hit[2], height) :
                Settled(client.confs) /\ DeepEnough(u[1], call.tip, client.confs) => u[1] = hit[1]
<1>1. CallShape /\ ClientShape /\ Placed /\ NothingLeftOut /\ RawStands /\ ChainTyped
  BY DEF ReadInvariant, Gathered
<1>2. PICK tip, confs : tip = call.tip /\ confs = client.confs
  OBVIOUS
<1>3. /\ tip \in Nat /\ tip <= Len(chain) /\ confs \in Nat /\ HitHolds(hit, tip)
      /\ call.from =< hit[1]
  BY <1>1, <1>2 DEF CallShape, ClientShape, Placed
<1>4. /\ hit = <<hit[1], hit[2]>> /\ hit[1] \in Nat /\ hit[2] \in Tx /\ height \in Nat
      /\ Final(hit[1], tip) => height = hit[1] /\ chain[hit[1]] = hit[2]
      /\ height # 0 /\ ReorgDepth < confs /\ DeepEnough(height, tip, confs)
             => height = hit[1] /\ Final(hit[1], tip)
  BY <1>1, <1>3, FetchFacts DEF HitHolds, DeepEnough
<1>5. /\ IsFiniteSet(Hits(hit[2], height))
      /\ \A u \in Hits(hit[2], height) :
             UpdateShape(u) /\ u[1] = height /\ u[2] = hit[2] /\ height # 0
  BY <1>4, HitsFacts
<1>6. IsFiniteSet(call'.raw)
  <2>1. PICK S, T : S = call.raw /\ T = Hits(hit[2], height)
    OBVIOUS
  <2>2. IsFiniteSet(S) /\ IsFiniteSet(T)
    BY <1>1, <1>5, <2>1 DEF CallShape
  <2>3. IsFiniteSet(S \cup T)
    BY ONLY <2>2, FS_Union
  <2> QED BY <2>1, <2>3
<1>7. CallShape'
  <2>1. \A c \in call'.hits : HitHolds(c, call.tip)'
    BY <1>1 DEF CallShape, HitHolds, Final
  <2>2. \A u \in call'.raw : UpdateShape(u)
    BY <1>1, <1>5 DEF CallShape
  <2> QED BY <1>1, <1>6, <2>1, <2>2 DEF CallShape
<1>8. ASSUME NEW u \in Hits(hit[2], height), Settled(confs), DeepEnough(u[1], tip, confs)
      PROVE  Final(u[1], tip) /\ chain[u[1]] = u[2] /\ u[1] = hit[1]
  BY <1>4, <1>5, <1>8 DEF Settled
<1>9. RawStands'
  <2> SUFFICES ASSUME NEW u \in call'.raw PROVE Standing(u)
    BY DEF RawStands, Standing
  <2>1. CASE u \in call.raw
    BY <1>1, <2>1 DEF RawStands
  <2>2. CASE u \in Hits(hit[2], height)
    BY <1>2, <1>3, <1>8, <2>2 DEF Standing
  <2> QED BY <2>1, <2>2
<1>10. NothingLeftOut'
  <2> SUFFICES ASSUME NEW h \in Nat, Listed(h), Final(h, tip), chain[h] # 0
               PROVE  <<h, chain[h]>> \in call'.hits \/ Hits(chain[h], h) \subseteq call'.raw
    BY <1>2 DEF NothingLeftOut, Listed
  <2>1. <<h, chain[h]>> \in call.hits \/ Hits(chain[h], h) \subseteq call.raw
    BY <1>1, <1>2 DEF NothingLeftOut
  <2>2. ASSUME <<h, chain[h]>> = hit PROVE Hits(chain[h], h) \subseteq call'.raw
    <3>1. h = hit[1] /\ chain[h] = hit[2]
      BY <2>2
    <3>2. height = h
      BY <1>4, <3>1
    <3> QED BY <3>1, <3>2
  <2> QED BY <2>1, <2>2
<1> QED BY <1>2, <1>7, <1>8, <1>9, <1>10

\* One transaction of the window is fetched.
LEMMA EnhanceLooks ==
    ASSUME ReadInvariant, Enhance
    PROVE  /\ ReadInvariant' /\ UNCHANGED <<client, emitted>> /\ call'.pc # "idle"
           /\ call'.op = call.op /\ call'.from = call.from /\ call'.tip = call.tip
<1>1. call.pc = "enhance" /\ call.hits # {} /\ UNCHANGED <<chain, cache, client, emitted>>
  BY DEF Enhance
<1>2. CallShape /\ Placed
  BY DEF ReadInvariant, Gathered
<1>3. PICK hit : hit = CHOOSE c \in call.hits : \A d \in call.hits : c[2] =< d[2]
  OBVIOUS
<1>4. hit \in call.hits
  <2>1. \A c \in call.hits : c[2] \in Nat
    BY <1>2, TxAssumption DEF CallShape, HitHolds
  <2>2. PICK n \in {c[2] : c \in call.hits} : \A m \in {c[2] : c \in call.hits} : n <= m
    BY <1>1, <2>1, LeastNat
  <2>3. \E c \in call.hits : \A d \in call.hits : c[2] =< d[2]
    BY <2>2
  <2> QED BY <1>3, <2>3
<1>5. PICK height \in FetchedAt(hit[2], hit[1]) :
          call' = [call EXCEPT !.hits = @ \ {hit}, !.raw = @ \cup Hits(hit[2], height)]
  BY <1>3 DEF Enhance
<1>6. /\ CallRecord(call') /\ call'.hits = call.hits \ {hit}
      /\ call'.raw = call.raw \cup Hits(hit[2], height) /\ call'.stop = call.stop
      /\ UNCHANGED <<call.pc, call.op, call.from, call.tip, call.at, call.size>>
  BY <1>2, <1>5 DEF CallShape, CallRecord
<1>7. call'.stop \in Nat
  BY <1>2, <1>6 DEF CallShape
<1>8. CallShape' /\ NothingLeftOut' /\ RawStands'
  BY <1>1, <1>4, <1>6, <1>7, MemosJoin
<1>9. Gathered'
  BY <1>1, <1>2, <1>6, <1>8 DEF Gathered, Placed, Downward, Walked
<1> QED BY <1>1, <1>6, <1>8, <1>9, ClientStays DEF ReadInvariant

LEMMA EnhanceEnds ==
    ASSUME ReadInvariant, EnhanceDone
    PROVE  /\ ReadInvariant' /\ UNCHANGED <<client, emitted>> /\ call'.pc # "idle"
           /\ call'.op = call.op /\ call'.from = call.from /\ call'.tip = call.tip
<1>1. /\ call.pc = "enhance" /\ call.hits = {} /\ UNCHANGED <<chain, cache, client, emitted>>
      /\ call' = [call EXCEPT !.pc = "done"]
  BY DEF EnhanceDone
<1>2. CallShape /\ Placed /\ NothingLeftOut /\ RawStands
  BY DEF ReadInvariant, Gathered
<1>3. /\ CallRecord(call') /\ call'.pc = "done"
      /\ UNCHANGED <<call.op, call.from, call.tip, call.at, call.size, call.hits, call.raw, call.stop>>
  BY <1>1, <1>2 DEF CallShape, CallRecord
<1>4. CallShape'
  BY <1>1, <1>2, <1>3 DEF CallShape
<1>5. Placed' /\ Downward' /\ Walked'
  BY <1>1, <1>3 DEF Placed, Downward, Walked
<1>6. NothingLeftOut' /\ RawStands'
  BY <1>1, <1>2, <1>3 DEF NothingLeftOut, Listed, RawStands, Standing
<1> QED BY <1>1, <1>3, <1>4, <1>5, <1>6, ClientStays DEF ReadInvariant, Gathered

\* A search ends at its floor, or lists the next chunk down.
LEMMA SearchGoesDown ==
    ASSUME ReadInvariant, FindChunk
    PROVE  /\ ReadInvariant' /\ UNCHANGED <<client, emitted>>
           /\ call'.pc # "idle" /\ call.op = "find" /\ call'.op = "find"
<1> DEFINE bottom == AtLeast(Minus(call.at, call.size - 1), call.from)
           over   == call.at < call.from \/ call.stop > call.at
<1>1. /\ call.pc = "find" /\ call.hits = {} /\ UNCHANGED <<chain, cache, client, emitted>>
      /\ call' = IF over THEN [call EXCEPT !.pc = "done", !.from = AtLeast(call.stop, call.from)]
                 ELSE [call EXCEPT !.hits = Candidates(bottom, call.at), !.at = bottom - 1,
                                   !.size = NextSize(@)]
  BY DEF FindChunk
<1>2. CallShape /\ Placed /\ NothingLeftOut /\ RawStands /\ Downward /\ ChainTyped
  BY DEF ReadInvariant, Gathered
<1>3. PICK at, tip, from, stop, size :
          at = call.at /\ tip = call.tip /\ from = call.from /\ stop = call.stop /\ size = call.size
  OBVIOUS
<1>4. /\ at \in Nat /\ tip \in Nat /\ from \in Nat /\ stop \in Nat /\ size \in Nat
      /\ from >= Birthday /\ from \in Nat \ {0} /\ at <= tip /\ tip <= Len(chain) /\ call.op = "find"
  BY <1>1, <1>2, <1>3, Bounds DEF CallShape, Placed
<1>5. CASE over
  <2>1. /\ CallRecord(call') /\ call'.pc = "done" /\ call'.from = AtLeast(stop, from)
        /\ UNCHANGED <<call.op, call.tip, call.at, call.size, call.hits, call.raw, call.stop>>
    BY <1>1, <1>2, <1>3, <1>5 DEF CallShape, CallRecord
  <2>2. /\ call'.from \in Nat /\ call'.from >= from /\ call'.from >= stop /\ call'.from > at
        /\ call'.from >= Birthday /\ (call'.from = from \/ call'.from = stop)
    BY <1>3, <1>4, <1>5, <2>1, Bounds DEF AtLeast
  <2>3. CallShape'
    BY <1>1, <1>2, <2>1, <2>2 DEF CallShape
  <2>4. Placed' /\ Downward' /\ Walked'
    BY <1>1, <2>1 DEF Placed, Downward, Walked
  <2>5. NothingLeftOut'
    <3> SUFFICES ASSUME NEW h \in Nat, h \in call'.from..tip, Final(h, tip), chain[h] # 0
                 PROVE  Hits(chain[h], h) \subseteq call.raw
      BY <1>1, <1>3, <2>1 DEF NothingLeftOut, Listed
    <3>1. h \in from..tip /\ at < h
      BY <1>4, <2>2
    <3> QED BY <1>1, <1>2, <1>3, <3>1 DEF NothingLeftOut, Listed
  <2>6. RawStands'
    <3> SUFFICES ASSUME NEW u \in call.raw, Settled(client.confs), DeepEnough(u[1], tip, client.confs)
                 PROVE  Final(u[1], tip) /\ chain[u[1]] = u[2] /\ call'.from =< u[1]
      BY <1>1, <1>3, <2>1 DEF RawStands, Standing
    <3>1. Final(u[1], tip) /\ chain[u[1]] = u[2] /\ from =< u[1]
      BY <1>2, <1>3 DEF RawStands, Standing
    <3>2. stop =< u[1]
      BY <1>1, <1>2, <1>3 DEF Downward
    <3> QED BY <2>2, <3>1, <3>2
  <2> QED BY <1>1, <1>4, <2>1, <2>3, <2>4, <2>5, <2>6, ClientStays DEF ReadInvariant, Gathered
<1>6. CASE ~over
  <2>0. at >= from
    BY <1>3, <1>4, <1>6
  <2>1. bottom \in Nat \ {0} /\ from <= bottom /\ bottom <= at + 1
    <3>1. Minus(at, size - 1) \in Nat /\ Minus(at, size - 1) <= at + 1
      BY <1>4 DEF Minus
    <3>2. bottom = IF Minus(at, size - 1) >= from THEN Minus(at, size - 1) ELSE from
      BY <1>3 DEF AtLeast
    <3> HIDE DEF bottom
    <3> QED BY <1>4, <2>0, <3>1, <3>2
  <2>2. /\ CallRecord(call') /\ call'.pc = "find" /\ call'.hits = Candidates(bottom, at)
        /\ call'.at = bottom - 1 /\ call'.size = NextSize(size)
        /\ UNCHANGED <<call.op, call.from, call.tip, call.raw, call.stop>>
    BY <1>1, <1>2, <1>3, <1>6 DEF CallShape, CallRecord
  <2> HIDE DEF bottom
  <2>3. /\ \A c \in call'.hits : HitHolds(c, tip) /\ bottom <= c[1] /\ c[1] <= at
        /\ \A h \in bottom..at : chain[h] # 0 => <<h, chain[h]>> \in call'.hits
    BY <1>2, <1>4, <2>1, <2>2, CandidatesHold
  <2>4. NextSize(size) \in Nat /\ bottom - 1 \in Nat
    BY <1>4, <2>1, Bounds DEF NextSize, AtMost
  <2>5. CallShape'
    <3>1. \A c \in call'.hits : HitHolds(c, call.tip)'
      BY <1>1, <1>3, <2>2, <2>3 DEF HitHolds, Final
    <3> QED BY <1>1, <1>2, <2>2, <2>4, <3>1 DEF CallShape
  <2>6. \A c \in call'.hits : c[1] \in Nat /\ from =< c[1] /\ bottom - 1 < c[1] /\ c[1] <= at
    <3>1. \A c \in call'.hits : c[1] \in Nat
      BY <2>3 DEF HitHolds
    <3> QED BY <1>4, <2>1, <2>3, <3>1
  <2>7. Placed'
    <3>1. call'.at =< call'.tip /\ call'.op = "find"
      BY <1>3, <1>4, <2>1, <2>2
    <3> QED BY <1>3, <2>2, <2>6, <3>1 DEF Placed
  <2>8. NothingLeftOut'
    <3> SUFFICES ASSUME NEW h \in Nat, h \in from..tip, bottom - 1 < h, Final(h, tip), chain[h] # 0
                 PROVE  <<h, chain[h]>> \in call'.hits \/ Hits(chain[h], h) \subseteq call.raw
      BY <1>1, <1>3, <2>2 DEF NothingLeftOut, Listed
    <3>1. CASE at < h
      BY <1>1, <1>2, <1>3, <3>1 DEF NothingLeftOut, Listed
    <3>2. CASE ~(at < h)
      BY <1>4, <2>1, <2>3, <3>2
    <3> QED BY <3>1, <3>2
  <2>9. RawStands'
    BY <1>1, <1>2, <2>2 DEF RawStands, Standing
  <2>10. Downward'
    <3> SUFFICES ASSUME Settled(client.confs), NEW u \in call.raw,
                        DeepEnough(u[1], tip, client.confs)
                 PROVE  bottom - 1 < u[1] /\ stop =< u[1] /\ \A c \in call'.hits : c[1] =< u[1]
      BY <1>1, <1>3, <2>2 DEF Downward
    <3>1. at < u[1] /\ stop =< u[1]
      BY <1>1, <1>2, <1>3 DEF Downward
    <3>2. u[1] \in Nat
      BY <1>2 DEF CallShape, UpdateShape
    <3> QED BY <1>4, <2>1, <2>6, <3>1, <3>2
  <2> QED BY <1>1, <1>4, <2>2, <2>5, <2>7, <2>8, <2>9, <2>10, ClientStays
          DEF ReadInvariant, Gathered, Walked
<1> QED BY <1>5, <1>6

\* One block of a search: it lies below the floor, or is fetched and may set it.
LEMMA SearchLooks ==
    ASSUME ReadInvariant, FindHeight
    PROVE  /\ ReadInvariant' /\ UNCHANGED <<client, emitted>>
           /\ call'.pc # "idle" /\ call.op = "find" /\ call'.op = "find"
<1>1. call.pc = "find" /\ call.hits # {} /\ UNCHANGED <<chain, cache, client, emitted>>
  BY DEF FindHeight
<1>2. CallShape /\ Placed /\ NothingLeftOut /\ RawStands /\ Downward /\ ChainTyped
  BY DEF ReadInvariant, Gathered
<1>3. PICK hit, at, tip, from, stop, floor :
          /\ hit = Highest(call.hits)
          /\ at = call.at /\ tip = call.tip /\ from = call.from /\ stop = call.stop
          /\ floor = IF call.pattern THEN Minus(hit[1], Grace) ELSE hit[1]
  OBVIOUS
<1>4. /\ at \in Nat /\ tip \in Nat /\ from \in Nat /\ stop \in Nat
      /\ from >= Birthday /\ at <= tip /\ tip <= Len(chain) /\ call.op = "find"
  BY <1>1, <1>2, <1>3 DEF CallShape, Placed
<1>5. /\ hit \in call.hits /\ \A d \in call.hits : d[1] \in Nat /\ d[1] =< hit[1]
      /\ at < hit[1] /\ hit[1] \in Nat
  <2>1. \A c \in call.hits : c[1] \in Nat /\ c[1] <= tip
    BY <1>2, <1>3, <1>4 DEF CallShape, HitHolds
  <2>2. hit \in call.hits /\ \A d \in call.hits : d[1] =< hit[1]
    BY <1>1, <1>3, <1>4, <2>1, HighestIs
  <2> QED BY <1>1, <1>2, <1>3, <2>1, <2>2 DEF Placed
<1>6. floor \in Nat /\ floor <= hit[1]
  <2>1. floor = Minus(hit[1], Grace) \/ floor = hit[1]
    BY <1>3
  <2> QED BY <1>5, <2>1, Bounds DEF Minus
<1>7. CASE hit[1] < stop
  <2>1. call' = [call EXCEPT !.pc = "done", !.hits = {}, !.from = AtLeast(call.stop, call.from)]
    BY <1>3, <1>7 DEF FindHeight
  <2>2. /\ CallRecord(call') /\ call'.pc = "done" /\ call'.from = AtLeast(stop, from)
        /\ call'.hits = {}
        /\ UNCHANGED <<call.op, call.tip, call.at, call.size, call.raw, call.stop>>
    BY <1>2, <1>3, <2>1 DEF CallShape, CallRecord
  <2>3. /\ call'.from \in Nat /\ call'.from >= from /\ call'.from >= stop
        /\ call'.from >= Birthday /\ (call'.from = from \/ call'.from = stop)
    BY <1>4, <2>2, Bounds DEF AtLeast
  <2>4. CallShape'
    BY <1>1, <1>2, <2>2, <2>3 DEF CallShape
  <2>5. Placed' /\ Downward' /\ Walked'
    BY <1>1, <2>2 DEF Placed, Downward, Walked
  <2>6. NothingLeftOut'
    <3> SUFFICES ASSUME NEW h \in Nat, h \in call'.from..tip, Final(h, tip), chain[h] # 0
                 PROVE  Hits(chain[h], h) \subseteq call.raw
      BY <1>1, <1>3, <2>2 DEF NothingLeftOut, Listed
    <3>1. h \in from..tip /\ hit[1] < h /\ at < h
      BY <1>4, <1>5, <1>7, <2>3
    <3>2. <<h, chain[h]>> \notin call.hits
      BY <1>5, <3>1
    <3> QED BY <1>1, <1>2, <1>3, <3>1, <3>2 DEF NothingLeftOut, Listed
  <2>7. RawStands'
    <3> SUFFICES ASSUME NEW u \in call.raw, Settled(client.confs), DeepEnough(u[1], tip, client.confs)
                 PROVE  Final(u[1], tip) /\ chain[u[1]] = u[2] /\ call'.from =< u[1]
      BY <1>1, <1>3, <2>2 DEF RawStands, Standing
    <3>1. Final(u[1], tip) /\ chain[u[1]] = u[2] /\ from =< u[1]
      BY <1>2, <1>3 DEF RawStands, Standing
    <3>2. stop =< u[1]
      BY <1>1, <1>2, <1>3 DEF Downward
    <3> QED BY <2>3, <3>1, <3>2
  <2> QED BY <1>1, <1>4, <2>2, <2>4, <2>5, <2>6, <2>7, ClientStays DEF ReadInvariant, Gathered
<1>8. CASE ~(hit[1] < stop)
  <2>1. PICK height \in FetchedAt(hit[2], hit[1]), satisfied \in BOOLEAN :
            call' = [call EXCEPT !.hits = @ \ {hit}, !.raw = call.raw \cup Hits(hit[2], height),
                                 !.stop = IF satisfied THEN floor ELSE @]
    <3>1. PICK height \in FetchedAt(hit[2], hit[1]) :
              LET raw == call.raw \cup Hits(hit[2], height)
              IN  call' = [call EXCEPT !.hits = @ \ {hit}, !.raw = raw,
                                       !.stop = IF @ = 0 /\ Satisfied(raw) THEN floor ELSE @]
      BY <1>3, <1>8 DEF FindHeight
    <3>2. CASE call.stop = 0 /\ Satisfied(call.raw \cup Hits(hit[2], height))
      BY <3>1, <3>2
    <3>3. CASE ~(call.stop = 0 /\ Satisfied(call.raw \cup Hits(hit[2], height)))
      BY <3>1, <3>3
    <3> QED BY <3>2, <3>3
  <2>2. /\ CallRecord(call') /\ call'.hits = call.hits \ {hit}
        /\ call'.raw = call.raw \cup Hits(hit[2], height) /\ call'.stop \in {stop, floor}
        /\ UNCHANGED <<call.pc, call.op, call.from, call.tip, call.at, call.size>>
    BY <1>2, <1>3, <2>1 DEF CallShape, CallRecord
  <2>3. call'.stop \in Nat /\ call'.stop <= hit[1]
    BY <1>4, <1>5, <1>6, <1>8, <2>2
  <2>4. /\ CallShape' /\ NothingLeftOut' /\ RawStands'
        /\ \A u \in Hits(hit[2], height) :
             Settled(client.confs) /\ DeepEnough(u[1], call.tip, client.confs) => u[1] = hit[1]
    BY <1>1, <1>5, <2>2, <2>3, MemosJoin
  <2>5. Placed' /\ Walked'
    BY <1>1, <1>2, <2>2 DEF Placed, Walked
  <2>6. Downward'
    <3> SUFFICES ASSUME Settled(client.confs), NEW u \in call'.raw,
                        DeepEnough(u[1], tip, client.confs)
                 PROVE  at < u[1] /\ call'.stop =< u[1] /\ \A c \in call'.hits : c[1] =< u[1]
      BY <1>1, <1>3, <2>2 DEF Downward
    <3>1. CASE u \in call.raw
      <4>1. at < u[1] /\ stop =< u[1] /\ hit[1] =< u[1] /\ \A c \in call.hits : c[1] =< u[1]
        BY <1>1, <1>2, <1>3, <1>5, <3>1 DEF Downward
      <4>2. u[1] \in Nat
        BY <1>2, <3>1 DEF CallShape, UpdateShape
      <4> QED BY <1>4, <1>5, <2>2, <2>3, <4>1, <4>2
    <3>2. CASE u \in Hits(hit[2], height)
      <4>1. u[1] = hit[1]
        BY <1>3, <2>4, <3>2
      <4> QED BY <1>5, <2>2, <2>3, <4>1
    <3> QED BY <2>2, <3>1, <3>2
  <2> QED BY <1>1, <1>4, <2>2, <2>4, <2>5, <2>6, ClientStays DEF ReadInvariant, Gathered
<1> QED BY <1>7, <1>8

-----------------------------------------------------------------------------
(* What a read returns.                                                     *)

LEMMA ReadInvariantStarts ==
    ASSUME ShallowInit
    PROVE  ReadInvariant
<1>1. /\ chain = << >> /\ client = Closed /\ call = IdleCall
      /\ cache \in {NoCache, [receiver |-> "other", anchor |-> [at |-> <<1, 0, 1>>, confs |-> 1]]}
  BY DEF ShallowInit
<1>2. ChainTyped
  BY <1>1 DEF ChainTyped
<1>3. CallShape
  BY <1>1, NothingIsFinite DEF CallShape, CallRecord, IdleCall
<1>4. ClientShape /\ AnchorsHold
  BY <1>1 DEF ClientShape, Closed, NoCursor, IdleCall, AnchorsHold, AnchorHolds, NoCache
<1>5. Gathered
  BY <1>1 DEF Gathered, Placed, NothingLeftOut, RawStands, Downward, Walked, IdleCall
<1> QED BY <1>2, <1>3, <1>4, <1>5 DEF ReadInvariant

LEMMA ReadInvariantKept ==
    ASSUME ReadInvariant, [ShallowNext]_shallowVars
    PROVE  ReadInvariant'
<1>0. ChainTyped
  BY DEF ReadInvariant
<1>1. CASE UNCHANGED shallowVars
  BY <1>0, <1>1, SameChainStands, ChainKeepsReads DEF shallowVars
<1>2. ASSUME NEW t \in Tx \cup {0}, MineBlock(t) PROVE ReadInvariant'
  BY <1>0, <1>2, MineStands, ChainKeepsReads DEF MineBlock
<1>3. ASSUME NEW depth \in 1..ReorgDepth, Reorganise(depth) PROVE ReadInvariant'
  BY <1>0, <1>3, ReorganiseStands, ChainKeepsReads DEF Reorganise
<1>4. ASSUME NEW confs \in Confs, NEW verify \in Verify, Open(confs, verify) PROVE ReadInvariant'
  BY <1>4, ClientOpens
<1>5. CASE Close \/ Fail \/ StartPoll
  BY <1>5, ClientCloses, CallFails, PollStarts
<1>6. CASE Start("scan", {}, FALSE)
  BY <1>6, CallStarts
<1>7. ASSUME NEW s \in Searches, Start("find", s.want, s.pattern) PROVE ReadInvariant'
  BY <1>7, CallStarts
<1>8. CASE Read
  BY <1>8, InitEnsured, WalkGoesOn, WalkLooks, WindowGoesOn, EnhanceLooks, EnhanceEnds,
     SearchGoesDown, SearchLooks, CallReturns DEF Read
<1> QED BY <1>1, <1>2, <1>3, <1>4, <1>5, <1>6, <1>7, <1>8 DEF ShallowNext

LEMMA ReadInvariantHolds == ShallowSpec => []ReadInvariant
<1>1. ShallowInit => ReadInvariant
  BY ReadInvariantStarts
<1>2. ReadInvariant /\ [ShallowNext]_shallowVars => ReadInvariant'
  BY ReadInvariantKept
<1> QED BY <1>1, <1>2, PTL DEF ShallowSpec

\* What a read returns, update by update and block by block.
LEMMA ReturnedStand ==
    ASSUME ReadInvariant, NEW u \in ValidUpdates(call.raw)
    PROVE  /\ u \in call.raw /\ UpdateShape(u) /\ MemoOf(u).op \in DataOps
           /\ DeepEnough(u[1], call.tip, AtLeast(client.confs, 1))
           /\ Settled(client.confs) =>
                /\ Final(u[1], call.tip) /\ chain[u[1]] = u[2] /\ call.from =< u[1]
                /\ u[1] + client.confs =< call.tip + 1 /\ u[1] \in Nat /\ u[2] \in Tx
<1>1. /\ u \in call.raw /\ MemoOf(u).op \in DataOps /\ UpdateShape(u)
      /\ DeepEnough(u[1], call.tip, AtLeast(client.confs, 1))
      /\ call.tip \in Nat /\ client.confs \in Nat /\ u[1] \in Nat /\ u[2] \in Tx
  BY DEF ReadInvariant, CallShape, ClientShape, ValidUpdates, Updates, Deep, Confirmations,
         DeepEnough, UpdateShape
<1>2. ASSUME Settled(client.confs)
      PROVE  /\ Final(u[1], call.tip) /\ chain[u[1]] = u[2] /\ call.from =< u[1]
             /\ u[1] + client.confs =< call.tip + 1
  <2>1. AtLeast(client.confs, 1) = client.confs
    BY <1>1, <1>2, Bounds DEF Settled, AtLeast
  <2>2. Final(u[1], call.tip) /\ chain[u[1]] = u[2] /\ call.from =< u[1]
    BY <1>1, <1>2, <2>1 DEF ReadInvariant, Gathered, RawStands, Standing
  <2>3. u[1] + client.confs =< call.tip + 1
    BY <1>1, <2>1, <2>2, Bounds DEF DeepEnough, Minus, Final
  <2> QED BY <2>2, <2>3
<1> QED BY <1>1, <1>2

LEMMA NothingIsDropped ==
    ASSUME ReadInvariant, call.pc = "done", NEW h \in Nat, h >= call.from,
           Final(h, call.tip), h + client.confs =< call.tip + 1, chain[h] # 0
    PROVE  Updates(Hits(chain[h], h)) \subseteq ValidUpdates(call.raw)
<1>1. Hits(chain[h], h) \subseteq call.raw
  <2>1. Listed(h) /\ call.hits = {}
    BY DEF ReadInvariant, CallShape, Gathered, Placed, Listed, Final
  <2> QED BY <2>1 DEF ReadInvariant, Gathered, NothingLeftOut
<1>2. call.tip \in Nat /\ client.confs \in Nat /\ h >= 1 /\ h <= call.tip
  BY DEF ReadInvariant, CallShape, ClientShape, Final
<1>3. Minus(call.tip, h) + 1 >= AtLeast(client.confs, 1)
  BY <1>2 DEF Minus, AtLeast
<1>4. \A u \in Hits(chain[h], h) : u[1] = h
  BY DEF Hits
<1> QED BY <1>1, <1>3, <1>4 DEF ValidUpdates, Updates, Deep, Confirmations

LEMMA ReadIsExact ==
    ASSUME ReadInvariant
    PROVE  ReadCoversItsRange
<1> SUFFICES ASSUME call.pc = "done", Settled(client.confs)
             PROVE  ValidUpdates(call.raw) = ChainUpdates(call.from, call.tip, client.confs)
  BY DEF ReadCoversItsRange
<1>1. PICK tip, from, confs : tip = call.tip /\ from = call.from /\ confs = client.confs
  OBVIOUS
<1>2. /\ tip \in Nat /\ from \in Nat /\ from >= Birthday /\ confs \in Nat /\ tip <= Len(chain)
      /\ Len(chain) \in Nat /\ DOMAIN chain = 1..Len(chain)
      /\ \A h \in DOMAIN chain : chain[h] \in Tx \cup {0}
  BY <1>1, ChainNumbers DEF ReadInvariant, CallShape, ClientShape
<1>3. ASSUME NEW u \in ValidUpdates(call.raw) PROVE u \in ChainUpdates(from, tip, confs)
  <2>1. /\ UpdateShape(u) /\ MemoOf(u).op \in DataOps
        /\ Final(u[1], tip) /\ chain[u[1]] = u[2] /\ from =< u[1]
        /\ u[1] + confs =< tip + 1 /\ u[1] \in Nat /\ u[2] \in Tx
    BY <1>1, ReturnedStand
  <2>2. u[1] \in (from..tip) \cap DOMAIN chain /\ chain[u[1]] # 0
    BY <1>2, <2>1, TxAssumption DEF Final
  <2>3. u \in Hits(chain[u[1]], u[1])
    BY <2>1 DEF Hits, UpdateShape
  <2>4. Minus(tip, u[1]) + 1 >= confs
    BY <1>2, <2>1 DEF Minus, Final
  <2> QED BY <2>1, <2>2, <2>3, <2>4 DEF ChainUpdates, Updates, Deep, Confirmations
<1>4. ASSUME NEW u \in ChainUpdates(from, tip, confs) PROVE u \in ValidUpdates(call.raw)
  <2>1. PICK h \in (from..tip) \cap DOMAIN chain : chain[h] # 0 /\ u \in Hits(chain[h], h)
    BY DEF ChainUpdates, Updates, Deep
  <2>2. MemoOf(u).op \in DataOps /\ Minus(tip, u[1]) + 1 >= confs
    BY DEF ChainUpdates, Updates, Deep, Confirmations
  <2>3. u[1] = h /\ h \in Nat
    BY <1>2, <2>1 DEF Hits
  <2>4. Final(h, tip) /\ h + confs =< tip + 1 /\ h >= from
    BY <1>1, <1>2, <2>1, <2>2, <2>3, Bounds DEF Final, Minus, Settled
  <2>5. Updates(Hits(chain[h], h)) \subseteq ValidUpdates(call.raw)
    BY <1>1, <2>1, <2>3, <2>4, NothingIsDropped
  <2> QED BY <2>1, <2>2, <2>5 DEF Updates
<1> QED BY <1>1, <1>3, <1>4

LEMMA AnchorsAreFirst ==
    ASSUME ReadInvariant
    PROVE  AnchorStands
<1>1. Len(chain) \in Nat /\ DOMAIN chain = 1..Len(chain)
  BY ChainNumbers DEF ReadInvariant
<1>2. ASSUME NEW a, AnchorHolds(a), a # NoAnchor, Settled(a.confs)
      PROVE  /\ a.at[1] \in DOMAIN chain /\ chain[a.at[1]] = a.at[2]
             /\ RootInits({a.at}) # {}
             /\ \A h \in Birthday..(a.at[1] - 1) :
                    chain[h] # 0 => RootInits(Hits(chain[h], h)) = {}
  <2>1. /\ Final(a.at[1], Len(chain)) /\ chain[a.at[1]] = a.at[2]
        /\ RootInits({a.at}) # {}
        /\ \A h \in Nat : Birthday =< h /\ h < a.at[1] /\ chain[h] # 0 => NoInitAt(h)
    BY <1>2 DEF AnchorHolds
  <2>2. a.at[1] \in DOMAIN chain /\ a.at[1] \in Nat
    BY <1>1, <2>1 DEF Final
  <2>3. \A h \in Birthday..(a.at[1] - 1) : h \in Nat /\ Birthday =< h /\ h < a.at[1]
    BY <2>2, Bounds
  <2> QED BY <2>1, <2>2, <2>3 DEF NoInitAt
<1> QED BY <1>2 DEF ReadInvariant, AnchorsHold, AnchorStands

-----------------------------------------------------------------------------
(* What `follow` printed, and what it remembers of it.                      *)

\* What a read of the cursor's kind was asked for.
FollowCall ==
    call.pc # "idle" =>
        /\ call.op = "poll" =>
             /\ client.cursor # NoCursor /\ client.cursor.height < call.tip
             /\ call.from = PollFrom(client.cursor.height, client.confs)
        /\ call.op = "scan" =>
             /\ client.cursor = NoCursor /\ Birthday =< call.tip
             /\ call.from = WindowFloor(call.tip)

\* Before the first scan nothing is printed; then the cursor is behind the tip.
FollowShape ==
    /\ emitted \in Seq(Nat \X Tx \X Nat)
    /\ client.cursor = NoCursor => emitted = << >>
    /\ client.cursor # NoCursor =>
         /\ client.cursor.height \in 1..Len(chain)
         /\ client.since \in Nat /\ client.since >= Birthday

Wanted(updates) == Matching(Verified(updates))

\* What the cursor remembers was printed, or superseded in the first scan.
RecentReported ==
    client.cursor # NoCursor => \A u \in Wanted(client.cursor.recent) : Reported(u)

\* So were the writes of every block behind the margin.
NothingMissed ==
    client.cursor # NoCursor /\ ReorgDepth =< Margin(client.confs) =>
        \A h \in Nat :
            client.since =< h /\ h + Margin(client.confs) =< client.cursor.height /\ chain[h] # 0 =>
                \A u \in Wanted(Updates(Hits(chain[h], h))) : Reported(u)

\* What was printed was deep enough at the cursor, and is there.
Printed(u) ==
    /\ Final(u[1], client.cursor.height) /\ chain[u[1]] = u[2]
    /\ MemoOf(u).signer \in {Root} \cup ExtraSigners
    /\ u[1] + client.confs =< client.cursor.height + 1
EmittedPrinted == Settled(client.confs) => \A i \in DOMAIN emitted : Printed(emitted[i])

EmittedSorted ==
    Settled(client.confs) =>
        \A i, j \in DOMAIN emitted : i < j => Before(emitted[i], emitted[j])

\* The next poll reads again only what the cursor remembers, and blocks that were not
\* deep enough yet: or nothing was printed so far.
Remembered(h) == Updates(Hits(chain[h], h)) \subseteq client.cursor.recent
RecentComplete ==
    client.cursor # NoCursor /\ Settled(client.confs) =>
        \/ emitted = << >>
        \/ \A h \in Nat :
             /\ h > client.cursor.height - Margin(client.confs) /\ h >= Birthday
             /\ h + client.confs =< client.cursor.height + 1 /\ chain[h] # 0
             => Remembered(h)

FollowState == FollowShape /\ RecentReported /\ NothingMissed /\ EmittedPrinted /\ EmittedSorted
               /\ RecentComplete

LEMMA SeqWiden ==
    ASSUME NEW S, NEW R, S \subseteq R, NEW s \in Seq(S)
    PROVE  s \in Seq(R) /\ \A i \in DOMAIN s : s[i] \in S
OBVIOUS

LEMMA AppendFacts ==
    ASSUME NEW R, NEW a \in Seq(R), NEW b \in Seq(R)
    PROVE  /\ a \o b \in Seq(R)
           /\ DOMAIN a \subseteq DOMAIN (a \o b)
           /\ \A i \in DOMAIN a : (a \o b)[i] = a[i]
           /\ \A j \in DOMAIN b : Len(a) + j \in DOMAIN (a \o b) /\ (a \o b)[Len(a) + j] = b[j]
           /\ \A k \in DOMAIN (a \o b) :
                 \/ k \in DOMAIN a
                 \/ k - Len(a) \in DOMAIN b /\ (a \o b)[k] = b[k - Len(a)] /\ \A i \in DOMAIN a : i < k
<1>1. /\ a \o b \in Seq(R) /\ Len(a \o b) = Len(a) + Len(b)
      /\ \A i \in 1..Len(a) : (a \o b)[i] = a[i]
      /\ \A i \in 1..Len(b) : (a \o b)[Len(a) + i] = b[i]
  BY ConcatFacts
<1>2. /\ Len(a) \in Nat /\ Len(b) \in Nat /\ DOMAIN a = 1..Len(a) /\ DOMAIN b = 1..Len(b)
      /\ DOMAIN (a \o b) = 1..(Len(a) + Len(b))
  BY <1>1
<1>3. ASSUME NEW k \in DOMAIN (a \o b), k \notin DOMAIN a
      PROVE  k - Len(a) \in DOMAIN b /\ (a \o b)[k] = b[k - Len(a)] /\ \A i \in DOMAIN a : i < k
  <2>1. k \in Nat /\ k - Len(a) \in 1..Len(b) /\ Len(a) + (k - Len(a)) = k /\ k > Len(a)
    BY <1>2, <1>3
  <2>2. (a \o b)[k] = b[k - Len(a)]
    BY <1>1, <2>1
  <2> QED BY <1>2, <2>1, <2>2
<1>4. ASSUME NEW j \in DOMAIN b
      PROVE  Len(a) + j \in DOMAIN (a \o b) /\ (a \o b)[Len(a) + j] = b[j]
  BY <1>1, <1>2
<1>5. DOMAIN a \subseteq DOMAIN (a \o b)
  BY <1>2
<1> QED BY <1>1, <1>2, <1>3, <1>4, <1>5

\* The chain's settled part is all that what was printed depends on.
LEMMA ChainKeepsFollow ==
    ASSUME ReadInvariant, FollowState, ChainStands, UNCHANGED emitted,
           client'.cursor = client.cursor, client'.confs = client.confs,
           client'.since = client.since, client'.first = client.first
    PROVE  FollowState'
<1> SUFFICES ASSUME client.cursor # NoCursor PROVE FollowState'
  <2>1. CASE client.cursor = NoCursor
    <3>1. emitted = << >> /\ emitted' = << >> /\ client'.cursor = NoCursor
      BY <2>1 DEF FollowState, FollowShape
    <3>2. FollowShape'
      BY <3>1 DEF FollowShape
    <3>3. DOMAIN emitted' = {}
      BY <3>1
    <3>4. RecentReported' /\ NothingMissed' /\ EmittedPrinted' /\ EmittedSorted' /\ RecentComplete'
      BY <3>1, <3>3 DEF RecentReported, NothingMissed, EmittedPrinted, EmittedSorted, RecentComplete
    <3> QED BY <3>2, <3>4 DEF FollowState
  <2> QED BY <2>1
<1>1. /\ FollowShape /\ RecentReported /\ NothingMissed /\ EmittedPrinted /\ EmittedSorted
      /\ RecentComplete
  BY DEF FollowState
<1>2. PICK height, confs : height = client.cursor.height /\ confs = client.confs
  OBVIOUS
<1>3. /\ Len(chain) \in Nat /\ Len(chain') \in Nat /\ Len(chain) <= Len(chain')
      /\ height \in Nat /\ height >= 1 /\ height <= Len(chain) /\ confs \in Nat
  BY <1>1, <1>2 DEF ChainStands, ChainTyped, FollowShape, ReadInvariant, ClientShape
<1>4. \A h : Final(h, height) => chain'[h] = chain[h]
  BY <1>3, FinalStands
<1>5. FollowShape'
  BY <1>1, <1>2, <1>3 DEF FollowShape
<1>6. \A u : Reported(u) => Reported(u)'
  BY DEF Reported
<1>7. RecentReported'
  BY <1>1, <1>6 DEF RecentReported
<1>8. NothingMissed'
  <2> SUFFICES ASSUME ReorgDepth =< Margin(confs), NEW h \in Nat, client.since =< h,
                      h + Margin(confs) =< height, chain'[h] # 0,
                      NEW u \in Wanted(Updates(Hits(chain'[h], h)))
               PROVE  Reported(u)
    BY <1>2, <1>6 DEF NothingMissed
  <2>1. Margin(confs) \in Nat
    BY <1>3, Bounds DEF Margin, AtLeast
  <2>0. client.since \in Nat /\ client.since >= Birthday
    BY <1>1 DEF FollowShape
  <2>2. Final(h, height)
    BY <1>3, <2>0, <2>1, Bounds DEF Final
  <2>3. chain'[h] = chain[h]
    BY <1>4, <2>2
  <2> QED BY <1>1, <1>2, <2>3 DEF NothingMissed
<1>9. EmittedPrinted'
  <2>1. \A u : Printed(u) => Printed(u)'
    BY <1>2, <1>4 DEF Printed, Final
  <2> QED BY <1>1, <2>1 DEF EmittedPrinted
<1>10. EmittedSorted'
  BY <1>1 DEF EmittedSorted
<1>11. RecentComplete'
  <2> SUFFICES ASSUME Settled(confs), emitted # << >>, NEW h \in Nat, h > height - Margin(confs),
                      h >= Birthday, h + confs =< height + 1, chain'[h] # 0
               PROVE  Remembered(h)'
    BY <1>2 DEF RecentComplete
  <2>1. Final(h, height)
    BY <1>3, Bounds DEF Final, Settled
  <2>2. chain'[h] = chain[h]
    BY <1>4, <2>1
  <2>3. Remembered(h)
    BY <1>1, <1>2, <2>2 DEF RecentComplete
  <2> QED BY <2>2, <2>3 DEF Remembered
<1> QED BY <1>5, <1>7, <1>8, <1>9, <1>10, <1>11 DEF FollowState

\* A call is under way, another is begun, or none is: what was asked for stays.
LEMMA FollowCallStays ==
    ASSUME FollowCall, client'.cursor = client.cursor, client'.confs = client.confs,
           \/ call'.pc = "idle"
           \/ call'.pc # "idle" /\ call'.op = "find"
           \/ /\ call.pc # "idle"
              /\ call'.op = call.op /\ call'.from = call.from /\ call'.tip = call.tip
    PROVE  FollowCall'
BY DEF FollowCall

\* A set of updates a read returned, listed.
LEMMA ListFacts ==
    ASSUME ReadInvariant, NEW S, S \subseteq ValidUpdates(call.raw)
    PROVE  /\ InOrder(S) \in Seq(Nat \X Tx \X Nat)
           /\ \A i \in DOMAIN InOrder(S) : InOrder(S)[i] \in S
           /\ \A u \in S : \E i \in DOMAIN InOrder(S) : InOrder(S)[i] = u
           /\ \A i, j \in DOMAIN InOrder(S) : i < j => Before(InOrder(S)[i], InOrder(S)[j])
           /\ S = {} => InOrder(S) = << >>
<1>1. /\ S \subseteq call.raw /\ IsFiniteSet(S) /\ \A u \in S : UpdateShape(u)
  <2>1. IsFiniteSet(call.raw) /\ ValidUpdates(call.raw) \subseteq call.raw
    BY DEF ReadInvariant, CallShape, ValidUpdates, Updates, Deep
  <2>2. IsFiniteSet(S)
    BY <2>1, FS_Subset
  <2> QED BY <2>1, <2>2, ReturnedStand
<1>2. /\ InOrder(S) \in Seq(S)
      /\ \A u \in S : \E i \in DOMAIN InOrder(S) : InOrder(S)[i] = u
      /\ \A i, j \in DOMAIN InOrder(S) : i < j => Before(InOrder(S)[i], InOrder(S)[j])
  BY <1>1, InOrderFacts
<1>3. S \subseteq Nat \X Tx \X Nat
  <2>1. ASSUME NEW u \in S PROVE u \in Nat \X Tx \X Nat
    <3>1. u = <<u[1], u[2], u[3]>> /\ u[1] \in Nat /\ u[2] \in Tx /\ u[3] \in Nat
      BY <1>1, OutputsAreNumbers DEF UpdateShape
    <3> QED BY <3>1
  <2> QED BY <2>1
<1>4. InOrder(S) \in Seq(Nat \X Tx \X Nat) /\ \A i \in DOMAIN InOrder(S) : InOrder(S)[i] \in S
  BY <1>2, <1>3, SeqWiden
<1>5. ASSUME S = {} PROVE InOrder(S) = << >>
  <2>1. Cardinality(S) = 0
    BY <1>5, FS_EmptySet
  <2> QED BY <2>1 DEF InOrder
<1> QED BY <1>2, <1>4, <1>5

\* The cursor a read leaves behind remembers all it should.
LEMMA CursorRemembers ==
    ASSUME ReadInvariant, call.pc = "done", Settled(client.confs),
           NEW h \in Nat, h >= call.from, h > call.tip - Margin(client.confs),
           h >= Birthday, h + client.confs =< call.tip + 1, chain[h] # 0
    PROVE  Updates(Hits(chain[h], h)) \subseteq NewCursor.recent
<1>1. call.tip \in Nat /\ client.confs \in Nat /\ Margin(client.confs) \in Nat
  BY Bounds DEF ReadInvariant, CallShape, ClientShape, Margin, AtLeast
<1>2. Final(h, call.tip)
  BY <1>1, Bounds DEF Final, Settled
<1>3. Updates(Hits(chain[h], h)) \subseteq ValidUpdates(call.raw)
  BY <1>2, NothingIsDropped
<1>4. \A u \in Updates(Hits(chain[h], h)) : u[1] = h
  BY DEF Updates, Hits
<1>5. h > Minus(call.tip, Margin(client.confs))
  BY <1>1, Bounds DEF Minus
<1> QED BY <1>3, <1>4, <1>5 DEF NewCursor, Recent, ValidUpdates

LEMMA WantedGrows ==
    ASSUME NEW S, NEW T, S \subseteq T
    PROVE  Wanted(S) \subseteq Wanted(T)
BY DEF Wanted, Matching, Verified

LEMMA MarginIs ==
    ASSUME ReadInvariant
    PROVE  /\ Margin(client.confs) \in Nat /\ client.confs \in Nat
           /\ Margin(client.confs) >= client.confs
           /\ Margin(client.confs) \in {client.confs, ReorgMargin}
           /\ call.tip \in Nat /\ call.from \in Nat
BY Bounds DEF ReadInvariant, CallShape, ClientShape, Margin, AtLeast

\* What both kinds of read make of a block that has left the margin.
LEMMA BehindMargin ==
    ASSUME ReadInvariant, call.pc = "done", ReorgDepth =< Margin(client.confs),
           NEW h \in Nat, h >= call.from, h >= 1, h + Margin(client.confs) =< call.tip, chain[h] # 0
    PROVE  Wanted(Updates(Hits(chain[h], h))) \subseteq Wanted(ValidUpdates(call.raw))
<1>1. Final(h, call.tip) /\ h + client.confs =< call.tip + 1
  BY MarginIs, Bounds DEF Final
<1>2. Updates(Hits(chain[h], h)) \subseteq ValidUpdates(call.raw)
  BY <1>1, NothingIsDropped
<1> QED BY <1>2, WantedGrows

\* What a read returns and prints stands at the new cursor.
LEMMA ReturnedPrinted ==
    ASSUME ReadInvariant, Settled(client.confs), NEW u \in Verified(ValidUpdates(call.raw)),
           UNCHANGED chain, client'.cursor = NewCursor, client'.confs = client.confs
    PROVE  Printed(u)'
<1>1. u \in ValidUpdates(call.raw) /\ MemoOf(u).signer \in {Root} \cup ExtraSigners
  BY DEF Verified
<1>2. Final(u[1], call.tip) /\ chain[u[1]] = u[2] /\ u[1] + client.confs =< call.tip + 1
  BY <1>1, ReturnedStand
<1> QED BY <1>1, <1>2 DEF Printed, NewCursor, Final

\* A scan starts the list over.
LEMMA ScanPrints ==
    ASSUME ReadInvariant, FollowCall, Return, call.op = "scan", Depth >= ReorgMargin
    PROVE  FollowState'
<1> DEFINE updates == ValidUpdates(call.raw)
           values   == Matching(Latest(updates))
<1>1. /\ UNCHANGED chain /\ emitted' = InOrder(values)
      /\ client' = [client EXCEPT !.cursor = NewCursor, !.since = call.from,
                                  !.first = Verified(updates)]
  BY ClientAfterReturn
<1>2. /\ client'.cursor = NewCursor /\ client'.since = call.from
      /\ client'.first = Verified(updates) /\ client'.confs = client.confs
  BY <1>1 DEF ReadInvariant, ClientShape
<1>3. call.pc = "done" /\ call.from = WindowFloor(call.tip) /\ Birthday =< call.tip
  BY ClientAfterReturn DEF FollowCall
<1>4. PICK tip, confs, margin, from :
          tip = call.tip /\ confs = client.confs /\ margin = Margin(client.confs) /\ from = call.from
  OBVIOUS
<1>5. /\ tip \in Nat /\ confs \in Nat /\ margin \in Nat /\ from \in Nat /\ from >= Birthday
      /\ margin >= confs /\ margin \in {confs, ReorgMargin} /\ tip >= 1 /\ tip <= Len(chain)
      /\ \A h \in Nat : h >= Birthday /\ h > tip - Depth => h >= from
      /\ from > tip - Depth
  <2>1. /\ tip \in Nat /\ confs \in Nat /\ margin \in Nat /\ margin >= confs
        /\ margin \in {confs, ReorgMargin} /\ tip >= 1 /\ tip <= Len(chain)
    BY <1>3, <1>4, MarginIs, Bounds DEF ReadInvariant, CallShape
  <2>2. from = IF Birthday >= Minus(tip, Depth - 1) THEN Birthday ELSE Minus(tip, Depth - 1)
    BY <1>3, <1>4 DEF WindowFloor, AtLeast
  <2>3. /\ Minus(tip, Depth - 1) \in Nat /\ Minus(tip, Depth - 1) > tip - Depth
        /\ Minus(tip, Depth - 1) = 0 \/ Minus(tip, Depth - 1) = tip - Depth + 1
    BY <2>1, Bounds DEF Minus
  <2> QED BY <2>1, <2>2, <2>3, Bounds
<1>6. values \subseteq updates /\ \A u \in values : u \in Verified(updates)
  BY DEF Matching, Latest, Verified
<1> HIDE DEF updates, values
<1>7. updates = ValidUpdates(call.raw) /\ Wanted(updates) \subseteq Verified(updates)
  BY DEF updates, Wanted, Matching
<1>8. /\ emitted' \in Seq(Nat \X Tx \X Nat)
      /\ \A i \in DOMAIN emitted' : emitted'[i] \in values
      /\ \A i, j \in DOMAIN emitted' : i < j => Before(emitted'[i], emitted'[j])
      /\ values = {} => emitted' = << >>
  BY <1>1, <1>6, <1>7, ListFacts
<1>9. \A u \in Wanted(updates) : Reported(u)'
  BY <1>2, <1>7 DEF Reported
<1>10. FollowShape'
  <2>1. NewCursor.height = tip /\ NewCursor # NoCursor
    BY <1>4, <1>5 DEF NewCursor, NoCursor
  <2>2. NewCursor.height \in 1..Len(chain')
    BY <1>1, <1>5, <2>1, ChainNumbers DEF ReadInvariant
  <2> QED BY <1>2, <1>4, <1>5, <1>8, <2>1, <2>2 DEF FollowShape
<1>11. RecentReported'
  <2>1. NewCursor.recent \subseteq updates
    BY <1>7 DEF NewCursor, Recent, ValidUpdates
  <2>2. Wanted(NewCursor.recent) \subseteq Wanted(updates)
    BY <2>1, WantedGrows
  <2> QED BY <1>2, <1>9, <2>2 DEF RecentReported
<1>12. NothingMissed'
  <2> SUFFICES ASSUME ReorgDepth =< margin, NEW h \in Nat, from =< h, h + margin =< tip,
                      chain[h] # 0, NEW u \in Wanted(Updates(Hits(chain[h], h)))
               PROVE  Reported(u)'
    BY <1>1, <1>2, <1>4 DEF NothingMissed, NewCursor
  <2>1. h >= 1
    BY <1>5, Bounds
  <2>2. u \in Wanted(updates)
    BY <1>3, <1>4, <1>7, <2>1, BehindMargin
  <2> QED BY <1>9, <2>2
<1>13. EmittedPrinted'
  <2>1. PICK now : now = emitted'
    OBVIOUS
  <2>2. ASSUME Settled(client.confs), NEW i \in DOMAIN now PROVE Printed(now[i])'
    <3>1. now[i] \in Verified(ValidUpdates(call.raw))
      BY <1>6, <1>7, <1>8, <2>1
    <3> QED BY <1>1, <1>2, <2>2, <3>1, ReturnedPrinted
  <2>3. EmittedPrinted' <=> (Settled(client.confs)' => \A i \in DOMAIN now : Printed(now[i])')
    BY <2>1 DEF EmittedPrinted
  <2> QED BY <1>2, <2>2, <2>3
<1>14. EmittedSorted'
  BY <1>8 DEF EmittedSorted
<1>15. RecentComplete'
  <2>1. CASE margin =< Depth
    <3> SUFFICES ASSUME Settled(client.confs), NEW h \in Nat, h > tip - margin, h >= Birthday,
                        h + confs =< tip + 1, chain[h] # 0
                 PROVE  Updates(Hits(chain[h], h)) \subseteq NewCursor.recent
      BY <1>1, <1>2, <1>4 DEF RecentComplete, Remembered, NewCursor
    <3>1. h >= from
      BY <1>5, <2>1, Bounds
    <3> QED BY <1>3, <1>4, <3>1, CursorRemembers
  <2>2. CASE ~(margin =< Depth) /\ Settled(client.confs)
    <3>1. confs > Depth
      BY <1>5, <2>2, Bounds
    <3>2. ASSUME NEW u \in updates PROVE FALSE
      <4>1. from =< u[1] /\ u[1] + confs =< tip + 1 /\ u[1] \in Nat
        BY <1>4, <1>7, <2>2, ReturnedStand
      <4> QED BY <1>5, <3>1, <4>1, Bounds
    <3>3. emitted' = << >>
      BY <1>6, <1>8, <3>2
    <3> QED BY <3>3 DEF RecentComplete
  <2>3. CASE ~Settled(client.confs)
    BY <1>2, <2>3 DEF RecentComplete
  <2> QED BY <2>1, <2>2, <2>3
<1> QED BY <1>10, <1>11, <1>12, <1>13, <1>14, <1>15 DEF FollowState

\* A poll adds to it what the cursor does not remember.
LEMMA PollPrints ==
    ASSUME ReadInvariant, FollowCall, FollowState, Return, call.op = "poll"
    PROVE  FollowState'
<1> DEFINE updates == ValidUpdates(call.raw)
           news   == Matching(Verified(Fresh(updates)))
           list    == InOrder(news)
<1>1. /\ UNCHANGED chain /\ emitted' = emitted \o list
      /\ client' = [client EXCEPT !.cursor = NewCursor]
  BY ClientAfterReturn
<1>2. /\ client'.cursor = NewCursor /\ client'.since = client.since
      /\ client'.first = client.first /\ client'.confs = client.confs
  BY <1>1 DEF ReadInvariant, ClientShape
<1>3. /\ call.pc = "done" /\ client.cursor # NoCursor /\ client.cursor.height < call.tip
      /\ call.from = PollFrom(client.cursor.height, client.confs)
  BY ClientAfterReturn DEF FollowCall
<1>4. PICK tip, old, confs, margin, from :
          /\ tip = call.tip /\ confs = client.confs /\ margin = Margin(client.confs)
          /\ from = call.from /\ old = client.cursor.height
  OBVIOUS
<1>5. /\ FollowShape /\ RecentReported /\ NothingMissed /\ EmittedPrinted /\ EmittedSorted
      /\ RecentComplete
  BY DEF FollowState
<1>6. /\ tip \in Nat /\ confs \in Nat /\ margin \in Nat /\ from \in Nat /\ old \in Nat
      /\ margin >= confs /\ old < tip /\ tip <= Len(chain) /\ old >= 1
      /\ \A h \in Nat : h >= Birthday /\ h > old - margin <=> h >= from
  <2>1. /\ tip \in Nat /\ confs \in Nat /\ margin \in Nat /\ margin >= confs /\ from \in Nat
        /\ tip <= Len(chain) /\ old < tip
    BY <1>3, <1>4, MarginIs DEF ReadInvariant, CallShape
  <2>2. old \in Nat /\ old >= 1
    BY <1>3, <1>4, <1>5, ChainNumbers DEF FollowShape, ReadInvariant
  <2>3. from = IF Minus(old, margin) + 1 >= Birthday THEN Minus(old, margin) + 1 ELSE Birthday
    BY <1>3, <1>4 DEF PollFrom, AtLeast
  <2>4. /\ Minus(old, margin) \in Nat
        /\ Minus(old, margin) = old - margin \/ (Minus(old, margin) = 0 /\ old < margin)
    BY <2>1, <2>2 DEF Minus
  <2> QED BY <2>1, <2>2, <2>3, <2>4, Bounds
<1>7. /\ news \subseteq updates /\ news \subseteq Verified(updates)
      /\ \A u \in news : u \notin client.cursor.recent
      /\ \A u \in Wanted(updates) : u \in news \/ u \in Wanted(client.cursor.recent)
  BY DEF Matching, Verified, Fresh, Wanted
<1> HIDE DEF updates, news
<1>8. updates = ValidUpdates(call.raw)
  BY DEF updates
<1>9. /\ list \in Seq(Nat \X Tx \X Nat)
      /\ \A i \in DOMAIN list : list[i] \in news
      /\ \A u \in news : \E i \in DOMAIN list : list[i] = u
      /\ \A i, j \in DOMAIN list : i < j => Before(list[i], list[j])
  BY <1>7, <1>8, ListFacts
<1> HIDE DEF list
<1>10. PICK was : was = emitted
  OBVIOUS
<1>11. /\ emitted' \in Seq(Nat \X Tx \X Nat)
       /\ \A i \in DOMAIN was : i \in DOMAIN emitted' /\ emitted'[i] = was[i]
       /\ \A j \in DOMAIN list : Len(was) + j \in DOMAIN emitted' /\ emitted'[Len(was) + j] = list[j]
       /\ \A k \in DOMAIN emitted' :
             \/ k \in DOMAIN was
             \/ /\ k - Len(was) \in DOMAIN list /\ emitted'[k] = list[k - Len(was)]
                /\ \A i \in DOMAIN was : i < k
  <2>1. was \in Seq(Nat \X Tx \X Nat) /\ emitted' = was \o list
    BY <1>1, <1>5, <1>10 DEF FollowShape
  <2>2. PICK now : now = was \o list
    OBVIOUS
  <2>3. /\ now \in Seq(Nat \X Tx \X Nat) /\ DOMAIN was \subseteq DOMAIN now
        /\ \A i \in DOMAIN was : now[i] = was[i]
        /\ \A j \in DOMAIN list : Len(was) + j \in DOMAIN now /\ now[Len(was) + j] = list[j]
        /\ \A k \in DOMAIN now :
              \/ k \in DOMAIN was
              \/ /\ k - Len(was) \in DOMAIN list /\ now[k] = list[k - Len(was)]
                 /\ \A i \in DOMAIN was : i < k
    <3>1. PICK R, added : R = Nat \X Tx \X Nat /\ added = list
      OBVIOUS
    <3>2. was \in Seq(R) /\ added \in Seq(R) /\ now = was \o added
      BY <1>9, <2>1, <2>2, <3>1
    <3> QED BY ONLY <3>1, <3>2, AppendFacts
  <2> QED BY <2>1, <2>2, <2>3
<1>12. \A u : Reported(u) => Reported(u)'
  BY <1>2, <1>10, <1>11 DEF Reported
<1>13. \A u \in Wanted(updates) : Reported(u)'
  <2>1. ASSUME NEW u \in news PROVE Reported(u)'
    <3>1. PICK i \in DOMAIN list : list[i] = u
      BY <1>9
    <3>2. Len(was) + i \in DOMAIN emitted' /\ emitted'[Len(was) + i] = u
      BY <1>11, <3>1
    <3> QED BY <3>2 DEF Reported
  <2>2. \A u \in Wanted(client.cursor.recent) : Reported(u)
    BY <1>3, <1>5 DEF RecentReported
  <2> QED BY <1>7, <1>12, <2>1, <2>2
<1>14. FollowShape'
  <2>1. NewCursor.height = tip /\ NewCursor # NoCursor
    BY <1>4, <1>6 DEF NewCursor, NoCursor
  <2>2. NewCursor.height \in 1..Len(chain')
    BY <1>1, <1>6, <2>1, ChainNumbers DEF ReadInvariant
  <2>3. client.since \in Nat /\ client.since >= Birthday
    BY <1>3, <1>5 DEF FollowShape
  <2> QED BY <1>2, <1>11, <2>1, <2>2, <2>3 DEF FollowShape
<1>15. RecentReported'
  <2>1. NewCursor.recent \subseteq updates
    BY <1>8 DEF NewCursor, Recent, ValidUpdates
  <2>2. Wanted(NewCursor.recent) \subseteq Wanted(updates)
    BY <2>1, WantedGrows
  <2> QED BY <1>2, <1>13, <2>2 DEF RecentReported
<1>16. NothingMissed'
  <2> SUFFICES ASSUME ReorgDepth =< margin, NEW h \in Nat, client.since =< h, h + margin =< tip,
                      chain[h] # 0, NEW u \in Wanted(Updates(Hits(chain[h], h)))
               PROVE  Reported(u)'
    BY <1>1, <1>2, <1>4 DEF NothingMissed, NewCursor
  <2>1. client.since \in Nat /\ client.since >= Birthday
    BY <1>3, <1>5 DEF FollowShape
  <2>2. CASE h + margin =< old
    <3>1. Reported(u)
      BY <1>3, <1>4, <1>5, <2>2 DEF NothingMissed
    <3> QED BY <1>12, <3>1
  <2>3. CASE ~(h + margin =< old)
    <3>1. h >= from /\ h >= 1
      <4>1. old \in Nat /\ margin \in Nat /\ Birthday \in Nat \ {0}
        BY <1>6, Bounds
      <4>2. h > old - margin /\ h >= Birthday /\ h >= 1
        BY ONLY <2>1, <2>3, <4>1, client.since =< h, h \in Nat
      <4> QED BY <1>6, <4>2
    <3>2. u \in Wanted(updates)
      BY <1>3, <1>4, <1>8, <3>1, BehindMargin
    <3> QED BY <1>13, <3>2
  <2> QED BY <2>2, <2>3
<1>17. EmittedPrinted'
  <2>a. PICK now : now = emitted'
    OBVIOUS
  <2>b. EmittedPrinted' <=> (Settled(client.confs)' => \A i \in DOMAIN now : Printed(now[i])')
    BY <2>a DEF EmittedPrinted
  <2> SUFFICES ASSUME Settled(client.confs), NEW i \in DOMAIN now PROVE Printed(now[i])'
    BY <1>2, <2>b
  <2>1. PICK u : u = now[i]
    OBVIOUS
  <2>2. CASE i \in DOMAIN was
    <3>1. Printed(u)
      BY <1>5, <1>10, <1>11, <2>a, <2>1, <2>2 DEF EmittedPrinted
    <3>2. Final(u[1], tip) /\ u[1] + confs =< tip + 1
      <4>1. Final(u[1], old) /\ u[1] + confs =< old + 1
        BY <1>4, <3>1 DEF Printed
      <4> QED BY <1>6, <4>1, Bounds DEF Final
    <3>3. Printed(u)'
      BY <1>1, <1>2, <1>4, <3>1, <3>2 DEF Printed, NewCursor, Final
    <3> QED BY <2>1, <3>3
  <2>3. CASE i \notin DOMAIN was
    <3>1. u \in Verified(ValidUpdates(call.raw))
      BY <1>7, <1>8, <1>9, <1>11, <2>a, <2>1, <2>3
    <3>2. Printed(u)'
      BY <1>1, <1>2, <3>1, ReturnedPrinted
    <3> QED BY <2>1, <3>2
  <2> QED BY <2>2, <2>3
<1>18. EmittedSorted'
  <2> SUFFICES ASSUME Settled(client.confs),
                      NEW i \in DOMAIN emitted', NEW j \in DOMAIN emitted', i < j
               PROVE  Before(emitted'[i], emitted'[j])
    BY <1>2 DEF EmittedSorted
  <2>1. CASE j \in DOMAIN was /\ i \in DOMAIN was
    BY <1>5, <1>10, <1>11, <2>1 DEF EmittedSorted
  <2>2. CASE j \in DOMAIN was /\ i \notin DOMAIN was
    <3>1. i \in Nat /\ j \in Nat /\ j < i
      BY <1>11, <2>2
    <3> QED BY <3>1
  <2>3. CASE j \notin DOMAIN was /\ i \notin DOMAIN was
    <3>1. /\ i - Len(was) \in DOMAIN list /\ emitted'[i] = list[i - Len(was)]
          /\ j - Len(was) \in DOMAIN list /\ emitted'[j] = list[j - Len(was)]
      BY <1>11, <2>3
    <3>2. i \in Int /\ j \in Int /\ Len(was) \in Int
      <4>1. was \in Seq(Nat \X Tx \X Nat)
        BY <1>5, <1>10 DEF FollowShape
      <4>2. PICK now : now = emitted'
        OBVIOUS
      <4>3. now \in Seq(Nat \X Tx \X Nat) /\ i \in DOMAIN now /\ j \in DOMAIN now
        BY <1>11, <4>2
      <4> QED BY ONLY <4>1, <4>3
    <3>3. i - Len(was) < j - Len(was)
      BY <3>2
    <3> QED BY <1>9, <3>1, <3>3
  <2>4. CASE j \notin DOMAIN was /\ i \in DOMAIN was
    <3>1. PICK e, u : e = emitted'[i] /\ u = emitted'[j]
      OBVIOUS
    <3>2. e[1] + confs =< old + 1 /\ e[1] \in Nat
      <4>1. e = emitted[i] /\ i \in DOMAIN emitted
        BY <1>10, <1>11, <2>4, <3>1
      <4>2. Printed(e)
        BY <1>5, <4>1 DEF EmittedPrinted
      <4> QED BY <1>4, <4>2 DEF Printed, Final
    <3>3. u \in news /\ u \in updates /\ u \notin client.cursor.recent
      BY <1>7, <1>9, <1>11, <2>4, <3>1
    <3>4. /\ UpdateShape(u) /\ MemoOf(u).op \in DataOps /\ chain[u[1]] = u[2]
          /\ from =< u[1] /\ u[1] \in Nat /\ u[2] \in Tx
      BY <1>4, <1>8, <3>3, ReturnedStand
    <3>5. u \in Updates(Hits(chain[u[1]], u[1])) /\ chain[u[1]] # 0
      BY <3>4, TxAssumption DEF Hits, UpdateShape, Updates
    <3>6. emitted # << >>
      BY <1>10, <2>4
    <3>7. ~(u[1] + confs =< old + 1)
      <4> SUFFICES ASSUME u[1] + confs =< old + 1 PROVE FALSE
        OBVIOUS
      <4>1. u[1] > old - margin /\ u[1] >= Birthday
        BY <1>6, <3>4
      <4>2. Remembered(u[1])
        BY <1>3, <1>4, <1>5, <3>4, <3>5, <3>6, <4>1 DEF RecentComplete
      <4> QED BY <3>3, <3>5, <4>2 DEF Remembered
    <3>8. e[1] < u[1]
      BY <1>6, <3>2, <3>4, <3>7
    <3> QED BY <3>1, <3>8 DEF Before
  <2> QED BY <2>1, <2>2, <2>3, <2>4
<1>19. RecentComplete'
  <2> SUFFICES ASSUME Settled(client.confs), NEW h \in Nat, h > tip - margin, h >= Birthday,
                      h + confs =< tip + 1, chain[h] # 0
               PROVE  Updates(Hits(chain[h], h)) \subseteq NewCursor.recent
    BY <1>1, <1>2, <1>4 DEF RecentComplete, Remembered, NewCursor
  <2>1. h >= from
    BY <1>6
  <2> QED BY <1>3, <1>4, <2>1, CursorRemembers
<1> QED BY <1>14, <1>15, <1>16, <1>17, <1>18, <1>19 DEF FollowState

FollowInvariant == ReadInvariant /\ FollowCall /\ FollowState

LEMMA FollowStarts ==
    ASSUME ShallowInit
    PROVE  FollowInvariant
<1>1. ReadInvariant
  BY ReadInvariantStarts
<1>2. client.cursor = NoCursor /\ emitted = << >> /\ call.pc = "idle"
  BY DEF ShallowInit, Closed, IdleCall
<1>3. DOMAIN emitted = {} /\ emitted \in Seq(Nat \X Tx \X Nat)
  BY <1>2
<1>4. FollowCall /\ FollowState
  BY <1>2, <1>3 DEF FollowCall, FollowState, FollowShape, RecentReported, NothingMissed,
                    EmittedPrinted, EmittedSorted, RecentComplete
<1> QED BY <1>1, <1>4 DEF FollowInvariant

\* Without a cursor nothing was printed.
LEMMA NothingPrinted ==
    ASSUME client'.cursor = NoCursor, emitted' = << >>
    PROVE  FollowState'
<1>1. DOMAIN emitted' = {} /\ emitted' \in Seq(Nat \X Tx \X Nat)
  OBVIOUS
<1>2. FollowShape'
  BY <1>1 DEF FollowShape
<1>3. EmittedPrinted' /\ EmittedSorted'
  BY <1>1 DEF EmittedPrinted, EmittedSorted
<1>4. RecentReported' /\ NothingMissed' /\ RecentComplete'
  BY DEF RecentReported, NothingMissed, RecentComplete
<1> QED BY <1>2, <1>3, <1>4 DEF FollowState

\* A step of a call that leaves the chain, the cursor and the list alone.
LEMMA FollowUntouched ==
    ASSUME ReadInvariant, FollowState, FollowCall, UNCHANGED <<chain, emitted>>,
           client'.cursor = client.cursor, client'.confs = client.confs,
           client'.since = client.since, client'.first = client.first,
           \/ call'.pc = "idle"
           \/ call'.pc # "idle" /\ call'.op = "find"
           \/ /\ call.pc # "idle"
              /\ call'.op = call.op /\ call'.from = call.from /\ call'.tip = call.tip
    PROVE  FollowCall' /\ FollowState'
<1>1. ChainStands
  BY SameChainStands DEF ReadInvariant
<1> QED BY <1>1, ChainKeepsFollow, FollowCallStays

LEMMA FollowKept ==
    ASSUME FollowInvariant, [ShallowNext]_shallowVars, Depth >= ReorgMargin
    PROVE  FollowInvariant'
<1>0. ReadInvariant /\ FollowCall /\ FollowState /\ ChainTyped
  BY DEF FollowInvariant, ReadInvariant
<1>1. ReadInvariant'
  BY <1>0, ReadInvariantKept
<1> SUFFICES FollowCall' /\ FollowState'
  BY <1>1 DEF FollowInvariant
<1>2. ASSUME ChainStands, UNCHANGED <<client, call, emitted>> PROVE FollowCall' /\ FollowState'
  BY <1>0, <1>2, ChainKeepsFollow DEF FollowCall
<1>3. CASE UNCHANGED shallowVars
  BY <1>0, <1>2, <1>3, SameChainStands DEF shallowVars
<1>4. ASSUME NEW t \in Tx \cup {0}, MineBlock(t) PROVE FollowCall' /\ FollowState'
  BY <1>0, <1>2, <1>4, MineStands DEF MineBlock
<1>5. ASSUME NEW depth \in 1..ReorgDepth, Reorganise(depth) PROVE FollowCall' /\ FollowState'
  BY <1>0, <1>2, <1>5, ReorganiseStands DEF Reorganise
<1>6. ASSUME NEW confs \in Confs, NEW verify \in Verify, Open(confs, verify)
      PROVE  FollowCall' /\ FollowState'
  <2>1. client.cursor = NoCursor /\ call.pc = "idle"
    BY <1>0, <1>6 DEF Open, ReadInvariant, ClientShape
  <2>2. emitted' = << >> /\ client'.cursor = NoCursor /\ call'.pc = "idle"
    BY <1>0, <1>6, <2>1 DEF Open, Closed, FollowState, FollowShape
  <2> QED BY <2>2, NothingPrinted DEF FollowCall
<1>7. CASE Close
  <2>1. emitted' = << >> /\ client'.cursor = NoCursor /\ call'.pc = "idle"
    BY <1>7 DEF Close, Closed, IdleCall
  <2> QED BY <2>1, NothingPrinted DEF FollowCall
<1>8. CASE Fail
  BY <1>0, <1>8, FollowUntouched DEF Fail, IdleCall
<1>9. ASSUME NEW op \in {"scan", "find"}, NEW want, NEW pattern, Start(op, want, pattern)
      PROVE  FollowCall' /\ FollowState'
  <2>1. /\ UNCHANGED <<client, emitted>> /\ client.cursor = NoCursor
        /\ call'.op = op /\ call'.tip >= Birthday /\ call'.from = WindowFloor(call'.tip)
    BY <1>0, <1>9, CallStarts
  <2>2. emitted' = << >> /\ client'.cursor = NoCursor
    BY <1>0, <2>1 DEF FollowState, FollowShape
  <2>3. call'.tip \in Nat
    BY <1>1 DEF ReadInvariant, CallShape
  <2>4. FollowCall'
    BY <2>1, <2>3, Bounds DEF FollowCall, WindowFloor, AtLeast, Minus
  <2> QED BY <2>2, <2>4, NothingPrinted
<1>10. CASE StartPoll
  <2>1. /\ UNCHANGED <<client, emitted>> /\ call'.op = "poll" /\ client.cursor # NoCursor
        /\ client.cursor.height < call'.tip
        /\ call'.from = PollFrom(client.cursor.height, client.confs)
    BY <1>0, <1>10, PollStarts
  <2>2. FollowCall'
    BY <2>1 DEF FollowCall, PollFrom, Margin, AtLeast, Minus
  <2>3. ChainStands
    BY <1>0, <1>10, SameChainStands DEF StartPoll
  <2> QED BY <1>0, <2>1, <2>2, <2>3, ChainKeepsFollow
<1>11. CASE EnsureInit \/ WalkHeight
  <2>1. /\ UNCHANGED <<chain, emitted>> /\ call.pc # "idle"
        /\ \E anchor : client' = [client EXCEPT !.anchor = anchor]
        /\ call'.op = call.op /\ call'.from = call.from /\ call'.tip = call.tip
    BY <1>0, <1>11, InitEnsured, WalkLooks DEF EnsureInit, WalkHeight
  <2>2. /\ client'.cursor = client.cursor /\ client'.confs = client.confs
        /\ client'.since = client.since /\ client'.first = client.first
    BY <1>0, <2>1 DEF ReadInvariant, ClientShape
  <2> QED BY <1>0, <2>1, <2>2, FollowUntouched
<1>12. CASE WalkChunk \/ WindowChunk \/ Enhance \/ EnhanceDone
  <2>1. /\ UNCHANGED <<chain, emitted, client>> /\ call.pc # "idle"
        /\ call'.pc # "idle" =>
             call'.op = call.op /\ call'.from = call.from /\ call'.tip = call.tip
    BY <1>0, <1>12, WalkGoesOn, WindowGoesOn, EnhanceLooks, EnhanceEnds
    DEF WalkChunk, WindowChunk, Enhance, EnhanceDone
  <2> QED BY <1>0, <2>1, FollowUntouched
<1>13. CASE FindChunk \/ FindHeight
  <2>1. UNCHANGED <<chain, emitted, client>> /\ call'.pc # "idle" /\ call'.op = "find"
    BY <1>0, <1>13, SearchGoesDown, SearchLooks DEF FindChunk, FindHeight
  <2> QED BY <1>0, <2>1, FollowUntouched
<1>14. CASE Return
  <2>1. FollowCall'
    BY <1>0, <1>14, ClientAfterReturn DEF FollowCall, IdleCall
  <2>2. CASE call.op = "find"
    BY <1>0, <1>14, <2>2, ClientAfterReturn, FollowUntouched DEF IdleCall
  <2> QED BY <1>0, <1>14, <2>1, <2>2, ClientAfterReturn, ScanPrints, PollPrints
<1> QED BY <1>3, <1>4, <1>5, <1>6, <1>7, <1>8, <1>9, <1>10, <1>11, <1>12, <1>13, <1>14
        DEF ShallowNext, Read

LEMMA FollowInvariantIsExact ==
    ASSUME FollowInvariant
    PROVE  FollowExact
<1>1. /\ FollowShape /\ NothingMissed /\ EmittedPrinted /\ EmittedSorted
      /\ ReadInvariant
  BY DEF FollowInvariant, FollowState
<1>2. FollowMissesNothing
  <2> SUFFICES ASSUME client.cursor # NoCursor, ReorgDepth =< Margin(client.confs),
                      NEW u \in Matching(Verified(ChainUpdates(client.since,
                                   client.cursor.height - Margin(client.confs), 1)))
               PROVE  Reported(u)
    BY DEF FollowMissesNothing
  <2>1. PICK top : top = client.cursor.height - Margin(client.confs)
    OBVIOUS
  <2>2. u \in ChainUpdates(client.since, top, 1) /\ u \in Wanted({u})
    BY <2>1 DEF Wanted, Matching, Verified
  <2>3. PICK h \in (client.since..top) \cap DOMAIN chain : chain[h] # 0 /\ u \in Hits(chain[h], h)
    BY <2>2 DEF ChainUpdates, Updates, Deep
  <2>4. MemoOf(u).op \in DataOps
    BY <2>2 DEF ChainUpdates, Updates
  <2>5. u \in Wanted(Updates(Hits(chain[h], h)))
    BY <2>2, <2>3, <2>4 DEF Wanted, Matching, Verified, Updates
  <2>6. /\ h \in Nat /\ client.since =< h
        /\ h + Margin(client.confs) =< client.cursor.height
    <3>1. Margin(client.confs) \in Nat /\ client.cursor.height \in Nat /\ client.since \in Nat
      BY <1>1, MarginIs DEF FollowShape, ReadInvariant, ClientShape
    <3>2. h \in client.since..top
      BY <2>3
    <3> QED BY <2>1, <3>1, <3>2
  <2> QED BY <1>1, <2>3, <2>5, <2>6 DEF NothingMissed
<1>3. FollowInOrder
  BY <1>1 DEF EmittedSorted, FollowInOrder
<1>4. EmittedStands
  BY <1>1 DEF EmittedPrinted, Printed, EmittedStands
<1> QED BY <1>2, <1>3, <1>4 DEF FollowExact

\* `shallow follow` prints the history of the keys it matches exactly, for any chain, any
\* number of failed polls and any confirmations: every write of a block that left the
\* margin was printed or superseded in the first scan, the list is in chain order without
\* repetitions, and what it holds is on the chain, signed by an accepted signer.  The
\* assumption is needed: --depth is not held to the margin the first poll re-reads, and
\* with a smaller one that poll prints writes older than those of the scan.
THEOREM FollowIsExact ==
    ASSUME Depth >= ReorgMargin
    PROVE  ShallowSpec => []FollowExact
<1>1. ShallowInit => FollowInvariant
  BY FollowStarts
<1>2. FollowInvariant /\ [ShallowNext]_shallowVars => FollowInvariant'
  BY FollowKept
<1>3. FollowInvariant => FollowExact
  BY FollowInvariantIsExact
<1> QED BY <1>1, <1>2, <1>3, PTL DEF ShallowSpec

-----------------------------------------------------------------------------
(* The full read: a replay over the confirmed rows of the chain.            *)

\* The confirmed rows, each where the chain holds it.
LEMMA RowsFacts ==
    ASSUME ChainTyped, NEW tip \in Nat, tip <= Len(chain), NEW confs
    PROVE  /\ IsFiniteSet(ConfirmedRows(tip, confs))
           /\ \A u \in ConfirmedRows(tip, confs) :
                /\ UpdateShape(u) /\ u[1] \in 1..tip /\ chain[u[1]] = u[2]
                /\ u \in Hits(chain[u[1]], u[1]) /\ DeepEnough(u[1], tip, confs)
           /\ \A h \in 1..tip : chain[h] # 0 /\ DeepEnough(h, tip, confs) =>
                Hits(chain[h], h) \subseteq ConfirmedRows(tip, confs)
<1> DEFINE H == {n \in 1..tip : chain[n] # 0}
           T == {Hits(chain[h], h) : h \in H}
           f == [h \in H |-> Hits(chain[h], h)]
<1>1. Len(chain) \in Nat /\ DOMAIN chain = 1..Len(chain) /\ \A h \in DOMAIN chain : chain[h] \in Tx \cup {0}
  BY ChainNumbers
<1>2. \A h \in H : h \in Nat /\ chain[h] \in Tx
  BY <1>1
<1>3. IsFiniteSet(H)
  <2>1. IsFiniteSet(1..tip)
    BY FS_Interval
  <2> QED BY <2>1, FS_Subset
<1>4. IsFiniteSet(T)
  <2>1. f \in Surjection(H, T)
    BY DEF Surjection
  <2> HIDE DEF f, T, H
  <2> QED BY <1>3, <2>1, FS_Surjection
<1>5. \A S \in T : IsFiniteSet(S)
  BY <1>2, HitsFacts
<1>6. IsFiniteSet(UNION T)
  <2> HIDE DEF T
  <2> QED BY <1>4, <1>5, FS_UNION
<1>7. ConfirmedRows(tip, confs) = {u \in UNION T : Minus(tip, u[1]) + 1 >= confs}
  BY DEF ConfirmedRows, Deep, Confirmations
<1>8. IsFiniteSet(ConfirmedRows(tip, confs))
  <2> HIDE DEF T
  <2>1. ConfirmedRows(tip, confs) \subseteq UNION T
    BY <1>7
  <2> QED BY <1>6, <2>1, FS_Subset
<1>9. ASSUME NEW u \in ConfirmedRows(tip, confs)
      PROVE  /\ UpdateShape(u) /\ u[1] \in 1..tip /\ chain[u[1]] = u[2]
             /\ u \in Hits(chain[u[1]], u[1]) /\ DeepEnough(u[1], tip, confs)
  <2>1. PICK h \in H : u \in Hits(chain[h], h)
    BY <1>7
  <2>2. UpdateShape(u) /\ u[1] = h /\ u[2] = chain[h]
    BY <1>2, <2>1, HitsFacts
  <2> QED BY <1>7, <2>1, <2>2 DEF DeepEnough
<1>10. ASSUME NEW h \in 1..tip, chain[h] # 0, DeepEnough(h, tip, confs)
       PROVE  Hits(chain[h], h) \subseteq ConfirmedRows(tip, confs)
  <2>1. h \in H /\ \A u \in Hits(chain[h], h) : u[1] = h
    BY <1>2, <1>10, HitsFacts
  <2> QED BY <1>7, <1>10, <2>1 DEF DeepEnough
<1> QED BY <1>8, <1>9, <1>10

\* The memo of an update.
LEMMA MemoOfUpdate ==
    ASSUME NEW u, UpdateShape(u)
    PROVE  MemoOf(u) \in Memo /\ MemoOf(u) \in SentMemos
<1>1. u[2] \in Tx /\ u[3] \in DOMAIN MemosOf[u[2]] /\ MemosOf[u[2]] \in Seq(Memo)
  BY TxAssumption DEF UpdateShape
<1> QED BY <1>1 DEF MemoOf, SentMemos

\* The replay is defined after every row, and each row is one fold.
LEMMA ReplayRec ==
    ASSUME NEW order, Len(order) \in Nat, \A n \in 1..Len(order) : MemoOf(order[n]) \in Memo
    PROVE  /\ Replay(order) \in [0..Len(order) -> Database]
           /\ Replay(order)[0] = EmptyDatabase
           /\ \A n \in 1..Len(order) :
                Replay(order)[n] = Fold(Replay(order)[n - 1], MemoOf(order[n]), "Confirmed")
<1>0. PICK N \in Nat : N = Len(order)
  OBVIOUS
<1> DEFINE Loop(f) == f = [n \in 0..Len(order) |->
                              IF n = 0 THEN EmptyDatabase
                              ELSE Fold(f[n - 1], MemoOf(order[n]), "Confirmed")]
           step == [x \in (1..N) \X Database |-> Fold(x[2], MemoOf(order[x[1]]), "Confirmed")]
<1>t. \A n \in 1..N : \A d \in Database : Fold(d, MemoOf(order[n]), "Confirmed") \in Database
  BY <1>0, FoldFacts DEF FoldStep, Status
<1>e. EmptyDatabase \in Database
  BY EmptyIsDatabase
<1>1. step \in [(1..N) \X Database -> Database]
  BY <1>t
<1> HIDE DEF step
<1>2. PICK g : Iterates(g, N, Database, EmptyDatabase, step)
  BY <1>1, <1>e, RecursionExists, Zenon
<1>3. ASSUME NEW n \in 1..N
      PROVE  g[n] = Fold(g[n - 1], MemoOf(order[n]), "Confirmed")
  <2>1. g[n] = step[<<n, g[n - 1]>>] /\ g[n - 1] \in Database
    BY <1>2 DEF Iterates
  <2>2. step[<<n, g[n - 1]>>] = Fold(g[n - 1], MemoOf(order[n]), "Confirmed")
    BY <2>1 DEF step
  <2> QED BY <2>1, <2>2
<1>4. Loop(g)
  BY <1>0, <1>2, <1>3 DEF Iterates
<1> DEFINE f == CHOOSE x : Loop(x)
<1>5. Replay(order) = f
  BY Zenon DEF Replay
<1>6. Loop(f)
  <2> HIDE DEF Loop
  <2> QED BY <1>4, Zenon
<1> HIDE DEF f
<1>7. f[0] = EmptyDatabase /\ \A n \in 1..N : f[n] = Fold(f[n - 1], MemoOf(order[n]), "Confirmed")
  BY <1>0, <1>6
<1>8. \A n \in 0..N : f[n] \in Database
  <2> DEFINE S == {n \in Nat : n <= N => f[n] \in Database}
  <2>1. 0 \in S
    BY <1>7, <1>e
  <2>2. ASSUME NEW n \in Nat, n \in S PROVE n + 1 \in S
    <3> SUFFICES ASSUME n + 1 <= N PROVE f[n + 1] \in Database
      OBVIOUS
    <3>1. f[n] \in Database
      BY <2>2
    <3>2. f[n + 1] = Fold(f[n], MemoOf(order[n + 1]), "Confirmed")
      BY <1>7
    <3> QED BY <3>1, <3>2, <1>t
  <2> HIDE DEF S
  <2>3. \A n \in Nat : n \in S
    BY <2>1, <2>2, NatSetInduction
  <2> QED BY <2>3 DEF S
<1>9. f \in [0..N -> Database]
  BY <1>0, <1>6, <1>8
<1> QED BY <1>0, <1>5, <1>7, <1>9

\* A fold of a confirmed row changes nothing, or applies the memo.
LEMMA ConfirmedApplies ==
    ASSUME NEW d \in Database, NEW m \in Memo
    PROVE  \/ classify(d, m, "Confirmed") # "Applied" /\ Fold(d, m, "Confirmed") = d
           \/ /\ classify(d, m, "Confirmed") = "Applied"
              /\ Fold(d, m, "Confirmed") = apply_confirmed(d, m)
              /\ seq_in_window(d, m) /\ ~d.finalized
              /\ m.op = "INIT" => d.init = "Uninitialized"
              /\ m.op # "INIT" => d.init = "Initialized"
<1> DEFINE c == classify(d, m, "Confirmed")
<1>1. CASE c = "Applied"
  <2>1. seq_in_window(d, m) /\ decide(d, m, "Confirmed") = "Applied"
    BY <1>1 DEF classify
  <2>2. ~d.finalized
    BY <2>1 DEF decide
  <2> QED BY <1>1, <2>1, <2>2, HonouredGate DEF Fold, Status
<1>2. CASE c # "Applied"
  <2>1. c # "Pending"
    BY HonouredGate DEF Status
  <2> QED BY <1>2, <2>1 DEF Fold
<1> QED BY <1>1, <1>2

RootOwns(d) == d.init = "Initialized" => Root \in d.owners

\* Without a removal of root, root stays an owner once there are any.
LEMMA RootStaysOwner ==
    ASSUME NEW d \in Database, NEW m \in Memo, RootOwns(d),
           m.op = "OWNERDEL" => Canonical[m.key] # Root
    PROVE  RootOwns(Fold(d, m, "Confirmed"))
<1> DEFINE e == apply_confirmed(d, m)
<1> SUFFICES ASSUME classify(d, m, "Confirmed") = "Applied" PROVE Root \in e.owners
  BY ConfirmedApplies DEF RootOwns
<1>1. CASE m.op = "INIT"
  <2>1. e = [d EXCEPT !.owners = @ \cup {Root}, !.writers[Root] = {}, !.init = "Initialized"]
    BY <1>1 DEF apply_confirmed, insert_owner, Database, DataOps, SetOps, RegistryOps
  <2> QED BY <2>1 DEF Database
<1>2. CASE m.op # "INIT"
  <2>0. Root \in d.owners
    BY <1>2, ConfirmedApplies DEF RootOwns
  <2>1. CASE m.op \in RegistryOps
    <3> DEFINE a == apply_management(d, m)
    <3>1. e = [a EXCEPT !.target_versions[m.key] = bump_hw(@, m.seq)]
      BY <2>1 DEF apply_confirmed, DataOps, SetOps, RegistryOps
    <3>2. a \in Database
      BY <2>1, ManagementTyped
    <3>3. Root \in a.owners
      <4>1. CASE management_verdict(d, m) # "Applied"
        BY <2>0, <4>1 DEF apply_management
      <4>2. CASE management_verdict(d, m) = "Applied"
        <5>1. CASE m.op = "OWNERADD"
          BY <2>0, <4>2, <5>1 DEF apply_management, insert_owner, Database
        <5>2. CASE m.op = "OWNERDEL"
          BY <2>0, <4>2, <5>2 DEF apply_management, Database
        <5>3. CASE m.op = "WRITERADD"
          BY <2>0, <4>2, <5>3 DEF apply_management, Database
        <5>4. CASE m.op = "WRITERDEL"
          BY <2>0, <4>2, <5>4 DEF apply_management, Database
        <5> QED BY <2>1, <5>1, <5>2, <5>3, <5>4 DEF RegistryOps
      <4> QED BY <4>1, <4>2
    <3> HIDE DEF a
    <3>4. e.owners = a.owners
      BY <3>1, <3>2 DEF Database
    <3> QED BY <3>3, <3>4
  <2>2. CASE m.op \notin RegistryOps
    <3>1. m.op \in DataOps \cup {"FINALIZE", "VERSION"}
      BY <1>2, <2>2, MemoFields
    <3>2. e.owners = d.owners
      BY <2>2, <3>1 DEF apply_confirmed, apply_version, DataOps, SetOps, RegistryOps, Database
    <3> QED BY <2>0, <3>2
  <2> QED BY <2>1, <2>2
<1> QED BY <1>1, <1>2

\* A database in which root's next write of a key is honoured from sequence n on.
OpenFor(d, k, n) ==
    d.init = "Initialized" /\ ~d.finalized /\ Root \in d.owners /\ d.kv_versions[k] = n

\* What an honoured write does to its key and to the rest.
LEMMA WriteFacts ==
    ASSUME NEW d \in Database, NEW m \in Memo, m.op \in DataOps
    PROVE  LET e == apply_confirmed(d, m)
           IN  /\ m.key \in Keys
               /\ e.init = d.init /\ e.finalized = d.finalized /\ e.owners = d.owners
               /\ e.kv_versions = [d.kv_versions EXCEPT ![m.key] = bump_hw(@, m.seq)]
<1>1. apply_confirmed(d, m) = [d EXCEPT !.kv[m.key] = m.value,
                                        !.kv_versions[m.key] = bump_hw(@, m.seq)]
  BY DEF apply_confirmed, DataOps, SetOps, RegistryOps
<1>2. m.key \in Keys
  BY MemoFields
<1> QED BY <1>1, <1>2 DEF Database

\* An honoured write leaves its key open from the next sequence on.
LEMMA WriteOpens ==
    ASSUME NEW d \in Database, NEW m \in Memo, m.op \in DataOps, RootOwns(d),
           classify(d, m, "Confirmed") = "Applied"
    PROVE  OpenFor(Fold(d, m, "Confirmed"), m.key, m.seq + 1)
<1>1. /\ Fold(d, m, "Confirmed") = apply_confirmed(d, m)
      /\ seq_in_window(d, m) /\ ~d.finalized /\ d.init = "Initialized"
  BY ConfirmedApplies DEF DataOps, SetOps
<1>2. m.key \in Keys /\ m.seq \in Nat /\ d.kv_versions \in [Keys -> Nat]
  BY MemoFields DEF Database
<1>3. d.kv_versions[m.key] =< m.seq
  BY <1>1 DEF seq_in_window, is_versioned, high_water
<1>4. bump_hw(d.kv_versions[m.key], m.seq) = m.seq + 1
  BY <1>2, <1>3 DEF bump_hw
<1>5. apply_confirmed(d, m).kv_versions[m.key] = m.seq + 1
  BY <1>2, <1>4, WriteFacts
<1> QED BY <1>1, <1>5, WriteFacts DEF OpenFor, RootOwns

\* Rows that are no management and no honoured write of the key leave it open.
LEMMA OthersLeaveOpen ==
    ASSUME NEW d \in Database, NEW m \in Memo, NEW k \in Keys, NEW n, OpenFor(d, k, n),
           m.op \notin OwnerOnlyOps,
           ~(m.op \in DataOps /\ m.key = k /\ classify(d, m, "Confirmed") = "Applied")
    PROVE  OpenFor(Fold(d, m, "Confirmed"), k, n)
<1>1. CASE classify(d, m, "Confirmed") # "Applied"
  BY <1>1, ConfirmedApplies
<1>2. CASE classify(d, m, "Confirmed") = "Applied"
  <2>1. m.op # "INIT"
    BY <1>2, ConfirmedApplies DEF OpenFor
  <2>2. m.op \in DataOps /\ m.key # k
    BY <1>2, <2>1, MemoFields DEF OwnerOnlyOps
  <2>3. Fold(d, m, "Confirmed") = apply_confirmed(d, m)
    BY <1>2, ConfirmedApplies
  <2>4. apply_confirmed(d, m).kv_versions[k] = d.kv_versions[k]
    BY <2>2, WriteFacts DEF Database
  <2> QED BY <2>2, <2>3, <2>4, WriteFacts DEF OpenFor
<1> QED BY <1>1, <1>2

\* Root's next write of an open key is honoured.
LEMMA OpenHonours ==
    ASSUME NEW d \in Database, NEW m \in Memo, NEW n \in Nat, m.op \in DataOps, m.signer = Root,
           OpenFor(d, m.key, n), n =< m.seq, m.seq =< VersionWindow
    PROVE  classify(d, m, "Confirmed") = "Applied"
<1>1. Root # NoSigner /\ m.seq \in Nat /\ VersionWindow \in Nat
  BY RootAssumption, NotAPubkeyAssumption, WindowAssumption, MemoFields
<1>2. seq_in_window(d, m)
  BY <1>1 DEF seq_in_window, high_water, OpenFor
<1>3. authorize(d, m.signer, m.op, d.kv[m.key] # NoValue) = "Ok"
  BY DEF authorize, OpenFor
<1>4. decide(d, m, "Confirmed") = "Applied"
  BY <1>3 DEF decide, decide_unsealed, OpenFor, DataOps, SetOps, OwnerOnlyOps, RegistryOps
<1> QED BY <1>1, <1>2, <1>4 DEF classify

\* Behind the last write of a key that a replay honours, a later one of root's with a
\* higher sequence would be honoured too, but for a management memo in between.
LEMMA LaterWriteHonoured ==
    ASSUME NEW order, Len(order) \in Nat, DOMAIN order = 1..Len(order),
           \A n \in 1..Len(order) : MemoOf(order[n]) \in Memo,
           \A n \in 1..Len(order) :
               MemoOf(order[n]).op = "OWNERDEL" => Canonical[MemoOf(order[n]).key] # Root,
           NEW k \in Keys, NEW p \in Honoured(order, k), \A n \in Honoured(order, k) : n =< p,
           NEW q \in 1..Len(order), p < q,
           MemoOf(order[q]).op \in DataOps, MemoOf(order[q]).key = k, MemoOf(order[q]).signer = Root,
           MemoOf(order[p]).seq < MemoOf(order[q]).seq, MemoOf(order[q]).seq =< VersionWindow
    PROVE  \E n \in p..q : MemoOf(order[n]).op \in OwnerOnlyOps
<1> SUFFICES ASSUME \A n \in p..q : MemoOf(order[n]).op \notin OwnerOnlyOps
             PROVE  FALSE
  OBVIOUS
<1>0. PICK N \in Nat : N = Len(order)
  OBVIOUS
<1>1. PICK D : D = Replay(order)
  OBVIOUS
<1>2. /\ D \in [0..N -> Database] /\ D[0] = EmptyDatabase
      /\ \A n \in 1..N : D[n] = Fold(D[n - 1], MemoOf(order[n]), "Confirmed")
  BY <1>0, <1>1, ReplayRec
<1>3. \A n \in 1..N : /\ MemoOf(order[n]) \in Memo
                      /\ MemoOf(order[n]).op = "OWNERDEL" => Canonical[MemoOf(order[n]).key] # Root
  BY <1>0
<1>4. \A n \in Honoured(order, k) :
          /\ n \in 1..N /\ MemoOf(order[n]).op \in DataOps /\ MemoOf(order[n]).key = k
          /\ classify(D[n - 1], MemoOf(order[n]), "Confirmed") = "Applied"
  BY <1>0, <1>1 DEF Honoured
<1>5. \A n \in 1..N :
          /\ MemoOf(order[n]).op \in DataOps /\ MemoOf(order[n]).key = k
          /\ classify(D[n - 1], MemoOf(order[n]), "Confirmed") = "Applied"
          => n \in Honoured(order, k)
  BY <1>0, <1>1 DEF Honoured
<1>p. p \in 1..N /\ q \in 1..N /\ p \in Nat /\ q \in Nat
  BY <1>0, <1>4
<1>6. \A n \in 0..N : RootOwns(D[n])
  <2> DEFINE S == {n \in Nat : n <= N => RootOwns(D[n])}
  <2>1. 0 \in S
    BY <1>2 DEF RootOwns, EmptyDatabase
  <2>2. ASSUME NEW n \in Nat, n \in S PROVE n + 1 \in S
    <3> SUFFICES ASSUME n + 1 <= N PROVE RootOwns(D[n + 1])
      OBVIOUS
    <3>1. RootOwns(D[n]) /\ D[n] \in Database /\ n + 1 \in 1..N /\ (n + 1) - 1 = n
      BY <1>2, <2>2
    <3>2. D[n + 1] = Fold(D[n], MemoOf(order[n + 1]), "Confirmed")
      BY <1>2, <3>1
    <3> QED BY <1>3, <3>1, <3>2, RootStaysOwner
  <2> HIDE DEF S
  <2>3. \A n \in Nat : n \in S
    BY <2>1, <2>2, NatSetInduction
  <2> QED BY <2>3 DEF S
<1>7. PICK s \in Nat : s = MemoOf(order[p]).seq + 1 /\ s =< MemoOf(order[q]).seq
  BY <1>3, <1>p, MemoFields
<1>8. OpenFor(D[p], k, s)
  <2>1. /\ p - 1 \in 0..N /\ D[p - 1] \in Database /\ RootOwns(D[p - 1])
        /\ D[p] = Fold(D[p - 1], MemoOf(order[p]), "Confirmed")
    BY <1>2, <1>6, <1>p
  <2> QED BY <1>3, <1>4, <1>7, <1>p, <2>1, WriteOpens
<1>9. \A n \in p..(q - 1) : OpenFor(D[n], k, s)
  <2> DEFINE S == {i \in Nat : p + i =< q - 1 => OpenFor(D[p + i], k, s)}
  <2>1. 0 \in S
    BY <1>8, <1>p
  <2>2. ASSUME NEW i \in Nat, i \in S PROVE i + 1 \in S
    <3> SUFFICES ASSUME p + (i + 1) =< q - 1 PROVE OpenFor(D[p + (i + 1)], k, s)
      OBVIOUS
    <3>1. PICK n \in Nat : n = p + i
      BY <1>p
    <3>2. /\ n + 1 = p + (i + 1) /\ (n + 1) - 1 = n /\ n + 1 \in 1..N /\ n \in 0..N
          /\ n + 1 \in p..q /\ p < n + 1 /\ OpenFor(D[n], k, s)
      BY <1>p, <2>2, <3>1
    <3>3. D[n + 1] = Fold(D[n], MemoOf(order[n + 1]), "Confirmed") /\ D[n] \in Database
      BY <1>2, <3>2
    <3>4. n + 1 \notin Honoured(order, k)
      BY <1>p, <3>2
    <3>5. ~(/\ MemoOf(order[n + 1]).op \in DataOps /\ MemoOf(order[n + 1]).key = k
            /\ classify(D[n], MemoOf(order[n + 1]), "Confirmed") = "Applied")
      BY <1>5, <3>2, <3>4
    <3>6. MemoOf(order[n + 1]).op \notin OwnerOnlyOps /\ MemoOf(order[n + 1]) \in Memo
      BY <1>3, <3>2
    <3> QED BY <3>2, <3>3, <3>5, <3>6, OthersLeaveOpen
  <2> HIDE DEF S
  <2>3. \A i \in Nat : i \in S
    BY <2>1, <2>2, NatSetInduction
  <2>4. ASSUME NEW n \in p..(q - 1) PROVE OpenFor(D[n], k, s)
    <3>1. PICK i \in Nat : i = n - p
      BY <1>p
    <3>2. p + i = n /\ p + i =< q - 1
      BY <1>p, <3>1
    <3>3. p + i =< q - 1 => OpenFor(D[p + i], k, s)
      BY <2>3 DEF S
    <3> QED BY <3>2, <3>3
  <2> QED BY <2>4
<1>10. OpenFor(D[q - 1], k, s) /\ D[q - 1] \in Database
  BY <1>2, <1>9, <1>p
<1>11. classify(D[q - 1], MemoOf(order[q]), "Confirmed") = "Applied"
  BY <1>3, <1>7, <1>10, <1>p, OpenHonours
<1>12. q \in Honoured(order, k)
  BY <1>5, <1>11, <1>p
<1> QED BY <1>12, <1>p

\* A verified write has a winner of its key, itself or a later one.
LEMMA LatestExists ==
    ASSUME NEW S, IsFiniteSet(S), \A x \in S : UpdateShape(x), NEW u \in Verified(S)
    PROVE  \E w \in Latest(S) : MemoOf(w).key = MemoOf(u).key /\ (w = u \/ Before(u, w))
<1>1. PICK V : V = {x \in Verified(S) : MemoOf(x).key = MemoOf(u).key}
  OBVIOUS
<1>2. u \in V /\ V \subseteq S /\ V \subseteq Verified(S)
  BY <1>1 DEF Verified
<1>3. IsFiniteSet(V) /\ \A x \in V : UpdateShape(x)
  BY <1>2, FS_Subset
<1>4. PICK n : n = Cardinality(V)
  OBVIOUS
<1>5. n \in Nat /\ n - 1 \in 0..(n - 1)
  <2>1. n \in Nat /\ Rank(V, u) \in 0..(n - 1)
    BY <1>2, <1>3, <1>4, RanksCover
  <2> QED BY <2>1
<1>6. PICK w \in V : Rank(V, w) = n - 1
  BY <1>3, <1>4, <1>5, RanksCover
<1>7. ASSUME NEW x \in V, x # w PROVE Before(x, w)
  <2>1. Before(x, w) \/ Before(w, x)
    BY <1>3, <1>7, BeforeOrders
  <2>2. ASSUME Before(w, x) PROVE FALSE
    <3>1. Rank(V, x) \in Nat /\ Rank(V, w) < Rank(V, x)
      BY <1>3, <2>2, RanksDiffer
    <3>2. Rank(V, x) \in 0..(n - 1)
      BY <1>3, <1>4, RanksCover
    <3> QED BY <1>5, <1>6, <3>1, <3>2
  <2> QED BY <2>1, <2>2
<1>8. w \in Latest(S)
  <2>1. w \in Verified(S) /\ \A x \in Verified(S) \ {w} : MemoOf(x).key = MemoOf(w).key => x \in V
    BY <1>1, <1>2
  <2> QED BY <1>7, <2>1 DEF Latest
<1>9. MemoOf(w).key = MemoOf(u).key /\ (w = u \/ Before(u, w))
  BY <1>1, <1>2, <1>7
<1> QED BY <1>8, <1>9

\* Every memo of a block the read covers is among those it judged.
LEMMA NoMemoIsDropped ==
    ASSUME ReadInvariant, call.pc = "done", NEW h \in Nat, h >= call.from,
           Final(h, call.tip), h + client.confs =< call.tip + 1, chain[h] # 0
    PROVE  Hits(chain[h], h) \subseteq Deep(call.raw, call.tip, AtLeast(client.confs, 1))
<1>1. Hits(chain[h], h) \subseteq call.raw
  <2>1. Listed(h) /\ call.hits = {}
    BY DEF ReadInvariant, CallShape, Gathered, Placed, Listed, Final
  <2> QED BY <2>1 DEF ReadInvariant, Gathered, NothingLeftOut
<1>2. call.tip \in Nat /\ client.confs \in Nat /\ h >= 1 /\ h <= call.tip
  BY DEF ReadInvariant, CallShape, ClientShape, Final
<1>3. Minus(call.tip, h) + 1 >= AtLeast(client.confs, 1)
  BY <1>2 DEF Minus, AtLeast
<1>4. \A u \in Hits(chain[h], h) : u[1] = h
  BY DEF Hits
<1> QED BY <1>1, <1>3, <1>4 DEF Deep, Confirmations

\* A set of places of a list has a last one.
LEMMA LastPlace ==
    ASSUME NEW N \in Nat, NEW T, T \subseteq 1..N, T # {}
    PROVE  \E n \in T : \A m \in T : m =< n
<1>1. PICK d \in {N - n : n \in T} : \A e \in {N - n : n \in T} : d <= e
  <2>1. {N - n : n \in T} \subseteq Nat
    OBVIOUS
  <2>2. PICK n \in T : TRUE
    OBVIOUS
  <2>3. N - n \in {N - m : m \in T}
    BY <2>2
  <2> QED BY <2>1, <2>3, LeastNat
<1>2. PICK n \in T : d = N - n
  OBVIOUS
<1>3. ASSUME NEW m \in T PROVE m =< n
  <2>1. d <= N - m
    BY <1>1
  <2> QED BY <1>2, <2>1
<1> QED BY <1>3

\* The confirmed rows in order, and where the full read has its value from.
LEMMA FullReadFacts ==
    ASSUME ChainTyped, NEW tip \in Nat, tip <= Len(chain), NEW confs, NEW k \in Keys,
           NEW rows, rows = ConfirmedRows(tip, confs), NEW order, order = InOrder(rows)
    PROVE  /\ Len(order) \in Nat /\ DOMAIN order = 1..Len(order)
           /\ \A n \in 1..Len(order) : order[n] \in rows
           /\ \A u \in rows : \E n \in 1..Len(order) : order[n] = u
           /\ \A i, j \in 1..Len(order) : i < j => Before(order[i], order[j])
           /\ FullRead(tip, confs)[k] # << >> =>
                \E p \in Honoured(order, k) :
                    (\A n \in Honoured(order, k) : n =< p) /\ FullRead(tip, confs)[k] = order[p]
<1>1. IsFiniteSet(rows) /\ \A u \in rows : UpdateShape(u)
  BY RowsFacts
<1>2. /\ order \in Seq(rows)
      /\ \A u \in rows : \E n \in DOMAIN order : order[n] = u
      /\ \A i, j \in DOMAIN order : i < j => Before(order[i], order[j])
  BY <1>1, InOrderFacts
<1>3. Len(order) \in Nat /\ DOMAIN order = 1..Len(order) /\ \A n \in 1..Len(order) : order[n] \in rows
  BY <1>2
<1>4. ASSUME FullRead(tip, confs)[k] # << >>
      PROVE  \E p \in Honoured(order, k) :
                 (\A n \in Honoured(order, k) : n =< p) /\ FullRead(tip, confs)[k] = order[p]
  <2>1. PICK T : T = Honoured(order, k)
    OBVIOUS
  <2>2. FullRead(tip, confs)[k] =
            IF T = {} THEN << >> ELSE order[CHOOSE n \in T : \A m \in T : m =< n]
    BY <2>1 DEF FullRead
  <2>3. T # {} /\ T \subseteq 1..Len(order)
    BY <1>3, <1>4, <2>1, <2>2 DEF Honoured
  <2>4. \E n \in T : \A m \in T : m =< n
    BY <1>3, <2>3, LastPlace
  <2>5. PICK p : p = CHOOSE n \in T : \A m \in T : m =< n
    OBVIOUS
  <2>6. p \in T /\ \A m \in T : m =< p
    BY <2>4, <2>5
  <2> QED BY <2>1, <2>2, <2>3, <2>5, <2>6
<1> QED BY <1>2, <1>3, <1>4

\* A read agrees with the full read on a key whose value it saw, or warns.
LEMMA AgreesOnKey ==
    ASSUME ReadInvariant, WindowTells, call.pc = "done", Settled(client.confs), NEW k \in Keys,
           FullRead(call.tip, client.confs)[k] # << >>,
           FullRead(call.tip, client.confs)[k][1] >= call.from
    PROVE  LET updates == ValidUpdates(call.raw)
           IN  \/ \E u \in Latest(updates) : MemoOf(u) = MemoOf(FullRead(call.tip, client.confs)[k])
               \/ k \in SeqOrderMismatch(updates) \cup UnverifiedSigner(updates)
               \/ ManagementSeen(Deep(call.raw, call.tip, AtLeast(client.confs, 1)))
<1>1. PICK tip, from, confs, updates, u :
          /\ tip = call.tip /\ from = call.from /\ confs = client.confs
          /\ updates = ValidUpdates(call.raw) /\ u = FullRead(call.tip, client.confs)[k]
  OBVIOUS
<1>2. /\ tip \in Nat /\ from \in Nat /\ confs \in Nat \ {0} /\ tip <= Len(chain) /\ ChainTyped
      /\ IsFiniteSet(call.raw)
  BY <1>1, Bounds DEF ReadInvariant, CallShape, ClientShape, Settled
<1>3. PICK rows, order : rows = ConfirmedRows(tip, confs) /\ order = InOrder(rows)
  OBVIOUS
<1>4. /\ Len(order) \in Nat /\ DOMAIN order = 1..Len(order)
      /\ \A n \in 1..Len(order) : order[n] \in rows
      /\ \A x \in rows : \E n \in 1..Len(order) : order[n] = x
      /\ \A i, j \in 1..Len(order) : i < j => Before(order[i], order[j])
      /\ \E n \in Honoured(order, k) : (\A m \in Honoured(order, k) : m =< n) /\ u = order[n]
  <2>1. u = FullRead(tip, confs)[k] /\ u # << >>
    BY <1>1
  <2> QED BY <1>2, <1>3, <2>1, FullReadFacts
<1>5. PICK p \in Honoured(order, k) : (\A m \in Honoured(order, k) : m =< p) /\ u = order[p]
  BY <1>4
<1>6. p \in 1..Len(order) /\ u \in rows /\ MemoOf(u).op \in DataOps /\ MemoOf(u).key = k
  BY <1>4, <1>5 DEF Honoured
<1>7. ASSUME NEW x \in rows
      PROVE  /\ UpdateShape(x) /\ MemoOf(x) \in Memo /\ MemoOf(x) \in SentMemos
             /\ x[1] \in 1..tip /\ chain[x[1]] = x[2] /\ chain[x[1]] # 0
             /\ x \in Hits(chain[x[1]], x[1]) /\ x[1] + confs =< tip + 1 /\ Final(x[1], tip)
  <2>1. /\ UpdateShape(x) /\ x[1] \in 1..tip /\ chain[x[1]] = x[2] /\ x \in Hits(chain[x[1]], x[1])
        /\ Minus(tip, x[1]) + 1 >= confs
    BY <1>2, <1>3, RowsFacts DEF DeepEnough
  <2>2. x[1] + confs =< tip + 1
    BY <1>2, <2>1 DEF Minus
  <2>3. Final(x[1], tip)
    BY <1>1, <1>2, <2>1, <2>2, Bounds DEF Final, Settled
  <2>4. x[2] \in Nat \ {0}
    BY <2>1, TxAssumption DEF UpdateShape
  <2> QED BY <2>1, <2>2, <2>3, <2>4, MemoOfUpdate
<1>8. ASSUME NEW x \in rows, x[1] >= from
      PROVE  /\ x \in Deep(call.raw, call.tip, AtLeast(client.confs, 1))
             /\ MemoOf(x).op \in DataOps => x \in updates
  <2>1. x[1] \in Nat /\ x[1] >= call.from /\ Final(x[1], call.tip) /\ chain[x[1]] # 0
        /\ x[1] + client.confs =< call.tip + 1 /\ x \in Hits(chain[x[1]], x[1])
    BY <1>1, <1>7, <1>8
  <2>2. x \in Deep(call.raw, call.tip, AtLeast(client.confs, 1))
    BY <2>1, NoMemoIsDropped
  <2> QED BY <1>1, <2>2 DEF ValidUpdates, Updates
<1>9. u \in updates /\ u[1] \in Nat /\ u[1] >= from
  BY <1>1, <1>6, <1>7, <1>8
<1>10. MemoOf(u).signer # NoSigner
  BY <1>5 DEF Honoured, classify
<1>11. CASE u \notin Verified(updates)
  <2>1. k \in UnverifiedSigner(updates)
    BY <1>6, <1>9, <1>10, <1>11 DEF UnverifiedSigner
  <2> QED BY <1>1, <2>1
<1>12. CASE u \in Verified(updates)
  <2>1. \A x \in Verified(updates) : x \in updates /\ MemoOf(x).signer = Root
    BY DEF Verified, WindowTells
  <2>2. IsFiniteSet(updates) /\ \A x \in updates : UpdateShape(x)
    <3>1. updates \subseteq call.raw
      BY <1>1 DEF ValidUpdates, Updates, Deep
    <3>2. IsFiniteSet(updates)
      BY <1>2, <3>1, FS_Subset
    <3> QED BY <3>1, <3>2 DEF ReadInvariant, CallShape
  <2>3. PICK w \in Latest(updates) : MemoOf(w).key = k /\ (w = u \/ Before(u, w))
    BY <1>6, <1>12, <2>2, LatestExists
  <2>4. w \in Verified(updates) /\ w \in updates
    BY <2>1 DEF Latest
  <2>5. w \in rows /\ MemoOf(w).op \in DataOps
    <3>1. /\ UpdateShape(w) /\ MemoOf(w).op \in DataOps /\ Final(w[1], tip) /\ chain[w[1]] = w[2]
          /\ w[1] + confs =< tip + 1 /\ w[1] \in Nat /\ w[2] \in Tx
      BY <1>1, <2>4, ReturnedStand
    <3>2. w[1] \in 1..tip /\ chain[w[1]] # 0 /\ DeepEnough(w[1], tip, confs)
      BY <1>2, <3>1, TxAssumption DEF Final, DeepEnough, Minus
    <3>3. Hits(chain[w[1]], w[1]) \subseteq rows
      BY <1>2, <1>3, <3>2, RowsFacts
    <3>4. w \in Hits(chain[w[1]], w[1])
      BY <3>1 DEF Hits, UpdateShape
    <3> QED BY <3>1, <3>3, <3>4
  <2>6. MemoOf(u) \in RootWrites /\ MemoOf(w) \in RootWrites
    BY <1>6, <1>7, <1>12, <2>1, <2>4, <2>5 DEF RootWrites
  <2>7. MemoOf(u).seq \in Nat /\ MemoOf(w).seq \in Nat /\ MemoOf(w).seq =< VersionWindow
    BY <1>6, <1>7, <2>5, <2>6, MemoFields DEF WindowTells
  <2>8. CASE MemoOf(w) = MemoOf(u)
    BY <1>1, <2>3, <2>8
  <2>9. CASE MemoOf(w).seq = MemoOf(u).seq
    <3>1. MemoOf(w) = MemoOf(u)
      BY <1>6, <2>3, <2>6, <2>9 DEF WindowTells
    <3> QED BY <2>8, <3>1
  <2>10. CASE MemoOf(w).seq < MemoOf(u).seq
    <3>1. k \in SeqOrderMismatch(updates)
      BY <1>6, <1>12, <2>3, <2>10 DEF SeqOrderMismatch
    <3> QED BY <1>1, <3>1
  <2>11. CASE MemoOf(u).seq < MemoOf(w).seq
    <3>1. Before(u, w)
      BY <2>3, <2>7, <2>11
    <3>2. PICK q \in 1..Len(order) : order[q] = w
      BY <1>4, <2>5
    <3>3. p < q
      <4>1. CASE p = q
        BY <1>5, <2>7, <2>11, <3>2, <4>1
      <4>2. CASE q < p
        <5>1. Before(w, u)
          BY <1>4, <1>5, <1>6, <3>2, <4>2
        <5>2. UpdateShape(u) /\ UpdateShape(w)
          BY <1>6, <1>7, <2>5
        <5> QED BY <3>1, <5>1, <5>2, BeforeOrders
      <4>3. p \in Nat /\ q \in Nat
        BY <1>4, <1>6, <3>2
      <4> QED BY <4>1, <4>2, <4>3
    <3>4. \A n \in 1..Len(order) : MemoOf(order[n]) \in Memo /\ MemoOf(order[n]) \in SentMemos
      BY <1>4, <1>7
    <3>5. \A n \in 1..Len(order) :
              MemoOf(order[n]).op = "OWNERDEL" => Canonical[MemoOf(order[n]).key] # Root
      BY <3>4 DEF WindowTells
    <3>6. /\ MemoOf(order[q]).op \in DataOps /\ MemoOf(order[q]).key = k
          /\ MemoOf(order[q]).signer = Root /\ MemoOf(order[p]).seq < MemoOf(order[q]).seq
          /\ MemoOf(order[q]).seq =< VersionWindow
      BY <1>5, <2>1, <2>3, <2>4, <2>5, <2>7, <2>11, <3>2
    <3>7. PICK n \in p..q : MemoOf(order[n]).op \in OwnerOnlyOps
      BY <1>4, <1>5, <3>2, <3>3, <3>4, <3>5, <3>6, LaterWriteHonoured
    <3>8. PICK x : x = order[n]
      OBVIOUS
    <3>9. n \in 1..Len(order) /\ (n = p \/ p < n)
      BY <1>4, <1>6, <3>2
    <3>10. x \in rows /\ (x = u \/ Before(u, x))
      BY <1>4, <1>5, <1>6, <3>8, <3>9
    <3>11. x[1] \in Nat /\ u[1] =< x[1]
      BY <1>7, <1>9, <3>10 DEF Before
    <3>12. x[1] >= from
      BY <1>2, <1>9, <3>11
    <3>13. x \in Deep(call.raw, call.tip, AtLeast(client.confs, 1)) /\ MemoOf(x).op \in OwnerOnlyOps
      BY <1>8, <3>7, <3>8, <3>10, <3>12
    <3> QED BY <3>13 DEF ManagementSeen
  <2> QED BY <2>7, <2>9, <2>10, <2>11
<1> QED BY <1>11, <1>12

LEMMA WindowReadAgrees ==
    ASSUME ReadInvariant
    PROVE  AgreesWithFullReadOrWarns
BY AgreesOnKey, Zenon DEF AgreesWithFullReadOrWarns, AgreesOrWarns

-----------------------------------------------------------------------------
(* The types, and the honesty of a read as a whole.                         *)

\* A transaction is fetched at a height of the chain, or not at all.
LEMMA FetchedOnChain ==
    ASSUME ChainTyped, NEW tip \in Nat, tip <= Len(chain), NEW c, HitHolds(c, tip),
           NEW height \in FetchedAt(c[2], c[1])
    PROVE  \A u \in Hits(c[2], height) : u[1] \in 1..Len(chain)
<1>1. Len(chain) \in Nat /\ DOMAIN chain = 1..Len(chain)
  BY ChainNumbers
<1>2. c[1] \in 1..tip
  BY DEF HitHolds
<1>3. height = 0 \/ height \in 1..Len(chain)
  BY <1>1, <1>2 DEF FetchedAt, MinedAt
<1> QED BY <1>3 DEF Hits

\* What a request may change: the memos it adds were on the chain, and of the client it
\* sets the anchor.
LEMMA RequestFacts ==
    ASSUME ReadInvariant, Read, ~Return
    PROVE  /\ UNCHANGED <<chain, reorgs, failures, emitted>>
           /\ cache'.receiver \in {cache.receiver, "own"}
           /\ \E anchor : client' = [client EXCEPT !.anchor = anchor]
           /\ \A u \in call'.raw : u \in call.raw \/ u[1] \in 1..Len(chain)
<1>1. CallShape /\ ClientShape /\ ChainTyped
  BY DEF ReadInvariant
<1>2. ASSUME UNCHANGED client PROVE \E anchor : client' = [client EXCEPT !.anchor = anchor]
  <2>1. client' = [client EXCEPT !.anchor = client.anchor]
    BY <1>1, <1>2 DEF ClientShape
  <2> QED BY <2>1
<1>3. ASSUME NEW c, NEW w, CallRecord(w), w.raw \subseteq call.raw, c = Fetch(w)
      PROVE  c.raw \subseteq call.raw
  <2>1. \/ c = [w EXCEPT !.pc = "find", !.at = w.tip, !.size = FirstChunk]
        \/ c = [w EXCEPT !.pc = "window", !.at = w.from, !.size = Chunk]
    BY <1>3 DEF Fetch
  <2> QED BY <1>3, <2>1 DEF CallRecord
<1>4. IdleCall.raw \subseteq call.raw
  BY DEF IdleCall
<1>5. call = [pc |-> call.pc, op |-> call.op, want |-> call.want, pattern |-> call.pattern,
              tip |-> call.tip, from |-> call.from, at |-> call.at, size |-> call.size,
              hits |-> call.hits, raw |-> call.raw, stop |-> call.stop]
  BY <1>1 DEF CallShape, CallRecord
<1>6. \A c \in call.hits : HitHolds(c, call.tip) /\ c[1] \in Nat /\ c[2] \in Nat /\ c[1] <= call.tip
  BY <1>1, TxAssumption DEF CallShape, HitHolds
<1>7. call.tip \in Nat /\ call.tip <= Len(chain)
  BY <1>1 DEF CallShape
<1>8. CASE EnsureInit
  <2>1. /\ UNCHANGED <<chain, reorgs, cache, failures, emitted>>
        /\ \/ call' = Fetch(call)
           \/ call' = [call EXCEPT !.pc = "walk", !.at = Birthday, !.size = FirstChunk]
    BY <1>8 DEF EnsureInit
  <2>2. call'.raw \subseteq call.raw
    <3>1. CASE call' = Fetch(call)
      <4>1. PICK w : w = call
        OBVIOUS
      <4>2. CallRecord(w) /\ w.raw \subseteq call.raw /\ call' = Fetch(w)
        BY <1>1, <3>1, <4>1 DEF CallShape
      <4>3. PICK c : c = call'
        OBVIOUS
      <4> QED BY <1>3, <4>2, <4>3
    <3>2. CASE call' = [call EXCEPT !.pc = "walk", !.at = Birthday, !.size = FirstChunk]
      BY <1>5, <3>2
    <3> QED BY <2>1, <3>1, <3>2
  <2> QED BY <1>8, <2>1, <2>2, InitEnsured
<1>9. CASE WalkChunk
  <2>1. /\ UNCHANGED <<chain, reorgs, cache, client, failures, emitted>>
        /\ \/ call' = IdleCall
           \/ \E h, at : call' = [call EXCEPT !.hits = h, !.at = at, !.size = NextSize(@)]
    BY <1>9, Zenon DEF WalkChunk
  <2>2. call'.raw \subseteq call.raw
    BY <1>4, <1>5, <2>1
  <2> QED BY <1>2, <2>1, <2>2
<1>10. CASE WalkHeight
  <2>1. PICK hit, height :
            /\ UNCHANGED <<chain, reorgs, failures, emitted>>
            /\ \/ call' = [call EXCEPT !.hits = @ \ {hit}] /\ UNCHANGED cache
               \/ /\ \E anchor : cache' = [receiver |-> "own", anchor |-> anchor]
                  /\ call' = Fetch([call EXCEPT !.hits = {}])
    BY <1>10 DEF WalkHeight
  <2>2. cache'.receiver \in {cache.receiver, "own"}
    BY <2>1
  <2>3. call'.raw \subseteq call.raw
    <3>1. CASE call' = [call EXCEPT !.hits = @ \ {hit}]
      BY <1>5, <3>1
    <3>2. CASE call' = Fetch([call EXCEPT !.hits = {}])
      <4>1. PICK w : w = [call EXCEPT !.hits = {}]
        OBVIOUS
      <4>2. CallRecord(w) /\ w.raw \subseteq call.raw /\ call' = Fetch(w)
        BY <1>5, <3>2, <4>1 DEF CallRecord
      <4>3. PICK c : c = call'
        OBVIOUS
      <4> QED BY <1>3, <4>2, <4>3
    <3> QED BY <2>1, <3>1, <3>2
  <2> QED BY <1>10, <2>1, <2>2, <2>3, WalkLooks
<1>11. CASE WindowChunk
  <2>1. /\ UNCHANGED <<chain, reorgs, cache, client, failures, emitted>>
        /\ \E h, at, pc : call' = [call EXCEPT !.hits = @ \cup h, !.at = at, !.pc = pc]
    BY <1>11, Zenon DEF WindowChunk
  <2>2. call'.raw \subseteq call.raw
    BY <1>5, <2>1
  <2> QED BY <1>2, <2>1, <2>2
<1>12. CASE Enhance
  <2>1. PICK hit : hit = CHOOSE c \in call.hits : \A d \in call.hits : c[2] =< d[2]
    OBVIOUS
  <2>2. hit \in call.hits
    <3>1. call.hits # {}
      BY <1>12 DEF Enhance
    <3>2. PICK n \in {c[2] : c \in call.hits} : \A m \in {c[2] : c \in call.hits} : n <= m
      BY <1>6, <3>1, LeastNat
    <3>3. \E c \in call.hits : \A d \in call.hits : c[2] =< d[2]
      BY <3>2
    <3> QED BY <2>1, <3>3
  <2>3. PICK height \in FetchedAt(hit[2], hit[1]) :
            call' = [call EXCEPT !.hits = @ \ {hit}, !.raw = @ \cup Hits(hit[2], height)]
    BY <1>12, <2>1 DEF Enhance
  <2>4. \A u \in Hits(hit[2], height) : u[1] \in 1..Len(chain)
    BY <1>1, <1>6, <1>7, <2>2, FetchedOnChain
  <2>5. call'.raw = call.raw \cup Hits(hit[2], height)
    BY <1>5, <2>3
  <2>6. UNCHANGED <<chain, reorgs, cache, client, failures, emitted>>
    BY <1>12 DEF Enhance
  <2> QED BY <1>2, <2>4, <2>5, <2>6
<1>13. CASE EnhanceDone
  <2>1. call' = [call EXCEPT !.pc = "done"] /\ UNCHANGED <<chain, reorgs, cache, client, failures, emitted>>
    BY <1>13 DEF EnhanceDone
  <2>2. call'.raw = call.raw
    BY <1>5, <2>1
  <2> QED BY <1>2, <2>1, <2>2
<1>14. CASE FindChunk
  <2>1. /\ UNCHANGED <<chain, reorgs, cache, client, failures, emitted>>
        /\ \/ \E from : call' = [call EXCEPT !.pc = "done", !.from = from]
           \/ \E h, at : call' = [call EXCEPT !.hits = h, !.at = at, !.size = NextSize(@)]
    BY <1>14, Zenon DEF FindChunk
  <2>2. call'.raw = call.raw
    BY <1>5, <2>1
  <2> QED BY <1>2, <2>1, <2>2
<1>15. CASE FindHeight
  <2>1. PICK hit : hit = Highest(call.hits)
    OBVIOUS
  <2>2. hit \in call.hits
    <3>1. call.hits # {}
      BY <1>15 DEF FindHeight
    <3> QED BY <1>6, <1>7, <2>1, <3>1, HighestIs
  <2>3. UNCHANGED <<chain, reorgs, cache, client, failures, emitted>>
    BY <1>15 DEF FindHeight
  <2>4. \/ \E from : call' = [call EXCEPT !.pc = "done", !.hits = {}, !.from = from]
        \/ \E height \in FetchedAt(hit[2], hit[1]) : \E stop :
               call' = [call EXCEPT !.hits = @ \ {hit}, !.raw = call.raw \cup Hits(hit[2], height),
                                    !.stop = stop]
    BY <1>15, <2>1 DEF FindHeight
  <2>5. CASE \E from : call' = [call EXCEPT !.pc = "done", !.hits = {}, !.from = from]
    <3>1. call'.raw = call.raw
      BY <1>5, <2>5
    <3> QED BY <1>2, <2>3, <3>1
  <2>6. CASE \E height \in FetchedAt(hit[2], hit[1]) : \E stop :
               call' = [call EXCEPT !.hits = @ \ {hit}, !.raw = call.raw \cup Hits(hit[2], height),
                                    !.stop = stop]
    <3>1. PICK height \in FetchedAt(hit[2], hit[1]) : \E stop :
               call' = [call EXCEPT !.hits = @ \ {hit}, !.raw = call.raw \cup Hits(hit[2], height),
                                    !.stop = stop]
      BY <2>6
    <3>2. \A u \in Hits(hit[2], height) : u[1] \in 1..Len(chain)
      BY <1>1, <1>6, <1>7, <2>2, FetchedOnChain
    <3>3. call'.raw = call.raw \cup Hits(hit[2], height)
      BY <1>5, <3>1
    <3> QED BY <1>2, <2>3, <3>2, <3>3
  <2> QED BY <2>4, <2>5, <2>6
<1> QED BY <1>8, <1>9, <1>10, <1>11, <1>12, <1>13, <1>14, <1>15 DEF Read


\* What the types say beyond ReadInvariant: the bounds, and which updates are kept.
Bounded ==
    /\ Len(chain) =< MaxHeight
    /\ reorgs \in 0..MaxReorgs /\ failures \in 0..MaxFailures
    /\ cache.receiver \in {"none", "other", "own"}
    /\ client.open \in BOOLEAN /\ client.confs \in Confs \cup {0}
    /\ client.cursor.recent \subseteq UpdateId /\ client.first \subseteq UpdateId
    /\ call.raw \subseteq UpdateId
    /\ emitted \in Seq(UpdateId)

LEMMA BoundedIsTyped ==
    ASSUME ReadInvariant, Bounded
    PROVE  ShallowTypeOK
<1>1. Len(chain) \in Nat /\ MaxHeight \in Nat /\ call.tip \in Nat /\ call.tip <= Len(chain)
  BY ChainNumbers, DepthAssumption DEF ReadInvariant, CallShape
<1>2. ASSUME NEW c \in call.hits PROVE c \in (1..MaxHeight) \X Tx
  <2>1. c = <<c[1], c[2]>> /\ c[1] \in 1..call.tip /\ c[2] \in Tx
    BY DEF ReadInvariant, CallShape, HitHolds
  <2>2. c[1] \in 1..MaxHeight
    BY <1>1, <2>1 DEF Bounded
  <2> QED BY <2>1, <2>2
<1>3. call.hits \subseteq (1..MaxHeight) \X Tx
  BY <1>2
<1> QED BY <1>3 DEF Bounded, ReadInvariant, ChainTyped, CallShape, ShallowTypeOK

LEMMA UpdateIsTyped ==
    ASSUME NEW u, UpdateShape(u), u[1] =< MaxHeight
    PROVE  u \in UpdateId
<1>1. u = <<u[1], u[2], u[3]>> /\ u[2] \in Tx /\ u[3] \in Nat /\ u[1] \in Nat \ {0}
  BY OutputsAreNumbers DEF UpdateShape
<1>2. u[1] \in 1..MaxHeight
  BY <1>1, DepthAssumption
<1> QED BY <1>1, <1>2 DEF UpdateId

\* What a read returns is listed as updates.
LEMMA ListIsTyped ==
    ASSUME ReadInvariant, call.raw \subseteq UpdateId, NEW S, S \subseteq ValidUpdates(call.raw)
    PROVE  InOrder(S) \in Seq(UpdateId)
<1>1. S \subseteq call.raw /\ IsFiniteSet(S) /\ \A u \in S : UpdateShape(u)
  <2>1. IsFiniteSet(call.raw) /\ ValidUpdates(call.raw) \subseteq call.raw
    BY DEF ReadInvariant, CallShape, ValidUpdates, Updates, Deep
  <2>2. IsFiniteSet(S)
    BY <2>1, FS_Subset
  <2> QED BY <2>1, <2>2, ReturnedStand
<1>2. InOrder(S) \in Seq(S)
  BY <1>1, InOrderFacts
<1>3. S \subseteq UpdateId
  BY <1>1
<1> QED BY <1>2, <1>3, SeqWiden

\* A branch replaces as many blocks as it has.
LEMMA ReorganiseKeepsLength ==
    ASSUME ChainTyped, NEW depth \in 1..ReorgDepth, Reorganise(depth)
    PROVE  Len(chain') = Len(chain)
<1> DEFINE n == Len(chain)
           k == n - depth
           kept == SubSeq(chain, 1, k)
           free == (Tx \ {kept[h] : h \in DOMAIN kept}) \cup {0}
<1>1. chain \in Seq(Tx \cup {0}) /\ n \in Nat /\ ReorgDepth \in Nat
  BY DepthAssumption DEF ChainTyped
<1>2. depth \in Nat /\ k \in Nat /\ k <= n
  BY <1>1 DEF Reorganise
<1>3. PICK branch \in [1..depth -> free] : chain' = kept \o branch
  BY DEF Reorganise
<1>4. kept \in Seq(Tx \cup {0}) /\ Len(kept) = k
  <2>1. chain \in Seq(Tx \cup {0}) /\ k \in Nat /\ k <= Len(chain)
    BY <1>1, <1>2
  <2> QED BY ONLY <2>1, PrefixFacts
<1> HIDE DEF kept
<1>5. branch \in [1..depth -> Tx \cup {0}]
  BY <1>3
<1>6. branch \in Seq(Tx \cup {0})
  BY <1>2, <1>5, ListIsSeq
<1>7. Len(branch) = depth
  BY <1>2, <1>5
<1>8. Len(kept \o branch) = Len(kept) + Len(branch)
  BY ONLY <1>4, <1>6, ConcatFacts
<1> QED BY <1>1, <1>2, <1>3, <1>4, <1>7, <1>8

LEMMA BoundedStarts ==
    ASSUME ShallowInit
    PROVE  Bounded
<1>1. MaxHeight \in Nat /\ MaxReorgs \in Nat /\ MaxFailures \in Nat
  BY DepthAssumption
<1>2. << >> \in Seq(UpdateId) /\ Len(<< >>) = 0
  OBVIOUS
<1> QED BY <1>1, <1>2 DEF ShallowInit, Bounded, NoCache, Closed, NoCursor, IdleCall

\* A step of the chain.
LEMMA ChainKeepsBounds ==
    ASSUME Bounded, UNCHANGED <<cache, client, call, failures, emitted>>,
           Len(chain') =< MaxHeight, reorgs' \in 0..MaxReorgs
    PROVE  Bounded'
BY DEF Bounded

\* A step that starts or gives up a call.
LEMMA CallKeepsBounds ==
    ASSUME Bounded, UNCHANGED <<chain, reorgs, cache, client, emitted>>,
           failures' \in 0..MaxFailures, call'.raw = {}
    PROVE  Bounded'
BY DEF Bounded

LEMMA ReturnIsBounded ==
    ASSUME ReadInvariant, Bounded, Return
    PROVE  Bounded'
<1>1. /\ ClientShape /\ call.raw \subseteq UpdateId /\ emitted \in Seq(UpdateId)
      /\ ValidUpdates(call.raw) \subseteq call.raw
  BY DEF ReadInvariant, Bounded, ValidUpdates, Updates, Deep
<1>2. /\ UNCHANGED <<chain, reorgs, cache, failures>> /\ call'.raw = {}
      /\ client'.open = client.open /\ client'.confs = client.confs
  BY ClientAfterReturn DEF Return, IdleCall
<1>3. NewCursor.recent \subseteq UpdateId /\ Verified(ValidUpdates(call.raw)) \subseteq UpdateId
  BY <1>1 DEF NewCursor, Recent, Verified, Updates, Deep
<1>4. CASE call.op = "scan"
  <2>1. Matching(Latest(ValidUpdates(call.raw))) \subseteq ValidUpdates(call.raw)
    BY DEF Matching, Latest, Verified
  <2>2. emitted' \in Seq(UpdateId)
    BY <1>1, <1>4, <2>1, ClientAfterReturn, ListIsTyped
  <2>3. /\ client' = [client EXCEPT !.cursor = NewCursor, !.since = call.from,
                                    !.first = Verified(ValidUpdates(call.raw))]
    BY <1>4, ClientAfterReturn
  <2>4. client'.cursor = NewCursor /\ client'.first = Verified(ValidUpdates(call.raw))
    BY <1>1, <2>3 DEF ClientShape
  <2> QED BY <1>2, <1>3, <2>2, <2>4 DEF Bounded
<1>5. CASE call.op = "poll"
  <2>1. Matching(Verified(Fresh(ValidUpdates(call.raw)))) \subseteq ValidUpdates(call.raw)
    BY DEF Matching, Verified, Fresh
  <2>2. PICK more : more = InOrder(Matching(Verified(Fresh(ValidUpdates(call.raw)))))
    OBVIOUS
  <2>3. more \in Seq(UpdateId)
    BY <1>1, <2>1, <2>2, ListIsTyped
  <2>4. emitted' = emitted \o more
    BY <1>5, <2>2, ClientAfterReturn
  <2>5. emitted' \in Seq(UpdateId)
    BY <1>1, <2>3, <2>4, ConcatFacts
  <2>6. client' = [client EXCEPT !.cursor = NewCursor]
    BY <1>5, ClientAfterReturn
  <2>7. client'.cursor = NewCursor /\ client'.first = client.first
    BY <1>1, <2>6 DEF ClientShape
  <2> QED BY <1>2, <1>3, <2>5, <2>7 DEF Bounded
<1>6. CASE call.op = "find"
  BY <1>2, <1>6, ClientAfterReturn DEF Bounded
<1> QED BY <1>4, <1>5, <1>6, ClientAfterReturn

LEMMA RequestIsBounded ==
    ASSUME ReadInvariant, ReadInvariant', Bounded, Read, ~Return
    PROVE  Bounded'
<1>1. /\ UNCHANGED <<chain, reorgs, failures, emitted>>
      /\ cache'.receiver \in {cache.receiver, "own"}
      /\ \A u \in call'.raw : u \in call.raw \/ u[1] \in 1..Len(chain)
  BY RequestFacts
<1>2. PICK anchor : client' = [client EXCEPT !.anchor = anchor]
  BY RequestFacts
<1>3. /\ client'.open = client.open /\ client'.confs = client.confs
      /\ client'.cursor = client.cursor /\ client'.first = client.first
  BY <1>2 DEF ReadInvariant, ClientShape
<1>4. Len(chain) \in Nat /\ MaxHeight \in Nat /\ Len(chain) <= MaxHeight
  BY ChainNumbers, DepthAssumption DEF ReadInvariant, Bounded
<1>5. ASSUME NEW u \in call'.raw PROVE u \in UpdateId
  <2>1. CASE u \in call.raw
    BY <2>1 DEF Bounded
  <2>2. CASE u[1] \in 1..Len(chain)
    <3>1. UpdateShape(u)
      BY DEF ReadInvariant, CallShape
    <3>2. u[1] <= MaxHeight
      BY <1>4, <2>2
    <3> QED BY <3>1, <3>2, UpdateIsTyped
  <2> QED BY <1>1, <2>1, <2>2
<1> QED BY <1>1, <1>3, <1>5 DEF Bounded

LEMMA BoundedKept ==
    ASSUME ReadInvariant, Bounded, [ShallowNext]_shallowVars
    PROVE  Bounded'
<1>0. /\ ReadInvariant' /\ ChainTyped /\ Len(chain) \in Nat /\ MaxHeight \in Nat
      /\ MaxReorgs \in Nat /\ MaxFailures \in Nat
  BY ReadInvariantKept, ChainNumbers, DepthAssumption DEF ReadInvariant
<1>1. CASE UNCHANGED shallowVars
  BY <1>1 DEF Bounded, shallowVars
<1>2. ASSUME NEW t \in Tx \cup {0}, MineBlock(t) PROVE Bounded'
  <2>1. chain \in Seq(Tx \cup {0}) /\ chain' = Append(chain, t) /\ Len(chain) < MaxHeight
    BY <1>0, <1>2 DEF ChainTyped, MineBlock
  <2>2. Len(chain') =< MaxHeight
    BY <1>0, <2>1
  <2> QED BY <1>2, <2>2, ChainKeepsBounds DEF MineBlock, Bounded
<1>3. ASSUME NEW depth \in 1..ReorgDepth, Reorganise(depth) PROVE Bounded'
  <2>1. Len(chain') = Len(chain)
    BY <1>0, <1>3, ReorganiseKeepsLength
  <2>2. reorgs' \in 0..MaxReorgs
    BY <1>0, <1>3 DEF Reorganise, Bounded
  <2>3. Len(chain) =< MaxHeight
    BY DEF Bounded
  <2> QED BY <1>3, <2>1, <2>2, <2>3, ChainKeepsBounds DEF Reorganise
<1>4. ASSUME NEW confs \in Confs, NEW verify \in Verify, Open(confs, verify) PROVE Bounded'
  <2>1. client' = [Closed EXCEPT !.open = TRUE, !.confs = confs, !.verify = verify]
    BY <1>4 DEF Open
  <2>2. client'.open = TRUE /\ client'.confs = confs /\ client'.cursor.recent = {} /\ client'.first = {}
    BY <2>1 DEF Closed, NoCursor
  <2> QED BY <1>4, <2>2 DEF Open, Bounded
<1>5. CASE Close
  <2>1. /\ client'.open = FALSE /\ client'.confs = 0 /\ client'.cursor.recent = {}
        /\ client'.first = {} /\ call'.raw = {} /\ emitted' = << >>
    BY <1>5 DEF Close, Closed, NoCursor, IdleCall
  <2>2. << >> \in Seq(UpdateId)
    OBVIOUS
  <2> QED BY <1>5, <2>1, <2>2 DEF Close, Bounded
<1>6. CASE Fail
  <2>1. failures' \in 0..MaxFailures
    BY <1>0, <1>6 DEF Fail, Bounded
  <2> QED BY <1>6, <2>1, CallKeepsBounds DEF Fail, IdleCall
<1>7. ASSUME NEW op \in {"scan", "find"}, NEW want, NEW pattern, Start(op, want, pattern)
      PROVE  Bounded'
  <2>1. call'.raw = {}
    BY <1>7 DEF Start, IdleCall
  <2> QED BY <1>7, <2>1, CallKeepsBounds DEF Start, Bounded
<1>8. CASE StartPoll
  <2>1. call'.raw = {}
    BY <1>8 DEF StartPoll, Fetch, IdleCall
  <2> QED BY <1>8, <2>1, CallKeepsBounds DEF StartPoll, Bounded
<1>9. CASE Read
  BY <1>0, <1>9, RequestIsBounded, ReturnIsBounded
<1> QED BY <1>1, <1>2, <1>3, <1>4, <1>5, <1>6, <1>7, <1>8, <1>9 DEF ShallowNext

\* A read of the shallow client is honest, for any chain, whatever is mined or replaced
\* between its requests.  The INIT anchor a client has memoised or cached is the first
\* root-signed INIT of the chain (verify_init_at, ensure_init).  A read that is done holds
\* exactly the confirmed updates of the range it says it covered (scan, find_where, poll).
\* And where a window tells, the value it shows for a key the full read finds in that
\* range is the one the full read holds, or it warns (validate).  Only reorganisations as
\* deep as the confirmations asked for are excepted.
THEOREM ReadsAreHonest == ShallowSpec => []ReadsHonest
<1>1. ShallowInit => ReadInvariant /\ Bounded
  BY ReadInvariantStarts, BoundedStarts
<1>2. ReadInvariant /\ Bounded /\ [ShallowNext]_shallowVars => (ReadInvariant /\ Bounded)'
  BY ReadInvariantKept, BoundedKept
<1>3. ReadInvariant /\ Bounded => ReadsHonest
  BY BoundedIsTyped, AnchorsAreFirst, ReadIsExact, WindowReadAgrees DEF ReadsHonest
<1> QED BY <1>1, <1>2, <1>3, PTL DEF ShallowSpec

=============================================================================
