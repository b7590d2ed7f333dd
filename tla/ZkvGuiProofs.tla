---------------------------- MODULE ZkvGuiProofs ----------------------------
(****************************************************************************)
(* A pause is not lost, the slot mutex has one owner, and syncs keep to     *)
(* their permits, for any number of members, engines and pauses; and what   *)
(* the GUI shows of a wallet adds up and does not vanish, for any number    *)
(* of transactions, blocks and failures.                                    *)
(*                                                                          *)
(* PausedIsCancelled is inductive once the workers are known to be records  *)
(* indexed by the members: the only step that clears the cancel flag also   *)
(* puts every worker back in front of its pause check.  The properties of   *)
(* ZkvDashboard rest on WalletInvariant, which says what the wallet's rows, *)
(* pending.toml and the cache may hold of a transaction.                    *)
(****************************************************************************)
EXTENDS ZkvEngine, ZkvDashboard, FiniteSetTheorems, WellFoundedInduction, TLAPS

WorkerRecord == [pc : {"idle", "queued", "ready", "node", "starting", "sync", "load", "check"},
                 goal : {"sync", "load", "check"},
                 eng : Engines \cup {Nobody},
                 retried : BOOLEAN]

\* The workers are a table of records, whatever the tasks have done so far.
WorkersWellFormed == worker \in [Members -> WorkerRecord]

PauseInvariant == WorkersWellFormed /\ PausedIsCancelled

\* The steps of a worker change the table at its own entry, to a record.
LEMMA WorkerStepShape ==
    ASSUME WorkersWellFormed, NEW m \in Members, WorkerStep(m)
    PROVE  /\ WorkersWellFormed'
           /\ \A n \in Members \ {m} : worker'[n] = worker[n]
           /\ UNCHANGED gui
<1> USE DEF WorkersWellFormed, WorkerRecord
<1>1. CASE WorkerStart(m)
  BY <1>1 DEF WorkerStart
<1>2. CASE OpenEngine(m)
  <2>1. PICK e \in Engines :
            worker' = [worker EXCEPT ![m] = IF m \in fresh THEN IdleWorker
                                            ELSE [@ EXCEPT !.pc = "node", !.eng = e]]
    BY <1>2 DEF OpenEngine
  <2> DEFINE opened == [worker[m] EXCEPT !.pc = "node", !.eng = e]
  <2>2. opened \in WorkerRecord /\ IdleWorker \in WorkerRecord
    BY Zenon DEF IdleWorker
  <2>3. worker' = [worker EXCEPT ![m] = IF m \in fresh THEN IdleWorker ELSE opened]
    BY <2>1
  <2> HIDE DEF opened, WorkerRecord
  <2>4. UNCHANGED gui
    BY <1>2 DEF OpenEngine
  <2> QED
    BY <2>2, <2>3, <2>4
<1>3. CASE GetNode(m)
  BY <1>3 DEF GetNode, Goto, gui
<1>4. CASE BeginStart(m)
  BY <1>4 DEF BeginStart, Goto
<1>5. CASE StartOk(m)
  BY <1>5 DEF StartOk, Goto
<1>6. CASE StartBusy(m)
  BY <1>6 DEF StartBusy, Finish, IdleWorker
<1>7. CASE Cancelled(m)
  BY <1>7 DEF Cancelled, Finish, IdleWorker
<1>8. CASE SyncError(m)
  BY <1>8 DEF SyncError, Finish, IdleWorker
<1>9. CASE UnknownWallet(m)
  BY <1>9 DEF UnknownWallet
<1>10. CASE LoadMember(m)
  BY <1>10 DEF LoadMember, Goto
<1>11. CASE Synced(m)
  BY <1>11 DEF Synced, Goto
<1>12. CASE CrossCheck(m)
  BY <1>12 DEF CrossCheck, Finish, IdleWorker
<1> QED
  BY <1>1, <1>2, <1>3, <1>4, <1>5, <1>6, <1>7, <1>8, <1>9, <1>10, <1>11, <1>12
  DEF WorkerStep

\* A worker commits to a sync only by WorkerStart, which looks at both switches
\* and at the cancel flag first.
LEMMA CommitsOnlyUnpaused ==
    ASSUME WorkersWellFormed, NEW m \in Members, WorkerStep(m), Committed(m)', ~Committed(m)
    PROVE  ~paused_all /\ m \notin paused
<1>1. worker[m].pc \in {"idle", "queued"}
  BY DEF Committed
<1>2. CASE WorkerStart(m)
  BY <1>2 DEF WorkerStart, Committed, WorkersWellFormed, WorkerRecord
<1>3. CASE ~WorkerStart(m)
  BY <1>1, <1>3 DEF WorkerStep, OpenEngine, GetNode, BeginStart, StartOk, StartBusy, Cancelled,
     SyncError, UnknownWallet, LoadMember, Synced, CrossCheck
<1> QED
  BY <1>2, <1>3

LEMMA PauseInit == EngineInit => PauseInvariant
BY DEF EngineInit, PauseInvariant, WorkersWellFormed, WorkerRecord, PausedIsCancelled, Committed, IdleWorker

LEMMA PauseNext == PauseInvariant /\ [EngineNext]_engineVars => PauseInvariant'
<1> SUFFICES ASSUME PauseInvariant, [EngineNext]_engineVars PROVE PauseInvariant'
  OBVIOUS
<1>0. WorkersWellFormed /\ PausedIsCancelled
  BY DEF PauseInvariant
<1>1. ASSUME NEW m \in Members, WorkerStep(m) PROVE PauseInvariant'
  <2>1. WorkersWellFormed' /\ UNCHANGED gui
    BY <1>0, <1>1, WorkerStepShape
  <2>2. ASSUME setter' = "none", NEW n \in Members, paused_all' \/ n \in paused', Committed(n)'
        PROVE  cancel'
    <3>1. CASE Committed(n)
      BY <1>0, <2>1, <2>2, <3>1 DEF PausedIsCancelled, gui
    <3>2. CASE ~Committed(n)
      <4>1. n = m
        BY <1>0, <1>1, <2>2, <3>2, WorkerStepShape DEF Committed
      <4> QED
        BY <1>0, <1>1, <2>1, <2>2, <3>2, <4>1, CommitsOnlyUnpaused DEF gui
    <3> QED
      BY <3>1, <3>2
  <2> QED
    BY <2>1, <2>2 DEF PauseInvariant, PausedIsCancelled
<1>2. CASE CycleSpawn
  BY <1>0, <1>2 DEF CycleSpawn, PauseInvariant, WorkersWellFormed, WorkerRecord,
     PausedIsCancelled, Committed, IdleWorker
<1>3. CASE StoreCancel
  BY <1>0, <1>3 DEF StoreCancel, PauseInvariant, WorkersWellFormed, PausedIsCancelled
<1>4. ASSUME UNCHANGED <<worker, cancel>>,
             \/ setter' # "none"
             \/ setter' = setter /\ (paused_all' => paused_all) /\ paused' \subseteq paused
      PROVE  PauseInvariant'
  BY <1>0, <1>4 DEF PauseInvariant, WorkersWellFormed, PausedIsCancelled, Committed
<1>5. CASE CycleTop \/ CycleFilter \/ CycleEnd
  BY <1>4, <1>5 DEF CycleTop, CycleFilter, CycleEnd
<1>6. CASE StopStep
  BY <1>4, <1>6 DEF StopStep, ShutdownAll, Drained, Shutdown, gui
<1>7. ASSUME NEW m \in Members, SetPause(m) \/ Resume(m) \/ Import(m) \/ Enrol(m)
      PROVE  PauseInvariant'
  BY <1>4, <1>7 DEF SetPause, Resume, Import, Enrol, gui
<1>8. CASE SetPauseAll \/ ResumeAll
  BY <1>4, <1>8 DEF SetPauseAll, ResumeAll
<1>9. CASE NewBlocks \/ CliLock \/ CliUnlock
  BY <1>4, <1>9 DEF NewBlocks, CliLock, CliUnlock, gui
<1>10. CASE UNCHANGED engineVars
  BY <1>4, <1>10 DEF engineVars, gui
<1> QED
  BY <1>1, <1>2, <1>3, <1>5, <1>6, <1>7, <1>8, <1>9, <1>10 DEF EngineNext, CycleStep

\* Once a pause call of the GUI has returned, no worker of a paused database is
\* past its checks without the cancel flag being up: for every fleet, every
\* number of pauses and every interleaving of the loop, the workers, set_pause
\* and set_pause_all.
THEOREM PauseNeverLost == EngineSpec => []PausedIsCancelled
<1>1. PauseInvariant => PausedIsCancelled
  BY DEF PauseInvariant
<1> QED
  BY <1>1, PauseInit, PauseNext, PTL DEF EngineSpec

-----------------------------------------------------------------------------
(* The slot mutex of an engine and the permits of the loop.                *)

MutexOwned ==
    \A e \in Engines, m \in Members :
        mutex[e] = m <=> worker[m].pc = "starting" /\ worker[m].eng = e

\* EngineTypeOK's part about the node's handles.
HandlesTyped ==
    /\ loop \in {"top", "listing", "listed", "running"}
    /\ registry \in Engines \cup {Nobody} /\ slot \in Engines \cup {Nobody}
    /\ holders \subseteq Members /\ stopping \subseteq Engines

\* A worker past its engine_for has an engine, and outside a cycle no worker runs:
\* the loop joins them all, so that spawning the next ones abandons no mutex.
WorkersPlaced ==
    /\ \A m \in Members : worker[m].pc \notin {"idle", "queued", "ready"} => worker[m].eng \in Engines
    /\ loop # "running" => \A m \in Members : worker[m].pc = "idle"

SlotInvariant ==
    /\ WorkersWellFormed /\ mutex \in [Engines -> Members \cup {Nobody}]
    /\ MutexOwned /\ HandlesTyped /\ WorkersPlaced

\* What a worker's step does to its own entry.
LEMMA WorkerMoves ==
    ASSUME SlotInvariant, NEW m \in Members, WorkerStep(m)
    PROVE  /\ \/ worker'[m].eng = worker[m].eng
              \/ worker'[m].eng \in Engines
              \/ worker'[m].pc = "idle"
           /\ worker[m].pc \in {"idle", "queued", "ready"} =>
                  \/ worker'[m].pc \in {"idle", "queued", "ready"}
                  \/ worker'[m].eng \in Engines
           /\ worker[m].pc # "idle"
           /\ worker'[m].pc # "starting" \/ BeginStart(m)
           /\ worker[m].pc # "starting" \/ StartOk(m) \/ StartBusy(m)
           /\ UNCHANGED mutex \/ BeginStart(m) \/ StartOk(m) \/ StartBusy(m)
<1>0. /\ worker \in [Members -> WorkerRecord] /\ worker[m] \in WorkerRecord
      /\ worker[m].pc \notin {"idle", "queued", "ready"} => worker[m].eng \in Engines
  BY DEF SlotInvariant, WorkersWellFormed, WorkersPlaced
<1> HIDE DEF WorkerRecord
<1>1. CASE WorkerStart(m)
  BY <1>0, <1>1 DEF WorkerStart, WorkerRecord
<1>2. CASE OpenEngine(m)
  <2>1. PICK e \in Engines :
            worker' = [worker EXCEPT ![m] = IF m \in fresh THEN IdleWorker
                                            ELSE [@ EXCEPT !.pc = "node", !.eng = e]]
    BY <1>2 DEF OpenEngine
  <2> DEFINE opened == [worker[m] EXCEPT !.pc = "node", !.eng = e]
  <2>2. opened.pc = "node" /\ opened.eng = e /\ IdleWorker.pc = "idle"
    BY <1>0 DEF WorkerRecord, IdleWorker
  <2>3. worker'[m] = IdleWorker \/ worker'[m] = opened
    BY <1>0, <2>1
  <2> HIDE DEF opened
  <2> QED
    BY <1>2, <2>2, <2>3 DEF OpenEngine
<1>3. CASE GetNode(m)
  <2>1. worker[m].goal \in {"sync", "load", "check"}
    BY <1>0 DEF WorkerRecord
  <2>2. worker'[m].pc = worker[m].goal /\ worker'[m].eng = worker[m].eng
    BY <1>0, <1>3 DEF GetNode, Goto, WorkerRecord
  <2> QED BY <1>0, <1>3, <2>1, <2>2 DEF GetNode
<1>4. CASE BeginStart(m)
  <2>1. worker'[m].eng = worker[m].eng
    BY <1>0, <1>4 DEF BeginStart, Goto, WorkerRecord
  <2> QED BY <1>0, <1>4, <2>1 DEF BeginStart
<1>5. CASE StartOk(m)
  <2>1. worker[m].goal \in {"sync", "load", "check"}
    BY <1>0 DEF WorkerRecord
  <2>2. worker'[m].pc = worker[m].goal /\ worker'[m].eng = worker[m].eng
    BY <1>0, <1>5 DEF StartOk, Goto, WorkerRecord
  <2> QED BY <1>0, <1>5, <2>1, <2>2 DEF StartOk
<1>6. CASE StartBusy(m) \/ Cancelled(m) \/ SyncError(m) \/ CrossCheck(m)
  <2>1. worker'[m] = IdleWorker
    BY <1>0, <1>6 DEF StartBusy, Cancelled, SyncError, CrossCheck, Finish
  <2>2. worker'[m].pc = "idle"
    BY <2>1 DEF IdleWorker
  <2> QED BY <1>6, <2>2 DEF StartBusy, Cancelled, SyncError, CrossCheck
<1>7. CASE UnknownWallet(m) \/ LoadMember(m) \/ Synced(m)
  <2>1. worker'[m].pc = "node" /\ worker'[m].eng = worker[m].eng
    BY <1>0, <1>7 DEF UnknownWallet, LoadMember, Synced, Goto, WorkerRecord
  <2> QED BY <1>0, <1>7, <2>1 DEF UnknownWallet, LoadMember, Synced
<1> QED
  BY <1>1, <1>2, <1>3, <1>4, <1>5, <1>6, <1>7 DEF WorkerStep

\* The handles after a worker's step.
LEMMA WorkerHandles ==
    ASSUME SlotInvariant, NEW m \in Members, WorkerStep(m)
    PROVE  HandlesTyped'
<1>0. HandlesTyped /\ worker[m].eng \in Engines \cup {Nobody}
  BY DEF SlotInvariant, WorkersWellFormed, WorkerRecord
<1>1. UNCHANGED <<loop, stopping>>
  BY DEF WorkerStep, WorkerStart, OpenEngine, GetNode, BeginStart, StartOk, StartBusy, Cancelled,
     SyncError, UnknownWallet, LoadMember, Synced, CrossCheck, gui, stop
<1>2. registry' \in Engines \cup {Nobody}
  BY <1>0 DEF WorkerStep, WorkerStart, OpenEngine, GetNode, BeginStart, StartOk, StartBusy,
     Cancelled, SyncError, UnknownWallet, LoadMember, Synced, CrossCheck, HandlesTyped
<1>3. slot' \in Engines \cup {Nobody}
  BY <1>0 DEF WorkerStep, WorkerStart, OpenEngine, GetNode, BeginStart, StartOk, StartBusy,
     Cancelled, SyncError, UnknownWallet, LoadMember, Synced, CrossCheck, HandlesTyped, Finish, node
<1>4. holders' \subseteq Members
  BY <1>0 DEF WorkerStep, WorkerStart, OpenEngine, GetNode, BeginStart, StartOk, StartBusy,
     Cancelled, SyncError, UnknownWallet, LoadMember, Synced, CrossCheck, HandlesTyped, Finish, node
<1> QED
  BY <1>0, <1>1, <1>2, <1>3, <1>4 DEF HandlesTyped

\* A worker's step keeps the mutex with whoever starts a node.
LEMMA WorkerSlot ==
    ASSUME SlotInvariant, NEW m \in Members, WorkerStep(m)
    PROVE  SlotInvariant'
<1>0. /\ WorkersWellFormed /\ mutex \in [Engines -> Members \cup {Nobody}] /\ MutexOwned
      /\ HandlesTyped /\ WorkersPlaced
  BY DEF SlotInvariant
<1>1. /\ WorkersWellFormed' /\ UNCHANGED gui
      /\ \A n \in Members \ {m} : worker'[n] = worker[n]
  BY <1>0, WorkerStepShape
<1>2. loop = "running" /\ loop' = "running"
  BY <1>0, <1>1, WorkerMoves DEF WorkersPlaced, gui
<1>3. WorkersPlaced'
  <2>1. ASSUME NEW n \in Members, worker'[n].pc \notin {"idle", "queued", "ready"}
        PROVE  worker'[n].eng \in Engines
    BY <1>0, <1>1, <2>1, WorkerMoves DEF WorkersPlaced
  <2> QED BY <1>2, <2>1 DEF WorkersPlaced
<1>4. HandlesTyped'
  BY WorkerHandles
<1>5. CASE ~BeginStart(m) /\ ~StartOk(m) /\ ~StartBusy(m)
  <2>1. worker[m].pc # "starting" /\ worker'[m].pc # "starting" /\ UNCHANGED mutex
    BY <1>5, WorkerMoves
  <2>2. MutexOwned'
    BY <1>0, <1>1, <2>1 DEF MutexOwned
  <2> QED BY <1>0, <1>1, <1>3, <1>4, <2>1, <2>2 DEF SlotInvariant
<1>6. CASE BeginStart(m)
  <2> DEFINE f == worker[m].eng
  <2>1. f \in Engines /\ mutex[f] = Nobody /\ mutex' = [mutex EXCEPT ![f] = m]
        /\ worker[m].pc = "node"
    BY <1>0, <1>6 DEF BeginStart, WorkersPlaced
  <2>2. worker'[m].pc = "starting" /\ worker'[m].eng = f
    BY <1>0, <1>6 DEF BeginStart, Goto, WorkersWellFormed, WorkerRecord
  <2> HIDE DEF f
  <2>3. \A n \in Members : n # Nobody
    BY NobodyAssumption
  <2>4. MutexOwned'
    BY <1>0, <1>1, <2>1, <2>2, <2>3 DEF MutexOwned
  <2> QED BY <1>0, <1>1, <1>3, <1>4, <2>1, <2>4 DEF SlotInvariant
<1>7. CASE StartOk(m) \/ StartBusy(m)
  <2> DEFINE f == worker[m].eng
  <2>1. f \in Engines /\ mutex' = [mutex EXCEPT ![f] = Nobody] /\ worker[m].pc = "starting"
    BY <1>0, <1>7 DEF StartOk, StartBusy, WorkersPlaced
  <2>2. worker'[m].pc # "starting"
    BY <1>7, WorkerMoves DEF StartOk, StartBusy, BeginStart
  <2>3. mutex[f] = m
    BY <1>0, <2>1 DEF MutexOwned
  <2> HIDE DEF f
  <2>4. \A n \in Members : n # Nobody
    BY NobodyAssumption
  <2>5. MutexOwned'
    BY <1>0, <1>1, <2>1, <2>2, <2>3, <2>4 DEF MutexOwned, f
  <2> QED BY <1>0, <1>1, <1>3, <1>4, <2>1, <2>5 DEF SlotInvariant
<1> QED
  BY <1>5, <1>6, <1>7

LEMMA SlotInit == EngineInit => SlotInvariant
<1> SUFFICES ASSUME EngineInit PROVE SlotInvariant
  OBVIOUS
<1>1. WorkersWellFormed /\ \A m \in Members : worker[m].pc = "idle"
  BY DEF EngineInit, WorkersWellFormed, WorkerRecord, IdleWorker
<1>2. \A m \in Members : m # Nobody
  BY NobodyAssumption
<1> QED
  BY <1>1, <1>2 DEF SlotInvariant, EngineInit, MutexOwned, HandlesTyped, WorkersPlaced

LEMMA SlotNext == SlotInvariant /\ [EngineNext]_engineVars => SlotInvariant'
<1> SUFFICES ASSUME SlotInvariant, [EngineNext]_engineVars PROVE SlotInvariant'
  OBVIOUS
<1>0. /\ WorkersWellFormed /\ mutex \in [Engines -> Members \cup {Nobody}] /\ MutexOwned
      /\ HandlesTyped /\ WorkersPlaced
  BY DEF SlotInvariant
<1>1. ASSUME UNCHANGED <<worker, mutex>>, HandlesTyped',
             loop' # "running" => \A m \in Members : worker[m].pc = "idle"
      PROVE  SlotInvariant'
  BY <1>0, <1>1 DEF SlotInvariant, WorkersWellFormed, MutexOwned, WorkersPlaced
<1>2. UNCHANGED loop => (loop' # "running" => \A m \in Members : worker[m].pc = "idle")
  BY <1>0 DEF WorkersPlaced
<1>3. CASE CycleTop \/ CycleFilter \/ CycleEnd
  BY <1>0, <1>1, <1>3 DEF CycleTop, CycleFilter, CycleEnd, HandlesTyped, WorkersPlaced, node, stop
<1>4. CASE CycleSpawn
  <2>1. \A m \in Members : worker[m].pc = "idle"
    BY <1>0, <1>4 DEF CycleSpawn, WorkersPlaced
  <2>2. \A m \in Members : worker'[m].pc \in {"idle", "queued"}
    BY <1>4 DEF CycleSpawn, IdleWorker
  <2>3. WorkersWellFormed'
    BY <1>4 DEF CycleSpawn, IdleWorker, WorkersWellFormed, WorkerRecord
  <2>4. UNCHANGED mutex /\ loop' = "running" /\ UNCHANGED <<registry, slot, holders, stopping>>
    BY <1>4 DEF CycleSpawn, node, stop
  <2>5. MutexOwned'
    BY <1>0, <2>1, <2>2, <2>4 DEF MutexOwned
  <2>6. HandlesTyped' /\ WorkersPlaced'
    BY <1>0, <2>2, <2>4 DEF HandlesTyped, WorkersPlaced
  <2> QED BY <1>0, <2>3, <2>4, <2>5, <2>6 DEF SlotInvariant
<1>5. CASE StopStep
  <2>1. UNCHANGED <<loop, worker, mutex, holders>>
    BY <1>5 DEF StopStep, ShutdownAll, Drained, Shutdown, gui, node
  <2>2. stopping' \subseteq Engines
    BY <1>0, <1>5 DEF StopStep, ShutdownAll, Drained, Shutdown, HandlesTyped, stop
  <2>3. registry' \in {registry, Nobody} /\ slot' \in {slot, Nobody}
    BY <1>5 DEF StopStep, ShutdownAll, Drained, Shutdown, node
  <2>4. HandlesTyped'
    BY <1>0, <2>1, <2>2, <2>3 DEF HandlesTyped
  <2> QED BY <1>1, <1>2, <2>1, <2>4
<1>6. ASSUME NEW m \in Members, SetPause(m) \/ Resume(m) \/ Import(m) \/ Enrol(m)
      PROVE  SlotInvariant'
  BY <1>0, <1>1, <1>2, <1>6 DEF SetPause, Resume, Import, Enrol, HandlesTyped, gui, node, stop
<1>7. CASE SetPauseAll \/ ResumeAll \/ StoreCancel
  BY <1>0, <1>1, <1>2, <1>7 DEF SetPauseAll, ResumeAll, StoreCancel, HandlesTyped, node, stop
<1>8. CASE NewBlocks \/ CliLock \/ CliUnlock
  BY <1>0, <1>1, <1>2, <1>8 DEF NewBlocks, CliLock, CliUnlock, HandlesTyped, gui, node, stop
<1>9. CASE UNCHANGED engineVars
  BY <1>0, <1>1, <1>2, <1>9 DEF engineVars, HandlesTyped, gui, node, stop
<1> QED
  BY <1>3, <1>4, <1>5, <1>6, <1>7, <1>8, <1>9, WorkerSlot DEF EngineNext, CycleStep

\* The slot mutex of an engine is held by the worker that starts its node and by
\* nobody else, and released whether the start succeeds or times out: for any number
\* of members and engines, whatever pauses and shutdowns come in between.
THEOREM SlotMutexOwned == EngineSpec => []EngineTypeOK
<1>1. SlotInvariant => EngineTypeOK
  BY DEF SlotInvariant, MutexOwned, HandlesTyped, EngineTypeOK
<1> QED
  BY <1>1, SlotInit, SlotNext, PTL DEF EngineSpec

Busy == {n \in Members : Committed(n)}

\* At most sync_workers databases are synced at a time.
PermitsKept == Cardinality(Busy) <= SyncWorkers

\* While a cycle runs every permit is free or with a worker past its checks; outside one,
\* when the next semaphore is made, nobody is left who could hold a permit of the last.
PermitsCounted ==
    /\ permits \in Nat
    /\ loop = "running" => permits + Cardinality(Busy) = SyncWorkers

PermitInvariant == SlotInvariant /\ PermitsCounted

\* A worker's step takes a permit for good, gives its own back, or moves none.
LEMMA PermitMoves ==
    ASSUME SlotInvariant, NEW m \in Members, WorkerStep(m)
    PROVE  \/ ~Committed(m) /\ Committed(m)' /\ permits > 0 /\ permits' = permits - 1
           \/ Committed(m) /\ ~Committed(m)' /\ permits' = permits + 1
           \/ (Committed(m)' <=> Committed(m)) /\ permits' = permits
<1>0. worker \in [Members -> WorkerRecord] /\ worker[m] \in WorkerRecord
  BY DEF SlotInvariant, WorkersWellFormed
<1>1. CASE WorkerStart(m)
  <2>1. ~Committed(m) /\ permits > 0
    BY <1>1 DEF WorkerStart, Committed
  <2>2. CASE paused_all \/ cancel \/ m \in paused
    <3>1. worker'[m].pc = "idle" /\ permits' = permits
      BY <1>0, <1>1, <2>2 DEF WorkerStart, WorkerRecord
    <3> QED BY <2>1, <3>1 DEF Committed
  <2>3. CASE ~(paused_all \/ cancel \/ m \in paused)
    <3>1. worker'[m].pc = "ready" /\ permits' = permits - 1
      BY <1>0, <1>1, <2>3 DEF WorkerStart, WorkerRecord
    <3> QED BY <2>1, <3>1 DEF Committed
  <2> QED BY <2>2, <2>3
<1>2. CASE OpenEngine(m)
  <2>1. PICK e \in Engines :
            worker' = [worker EXCEPT ![m] = IF m \in fresh THEN IdleWorker
                                            ELSE [@ EXCEPT !.pc = "node", !.eng = e]]
    BY <1>2 DEF OpenEngine
  <2> DEFINE opened == [worker[m] EXCEPT !.pc = "node", !.eng = e]
  <2>2. opened.pc = "node" /\ IdleWorker.pc = "idle"
    BY <1>0 DEF WorkerRecord, IdleWorker
  <2>3. worker'[m] = IF m \in fresh THEN IdleWorker ELSE opened
    BY <1>0, <2>1
  <2> HIDE DEF opened
  <2>4. Committed(m) /\ (Committed(m)' <=> m \notin fresh)
    BY <1>2, <2>2, <2>3 DEF OpenEngine, Committed
  <2> QED BY <1>2, <2>4 DEF OpenEngine
<1>3. CASE StartBusy(m) \/ Cancelled(m) \/ SyncError(m) \/ CrossCheck(m)
  <2>1. Committed(m) /\ worker'[m] = IdleWorker /\ permits' = permits + 1
    BY <1>0, <1>3 DEF StartBusy, Cancelled, SyncError, CrossCheck, Finish, Committed
  <2> QED BY <2>1 DEF IdleWorker, Committed
<1>4. CASE GetNode(m) \/ StartOk(m)
  <2>1. worker[m].goal \in {"sync", "load", "check"}
    BY <1>0 DEF WorkerRecord
  <2>2. Committed(m) /\ worker'[m].pc = worker[m].goal /\ permits' = permits
    BY <1>0, <1>4 DEF GetNode, StartOk, Goto, Committed, WorkerRecord
  <2> QED BY <2>1, <2>2 DEF Committed
<1>5. CASE BeginStart(m) \/ UnknownWallet(m) \/ LoadMember(m) \/ Synced(m)
  <2>1. Committed(m) /\ worker'[m].pc \in {"starting", "node"} /\ permits' = permits
    BY <1>0, <1>5 DEF BeginStart, UnknownWallet, LoadMember, Synced, Goto, Committed, WorkerRecord
  <2> QED BY <2>1 DEF Committed
<1> QED
  BY <1>1, <1>2, <1>3, <1>4, <1>5 DEF WorkerStep

LEMMA PermitsNext == PermitInvariant /\ [EngineNext]_engineVars => PermitInvariant'
<1> SUFFICES ASSUME PermitInvariant, [EngineNext]_engineVars PROVE PermitInvariant'
  OBVIOUS
<1>0. SlotInvariant /\ SlotInvariant' /\ PermitsCounted
  BY SlotNext DEF PermitInvariant
<1> SUFFICES PermitsCounted'
  BY <1>0 DEF PermitInvariant
<1>1. IsFiniteSet(Busy) /\ Cardinality(Busy) \in Nat /\ SyncWorkers \in Nat /\ permits \in Nat
  BY <1>0, MembersAssumption, WorkersAssumption, FS_Subset, FS_CardinalityType
     DEF Busy, PermitsCounted
<1>2. ASSUME NEW m \in Members, WorkerStep(m)
      PROVE  PermitsCounted'
  <2>1. \A n \in Members \ {m} : worker'[n] = worker[n]
    BY <1>0, <1>2, WorkerStepShape DEF SlotInvariant
  <2>2. loop = "running"
    BY <1>0, <1>2, WorkerMoves DEF SlotInvariant, WorkersPlaced
  <2>3. permits + Cardinality(Busy) = SyncWorkers
    BY <1>0, <2>2 DEF PermitsCounted
  <2>4. CASE ~Committed(m) /\ Committed(m)' /\ permits > 0 /\ permits' = permits - 1
    <3>1. m \notin Busy /\ Busy' = Busy \cup {m}
      BY <2>1, <2>4 DEF Busy, Committed
    <3>2. Cardinality(Busy') = Cardinality(Busy) + 1
      BY <1>1, <3>1, FS_AddElement
    <3> QED BY <1>1, <2>3, <2>4, <3>2 DEF PermitsCounted
  <2>5. CASE Committed(m) /\ ~Committed(m)' /\ permits' = permits + 1
    <3>1. m \in Busy /\ Busy' = Busy \ {m}
      BY <2>1, <2>5 DEF Busy, Committed
    <3>2. Cardinality(Busy') = Cardinality(Busy) - 1
      BY <1>1, <3>1, FS_RemoveElement
    <3> QED BY <1>1, <2>3, <2>5, <3>2 DEF PermitsCounted
  <2>6. CASE (Committed(m)' <=> Committed(m)) /\ permits' = permits
    <3>1. Busy' = Busy
      BY <2>1, <2>6 DEF Busy, Committed
    <3> QED BY <1>1, <2>3, <2>6, <3>1 DEF PermitsCounted
  <2> QED BY <1>0, <1>2, <2>4, <2>5, <2>6, PermitMoves
<1>3. CASE CycleSpawn
  <2>1. Busy' = {} /\ permits' = SyncWorkers
    BY <1>3 DEF CycleSpawn, IdleWorker, Busy, Committed
  <2>2. Cardinality(Busy') = 0
    BY <2>1, FS_EmptySet
  <2> QED BY <1>1, <2>1, <2>2 DEF PermitsCounted
<1>4. ASSUME UNCHANGED <<worker, permits>>, loop' \in {loop, "listing", "listed", "top"}
      PROVE  PermitsCounted'
  <2>1. Busy' = Busy
    BY <1>4 DEF Busy, Committed
  <2> QED BY <1>0, <1>4, <2>1 DEF PermitsCounted
<1>5. CASE CycleTop \/ CycleFilter \/ CycleEnd \/ StopStep \/ UNCHANGED engineVars
  BY <1>4, <1>5 DEF CycleTop, CycleFilter, CycleEnd, StopStep, ShutdownAll, Drained, Shutdown,
     engineVars, gui
<1>6. ASSUME NEW m \in Members, SetPause(m) \/ Resume(m) \/ Import(m) \/ Enrol(m)
      PROVE  PermitsCounted'
  BY <1>4, <1>6 DEF SetPause, Resume, Import, Enrol, gui
<1>7. CASE SetPauseAll \/ ResumeAll \/ StoreCancel \/ NewBlocks \/ CliLock \/ CliUnlock
  BY <1>4, <1>7 DEF SetPauseAll, ResumeAll, StoreCancel, NewBlocks, CliLock, CliUnlock, gui
<1> QED
  BY <1>2, <1>3, <1>5, <1>6, <1>7 DEF EngineNext, CycleStep

\* The auto-sync loop syncs at most sync_workers databases at a time: it makes a new
\* semaphore every cycle, but only when it has joined every worker of the last, and each
\* of the ways a worker ends gives its permit back once.  However many databases there are
\* and however pauses, shutdowns and failures fall between the spawning of the tasks and
\* their ends.
THEOREM PermitsRespected == EngineSpec => []PermitsKept
<1>1. EngineInit => PermitInvariant
  BY SlotInit DEF EngineInit, PermitInvariant, PermitsCounted
<1>2. PermitInvariant => PermitsKept
  <2> SUFFICES ASSUME PermitInvariant PROVE PermitsKept
    OBVIOUS
  <2>1. IsFiniteSet(Busy) /\ Cardinality(Busy) \in Nat /\ SyncWorkers \in Nat
    BY MembersAssumption, WorkersAssumption, FS_Subset, FS_CardinalityType DEF Busy
  <2>2. CASE loop = "running"
    BY <2>1, <2>2 DEF PermitInvariant, PermitsCounted, PermitsKept
  <2>3. CASE loop # "running"
    <3>1. Busy = {}
      BY <2>3 DEF PermitInvariant, SlotInvariant, WorkersPlaced, Busy, Committed
    <3> QED BY <2>1, <3>1, FS_EmptySet DEF PermitsKept
  <2> QED BY <2>2, <2>3
<1> QED
  BY <1>1, <1>2, PermitsNext, PTL DEF EngineSpec

-----------------------------------------------------------------------------
(* The dashboard's wallet: what every step keeps of the transactions and   *)
(* of the files about them.                                                *)

Kinds == {"deposit", "write", "send", "self", "tip", "foreign", "init"}

\* A transaction that moves value moves some; a zkv write, ours or another writer's, and
\* the faucet's INIT move none.
TxRecord ==
    {t \in [kind : Kinds, amount : Nat, key : Keys \cup {None}, expiry : Nat] :
        t.amount = 0 <=> t.kind \in {"write", "foreign", "init"}}
RowRecord == [known : BOOLEAN, at : Nat, enhanced : BOOLEAN, built : BOOLEAN]

\* The chain and the wallet's tables run in parallel.
Tables ==
    /\ txs \in Seq(TxRecord) /\ rows \in Seq(RowRecord) /\ mined \in Seq(Nat)
    /\ Len(rows) = Len(txs) /\ Len(mined) = Len(txs)

\* A write of our own that the wallet built and stored.
StoredWrite(i) == i \in Tx /\ txs[i].kind = "write" /\ rows[i].known /\ rows[i].built

\* pending.toml names such writes and INITs, and so does the write that is about to be
\* entered there.
Recordable(i) == i \in Tx /\ (txs[i].kind = "init" \/ StoredWrite(i))
Recorded ==
    /\ \A i \in toml : Recordable(i)
    /\ writing # 0 => StoredWrite(writing)
    /\ writing \in Nat

\* The wallet is behind the chain.
Behind ==
    /\ height \in Nat /\ fork \in Nat /\ tip \in Nat /\ scanned \in Nat
    /\ scanned <= tip /\ tip <= height /\ fork <= height /\ height <= MaxHeight

\* What the wallet has found in a block, it found in one it knows.
RowsKnown == \A i \in Tx : rows[i].at <= tip /\ (rows[i].at > 0 => rows[i].known)

\* A summary counts a pending key among the keys.
CountsRight(counts) == counts.unsynced <= counts.keys
Summaries ==
    /\ poll = [pc |-> poll.pc, synced |-> poll.synced, fp |-> poll.fp, counts |-> poll.counts]
    /\ poll.pc = "insert" => CountsRight(poll.counts)
    /\ cache = None \/ CountsRight(cache.counts)

WalletInvariant ==
    /\ Tables /\ Recorded /\ Behind /\ RowsKnown /\ Summaries
    /\ strikes \in 0..SYNC_ERROR_THRESHOLD

\* What a table over n transactions is as a sequence.
LEMMA TableIsSeq ==
    ASSUME NEW R, NEW n \in Nat, NEW f \in [1..n -> R]
    PROVE  f \in Seq(R) /\ Len(f) = n
OBVIOUS

LEMMA Appended ==
    ASSUME NEW R, NEW s \in Seq(R), NEW r \in R
    PROVE  /\ Append(s, r) \in Seq(R)
           /\ Len(Append(s, r)) = Len(s) + 1
           /\ \A i \in 1..Len(s) : Append(s, r)[i] = s[i]
           /\ Append(s, r)[Len(s) + 1] = r
OBVIOUS

\* Tables gives every transaction its records.
LEMMA TableEntries ==
    ASSUME Tables, NEW i \in Tx
    PROVE  /\ txs[i] \in TxRecord /\ txs[i].kind \in Kinds /\ txs[i].amount \in Nat
           /\ txs[i].amount = 0 <=> txs[i].kind \in {"write", "foreign", "init"}
           /\ txs[i].expiry \in Nat
           /\ rows[i] \in RowRecord /\ rows[i].at \in Nat
           /\ rows[i].known \in BOOLEAN /\ rows[i].enhanced \in BOOLEAN
           /\ rows[i].built \in BOOLEAN
           /\ mined[i] \in Nat
<1>1. txs[i] \in TxRecord /\ rows[i] \in RowRecord /\ mined[i] \in Nat
  BY DEF Tables, Tx
<1> QED
  BY <1>1 DEF TxRecord, RowRecord

\* A new transaction at the end of the tables leaves the others where they were.
LEMMA TablesGrow ==
    ASSUME Tables, NEW t \in TxRecord, NEW r \in RowRecord,
           txs' = Append(txs, t), rows' = Append(rows, r), mined' = Append(mined, 0)
    PROVE  /\ Tables' /\ Tx' = Tx \cup {Len(txs) + 1} /\ Len(txs) + 1 \notin Tx
           /\ \A i \in Tx : txs'[i] = txs[i] /\ rows'[i] = rows[i]
           /\ txs'[Len(txs) + 1] = t /\ rows'[Len(txs) + 1] = r
<1>1. Len(txs) \in Nat
  BY DEF Tables
<1>2. /\ txs' \in Seq(TxRecord) /\ Len(txs') = Len(txs) + 1
      /\ \A i \in Tx : txs'[i] = txs[i]
      /\ txs'[Len(txs) + 1] = t
  BY Appended DEF Tables, Tx
<1>3. /\ rows' \in Seq(RowRecord) /\ Len(rows') = Len(txs) + 1
      /\ \A i \in Tx : rows'[i] = rows[i]
      /\ rows'[Len(txs) + 1] = r
  BY Appended DEF Tables, Tx
<1>4. mined' \in Seq(Nat) /\ Len(mined') = Len(txs) + 1
  BY Appended DEF Tables, Tx
<1> QED
  BY <1>1, <1>2, <1>3, <1>4 DEF Tables, Tx

\* The entries that were there before, when only the new ones' shape is in doubt.
LEMMA OldEntries ==
    ASSUME Tables, NEW t, NEW r, txs' = Append(txs, t), rows' = Append(rows, r)
    PROVE  \A i \in Tx : i \in Tx' /\ txs'[i] = txs[i] /\ rows'[i] = rows[i]
<1>1. /\ txs \in Seq(TxRecord \cup {t}) /\ rows \in Seq(RowRecord \cup {r})
      /\ Len(rows) = Len(txs)
  BY DEF Tables
<1>2. /\ Len(txs') = Len(txs) + 1 /\ \A i \in 1..Len(txs) : txs'[i] = txs[i]
      /\ \A i \in 1..Len(rows) : rows'[i] = rows[i]
  BY <1>1, Appended
<1> QED
  BY <1>1, <1>2 DEF Tx

\* A rewritten column keeps the tables parallel.
LEMMA TablesRewritten ==
    ASSUME Tables, UNCHANGED txs,
           UNCHANGED mined \/ mined' \in [Tx -> Nat],
           UNCHANGED rows \/ rows' \in [Tx -> RowRecord]
    PROVE  Tables' /\ Tx' = Tx
<1>1. Len(txs) \in Nat
  BY DEF Tables
<1>2. rows' \in Seq(RowRecord) /\ Len(rows') = Len(txs)
  BY <1>1, TableIsSeq DEF Tables, Tx
<1>3. mined' \in Seq(Nat) /\ Len(mined') = Len(txs)
  BY <1>1, TableIsSeq DEF Tables, Tx
<1> QED
  BY <1>2, <1>3 DEF Tables, Tx

\* Nothing but a new record takes a stored write out of the tables.
LEMMA RecordedStays ==
    ASSUME Recorded,
           \A i \in Tx : (StoredWrite(i) => StoredWrite(i)') /\ (Recordable(i) => Recordable(i)'),
           \A i \in toml' : i \in toml \/ (i = writing /\ writing # 0),
           writing' \in {0, writing}
    PROVE  Recorded'
BY DEF Recorded, StoredWrite, Recordable

\* A step that leaves the tables alone and enters at most the write under way.
LEMMA QuietStep ==
    ASSUME Tables, Recorded, UNCHANGED <<txs, rows, mined>>,
           \A i \in toml' : i \in toml \/ (i = writing /\ writing # 0),
           writing' \in {0, writing}
    PROVE  Tables' /\ Recorded'
<1>1. Tables' /\ Tx' = Tx
  BY TablesRewritten
<1>2. \A i \in Tx : (StoredWrite(i) => StoredWrite(i)') /\ (Recordable(i) => Recordable(i)')
  BY <1>1 DEF StoredWrite, Recordable
<1> QED
  BY <1>1, <1>2, RecordedStays

LEMMA WalletInit == Init => WalletInvariant
<1> SUFFICES ASSUME Init PROVE WalletInvariant
  OBVIOUS
<1>1. PICK a \in Amounts, restored \in BOOLEAN :
         /\ txs = <<[kind |-> "deposit", amount |-> a, key |-> None, expiry |-> MaxHeight],
                    [kind |-> "write", amount |-> 0, key |-> FirstKey, expiry |-> MaxHeight]>>
         /\ rows = <<[known |-> TRUE, at |-> 1, enhanced |-> TRUE, built |-> FALSE],
                     [known |-> TRUE, at |-> 1, enhanced |-> ~restored, built |-> ~restored]>>
  BY DEF Init
<1> DEFINE t1 == [kind |-> "deposit", amount |-> a, key |-> None, expiry |-> MaxHeight]
           t2 == [kind |-> "write", amount |-> 0, key |-> FirstKey, expiry |-> MaxHeight]
           r1 == [known |-> TRUE, at |-> 1, enhanced |-> TRUE, built |-> FALSE]
           r2 == [known |-> TRUE, at |-> 1, enhanced |-> ~restored, built |-> ~restored]
<1>2. a \in Nat /\ a # 0 /\ MaxHeight \in Nat /\ FirstKey \in Keys
  BY DashboardAssumption, KeysAssumption DEF FirstKey
<1>3. t1 \in TxRecord /\ t2 \in TxRecord
  <2> HIDE DEF FirstKey
  <2> QED BY <1>2 DEF TxRecord, Kinds
<1>4. r1 \in RowRecord /\ r2 \in RowRecord
  BY DEF RowRecord
<1>5. txs = <<t1, t2>> /\ rows = <<r1, r2>> /\ mined = <<1, 1>>
  BY <1>1 DEF Init
<1> HIDE DEF t1, t2, r1, r2
<1>6. Tables
  BY <1>3, <1>4, <1>5 DEF Tables
<1>7. Recorded
  BY DEF Init, Recorded
<1>8. Behind
  BY DashboardAssumption DEF Init, Behind
<1>9. Summaries
  BY DEF Init, Summaries, IdlePoll
<1>10. RowsKnown
  <2>1. r1.at = 1 /\ r1.known /\ r2.at = 1 /\ r2.known
    BY DEF r1, r2
  <2>2. tip = UNTRUSTED_CONFIRMATIONS /\ tip >= 1
    BY DashboardAssumption DEF Init
  <2>3. \A i \in Tx : rows[i] = r1 \/ rows[i] = r2
    BY <1>5 DEF Tx
  <2> QED BY <2>1, <2>2, <2>3 DEF RowsKnown
<1> QED
  BY <1>6, <1>7, <1>8, <1>9, <1>10, DashboardAssumption DEF WalletInvariant, Init

\* A read never counts more pending keys than keys.
LEMMA CountsOrdered ==
    ASSUME Tables, Recorded
    PROVE  CountsRight(Counts)
<1> DEFINE all == ConfirmedTxs \cup PendingTxs
           keyOf == [i \in all |-> txs[i].key]
<1>1. Len(txs) \in Nat
  BY DEF Tables
<1>2. toml \subseteq Tx
  BY DEF Recorded, StoredWrite, Recordable
<1>3. all \subseteq Tx
  BY <1>2 DEF ConfirmedTxs, PendingTxs
<1>4. IsFiniteSet(Tx)
  BY <1>1, FS_Interval DEF Tx
<1>5. IsFiniteSet(all)
  BY <1>3, <1>4, FS_Subset
<1> HIDE DEF all
<1>6. KeysOf(all) \subseteq Range(keyOf) /\ keyOf \in Surjection(all, Range(keyOf))
  BY DEF KeysOf, Surjection, Range
<1>7. IsFiniteSet(KeysOf(all))
  <2>1. IsFiniteSet(Range(keyOf))
    BY <1>5, <1>6, FS_Surjection
  <2> QED BY <1>6, <2>1, FS_Subset
<1>8. KeysOf(PendingTxs) \subseteq KeysOf(all)
  BY DEF KeysOf, all
<1>9. Cardinality(KeysOf(PendingTxs)) <= Cardinality(KeysOf(all))
  BY <1>7, <1>8, FS_Subset
<1> QED
  BY <1>9 DEF CountsRight, Counts, all

\* A payment from outside, or a transaction of our own: one more in the tables.
LEMMA NewTxStep ==
    ASSUME WalletInvariant, NEW t \in TxRecord, NEW r \in RowRecord, r.at = 0,
           txs' = Append(txs, t), rows' = Append(rows, r), mined' = Append(mined, 0),
           \A i \in toml' : i \in toml \/ (i = Len(txs) + 1 /\ t.kind = "init"),
           \/ UNCHANGED writing
           \/ writing' = Len(txs) + 1 /\ t.kind = "write" /\ r.known /\ r.built,
           UNCHANGED <<height, fork, tip, scanned, bar, strikes>>
    PROVE  WalletInvariant'
<1>1. Tables /\ Recorded /\ Behind /\ Summaries /\ RowsKnown /\ Len(txs) \in Nat
  BY DEF WalletInvariant, Tables
<1>2. /\ Tables' /\ Tx' = Tx \cup {Len(txs) + 1}
      /\ \A i \in Tx : txs'[i] = txs[i] /\ rows'[i] = rows[i]
      /\ txs'[Len(txs) + 1] = t /\ rows'[Len(txs) + 1] = r
  BY <1>1, TablesGrow
<1>3. \A i \in Tx : (StoredWrite(i) => StoredWrite(i)') /\ (Recordable(i) => Recordable(i)')
  BY <1>2 DEF StoredWrite, Recordable
<1>4. Recorded'
  <2>1. ASSUME NEW i \in toml' PROVE Recordable(i)'
    <3>1. CASE i \in toml
      BY <1>1, <1>3, <3>1 DEF Recorded, Recordable
    <3>2. CASE i = Len(txs) + 1 /\ t.kind = "init"
      <4>1. i \in Tx' /\ txs'[i].kind = "init"
        BY <1>2, <3>2
      <4> QED BY <4>1, Zenon DEF Recordable
    <3> QED BY <3>1, <3>2
  <2>2. CASE UNCHANGED writing
    BY <1>1, <1>3, <2>1, <2>2 DEF Recorded, StoredWrite, Recordable
  <2>3. CASE writing' = Len(txs) + 1 /\ t.kind = "write" /\ r.known /\ r.built
    <3>1. writing' \in Tx' /\ writing' \in Nat
      BY <1>1, <1>2, <2>3
    <3>2. txs'[writing'] = t /\ rows'[writing'] = r
      BY <1>2, <2>3
    <3>3. StoredWrite(writing)'
      BY <2>3, <3>1, <3>2, Zenon DEF StoredWrite
    <3> QED BY <2>1, <3>1, <3>3 DEF Recorded
  <2> QED BY <2>2, <2>3
<1>5. Behind' /\ Summaries'
  BY <1>1 DEF Behind, Summaries, CountsRight, bar
<1>6. RowsKnown'
  <2>1. \A i \in Tx' : i \in Tx \/ rows'[i] = r
    BY <1>2
  <2>2. tip \in Nat
    BY <1>1 DEF Behind
  <2>3. ASSUME NEW i \in Tx' PROVE rows'[i].at <= tip' /\ (rows'[i].at > 0 => rows'[i].known)
    <3>0. tip' = tip
      OBVIOUS
    <3>1. CASE i \in Tx
      <4>1. rows'[i] = rows[i]
        BY <1>2, <3>1
      <4>2. rows[i].at <= tip /\ (rows[i].at > 0 => rows[i].known)
        BY <1>1, <3>1 DEF RowsKnown
      <4> QED BY <3>0, <4>1, <4>2
    <3>2. CASE rows'[i] = r
      BY <2>2, <3>0, <3>2
    <3> QED BY <2>1, <3>1, <3>2
  <2> QED BY <2>3 DEF RowsKnown
<1> QED
  BY <1>2, <1>4, <1>5, <1>6 DEF WalletInvariant

LEMMA PayStep ==
    ASSUME WalletInvariant, NEW kind \in {"deposit", "tip", "foreign"},
           NEW a \in Amounts \cup {0}, NEW k \in Keys \cup {None}, Pay(kind, a, k)
    PROVE  WalletInvariant'
<1> DEFINE t == [kind |-> kind, amount |-> a, key |-> k, expiry |-> height + Expiry]
           r == [known |-> FALSE, at |-> 0, enhanced |-> FALSE, built |-> FALSE]
<1>1. a \in Nat /\ height + Expiry \in Nat
  <2>1. Amounts \subseteq Nat /\ Expiry \in Nat
    BY DashboardAssumption
  <2>2. height \in Nat
    BY DEF WalletInvariant, Behind
  <2> QED BY <2>1, <2>2
<1>2. kind \in Kinds /\ (kind \in {"write", "foreign", "init"} <=> a = 0)
  BY DEF Pay, Kinds
<1>3. t \in TxRecord
  BY <1>1, <1>2 DEF TxRecord
<1>4. r \in RowRecord /\ r.at = 0
  BY DEF RowRecord
<1>5. /\ txs' = Append(txs, t) /\ rows' = Append(rows, r) /\ mined' = Append(mined, 0)
      /\ UNCHANGED <<height, fork, tip, scanned, toml, writing, bar, strikes>>
  BY DEF Pay, errors
<1> HIDE DEF t, r
<1> QED
  BY <1>3, <1>4, <1>5, NewTxStep

\* The faucet's INIT is the first transaction of its database.
LEMMA FaucetStep ==
    ASSUME WalletInvariant, FaucetInit
    PROVE  WalletInvariant'
<1> DEFINE t == [kind |-> "init", amount |-> 0, key |-> None, expiry |-> height + Expiry]
           r == [known |-> FALSE, at |-> 0, enhanced |-> FALSE, built |-> FALSE]
<1>1. height + Expiry \in Nat
  BY DashboardAssumption DEF WalletInvariant, Behind
<1>2. t \in TxRecord /\ t.kind = "init"
  BY <1>1 DEF TxRecord, Kinds
<1>3. r \in RowRecord /\ r.at = 0
  BY DEF RowRecord
<1>4. txs = << >> /\ rows = << >> /\ mined = << >>
  BY DEF FaucetInit, WalletInvariant, Tables
<1>5. /\ txs' = <<t>> /\ rows' = <<r>> /\ mined' = <<0>> /\ toml' \in {toml, toml \cup {1}}
      /\ UNCHANGED <<height, fork, tip, scanned, writing, bar, strikes>>
  BY DEF FaucetInit, errors
<1> HIDE DEF t, r
<1>6. txs' = Append(txs, t) /\ rows' = Append(rows, r) /\ mined' = Append(mined, 0)
  BY <1>4, <1>5
<1>7. \A i \in toml' : i \in toml \/ (i = Len(txs) + 1 /\ t.kind = "init")
  BY <1>2, <1>4, <1>5
<1> QED
  BY <1>2, <1>3, <1>5, <1>6, <1>7, NewTxStep

\* Ship, whatever its caller does to pending.toml.
LEMMA ShipStep ==
    ASSUME WalletInvariant, NEW kind \in {"write", "send", "self"}, NEW a \in Nat,
           kind = "write" <=> a = 0, NEW k \in Keys \cup {None}, Ship(kind, a, k),
           \A i \in toml' : i \in toml,
           UNCHANGED writing \/ (writing' = Len(txs) + 1 /\ kind = "write")
    PROVE  WalletInvariant'
<1> DEFINE t == [kind |-> kind, amount |-> a, key |-> k, expiry |-> tip + Expiry]
           r == [known |-> TRUE, at |-> 0, enhanced |-> FALSE, built |-> TRUE]
<1>1. tip + Expiry \in Nat
  BY DashboardAssumption DEF WalletInvariant, Behind
<1>2. kind \in Kinds /\ (kind \in {"write", "foreign", "init"} <=> a = 0)
  BY DEF Kinds
<1>3. t \in TxRecord /\ t.kind = kind
  BY <1>1, <1>2 DEF TxRecord
<1>4. r \in RowRecord /\ r.known /\ r.built /\ r.at = 0
  BY DEF RowRecord
<1>5. /\ txs' = Append(txs, t) /\ rows' = Append(rows, r) /\ mined' = Append(mined, 0)
      /\ UNCHANGED <<height, fork, tip, scanned, bar, strikes>>
  BY DEF Ship, errors
<1> HIDE DEF t, r
<1> QED
  BY <1>3, <1>4, <1>5, NewTxStep

\* update_chain_tip and the scan of a block only touch the columns of the wallet's rows.
LEMMA NodeSteps ==
    ASSUME WalletInvariant, NodeStep
    PROVE  WalletInvariant'
<1>0. Tables /\ Recorded /\ Behind /\ Summaries /\ RowsKnown
  BY DEF WalletInvariant
<1>1. ASSUME Behind', UNCHANGED <<txs, mined, toml, writing, bar, strikes>>,
             rows' \in [Tx -> RowRecord],
             \A i \in Tx : (rows[i].known => rows'[i].known) /\ (rows[i].built => rows'[i].built),
             \A i \in Tx : rows'[i].at <= tip' /\ (rows'[i].at > 0 => rows'[i].known)
      PROVE  WalletInvariant'
  <2>1. Tables' /\ Tx' = Tx
    BY <1>0, <1>1, TablesRewritten
  <2>2. \A i \in Tx : (StoredWrite(i) => StoredWrite(i)') /\ (Recordable(i) => Recordable(i)')
    BY <1>1, <2>1 DEF StoredWrite, Recordable
  <2>3. Recorded'
    BY <1>0, <1>1, <2>2, RecordedStays
  <2>4. Summaries'
    BY <1>0, <1>1 DEF Summaries, CountsRight, bar
  <2>5. RowsKnown'
    BY <1>1, <2>1 DEF RowsKnown
  <2> QED
    BY <1>1, <2>1, <2>3, <2>4, <2>5 DEF WalletInvariant
<1>2. \A i \in Tx : rows[i] \in RowRecord
  BY <1>0, TableEntries
<1>3. CASE NodeTip
  <2>1. Behind'
    BY <1>0, <1>3 DEF NodeTip, Behind
  <2>2. \A i \in Tx : [rows[i] EXCEPT !.at = 0] \in RowRecord
    BY <1>2 DEF RowRecord
  <2>3. rows' \in [Tx -> RowRecord]
    BY <1>2, <1>3, <2>2 DEF NodeTip
  <2>4. \A i \in Tx : /\ rows'[i].known = rows[i].known /\ rows'[i].built = rows[i].built
                       /\ rows'[i].at \in {0, rows[i].at}
    BY <1>2, <1>3 DEF NodeTip, RowRecord
  <2>5. \A i \in Tx : rows'[i].at <= tip' /\ (rows'[i].at > 0 => rows'[i].known)
    <3>1. tip <= tip' /\ tip \in Nat /\ tip' \in Nat
      BY <1>0, <1>3 DEF NodeTip, Behind
    <3>2. \A i \in Tx : rows[i].at \in Nat
      BY <1>2 DEF RowRecord
    <3> QED BY <1>0, <2>4, <3>1, <3>2 DEF RowsKnown
  <2> QED
    BY <1>1, <1>3, <2>1, <2>3, <2>4, <2>5 DEF NodeTip, errors
<1>4. CASE NodeScan
  <2>0. scanned + 1 \in Nat
    BY <1>0 DEF Behind
  <2>c. scanned' = scanned + 1 /\ scanned < tip /\ UNCHANGED <<height, fork, tip>>
    BY <1>4 DEF NodeScan, chain
  <2>1. Behind'
    BY <1>0, <2>c DEF Behind
  <2>2. \A i \in Tx : [rows[i] EXCEPT !.known = TRUE, !.at = scanned + 1] \in RowRecord
    BY <1>2, <2>0 DEF RowRecord
  <2>3. rows' \in [Tx -> RowRecord]
    BY <1>2, <1>4, <2>2 DEF NodeScan
  <2>4. \A i \in Tx : (rows[i].known => rows'[i].known) /\ rows'[i].built = rows[i].built
    BY <1>2, <1>4 DEF NodeScan, RowRecord
  <2>5. ASSUME NEW i \in Tx
        PROVE  rows'[i].at <= tip' /\ (rows'[i].at > 0 => rows'[i].known)
    <3>1. \/ rows'[i].at = scanned + 1 /\ rows'[i].known
          \/ rows'[i] = rows[i]
      BY <1>2, <1>4 DEF NodeScan, RowRecord
    <3>2. scanned + 1 <= tip /\ tip' = tip
      BY <1>0, <2>c DEF Behind
    <3> QED BY <1>0, <3>1, <3>2 DEF RowsKnown
  <2> QED
    BY <1>1, <1>4, <2>1, <2>3, <2>4, <2>5 DEF NodeScan, chain, errors
<1>5. ASSUME NEW j, NodeEnhance(j)
      PROVE  WalletInvariant'
  <2>1. Behind'
    BY <1>0, <1>5 DEF NodeEnhance, Behind, chain
  <2>2. rows \in [Tx -> RowRecord]
    BY <1>0 DEF Tables, Tx
  <2>3. [rows[j] EXCEPT !.enhanced = TRUE] \in RowRecord
    BY <1>2, <1>5 DEF NodeEnhance, RowRecord
  <2>4. rows' \in [Tx -> RowRecord]
    BY <1>5, <2>2, <2>3 DEF NodeEnhance
  <2>5. \A i \in Tx : /\ rows'[i].known = rows[i].known /\ rows'[i].built = rows[i].built
                       /\ rows'[i].at = rows[i].at
    BY <1>2, <1>5, <2>2 DEF NodeEnhance, RowRecord
  <2>6. \A i \in Tx : rows'[i].at <= tip' /\ (rows'[i].at > 0 => rows'[i].known)
    BY <1>0, <1>5, <2>5 DEF RowsKnown, NodeEnhance
  <2> QED
    BY <1>1, <1>5, <2>1, <2>4, <2>5, <2>6 DEF NodeEnhance, chain, errors
<1> QED
  BY <1>3, <1>4, <1>5 DEF NodeStep

\* The new blocks, the outages and every step of the GUI and its loop.
LEMMA OtherSteps ==
    ASSUME WalletInvariant,
           \/ \E S \in SUBSET Mempool : NewBlock(S)
           \/ Reorg \/ Outage \/ Recover \/ Poll \/ LoopStep
           \/ Record \/ \E i \in 1..MaxTxs : Age(i)
           \/ AutoSyncBenign \/ ManualSync \/ Forget \/ Recreate \/ Relaunch
    PROVE  WalletInvariant'
<1>0. /\ Tables /\ Recorded /\ Behind /\ Summaries /\ RowsKnown
      /\ strikes \in 0..SYNC_ERROR_THRESHOLD
  BY DEF WalletInvariant
<1>r. ASSUME UNCHANGED <<txs, rows>>, tip' \in {tip, height} PROVE RowsKnown'
  <2>1. tip <= tip' /\ tip \in Nat /\ tip' \in Nat
    BY <1>0, <1>r DEF Behind
  <2>2. \A i \in Tx : rows[i].at \in Nat
    BY <1>0, TableEntries
  <2> QED BY <1>0, <1>r, <2>1, <2>2 DEF RowsKnown, Tx
<1>1. ASSUME UNCHANGED <<txs, mined, rows>>, strikes' \in 0..SYNC_ERROR_THRESHOLD,
             \A i \in toml' : i \in toml \/ (i = writing /\ writing # 0),
             writing' \in {0, writing}, Behind', tip' \in {tip, height}, Summaries'
      PROVE  WalletInvariant'
  BY <1>0, <1>1, <1>r, QuietStep DEF WalletInvariant
<1>2. UNCHANGED <<height, fork, tip, scanned>> => Behind' /\ tip' \in {tip, height}
  BY <1>0 DEF Behind
<1>3. UNCHANGED bar => Summaries'
  BY <1>0 DEF Summaries, CountsRight, bar
<1>4. UNCHANGED chain => UNCHANGED <<height, txs, mined, fork>>
  BY DEF chain
<1>5. UNCHANGED wallet => UNCHANGED <<tip, scanned, rows, toml>>
  BY DEF wallet
<1>6. UNCHANGED errors => strikes' \in 0..SYNC_ERROR_THRESHOLD
  BY <1>0 DEF errors
<1>7. SYNC_ERROR_THRESHOLD \in Nat /\ MaxHeight \in Nat
  BY DashboardAssumption
<1>8. \A i \in Pruned : i \in toml
  BY DEF Pruned
<1>9. ASSUME UNCHANGED <<txs, rows, toml, writing, tip, scanned>>, mined' \in [Tx -> Nat],
             UNCHANGED <<bar, errors>>, Behind'
      PROVE  WalletInvariant'
  <2>1. Tables' /\ Tx' = Tx
    BY <1>0, <1>9, TablesRewritten
  <2>2. \A i \in Tx : (StoredWrite(i) => StoredWrite(i)') /\ (Recordable(i) => Recordable(i)')
    BY <1>9, <2>1 DEF StoredWrite, Recordable
  <2>3. Recorded'
    BY <1>0, <1>9, <2>2, RecordedStays
  <2> QED
    BY <1>3, <1>6, <1>9, <1>r, <2>1, <2>3 DEF WalletInvariant
<1>10. \A i \in Tx : mined[i] \in Nat
  BY <1>0, TableEntries
<1>11. ASSUME NEW S \in SUBSET Mempool, NewBlock(S)
       PROVE  WalletInvariant'
  <2>1. height' = height + 1 /\ height < MaxHeight /\ UNCHANGED <<fork, tip, scanned>>
    BY <1>11 DEF NewBlock, wallet
  <2>2. Behind' /\ height + 1 \in Nat
    BY <1>0, <1>7, <2>1 DEF Behind
  <2>3. mined' \in [Tx -> Nat]
    BY <1>10, <1>11, <2>2 DEF NewBlock
  <2> QED
    BY <1>9, <1>11, <2>2, <2>3 DEF NewBlock, wallet
<1>12. CASE Reorg
  <2>1. height' = height + 1 /\ height + 1 <= MaxHeight /\ UNCHANGED <<tip, scanned>>
        /\ (fork' = height \/ fork' = fork)
    BY <1>12 DEF Reorg, wallet
  <2>2. Behind'
    BY <1>0, <1>7, <2>1 DEF Behind
  <2>3. mined' \in [Tx -> Nat]
    BY <1>10, <1>12 DEF Reorg
  <2> QED
    BY <1>9, <1>12, <2>2, <2>3 DEF Reorg, wallet
<1>13. CASE Outage \/ Recover
  BY <1>0, <1>1, <1>2, <1>3, <1>4, <1>5, <1>13 DEF Outage, Recover
<1>14. CASE Poll
  <2>1. Summaries'
    <3>1. CASE PollKey
      BY <1>0, <3>1 DEF PollKey, Summaries, CountsRight, IdlePoll
    <3>2. CASE PollRead
      <4>1. CountsRight(Counts)
        BY <1>0, CountsOrdered
      <4>2. \/ poll' = [poll EXCEPT !.pc = "insert", !.counts = Counts]
            \/ poll' = IdlePoll
        BY <3>2 DEF PollRead
      <4>3. UNCHANGED cache
        BY <3>2 DEF PollRead
      <4> DEFINE counts == Counts
      <4> HIDE DEF counts
      <4>4. \/ poll' = [pc |-> "insert", synced |-> poll.synced, fp |-> poll.fp, counts |-> counts]
            \/ poll' = IdlePoll
        BY <1>0, <4>2 DEF Summaries, counts
      <4>5. CountsRight(counts)
        BY <4>1 DEF counts
      <4> QED
        BY <1>0, <4>3, <4>4, <4>5 DEF Summaries, CountsRight, IdlePoll
    <3>3. CASE PollInsert
      BY <1>0, <3>3 DEF PollInsert, Summaries, CountsRight, IdlePoll
    <3> QED BY <1>14, <3>1, <3>2, <3>3 DEF Poll
  <2>2. UNCHANGED <<chain, wallet, writing, errors>>
    BY <1>14 DEF Poll, PollKey, PollRead, PollInsert
  <2> QED
    BY <1>1, <1>2, <1>4, <1>5, <1>6, <2>1, <2>2
<1>15. CASE LoopStep \/ AutoSyncBenign \/ ManualSync
  <2>1. UNCHANGED <<chain, tip, scanned, rows, writing, bar>> /\ toml' \in {toml, Pruned}
    BY <1>5, <1>15 DEF LoopStep, AutoSync, AutoSyncFails, AutoSyncBenign, ManualSync
  <2>2. strikes' \in 0..SYNC_ERROR_THRESHOLD
    BY <1>0, <1>6, <1>7, <1>15
    DEF LoopStep, AutoSync, AutoSyncFails, AutoSyncBenign, ManualSync, Clear, Strike
  <2> QED
    BY <1>1, <1>2, <1>3, <1>4, <1>8, <2>1, <2>2
<1>16. CASE Record
  <2>1. writing # 0 /\ writing' = 0 /\ toml' \in {toml, toml \cup {writing}}
    BY <1>16 DEF Record
  <2>2. UNCHANGED <<chain, tip, scanned, rows, bar, errors>>
    BY <1>16 DEF Record
  <2> QED
    BY <1>1, <1>2, <1>3, <1>4, <1>6, <2>1, <2>2
<1>17. ASSUME NEW i, Age(i)
       PROVE  WalletInvariant'
  <2>1. toml' = toml \ {i} /\ UNCHANGED <<chain, tip, scanned, rows, writing, bar, errors>>
    BY <1>17 DEF Age
  <2> QED
    BY <1>1, <1>2, <1>3, <1>4, <1>6, <2>1
<1>18. CASE Forget
  <2>1. /\ txs' = << >> /\ mined' = << >> /\ rows' = << >> /\ toml' = {} /\ writing' = 0
        /\ tip' = 0 /\ scanned' = 0 /\ cache' = None
        /\ UNCHANGED <<height, fork, poll, strikes>>
    BY <1>18 DEF Forget, LockFree
  <2>2. Tables'
    BY <2>1 DEF Tables
  <2>3. Recorded' /\ Summaries'
    BY <1>0, <2>1 DEF Recorded, Summaries, CountsRight
  <2>4. Behind'
    BY <1>0, <2>1 DEF Behind
  <2>5. RowsKnown'
    BY <2>1 DEF RowsKnown, Tx
  <2> QED
    BY <1>0, <2>1, <2>2, <2>3, <2>4, <2>5 DEF WalletInvariant
<1>19. CASE Recreate
  <2>1. /\ tip' = height /\ scanned' = height /\ fork' = 0
        /\ UNCHANGED <<height, txs, mined, rows, toml, writing, bar, errors>>
    BY <1>19 DEF Recreate
  <2>2. Behind'
    BY <1>0, <2>1 DEF Behind
  <2> QED
    BY <1>1, <1>3, <1>6, <2>1, <2>2
<1>20. CASE Relaunch
  <2>1. writing' = 0 /\ poll' = IdlePoll /\ cache' = None /\ strikes' = 0
        /\ UNCHANGED <<chain, wallet>>
    BY <1>20 DEF Relaunch
  <2>2. Summaries'
    BY <2>1 DEF Summaries, IdlePoll
  <2> QED
    BY <1>1, <1>2, <1>4, <1>5, <1>7, <2>1, <2>2
<1> QED
  BY <1>11, <1>12, <1>13, <1>14, <1>15, <1>16, <1>17, <1>18, <1>19, <1>20

\* The callers of Ship: set_key ships a write of no value, send a parsed amount.
LEMMA OwnTxSteps ==
    ASSUME WalletInvariant,
           \/ \E k \in Keys, sync \in BOOLEAN : SetKey(k, sync)
           \/ \E t \in Typed, r \in Recipients, memo \in BOOLEAN : Send(t, r, memo)
    PROVE  WalletInvariant'
<1>1. ASSUME NEW k \in Keys, NEW sync \in BOOLEAN, SetKey(k, sync)
      PROVE  WalletInvariant'
  <2>1. Ship("write", 0, k) /\ writing' = Len(txs) + 1 /\ \A i \in toml' : i \in toml
    BY <1>1 DEF SetKey, Pruned
  <2> QED
    BY <2>1, ShipStep
<1>2. ASSUME NEW t \in Typed, NEW r \in Recipients, NEW memo \in BOOLEAN, Send(t, r, memo)
      PROVE  WalletInvariant'
  <2> DEFINE a == parse_zec(t)
             kind == IF r = "own" THEN "self" ELSE "send"
  <2>1. a = 0 \/ a \in 1..MAX_MONEY
    BY DEF parse_zec
  <2>2. a > 0 /\ Ship(kind, a, None) /\ UNCHANGED <<toml, writing>>
    BY <1>2 DEF Send, send_funds
  <2> HIDE DEF a
  <2>3. a \in Nat /\ a # 0 /\ kind \in {"write", "send", "self"} /\ kind # "write"
    BY <2>1, <2>2, DashboardAssumption
  <2> HIDE DEF kind
  <2> QED
    BY <2>2, <2>3, ShipStep
<1> QED
  BY <1>1, <1>2

LEMMA WalletNext == WalletInvariant /\ [Next]_vars => WalletInvariant'
<1> SUFFICES ASSUME WalletInvariant, [Next]_vars PROVE WalletInvariant'
  OBVIOUS
<1>1. CASE UNCHANGED vars
  <2>1. UNCHANGED <<txs, rows, mined, toml, writing, height, fork, tip, scanned, poll, cache, strikes>>
    BY <1>1 DEF vars, chain, wallet, bar, errors
  <2>2. Tables' /\ Recorded'
    BY <2>1, QuietStep DEF WalletInvariant
  <2>3. Behind' /\ Summaries' /\ RowsKnown'
    BY <2>1 DEF WalletInvariant, Behind, Summaries, CountsRight, RowsKnown, Tx
  <2> QED
    BY <2>1, <2>2, <2>3 DEF WalletInvariant
<1>2. CASE Step
  <2>1. CASE \E kind \in {"deposit", "tip", "foreign"}, a \in Amounts \cup {0},
                k \in Keys \cup {None} : Pay(kind, a, k)
    BY <2>1, PayStep
  <2>2. CASE \/ \E k \in Keys, sync \in BOOLEAN : SetKey(k, sync)
             \/ \E t \in Typed, r \in Recipients, memo \in BOOLEAN : Send(t, r, memo)
    BY <2>2, OwnTxSteps
  <2>3. CASE NodeStep
    BY <2>3, NodeSteps
  <2> QED
    BY <1>2, <2>1, <2>2, <2>3, OtherSteps, FaucetStep DEF Step
<1> QED
  BY <1>1, <1>2 DEF Next

-----------------------------------------------------------------------------
(* A write does not vanish.                                                *)

\* What a read shows of our writes and of the INIT: the readable rows and the entries of
\* pending.toml, whichever side of the confirmation threshold they are on.
LEMMA ShownWrites ==
    ASSUME Tables, Behind, RowsKnown, NEW i \in Tx, txs[i].kind \in {"write", "init"}
    PROVE  i \in ConfirmedTxs \cup PendingTxs <=> Readable(i) \/ i \in toml
<1>1. Depth(i) \in Int /\ Depth(i) >= 1 /\ MinConfs \in Int
  <2>1. rows[i].at \in Nat /\ tip \in Nat /\ rows[i].at <= tip
    BY TableEntries DEF Behind, RowsKnown
  <2> QED BY <2>1, DashboardAssumption DEF Depth
<1>2. txs[i].kind = "write" => Own(i)
  BY DEF Own, OwnKinds
<1> QED
  BY <1>1, <1>2 DEF ConfirmedTxs, PendingTxs, effective_min_confs

\* A step keeps what is shown if every write stays readable, or in pending.toml, or
\* goes for one of the reasons.
LEMMA StaysShown ==
    ASSUME Tables, Behind, RowsKnown, Tables', Behind', RowsKnown',
           \A i \in Tx : i \in Tx' /\ txs'[i].kind = txs[i].kind,
           \A i \in Tx : txs[i].kind \in {"write", "init"} /\ (Readable(i) \/ i \in toml) =>
               \/ Readable(i)' \/ i \in toml'
               \/ rows'[i].at = 0 /\ (rows[i].at > 0 \/ height >= txs[i].expiry \/ ~up)
               \/ ~Seen(i) /\ ~up
    PROVE  WriteStays
<1> SUFFICES ASSUME NEW i \in Tx, txs[i].kind \in {"write", "init"},
                    i \in ConfirmedTxs \cup PendingTxs
             PROVE  \/ i \in (ConfirmedTxs \cup PendingTxs)'
                    \/ rows'[i].at = 0 /\ (rows[i].at > 0 \/ height >= txs[i].expiry \/ ~up)
                    \/ ~Seen(i) /\ ~up
  BY DEF WriteStays
<1>1. Readable(i) \/ i \in toml
  BY ShownWrites
<1>2. i \in Tx' /\ txs'[i].kind \in {"write", "init"}
  OBVIOUS
<1>3. Readable(i)' \/ i \in toml' => i \in (ConfirmedTxs \cup PendingTxs)'
  <2>1. Depth(i)' \in Int /\ Depth(i)' >= 1 /\ MinConfs \in Int
    <3>1. rows'[i].at \in Nat
      <4>1. rows'[i] \in RowRecord
        BY <1>2 DEF Tables, Tx
      <4> QED BY <4>1 DEF RowRecord
    <3>2. tip' \in Nat /\ rows'[i].at <= tip'
      BY <1>2 DEF Behind, RowsKnown
    <3> QED BY <3>1, <3>2, DashboardAssumption DEF Depth
  <2>2. txs'[i].kind = "write" => Own(i)'
    BY DEF Own, OwnKinds
  <2> QED
    BY <1>2, <2>1, <2>2 DEF ConfirmedTxs, PendingTxs, effective_min_confs
<1> QED
  BY <1>1, <1>3

\* gc_pending drops only what the wallet can read itself.
LEMMA PrunedIsReadable ==
    ASSUME Recorded, NEW i \in toml, i \notin Pruned
    PROVE  Readable(i)
BY DEF Recorded, StoredWrite, Recordable, Pruned, Surfaced, Readable, ZkvKinds

\* Every step of the chain, the wallet and the GUI keeps the writes that are shown.
LEMMA WritesStayShown ==
    ASSUME WalletInvariant, WalletInvariant', Step
    PROVE  WriteStays
<1>0. Tables /\ Recorded /\ Behind /\ RowsKnown /\ Tables' /\ Behind' /\ RowsKnown'
  BY DEF WalletInvariant
<1> DEFINE Excused(i) ==
               \/ rows'[i].at = 0 /\ (rows[i].at > 0 \/ height >= txs[i].expiry \/ ~up)
               \/ ~Seen(i) /\ ~up
<1>1. ASSUME \A i \in Tx : i \in Tx' /\ txs'[i].kind = txs[i].kind /\ rows'[i] = rows[i],
             \A i \in toml : i \in toml' \/ Readable(i) \/ Excused(i)
      PROVE  WriteStays
  <2>1. \A i \in Tx : Readable(i) => Readable(i)'
    BY <1>1 DEF Readable, Seen
  <2> QED
    BY <1>0, <1>1, <2>1, StaysShown
<1>2. ASSUME UNCHANGED <<txs, rows>> PROVE \A i \in Tx : i \in Tx' /\ txs'[i].kind = txs[i].kind /\ rows'[i] = rows[i]
  BY <1>2 DEF Tx
<1>3. \A i \in toml : i \in Pruned \/ Readable(i)
  BY <1>0, PrunedIsReadable
<1>4. ASSUME NEW kind \in {"deposit", "tip", "foreign"}, NEW a \in Amounts \cup {0},
             NEW k \in Keys \cup {None}, Pay(kind, a, k)
      PROVE  WriteStays
  <2>1. \A i \in Tx : i \in Tx' /\ txs'[i] = txs[i] /\ rows'[i] = rows[i]
    BY <1>0, <1>4, OldEntries DEF Pay
  <2> QED
    BY <1>1, <1>4, <2>1 DEF Pay
<1>5. ASSUME NEW kind, NEW a, NEW k, Ship(kind, a, k), toml' \in {toml, Pruned}
      PROVE  WriteStays
  <2>1. \A i \in Tx : i \in Tx' /\ txs'[i] = txs[i] /\ rows'[i] = rows[i]
    BY <1>0, <1>5, OldEntries DEF Ship
  <2> QED
    BY <1>1, <1>3, <1>5, <2>1
<1>6. ASSUME NEW k \in Keys, NEW sync \in BOOLEAN, SetKey(k, sync)
      PROVE  WriteStays
  BY <1>5, <1>6 DEF SetKey
<1>7. ASSUME NEW t \in Typed, NEW r \in Recipients, NEW memo \in BOOLEAN, Send(t, r, memo)
      PROVE  WriteStays
  BY <1>5, <1>7 DEF Send, send_funds
<1>8. ASSUME UNCHANGED <<txs, rows>>, toml' \in {toml, Pruned, toml \cup {writing}}
      PROVE  WriteStays
  BY <1>1, <1>2, <1>3, <1>8
<1>9. ASSUME NEW i, Age(i)
      PROVE  WriteStays
  <2>1. /\ i \in Tx /\ txs[i].kind \in {"write", "init"} /\ rows[i].at \in Nat
        /\ rows[i].at > 0 => rows[i].known
    BY <1>0, <1>9, TableEntries DEF Age, Recorded, StoredWrite, Recordable, RowsKnown
  <2>2. UNCHANGED <<txs, rows>> /\ toml' = toml \ {i}
    BY <1>9 DEF Age, chain
  <2>3. \/ rows[i].at > 0 /\ Seen(i)
        \/ rows[i].at = 0 /\ (height >= txs[i].expiry \/ ~up)
        \/ ~Seen(i) /\ ~up
    BY <1>9, <2>1 DEF Age
  <2>4. Readable(i) \/ Excused(i)
    BY <2>1, <2>2, <2>3 DEF Readable, ZkvKinds
  <2> QED
    BY <1>1, <1>2, <2>2, <2>4
<1>f. CASE FaucetInit
  BY <1>f DEF FaucetInit, WriteStays, Tx
<1>10. ASSUME UNCHANGED <<txs, toml>>,
              \A i \in Tx : Readable(i) => Readable(i)' \/ Excused(i)
       PROVE  WriteStays
  <2>1. \A i \in Tx : i \in Tx' /\ txs'[i].kind = txs[i].kind
    BY <1>10 DEF Tx
  <2> QED
    BY <1>0, <1>10, <2>1, StaysShown
<1>11. \A i \in Tx : rows[i] \in RowRecord /\ rows[i].at \in Nat
  BY <1>0, TableEntries
<1>12. CASE NodeTip
  <2>1. ASSUME NEW i \in Tx, Readable(i)
        PROVE  Readable(i)' \/ Excused(i)
    <3>1. CASE rows'[i] = rows[i]
      BY <1>12, <2>1, <3>1 DEF NodeTip, Readable, Seen
    <3>2. CASE rows'[i] = [rows[i] EXCEPT !.at = 0]
      <4>1. rows'[i].at = 0
        BY <1>11, <3>2 DEF RowRecord
      <4> QED BY <2>1, <4>1 DEF Readable
    <3> QED BY <1>12, <3>1, <3>2 DEF NodeTip
  <2> QED
    BY <1>10, <1>12, <2>1 DEF NodeTip
<1>13. CASE NodeScan
  <2>1. ASSUME NEW i \in Tx, Readable(i)
        PROVE  Readable(i)'
    <3>0. scanned + 1 \in Nat /\ scanned + 1 > 0
      BY <1>0 DEF Behind
    <3>1. CASE rows'[i] = rows[i]
      BY <1>13, <2>1, <3>1 DEF NodeScan, Readable, Seen, chain
    <3>2. CASE rows'[i] = [rows[i] EXCEPT !.known = TRUE, !.at = scanned + 1]
      <4>1. /\ rows'[i].known /\ rows'[i].at = scanned + 1
            /\ rows'[i].enhanced = rows[i].enhanced /\ rows'[i].built = rows[i].built
        BY <1>11, <3>2 DEF RowRecord
      <4>2. UNCHANGED txs
        BY <1>13 DEF NodeScan, chain
      <4> QED BY <2>1, <3>0, <4>1, <4>2 DEF Readable, Seen
    <3> QED BY <1>13, <3>1, <3>2 DEF NodeScan
  <2> QED
    BY <1>10, <1>13, <2>1 DEF NodeScan, chain
<1>14. ASSUME NEW j, NodeEnhance(j)
       PROVE  WriteStays
  <2>1. rows \in [Tx -> RowRecord] /\ j \in Tx /\ UNCHANGED txs
    BY <1>0, <1>14 DEF Tables, Tx, NodeEnhance, chain
  <2>2. ASSUME NEW i \in Tx
        PROVE  /\ rows'[i].known = rows[i].known /\ rows'[i].at = rows[i].at
               /\ rows'[i].built = rows[i].built /\ (rows[i].enhanced => rows'[i].enhanced)
    BY <1>11, <1>14, <2>1 DEF NodeEnhance, RowRecord
  <2>3. \A i \in Tx : Readable(i) => Readable(i)'
    BY <2>1, <2>2 DEF Readable, Seen
  <2> QED
    BY <1>10, <1>14, <2>3 DEF NodeEnhance, chain
<1>15. CASE Forget
  BY <1>15 DEF Forget, WriteStays
<1>16. ASSUME NEW S, NewBlock(S) PROVE WriteStays
  BY <1>8, <1>16 DEF NewBlock, wallet
<1>17. CASE Reorg \/ Outage \/ Recover \/ Recreate \/ Relaunch
  BY <1>8, <1>17 DEF Reorg, Outage, Recover, Recreate, Relaunch, chain, wallet
<1>18. CASE Poll
  BY <1>8, <1>18 DEF Poll, PollKey, PollRead, PollInsert, chain, wallet
<1>19. CASE LoopStep \/ AutoSyncBenign \/ ManualSync \/ Record
  BY <1>8, <1>19 DEF LoopStep, AutoSync, AutoSyncFails, AutoSyncBenign, ManualSync, Record,
     chain, wallet
<1> QED
  BY <1>4, <1>6, <1>7, <1>9, <1>f, <1>12, <1>13, <1>14, <1>15, <1>16, <1>17, <1>18, <1>19
  DEF Step, NodeStep

\* A write that a read has shown, from pending.toml or from the chain, stays in the
\* read through mining, pruning, ageing, confirmation and restarts until it expires
\* unmined, its block is rolled back, the wallet is without a server or its database
\* goes: for any number of transactions, blocks, keys and failures.  So does an INIT the
\* faucet sent, whose memo the wallet has to fetch before it can read it.
THEOREM WrittenStaysShown == Spec => WritesDontVanish
<1>1. WalletInvariant /\ WalletInvariant' /\ [Next]_vars => [WriteStays]_vars
  BY WritesStayShown DEF Next
<1> QED
  BY <1>1, WalletInit, WalletNext, PTL DEF Spec, WritesDontVanish

-----------------------------------------------------------------------------
(* Sums over finite sets.  MapThenSumSet adds the elements in the order in *)
(* which CHOOSE picks them; what follows shows that its recursion has a    *)
(* solution and that the order does not matter.                            *)

\* A non-empty set of natural numbers has a least element.
LEMMA LeastNat ==
    ASSUME NEW T, T \subseteq Nat, T # {}
    PROVE  \E n \in T : \A m \in T : n <= m
<1> DEFINE less == {ss \in Nat \X Nat : ss[1] < ss[2]}
<1>1. OpToRel(<, Nat) = less
  BY Zenon DEF OpToRel
<1>2. \E x \in T : \A y \in T : ~(<<y, x>> \in OpToRel(<, Nat))
  BY NatLessThanWellFounded, WFMin, Zenon
<1>3. \E x \in T : \A y \in T : ~(<<y, x>> \in less)
  BY <1>1, <1>2, Zenon
<1>4. ASSUME NEW x \in Nat, NEW y \in Nat, y < x
      PROVE  <<y, x>> \in less
  BY <1>4
<1> HIDE DEF less
<1>5. \E x \in T : \A y \in T : ~(y < x)
  BY <1>3, <1>4, Zenon
<1> QED BY <1>5

\* A set that holds 0 and the successor of each of its members holds every number.
LEMMA NatSetInduction ==
    ASSUME NEW S, 0 \in S, \A n \in Nat : n \in S => n + 1 \in S
    PROVE  \A n \in Nat : n \in S
<1> SUFFICES ASSUME Nat \ S # {} PROVE FALSE
  OBVIOUS
<1>1. PICK n \in Nat \ S : \A m \in Nat \ S : n <= m
  BY LeastNat
<1>2. n # 0 /\ n - 1 \in Nat /\ n - 1 \notin Nat \ S
  BY <1>1
<1> QED BY <1>1, <1>2

\* The element of s that is added first.
Pick(s) == CHOOSE x \in s : TRUE

\* g adds up f over the subsets of B, as MapThenSumSet does.
AddsUp(g, f, B) ==
    /\ g \in [SUBSET B -> Int]
    /\ g[{}] = 0
    /\ \A s \in SUBSET B : s # {} => g[s] = f[Pick(s)] + g[s \ {Pick(s)}]

\* A finite set without one of its elements.
LEMMA OneLess ==
    ASSUME NEW B, IsFiniteSet(B), NEW s \in SUBSET B, NEW x \in s
    PROVE  /\ s \ {x} \in SUBSET B /\ Cardinality(s) \in Nat \ {0}
           /\ Cardinality(s \ {x}) = Cardinality(s) - 1
<1>1. IsFiniteSet(s)
  BY FS_Subset
<1>2. Cardinality(s) \in Nat /\ Cardinality(s \ {x}) = Cardinality(s) - 1
  BY <1>1, FS_CardinalityType, FS_RemoveElement
<1>3. Cardinality(s) # 0
  BY <1>1, FS_EmptySet
<1> QED
  BY <1>2, <1>3

LEMMA PickIn == ASSUME NEW s, s # {} PROVE Pick(s) \in s
BY DEF Pick

\* The recursion has a solution.
LEMMA SumExists ==
    ASSUME NEW B, IsFiniteSet(B), NEW f \in [B -> Int]
    PROVE  \E g : AddsUp(g, f, B)
<1> DEFINE P(n, g) == /\ g \in [SUBSET B -> Int]
                      /\ g[{}] = 0
                      /\ \A s \in SUBSET B : s # {} /\ Cardinality(s) <= n =>
                             g[s] = f[Pick(s)] + g[s \ {Pick(s)}]
           S == {n \in Nat : \E g : P(n, g)}
<1>0. ASSUME NEW s \in SUBSET B, s # {}
      PROVE  /\ Pick(s) \in B /\ s \ {Pick(s)} \in SUBSET B
             /\ Cardinality(s) \in Nat \ {0}
             /\ Cardinality(s \ {Pick(s)}) = Cardinality(s) - 1
  <2>1. Pick(s) \in s
    BY <1>0, PickIn
  <2> QED BY <2>1, OneLess
<1>1. 0 \in S
  <2> DEFINE z == [s \in SUBSET B |-> 0]
  <2>1. z \in [SUBSET B -> Int] /\ z[{}] = 0
    OBVIOUS
  <2>2. ASSUME NEW s \in SUBSET B, s # {}, Cardinality(s) <= 0
        PROVE  FALSE
    <3>1. Cardinality(s) \in Nat \ {0}
      BY <1>0, <2>2
    <3> QED BY <2>2, <3>1
  <2> HIDE DEF z
  <2>3. P(0, z)
    BY <2>1, <2>2
  <2> QED BY <2>3
<1>2. ASSUME NEW n \in Nat, n \in S
      PROVE  n + 1 \in S
  <2>1. PICK g : P(n, g)
    BY <1>2
  <2> DEFINE h == [s \in SUBSET B |->
                      IF s # {} /\ Cardinality(s) = n + 1 THEN f[Pick(s)] + g[s \ {Pick(s)}]
                      ELSE g[s]]
  <2>2. ASSUME NEW s \in SUBSET B, s # {}
        PROVE  f[Pick(s)] + g[s \ {Pick(s)}] \in Int
    <3>1. f[Pick(s)] \in Int /\ g[s \ {Pick(s)}] \in Int
      BY <1>0, <2>1, <2>2
    <3> QED BY <3>1
  <2>3. h \in [SUBSET B -> Int] /\ h[{}] = 0
    BY <2>1, <2>2
  <2>4. ASSUME NEW s \in SUBSET B, s # {}, Cardinality(s) <= n + 1
        PROVE  h[s] = f[Pick(s)] + h[s \ {Pick(s)}]
    <3>0. /\ s \ {Pick(s)} \in SUBSET B /\ Cardinality(s) \in Nat
          /\ Cardinality(s \ {Pick(s)}) = Cardinality(s) - 1
      BY <1>0, <2>4
    <3>1. s \ {Pick(s)} \in SUBSET B /\ Cardinality(s \ {Pick(s)}) # n + 1
          /\ Cardinality(s) \in Nat
      BY <2>4, <3>0
    <3>2. h[s \ {Pick(s)}] = g[s \ {Pick(s)}]
      BY <3>1
    <3>3. h[s] = f[Pick(s)] + g[s \ {Pick(s)}]
      BY <2>1, <2>4, <3>1
    <3> QED BY <3>2, <3>3
  <2> HIDE DEF h
  <2>5. P(n + 1, h)
    BY <2>3, <2>4
  <2> QED BY <2>5
<1> HIDE DEF S
<1>3. IsFiniteSet(B) /\ Cardinality(B) \in Nat
  BY FS_CardinalityType
<1>4. Cardinality(B) \in S
  BY <1>1, <1>2, <1>3, NatSetInduction
<1>5. PICK g : P(Cardinality(B), g)
  BY <1>4 DEF S
<1>6. \A s \in SUBSET B : Cardinality(s) <= Cardinality(B)
  BY FS_Subset
<1> QED
  BY <1>5, <1>6 DEF AddsUp

\* It has only one.
LEMMA SumUnique ==
    ASSUME NEW B, IsFiniteSet(B), NEW f \in [B -> Int], NEW g, AddsUp(g, f, B), NEW it,
           it[{}] = 0,
           \A s \in SUBSET B : s # {} => it[s] = f[Pick(s)] + it[s \ {Pick(s)}]
    PROVE  it[B] = g[B]
<1> DEFINE S == {n \in Nat : \A s \in SUBSET B : Cardinality(s) = n => it[s] = g[s]}
<1>1. 0 \in S
  <2> SUFFICES ASSUME NEW s \in SUBSET B, Cardinality(s) = 0
               PROVE  it[s] = g[s]
    OBVIOUS
  <2>1. \A x \in s : Cardinality(s) \in Nat \ {0}
    BY OneLess
  <2>2. s = {}
    BY <2>1
  <2> QED BY <2>2 DEF AddsUp
<1>2. ASSUME NEW n \in Nat, n \in S
      PROVE  n + 1 \in S
  <2> SUFFICES ASSUME NEW s \in SUBSET B, Cardinality(s) = n + 1
               PROVE  it[s] = g[s]
    OBVIOUS
  <2>1. s # {}
    <3>1. Cardinality({}) = 0
      BY FS_EmptySet
    <3> QED BY <3>1
  <2> DEFINE c == Pick(s)
  <2>2. c \in s
    BY <2>1, PickIn
  <2>3. it[s] = f[c] + it[s \ {c}] /\ g[s] = f[c] + g[s \ {c}]
    BY <2>1 DEF AddsUp
  <2> HIDE DEF c
  <2>4. s \ {c} \in SUBSET B /\ Cardinality(s \ {c}) = n
    BY <2>2, OneLess
  <2>5. it[s \ {c}] = g[s \ {c}]
    BY <1>2, <2>4
  <2> QED BY <2>3, <2>5
<1> HIDE DEF S
<1>3. Cardinality(B) \in Nat
  BY FS_CardinalityType
<1>4. Cardinality(B) \in S
  BY <1>1, <1>2, <1>3, NatSetInduction
<1> QED
  BY <1>4 DEF S

\* Any element can be added first.
LEMMA AnyOrder ==
    ASSUME NEW B, IsFiniteSet(B), NEW f \in [B -> Int], NEW g, AddsUp(g, f, B)
    PROVE  \A s \in SUBSET B : \A x \in s : g[s] = f[x] + g[s \ {x}]
<1> DEFINE S == {n \in Nat : \A s \in SUBSET B : Cardinality(s) = n =>
                                 \A x \in s : g[s] = f[x] + g[s \ {x}]}
<1>1. 0 \in S
  <2>1. \A s \in SUBSET B : \A x \in s : Cardinality(s) \in Nat \ {0}
    BY OneLess
  <2> QED BY <2>1
<1>2. ASSUME NEW n \in Nat, n \in S
      PROVE  n + 1 \in S
  <2> SUFFICES ASSUME NEW s \in SUBSET B, Cardinality(s) = n + 1, NEW x \in s
               PROVE  g[s] = f[x] + g[s \ {x}]
    OBVIOUS
  <2> DEFINE c == Pick(s)
  <2>1. c \in s
    BY PickIn
  <2>2. g[s] = f[c] + g[s \ {c}]
    BY DEF AddsUp
  <2> HIDE DEF c
  <2>3. CASE x = c
    BY <2>2, <2>3
  <2>4. CASE x # c
    <3>1. /\ s \ {c} \in SUBSET B /\ Cardinality(s \ {c}) = n /\ x \in s \ {c}
          /\ s \ {x} \in SUBSET B /\ Cardinality(s \ {x}) = n /\ c \in s \ {x}
      BY <2>1, <2>4, OneLess
    <3>2. g[s \ {c}] = f[x] + g[(s \ {c}) \ {x}]
      BY <1>2, <3>1
    <3>3. g[s \ {x}] = f[c] + g[(s \ {x}) \ {c}]
      BY <1>2, <3>1
    <3>4. (s \ {c}) \ {x} = (s \ {x}) \ {c} /\ (s \ {x}) \ {c} \in SUBSET B
      OBVIOUS
    <3> DEFINE rest == g[(s \ {x}) \ {c}]
    <3>5. f[c] \in Int /\ f[x] \in Int /\ rest \in Int
      BY <2>1, <3>4 DEF AddsUp
    <3>6. g[s] = f[c] + (f[x] + rest) /\ g[s \ {x}] = f[c] + rest
      BY <2>2, <3>2, <3>3, <3>4
    <3> HIDE DEF rest
    <3> QED BY <3>5, <3>6
  <2> QED BY <2>3, <2>4
<1> HIDE DEF S
<1>3. \A n \in Nat : n \in S
  BY <1>1, <1>2, NatSetInduction
<1>4. \A s \in SUBSET B : Cardinality(s) \in Nat
  BY FS_Subset, FS_CardinalityType
<1> QED
  BY <1>3, <1>4 DEF S

\* Elements that count nothing can be left out.
LEMMA ZerosDrop ==
    ASSUME NEW B, IsFiniteSet(B), NEW f \in [B -> Int], NEW g, AddsUp(g, f, B),
           NEW L \in SUBSET B, \A x \in B \ L : f[x] = 0
    PROVE  g[L] = g[B]
<1> DEFINE S == {n \in Nat : \A s \in SUBSET B : L \subseteq s /\ Cardinality(s) = n =>
                                 g[s] = g[L]}
<1>1. 0 \in S
  <2> SUFFICES ASSUME NEW s \in SUBSET B, L \subseteq s, Cardinality(s) = 0
               PROVE  g[s] = g[L]
    OBVIOUS
  <2>1. \A x \in s : Cardinality(s) \in Nat \ {0}
    BY OneLess
  <2>2. s = L
    BY <2>1
  <2> QED BY <2>2
<1>2. ASSUME NEW n \in Nat, n \in S
      PROVE  n + 1 \in S
  <2> SUFFICES ASSUME NEW s \in SUBSET B, L \subseteq s, Cardinality(s) = n + 1
               PROVE  g[s] = g[L]
    OBVIOUS
  <2>1. CASE s = L
    BY <2>1
  <2>2. CASE s # L
    <3>1. PICK x \in s : x \notin L
      BY <2>2
    <3>2. s \ {x} \in SUBSET B /\ L \subseteq s \ {x} /\ Cardinality(s \ {x}) = n
      BY <3>1, OneLess
    <3>3. g[s \ {x}] = g[L] /\ g[L] \in Int
      BY <1>2, <3>2 DEF AddsUp
    <3>4. g[s] = f[x] + g[s \ {x}] /\ f[x] = 0
      BY <3>1, AnyOrder
    <3> QED BY <3>3, <3>4
  <2> QED BY <2>1, <2>2
<1> HIDE DEF S
<1>3. Cardinality(B) \in Nat
  BY FS_CardinalityType
<1>4. Cardinality(B) \in S
  BY <1>1, <1>2, <1>3, NatSetInduction
<1> QED
  BY <1>4 DEF S

\* Sums of the same values are the same, whatever else the larger set holds.
LEMMA SameSum ==
    ASSUME NEW B, IsFiniteSet(B), NEW f \in [B -> Int], NEW g, AddsUp(g, f, B),
           NEW L \in SUBSET B, NEW e \in [L -> Int], NEW h, AddsUp(h, e, L),
           \A x \in L : e[x] = f[x]
    PROVE  h[L] = g[L]
<1> DEFINE S == {n \in Nat : \A s \in SUBSET L : Cardinality(s) = n => h[s] = g[s]}
<1>0. IsFiniteSet(L)
  BY FS_Subset
<1>1. 0 \in S
  <2> SUFFICES ASSUME NEW s \in SUBSET L, Cardinality(s) = 0
               PROVE  h[s] = g[s]
    OBVIOUS
  <2>1. \A x \in s : Cardinality(s) \in Nat \ {0}
    BY <1>0, OneLess
  <2>2. s = {}
    BY <2>1
  <2> QED BY <2>2 DEF AddsUp
<1>2. ASSUME NEW n \in Nat, n \in S
      PROVE  n + 1 \in S
  <2> SUFFICES ASSUME NEW s \in SUBSET L, Cardinality(s) = n + 1
               PROVE  h[s] = g[s]
    OBVIOUS
  <2>1. s # {}
    <3>1. Cardinality({}) = 0
      BY FS_EmptySet
    <3> QED BY <3>1
  <2> DEFINE c == Pick(s)
  <2>2. c \in s
    BY <2>1, PickIn
  <2>3. s \in SUBSET B
    OBVIOUS
  <2>4. h[s] = e[c] + h[s \ {c}] /\ g[s] = f[c] + g[s \ {c}]
    BY <2>1, <2>3 DEF AddsUp
  <2> HIDE DEF c
  <2>5. s \ {c} \in SUBSET L /\ Cardinality(s \ {c}) = n
    BY <1>0, <2>2, OneLess
  <2>6. h[s \ {c}] = g[s \ {c}] /\ e[c] = f[c]
    BY <1>2, <2>2, <2>5
  <2> QED BY <2>4, <2>6
<1> HIDE DEF S
<1>3. Cardinality(L) \in Nat
  BY <1>0, FS_CardinalityType
<1>4. Cardinality(L) \in S
  BY <1>1, <1>2, <1>3, NatSetInduction
<1> QED
  BY <1>4 DEF S

-----------------------------------------------------------------------------
(* The Funding tab agrees with the wallet.                                 *)

Mined == {i \in Tx : rows[i].known /\ rows[i].at > 0}
MinedLedger == {i \in Ledger : rows[i].at > 0}

\* What a row of the tab adds to the balance: LedgerBalances' value.
RowValue(i) ==
    LET e == FundingTx(i)
    IN  CASE e.direction = "Received" -> e.amount
          [] e.direction = "Sent"     -> -(e.amount + e.fee)
          [] OTHER                    -> -e.amount

LEMMA BalanceAddsUp ==
    ASSUME IsFiniteSet(Mined), NEW f \in [Mined -> Int], \A i \in Mined : f[i] = balance_delta(i)
    PROVE  \E g : AddsUp(g, f, Mined) /\ balance = g[Mined]
<1> DEFINE Body(g) == [s \in SUBSET Mined |-> IF s = {} THEN 0
                           ELSE balance_delta(Pick(s)) + g[s \ {Pick(s)}]]
           it == CHOOSE g : g = Body(g)
<1> HIDE DEF Mined, balance_delta
<1>1. PICK g : AddsUp(g, f, Mined)
  BY SumExists
<1>2. g = Body(g)
  <2>1. \A s \in SUBSET Mined : s # {} => f[Pick(s)] = balance_delta(Pick(s))
    BY PickIn
  <2> QED BY <1>1, <2>1 DEF AddsUp
<1>3. it = Body(it)
  <2> HIDE DEF Body
  <2> QED BY <1>2
<1>4. balance = it[Mined]
  BY DEF balance, MapThenSumSet, MapThenFoldSet, Mined, Pick
<1> HIDE DEF it
<1>5. /\ it[{}] = 0
      /\ \A s \in SUBSET Mined : s # {} => it[s] = f[Pick(s)] + it[s \ {Pick(s)}]
  BY <1>3, PickIn
<1>6. it[Mined] = g[Mined]
  BY <1>1, <1>5, SumUnique
<1> QED
  BY <1>1, <1>4, <1>6

LEMMA LedgerAddsUp ==
    ASSUME IsFiniteSet(MinedLedger), NEW f \in [MinedLedger -> Int],
           \A i \in MinedLedger : f[i] = RowValue(i)
    PROVE  \E g : AddsUp(g, f, MinedLedger) /\ (LedgerBalances <=> g[MinedLedger] = balance)
<1> DEFINE Body(g) == [s \in SUBSET MinedLedger |-> IF s = {} THEN 0
                           ELSE RowValue(Pick(s)) + g[s \ {Pick(s)}]]
           it == CHOOSE g : g = Body(g)
<1> HIDE DEF MinedLedger, RowValue
<1>1. PICK g : AddsUp(g, f, MinedLedger)
  BY SumExists
<1>2. g = Body(g)
  <2>1. \A s \in SUBSET MinedLedger : s # {} => f[Pick(s)] = RowValue(Pick(s))
    BY PickIn
  <2> QED BY <1>1, <2>1 DEF AddsUp
<1>3. it = Body(it)
  <2> HIDE DEF Body
  <2> QED BY <1>2
<1>4. LedgerBalances <=> it[MinedLedger] = balance
  BY DEF LedgerBalances, MapThenSumSet, MapThenFoldSet, MinedLedger, RowValue, Pick
<1> HIDE DEF it
<1>5. /\ it[{}] = 0
      /\ \A s \in SUBSET MinedLedger : s # {} => it[s] = f[Pick(s)] + it[s \ {Pick(s)}]
  BY <1>3, PickIn
<1>6. it[MinedLedger] = g[MinedLedger]
  BY <1>1, <1>5, SumUnique
<1> QED
  BY <1>1, <1>4, <1>6

\* load_funding's classification of a transaction, and what its row amounts to: the
\* value transferred, or the fee of an operation that transfers none.
LEMMA RowsByKind ==
    ASSUME Tables, NEW i \in Tx
    PROVE  /\ balance_delta(i) \in Int /\ fee_paid(i) \in {0, Fee} /\ Fee \in Nat \ {0}
           /\ (fee_paid(i) = Fee <=> Seen(i))
           /\ txs[i].kind \in {"deposit", "tip"} =>
                 balance_delta(i) > 0 /\ direction(i) = "Received"
           /\ txs[i].kind \in {"foreign", "init"} =>
                 balance_delta(i) = 0 /\ direction(i) = "dropped"
           /\ txs[i].kind \in OwnKinds =>
                 /\ balance_delta(i) < 0
                 /\ direction(i) \in {"Sent", "SelfTransfer", "ZkvOperation"}
                 /\ direction(i) = "Sent" \/ signed(i) = 0

<1> DEFINE k == txs[i].kind
           a == txs[i].amount
<1>1. /\ k \in Kinds /\ a \in Nat /\ (a = 0 <=> k \in {"write", "foreign", "init"})
      /\ rows[i].built \in BOOLEAN /\ rows[i].enhanced \in BOOLEAN
  BY TableEntries
<1>2. Fee \in Nat \ {0}
  BY DashboardAssumption
<1>3. fee_paid(i) \in {0, Fee} /\ (fee_paid(i) = Fee <=> Seen(i))
  BY <1>2 DEF fee_paid
<1>4. /\ k \in {"deposit", "tip", "foreign", "init"} => balance_delta(i) = a
      /\ k = "send" => balance_delta(i) = -(a + Fee)
      /\ k \in {"write", "self"} => balance_delta(i) = -Fee
  BY DEF balance_delta
<1>5. /\ k \in {"self", "deposit", "tip"} => self_value(i) = a
      /\ k \in {"write", "foreign", "init", "send"} => self_value(i) = 0
  BY DEF self_value
<1> DEFINE b == balance_delta(i)
           f == fee_paid(i)
           d == direction(i)
           v == self_value(i)
           z == signed(i)
<1>6. z = IF b < 0 THEN b + f ELSE b
  BY DEF signed
<1>7. d = CASE z > 0                                                  -> "Received"
            [] z < 0                                                  -> "Sent"
            [] z = 0 /\ v > 0                                         -> "SelfTransfer"
            [] z = 0 /\ v = 0 /\ k \in ZkvKinds /\ Seen(i) /\ b < 0   -> "ZkvOperation"
            [] OTHER                                                  -> "dropped"
  BY DEF direction
<1>8. /\ b \in Int
      /\ k \in {"deposit", "tip"} => b > 0 /\ z > 0
      /\ k \in {"foreign", "init"} => b = 0 /\ z = 0 /\ v = 0
      /\ k = "send" => b < 0 /\ z < 0
      /\ k \in {"write", "self"} => b < 0 /\ (IF Seen(i) THEN z = 0 ELSE z < 0)
      /\ k = "self" => v > 0
      /\ k = "write" => v = 0
  <2> HIDE DEF k, a, b, f, d, v, z
  <2>1. b \in Int
    BY <1>1, <1>2, <1>4 DEF b, Kinds
  <2>2. f = 0 \/ f = Fee
    BY <1>3 DEF f
  <2>3. k \in {"deposit", "tip"} => b > 0 /\ z > 0
    BY <1>1, <1>4, <1>6 DEF b
  <2>4. k \in {"foreign", "init"} => b = 0 /\ z = 0 /\ v = 0
    BY <1>1, <1>4, <1>5, <1>6 DEF b, v
  <2>5. k = "send" => b < 0 /\ z < 0
    BY <1>1, <1>2, <1>4, <1>6, <2>2 DEF b
  <2>6. k \in {"write", "self"} => b < 0 /\ (IF Seen(i) THEN z = 0 ELSE z < 0)
    BY <1>2, <1>3, <1>4, <1>6 DEF b, f
  <2>7. (k = "self" => v > 0) /\ (k = "write" => v = 0)
    BY <1>1, <1>5 DEF v
  <2> QED
    BY <2>1, <2>3, <2>4, <2>5, <2>6, <2>7
<1>9. z \in Int
  <2> HIDE DEF b, f, z
  <2> QED BY <1>2, <1>3, <1>6, <1>8 DEF f
<1> HIDE DEF b, f, d, v, z, k
<1>10. k \in {"deposit", "tip"} => d = "Received"
  BY <1>7, <1>8, <1>9
<1>11. k \in {"foreign", "init"} => d = "dropped"
  BY <1>7, <1>8, <1>9
<1>12. k = "send" => d = "Sent"
  BY <1>7, <1>8, <1>9
<1>13. k \in {"write", "self"} => d \in {"Sent", "SelfTransfer", "ZkvOperation"} /\ (d = "Sent" \/ z = 0)
  BY <1>7, <1>8, <1>9 DEF ZkvKinds
<1> QED
  BY <1>2, <1>3, <1>8, <1>10, <1>11, <1>12, <1>13 DEF b, f, d, z, k, OwnKinds

\* The row of a listed transaction is worth what the transaction did to the balance.
LEMMA RowIsWorthDelta ==
    ASSUME Tables, NEW i \in Tx, direction(i) # "dropped"
    PROVE  RowValue(i) = balance_delta(i)
<1> DEFINE b == balance_delta(i)
           f == fee_paid(i)
           d == direction(i)
           z == signed(i)
<1>1. z = IF b < 0 THEN b + f ELSE b
  BY DEF signed
<1>2. RowValue(i) =
         CASE d = "Received" -> (CASE d = "Received" -> z [] d = "Sent" -> -z [] OTHER -> f)
           [] d = "Sent"     -> -((CASE d = "Received" -> z [] d = "Sent" -> -z [] OTHER -> f)
                                  + (IF b < 0 THEN f ELSE 0))
           [] OTHER          -> -(CASE d = "Received" -> z [] d = "Sent" -> -z [] OTHER -> f)
  <2> HIDE DEF b, f, d, z, balance_delta, fee_paid, direction, signed
  <2> QED BY DEF RowValue, FundingTx, b, f, d, z
<1>3. txs[i].kind \in Kinds
  BY TableEntries
<1>4. /\ b \in Int /\ f \in Int
      /\ txs[i].kind \in {"deposit", "tip"} => b > 0 /\ d = "Received"
      /\ txs[i].kind \notin {"foreign", "init"}
      /\ txs[i].kind \in OwnKinds => /\ b < 0 /\ d \in {"Sent", "SelfTransfer", "ZkvOperation"}
                                     /\ d = "Sent" \/ z = 0
  BY RowsByKind
<1> HIDE DEF b, f, d, z
<1>5. CASE txs[i].kind \in {"deposit", "tip"}
  BY <1>1, <1>2, <1>4, <1>5 DEF b
<1>6. CASE txs[i].kind \in OwnKinds /\ d = "Sent"
  <2>1. RowValue(i) = -(-z + f) /\ z = b + f
    BY <1>1, <1>2, <1>4, <1>6
  <2> QED BY <1>4, <2>1 DEF b
<1>7. CASE txs[i].kind \in OwnKinds /\ d # "Sent"
  <2>1. RowValue(i) = -f /\ b + f = 0
    BY <1>1, <1>2, <1>4, <1>7
  <2> QED BY <1>4, <2>1 DEF b
<1> QED
  BY <1>3, <1>4, <1>5, <1>6, <1>7 DEF Kinds, OwnKinds

LEMMA LedgerIsBalanced ==
    ASSUME Tables
    PROVE  LedgerBalances
<1>1. IsFiniteSet(Mined) /\ MinedLedger \subseteq Mined /\ Mined \subseteq Tx
  <2>1. IsFiniteSet(Tx)
    BY FS_Interval DEF Tables, Tx
  <2>2. Mined \subseteq Tx /\ MinedLedger \subseteq Mined
    BY DEF Mined, MinedLedger, Ledger, Live
  <2> QED BY <2>1, <2>2, FS_Subset
<1>2. IsFiniteSet(MinedLedger)
  BY <1>1, FS_Subset
<1> DEFINE f == [i \in Mined |-> balance_delta(i)]
           e == [i \in MinedLedger |-> RowValue(i)]
<1>3. \A i \in Mined : balance_delta(i) \in Int
  BY <1>1, RowsByKind
<1>4. \A i \in MinedLedger : RowValue(i) = balance_delta(i)
  BY <1>1, RowIsWorthDelta DEF MinedLedger, Ledger
<1>5. ASSUME NEW i \in Mined \ MinedLedger
      PROVE  balance_delta(i) = 0
  <2>1. direction(i) = "dropped" /\ i \in Tx
    BY <1>5 DEF Mined, MinedLedger, Ledger, Live
  <2>2. txs[i].kind \in Kinds
    BY <2>1, TableEntries
  <2> QED BY <2>1, <2>2, RowsByKind DEF Kinds, OwnKinds
<1> HIDE DEF Mined, MinedLedger, RowValue, balance_delta
<1>6. f \in [Mined -> Int] /\ \A i \in Mined : f[i] = balance_delta(i)
  BY <1>3
<1>7. e \in [MinedLedger -> Int] /\ \A i \in MinedLedger : e[i] = RowValue(i)
  BY <1>1, <1>3, <1>4
<1>8. /\ \A i \in MinedLedger : e[i] = f[i]
      /\ \A i \in Mined \ MinedLedger : f[i] = 0
  BY <1>1, <1>4, <1>5
<1> HIDE DEF f, e
<1>9. PICK g : AddsUp(g, f, Mined) /\ balance = g[Mined]
  BY <1>1, <1>6, BalanceAddsUp
<1>10. PICK h : AddsUp(h, e, MinedLedger) /\ (LedgerBalances <=> h[MinedLedger] = balance)
  BY <1>2, <1>7, LedgerAddsUp
<1>11. h[MinedLedger] = g[MinedLedger]
  BY <1>1, <1>6, <1>7, <1>8, <1>9, <1>10, SameSum
<1>12. g[MinedLedger] = g[Mined]
  BY <1>1, <1>6, <1>8, <1>9, ZerosDrop
<1> QED
  BY <1>9, <1>10, <1>11, <1>12

\* Whatever is confirming in the wallet is listed, and not as confirmed: the tab's
\* threshold for a row is the wallet's for the outputs behind it.
LEMMA TabListsConfirming ==
    ASSUME Tables, Behind
    PROVE  ConfirmingIsListed
<1> SUFFICES ASSUME NEW i \in Tx, Confirming(i)
             PROVE  i \in Ledger /\ ~FundingTx(i).confirmed
  BY DEF ConfirmingIsListed
<1>1. txs[i].kind \in Kinds /\ (txs[i].amount = 0 <=> txs[i].kind \in {"write", "foreign", "init"})
      /\ rows[i].at \in Nat /\ txs[i].amount \in Nat
  BY TableEntries
<1>2. Live(i)
  BY DEF Confirming, Live
<1>3. Depth(i) \in Int /\ TRUSTED_CONFIRMATIONS \in Nat /\ UNTRUSTED_CONFIRMATIONS \in Int
  <2>1. Depth(i) \in Int
    BY <1>1 DEF Behind, Depth
  <2>2. TRUSTED_CONFIRMATIONS \in Nat /\ MaxHeight \in Nat
        /\ UNTRUSTED_CONFIRMATIONS \in TRUSTED_CONFIRMATIONS..MaxHeight
    BY DashboardAssumption
  <2> QED BY <2>1, <2>2
<1>4. Depth(i) < IF Own(i) THEN TRUSTED_CONFIRMATIONS ELSE UNTRUSTED_CONFIRMATIONS
  BY DEF Confirming
<1> HIDE DEF Depth
<1>0. FundingTx(i).confirmed = (rows[i].at > 0 /\ Depth(i) >= required(i))
  BY DEF FundingTx
<1>5. CASE Own(i)
  <2>1. direction(i) \in {"Sent", "SelfTransfer", "ZkvOperation"}
    BY <1>5, RowsByKind DEF Own
  <2>2. required(i) = TRUSTED_CONFIRMATIONS
    BY <2>1 DEF required
  <2>3. ~(Depth(i) >= required(i))
    BY <1>3, <1>4, <1>5, <2>2
  <2>4. i \in Ledger
    BY <1>2, <2>1 DEF Ledger
  <2> QED BY <1>0, <2>3, <2>4, Zenon
<1>6. CASE ~Own(i)
  <2>1. txs[i].kind \in {"deposit", "tip"}
    BY <1>1, <1>6 DEF Confirming, Own, OwnKinds, Kinds
  <2>2. direction(i) = "Received"
    BY <2>1, RowsByKind
  <2>3. required(i) = UNTRUSTED_CONFIRMATIONS
    BY <2>2 DEF required
  <2>4. ~(Depth(i) >= required(i))
    BY <1>3, <1>4, <1>6, <2>3
  <2>5. i \in Ledger
    BY <1>2, <2>2 DEF Ledger
  <2> QED BY <1>0, <2>4, <2>5, Zenon
<1> QED
  BY <1>5, <1>6

\* The Funding tab accounts for the wallet's balance to the zatoshi and lists what is
\* still confirming, for any number of transactions of every kind, whether built here,
\* restored or paid in, enhanced or not, through reorganisations and removals.
THEOREM FundingAgrees == Spec => []FundingTabAgrees
<1>1. WalletInvariant => FundingTabAgrees
  <2> SUFFICES ASSUME WalletInvariant PROVE FundingTabAgrees
    OBVIOUS
  <2>1. Tables /\ Recorded /\ Behind /\ Summaries /\ strikes \in 0..SYNC_ERROR_THRESHOLD
    BY DEF WalletInvariant
  <2>2. LedgerBalances /\ ConfirmingIsListed
    BY <2>1, LedgerIsBalanced, TabListsConfirming
  <2>3. TypeOK
    BY <2>1 DEF TypeOK, Tables, Recorded, StoredWrite, Recordable, Behind, Summaries, CountsRight
  <2> QED
    BY <2>2, <2>3 DEF FundingTabAgrees
<1> QED
  BY <1>1, WalletInit, WalletNext, PTL DEF Spec

=============================================================================
