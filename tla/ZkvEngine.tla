------------------------------ MODULE ZkvEngine ------------------------------
(***************************************************************************)
(* The shared wallet engine of one network and the GUI loop that drives    *)
(* it.  Every member database of the shared scan is synced through one     *)
(* process-wide Engine (the registry of engine/fleet.rs), which starts a   *)
(* node lazily under an async mutex (the slot) and keeps it: the node owns *)
(* the datadir lock, which other zkv processes compete for.                *)
(*                                                                         *)
(* The auto-sync loop spawns one worker per unpaused member; pausing stops *)
(* the workers through a cancel flag and spawns shutdown_all.  At most one *)
(* node can be alive, because it holds the lock: it is alive as long as    *)
(* anybody has a handle to it (slot, workers, or a shutdown in progress).  *)
(***************************************************************************)
EXTENDS Naturals, FiniteSets

CONSTANTS
    Members,        \* the databases of the shared scan
    Engines,        \* identities for the Engine values the registry builds
    Nobody,         \* no engine, no holder
    SyncWorkers,    \* sync_workers: databases synced at a time
    CliStops,       \* does the other process ever let go of the lock?
    GlobalSwitch,   \* is the "pause all" switch used?
    MaxPauses       \* bound: pause calls

ASSUME NobodyAssumption  == Nobody \notin Members \cup Engines
ASSUME MembersAssumption == IsFiniteSet(Members)
ASSUME WorkersAssumption == SyncWorkers \in Nat \ {0} /\ MaxPauses \in Nat
ASSUME SwitchesAssumption == CliStops \in BOOLEAN /\ GlobalSwitch \in BOOLEAN

VARIABLES
    \* the GUI
    loop,       \* run_auto_sync: "top", "listing", "listed", "running"
    todo,       \* the members this cycle syncs
    paused,     \* members paused one by one
    paused_all, \* the global switch
    cancel,     \* sync_cancel
    setter,     \* the pause call between its two stores: "none", "one", "all"
    pauses,     \* history: number of pause calls
    \* the engine
    worker,     \* per member: [pc, goal, eng, retried]
    permits,    \* free permits of the cycle's semaphore
    registry,   \* the engine in the fleet registry
    mutex,      \* per engine: who holds its slot mutex while starting a node
    slot,       \* the engine whose slot holds the node
    holders,    \* workers with a handle to the node
    triggered,  \* has the node been told to stop while handles remain?
    draining,   \* is a shutdown waiting for the node's actors?
    stops,      \* shutdown_all tasks spawned and not begun
    stopping,   \* engines a shutdown_all has drained and not yet shut down
    \* the node and the world
    enrolled,   \* members whose manifest is on disk
    served,     \* members the node serves
    imported,   \* members whose account is in a shard
    fresh,      \* members near enough the tip that a sync skips
    cli         \* does another process hold the datadir lock?

gui    == <<loop, todo, paused, paused_all, cancel, setter, pauses>>
node   == <<slot, holders, triggered, draining>>
stop   == <<stops, stopping>>
world  == <<enrolled, served, imported, fresh, cli>>
engineVars == <<gui, worker, permits, registry, mutex, node, stop, world>>

IdleWorker == [pc |-> "idle", goal |-> "sync", eng |-> Nobody, retried |-> FALSE]

\* Past the last pause check of its task.
Committed(m) == worker[m].pc \notin {"idle", "queued"}

NodeAlive == slot # Nobody \/ holders # {} \/ draining

\* DatadirLocked: the node start is refused.
Locked == cli \/ NodeAlive

AllPaused == paused_all \/ Members \subseteq paused

EngineInit ==
    /\ loop = "top" /\ todo = {} /\ paused = {} /\ paused_all = FALSE /\ cancel = FALSE
    /\ setter = "none" /\ pauses = 0
    /\ worker = [m \in Members |-> IdleWorker] /\ permits = 0
    /\ registry = Nobody /\ mutex = [e \in Engines |-> Nobody]
    /\ slot = Nobody /\ holders = {} /\ triggered = FALSE /\ draining = FALSE
    /\ stops = 0 /\ stopping = {}
    /\ enrolled \in {Members \ {m} : m \in Members}
    /\ served = {} /\ imported = {} /\ fresh = {} /\ cli = FALSE

-----------------------------------------------------------------------------
(* run_auto_sync.                                                          *)

\* The global switch is read before the databases are listed.
CycleTop ==
    /\ loop = "top" /\ ~paused_all
    /\ loop' = "listing"
    /\ UNCHANGED <<todo, paused, paused_all, cancel, setter, pauses,
                   worker, permits, registry, mutex, node, stop, world>>

CycleFilter ==
    /\ loop = "listing"
    /\ todo' = enrolled \ paused
    /\ loop' = "listed"
    /\ UNCHANGED <<paused, paused_all, cancel, setter, pauses,
                   worker, permits, registry, mutex, node, stop, world>>

\* Mutant: the cancel token is not renewed.
CycleSpawn_stale_token ==
    /\ loop = "listed"
    /\ worker' = [m \in Members |-> IF m \in todo THEN [IdleWorker EXCEPT !.pc = "queued"]
                                    ELSE IdleWorker]
    /\ permits' = SyncWorkers
    /\ loop' = "running"
    /\ UNCHANGED <<todo, paused, paused_all, cancel, setter, pauses,
                   registry, mutex, node, stop, world>>

\* A fresh cancel token and a new semaphore, then one task per database.
CycleSpawn ==
    /\ loop = "listed"
    /\ cancel' = FALSE
    /\ worker' = [m \in Members |-> IF m \in todo THEN [IdleWorker EXCEPT !.pc = "queued"]
                                    ELSE IdleWorker]
    /\ permits' = SyncWorkers
    /\ loop' = "running"
    /\ UNCHANGED <<todo, paused, paused_all, setter, pauses, registry, mutex, node, stop, world>>

\* The loop joins every worker before it sleeps.
CycleEnd ==
    /\ loop = "running"
    /\ \A m \in Members : worker[m].pc = "idle"
    /\ loop' = "top"
    /\ UNCHANGED <<todo, paused, paused_all, cancel, setter, pauses,
                   worker, permits, registry, mutex, node, stop, world>>

\* Mutant: a pause since the cycle began is not noticed.
WorkerStart_no_recheck(m) ==
    /\ worker[m].pc = "queued" /\ permits > 0
    /\ worker' = [worker EXCEPT ![m].pc = IF paused_all \/ cancel THEN "idle" ELSE "ready"]
    /\ permits' = IF paused_all \/ cancel THEN permits ELSE permits - 1
    /\ UNCHANGED <<gui, registry, mutex, node, stop, world>>

\* A worker gets its permit and re-reads the switches before it starts; one that does
\* not start gives the permit back.
WorkerStart(m) ==
    /\ worker[m].pc = "queued" /\ permits > 0
    /\ worker' = [worker EXCEPT ![m].pc =
           IF paused_all \/ cancel \/ m \in paused THEN "idle" ELSE "ready"]
    /\ permits' = IF paused_all \/ cancel \/ m \in paused THEN permits ELSE permits - 1
    /\ UNCHANGED <<gui, registry, mutex, node, stop, world>>

-----------------------------------------------------------------------------
(* set_pause and set_pause_all: the switch first, then the cancel flag;    *)
(* pausing one database also spawns shutdown_all.                          *)

SetPause(m) ==
    /\ setter = "none" /\ pauses < MaxPauses
    /\ m \notin paused
    /\ paused' = paused \cup {m}
    /\ setter' = "one" /\ pauses' = pauses + 1
    /\ UNCHANGED <<loop, todo, paused_all, cancel,
                   worker, permits, registry, mutex, node, stop, world>>

SetPauseAll ==
    /\ GlobalSwitch
    /\ setter = "none" /\ pauses < MaxPauses
    /\ ~paused_all
    /\ paused_all' = TRUE
    /\ setter' = "all" /\ pauses' = pauses + 1
    /\ UNCHANGED <<loop, todo, paused, cancel, worker, permits, registry, mutex, node, stop, world>>

StoreCancel ==
    /\ setter # "none"
    /\ setter' = "none"
    /\ cancel' = TRUE
    /\ stops' = IF setter = "one" THEN stops + 1 ELSE stops
    /\ UNCHANGED <<loop, todo, paused, paused_all, pauses,
                   worker, permits, registry, mutex, node, stopping, world>>

Resume(m) ==
    /\ setter = "none"
    /\ m \in paused
    /\ paused' = paused \ {m}
    /\ UNCHANGED <<loop, todo, paused_all, cancel, setter, pauses,
                   worker, permits, registry, mutex, node, stop, world>>

ResumeAll ==
    /\ setter = "none"
    /\ paused_all
    /\ paused_all' = FALSE
    /\ UNCHANGED <<loop, todo, paused, cancel, setter, pauses,
                   worker, permits, registry, mutex, node, stop, world>>

-----------------------------------------------------------------------------
(* A worker's sync: engine_for, read_sync, sync_wallet.                    *)

UsedBy(e, except) == \E n \in Members \ {except} : worker[n].eng = e

\* The worker ends: it drops its permit, its node handle and its engine, and with the
\* last reference to an engine goes the handle in that engine's slot.
Finish(m) ==
    LET e == worker[m].eng
    IN  /\ worker' = [worker EXCEPT ![m] = IdleWorker]
        /\ permits' = permits + 1
        /\ holders' = holders \ {m}
        /\ slot' = IF slot = e /\ registry # e /\ e \notin stopping /\ ~UsedBy(e, m)
                   THEN Nobody ELSE slot

\* Engine::fleet: a handle of its own, with no node yet.
fleet(e) == ~UsedBy(e, Nobody) /\ e \notin stopping /\ slot # e

\* shared: the registry's engine, built if there is none.
shared(m, e) == IF registry # Nobody THEN e = registry ELSE fleet(e)

\* Open the engine; a wallet near the tip then needs no node (read_sync_skippable).
OpenEngine(m) ==
    /\ worker[m].pc = "ready"
    /\ \E e \in Engines :
           /\ shared(m, e)
           /\ registry' = e
           /\ worker' = [worker EXCEPT ![m] = IF m \in fresh THEN IdleWorker
                                              ELSE [@ EXCEPT !.pc = "node", !.eng = e]]
    /\ permits' = IF m \in fresh THEN permits + 1 ELSE permits
    /\ UNCHANGED <<gui, mutex, node, stop, world>>

Goto(m, pc, goal) ==
    worker' = [worker EXCEPT ![m].pc = pc, ![m].goal = goal] /\ UNCHANGED permits

\* Engine::node with a node in the slot.
GetNode(m) ==
    /\ worker[m].pc = "node"
    /\ mutex[worker[m].eng] = Nobody
    /\ slot = worker[m].eng
    /\ holders' = holders \cup {m}
    /\ Goto(m, worker[m].goal, worker[m].goal)
    /\ UNCHANGED <<gui, registry, mutex, slot, triggered, draining, stop, world>>

\* Engine::node with an empty slot: start one, holding the slot's mutex.
BeginStart(m) ==
    /\ worker[m].pc = "node"
    /\ mutex[worker[m].eng] = Nobody
    /\ slot # worker[m].eng
    /\ mutex' = [mutex EXCEPT ![worker[m].eng] = m]
    /\ Goto(m, "starting", worker[m].goal)
    /\ UNCHANGED <<gui, registry, node, stop, world>>

\* start_node: the datadir lock is free; the node reads the manifests.
StartOk(m) ==
    /\ worker[m].pc = "starting"
    /\ ~Locked
    /\ slot' = worker[m].eng
    /\ holders' = {m}
    /\ triggered' = FALSE
    /\ served' = enrolled
    /\ mutex' = [mutex EXCEPT ![worker[m].eng] = Nobody]
    /\ Goto(m, worker[m].goal, worker[m].goal)
    /\ UNCHANGED <<gui, registry, draining, stop, enrolled, imported, fresh, cli>>

\* Mutant: no deadline.
StartBusy_no_deadline(m) == FALSE /\ UNCHANGED engineVars

\* start_node retries until its deadline, then reports Busy.
StartBusy(m) ==
    /\ worker[m].pc = "starting"
    /\ Locked
    /\ mutex' = [mutex EXCEPT ![worker[m].eng] = Nobody]
    /\ Finish(m)
    /\ UNCHANGED <<gui, registry, triggered, draining, stop, world>>

\* The sync loop sees the cancel flag.
Cancelled(m) ==
    /\ worker[m].pc = "sync"
    /\ cancel
    /\ Finish(m)
    /\ UNCHANGED <<gui, registry, mutex, triggered, draining, stop, world>>

\* A node that is stopping, that says the member is placed but not imported, or
\* that does not know it after all, is an error.
SyncError(m) ==
    /\ worker[m].pc \in {"sync", "load"}
    /\ \/ triggered
       \/ /\ worker[m].pc = "sync" /\ m \notin imported
          /\ m \notin served => worker[m].retried
    /\ Finish(m)
    /\ UNCHANGED <<gui, registry, mutex, triggered, draining, stop, world>>

\* UNKNOWN_WALLET: drop the node, load the member and try once more.
UnknownWallet(m) ==
    /\ worker[m].pc = "sync"
    /\ ~triggered /\ m \notin served /\ ~worker[m].retried
    /\ holders' = holders \ {m}
    /\ worker' = [worker EXCEPT ![m].pc = "node", ![m].goal = "load", ![m].retried = TRUE]
    /\ UNCHANGED <<gui, permits, registry, mutex, slot, triggered, draining, stop, world>>

LoadMember(m) ==
    /\ worker[m].pc = "load"
    /\ ~triggered
    /\ served' = served \cup {m}
    /\ holders' = holders \ {m}
    /\ Goto(m, "node", "sync")
    /\ UNCHANGED <<gui, registry, mutex, slot, triggered, draining, stop,
                   enrolled, imported, fresh, cli>>

\* Synced: the worker keeps its handle and asks for the node again to cross-check
\* the member's placement.
Synced(m) ==
    /\ worker[m].pc = "sync"
    /\ ~triggered
    /\ m \in served \cap imported
    /\ fresh' = fresh \cup {m}
    /\ Goto(m, "node", "check")
    /\ UNCHANGED <<gui, registry, mutex, node, stop, enrolled, served, imported, cli>>

CrossCheck(m) ==
    /\ worker[m].pc = "check"
    /\ Finish(m)
    /\ UNCHANGED <<gui, registry, mutex, triggered, draining, stop, world>>

-----------------------------------------------------------------------------
(* shutdown_all and Engine::shutdown.                                      *)

\* Drain the registry.
ShutdownAll ==
    /\ stops > 0
    /\ stops' = stops - 1
    /\ registry' = Nobody
    /\ stopping' = stopping \cup ({registry} \ {Nobody})
    /\ UNCHANGED <<gui, worker, permits, mutex, node, world>>

\* Take the node out of the slot: wait for it if this is the only handle, else
\* tell it to stop and leave the rest to whoever holds the others.
Shutdown(e) ==
    /\ e \in stopping
    /\ mutex[e] = Nobody
    /\ stopping' = stopping \ {e}
    /\ slot' = IF slot = e THEN Nobody ELSE slot
    /\ draining' = (draining \/ (slot = e /\ holders = {}))
    /\ triggered' = (triggered \/ (slot = e /\ holders # {}))
    /\ UNCHANGED <<gui, worker, permits, registry, mutex, holders, stops, world>>

Drained ==
    /\ draining
    /\ draining' = FALSE
    /\ UNCHANGED <<gui, worker, permits, registry, mutex, slot, holders, triggered, stop, world>>

-----------------------------------------------------------------------------
(* The node, other processes and the chain.                                *)

Import(m) ==
    /\ slot # Nobody
    /\ m \in served \ imported
    /\ imported' = imported \cup {m}
    /\ UNCHANGED <<gui, worker, permits, registry, mutex, node, stop, enrolled, served, fresh, cli>>

\* A database is watched from a terminal: its manifest appears.
Enrol(m) ==
    /\ m \notin enrolled
    /\ enrolled' = enrolled \cup {m}
    /\ UNCHANGED <<gui, worker, permits, registry, mutex, node, stop, served, imported, fresh, cli>>

NewBlocks ==
    /\ fresh # {}
    /\ fresh' = {}
    /\ UNCHANGED <<gui, worker, permits, registry, mutex, node, stop,
                   enrolled, served, imported, cli>>

CliLock ==
    /\ ~Locked
    /\ cli' = TRUE
    /\ UNCHANGED <<gui, worker, permits, registry, mutex, node, stop,
                   enrolled, served, imported, fresh>>

CliUnlock ==
    /\ CliStops /\ cli
    /\ cli' = FALSE
    /\ UNCHANGED <<gui, worker, permits, registry, mutex, node, stop,
                   enrolled, served, imported, fresh>>

WorkerStep(m) ==
    \/ WorkerStart(m) \/ OpenEngine(m) \/ GetNode(m) \/ BeginStart(m) \/ StartOk(m)
    \/ StartBusy(m) \/ Cancelled(m) \/ SyncError(m) \/ UnknownWallet(m) \/ LoadMember(m)
    \/ Synced(m) \/ CrossCheck(m)

CycleStep == CycleTop \/ CycleFilter \/ CycleSpawn \/ CycleEnd

StopStep == ShutdownAll \/ Drained \/ \E e \in Engines : Shutdown(e)

EngineNext ==
    \/ CycleStep \/ StopStep
    \/ \E m \in Members : WorkerStep(m) \/ SetPause(m) \/ Resume(m) \/ Import(m) \/ Enrol(m)
    \/ SetPauseAll \/ ResumeAll \/ StoreCancel
    \/ NewBlocks \/ CliLock \/ CliUnlock

EngineSpec == EngineInit /\ [][EngineNext]_engineVars

\* Every task of the process runs, and so does the node; nobody has to press a
\* button and the other process need not let go.
EngineFairness ==
    /\ WF_engineVars(CycleStep)
    /\ WF_engineVars(StopStep)
    /\ WF_engineVars(StoreCancel)
    /\ \A m \in Members : WF_engineVars(WorkerStep(m)) /\ WF_engineVars(Import(m))

FairEngine == EngineSpec /\ EngineFairness

-----------------------------------------------------------------------------
(* Properties.                                                             *)

\* The variables are well formed; whoever starts a node holds the mutex of its
\* engine, and nobody else does.
EngineTypeOK ==
    /\ loop \in {"top", "listing", "listed", "running"}
    /\ registry \in Engines \cup {Nobody} /\ slot \in Engines \cup {Nobody}
    /\ holders \subseteq Members /\ stopping \subseteq Engines
    /\ \A e \in Engines, m \in Members :
           mutex[e] = m <=> worker[m].pc = "starting" /\ worker[m].eng = e

\* A pause is not lost: once a pause call has returned, a worker of a paused
\* member that got past its checks sees the cancel flag, whatever point of the
\* cycle (listing, filtering, renewing the token) the pause fell into.
PausedIsCancelled ==
    setter = "none" =>
        \A m \in Members : (paused_all \/ m \in paused) /\ Committed(m) => cancel

\* Every sync ends: the slot mutex is held by the worker that starts a node and by
\* nobody else (EngineTypeOK), and no worker hangs on the slot mutex, on the datadir lock
\* (which another process may keep for ever) or on a node that was stopped.
WorkersFinish ==
    []EngineTypeOK /\ \A m \in Members : worker[m].pc # "idle" ~> worker[m].pc = "idle"

\* Nobody is pausing, and the other process is gone.
Calm == paused = {} /\ ~paused_all /\ ~cli

\* Syncing resumes: after the last pause has been taken back and the lock is
\* there to be had, every member is brought up to date again and again, whatever
\* the pauses and shutdowns left behind.
SyncResumes ==
    <>[]Calm => \A m \in Members : (<>[](m \in enrolled)) => []<>(m \in fresh)

\* "The node is a process-wide singleton and every member's handle is a clone of
\* the same Arc": the workers and the registry never use two engines.
OneEngine ==
    Cardinality(({worker[m].eng : m \in Members} \cup {registry}) \ {Nobody}) <= 1

\* "Nothing may hold a file lock on that path across a call that starts a node":
\* a worker never waits for a lock that its own node handle keeps.
NoSelfWait == \A m \in Members : worker[m].pc = "starting" => m \notin holders

\* shutdown_all is what "the GUI calls when it exits and when every database is
\* paused": the shared engine is taken away only then.
EngineKept == registry # Nobody /\ registry' = Nobody => AllPaused
StopsOnlyWhenAllPaused == [][EngineKept]_engineVars

\* "Pausing everything means the shared scan should stop too, and stopping it
\* releases its datadir lock so a CLI command can use it."
PausingReleasesLock == []<>(~AllPaused \/ ~NodeAlive)

=============================================================================
