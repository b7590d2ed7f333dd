----------------------------- MODULE ZkvOracle -----------------------------
(***************************************************************************)
(* The two programs that publish into a database by the clock, and what    *)
(* they lean on.                                                           *)
(*                                                                         *)
(* "price" (zkv-oracle) writes two quotes every interval, with bounded     *)
(* retries inside a tick, and answers a health probe that an orchestrator  *)
(* restarts it by.  Its time is counted in units of the retry pause; ages  *)
(* and elapsed times stop counting where nothing can tell them apart.      *)
(*                                                                         *)
(* "version" (zkv-version-oracle) compares the newest release tags with    *)
(* what the database says, its own writes in flight included, and writes   *)
(* only what differs.  Its writes are mined, reordered or expire.          *)
(***************************************************************************)
EXTENDS ZkvProtocol, SequencesExt

CONSTANTS
    TickAttempts, Interval, MaxLag, MaxWriteAge,    \* Config, in retry pauses
    TagInfo,        \* of every tag: its version (0: not semver), pre-release, ignored
    Channels,       \* the channels of the project, in order
    StaleTicks,     \* ticks an entry of pending.toml outlives (STALE_AFTER_SECS)
    MaxSpent,       \* bound: units the calls of one attempt take
    MaxOutages, MaxLost         \* bounds: failures of a service, writes that expire

ASSUME OracleTimeAssumption ==
    /\ TickAttempts \in Nat \ {0} /\ Interval \in Nat \ {0}
    /\ MaxLag \in Nat \ {0} /\ MaxWriteAge \in Nat \ {0} /\ MaxSpent \in Nat
    /\ MaxWriteAge >= Interval + MaxSpent
ASSUME OracleChannelAssumption == Channels \in Seq(Keys) /\ StaleTicks \in Nat \ {0}

VARIABLES
    prog,       \* the program that runs: "price" or "version"
    up,         \* the services: the feed, lightwalletd, funds that can be spent
    outages,    \* failures so far
    pc,         \* where the program is
    attempt, spent, elapsed,    \* the attempt, its time, the time since the tick began
    phase, due,                 \* time since the last scheduled tick, ticks not yet served
    lag,        \* blocks the wallet is behind
    health,     \* Health
    tags, seen, \* the tags in the registry, and as fetched
    todo,       \* channels still to reconcile in this tick
    flight,     \* the writes sent and not settled, in the order of pending.toml
    chaindb,    \* the state the chain holds
    db,         \* the state the wallet had with its last sync
    lost        \* writes that expired

price   == <<attempt, spent, elapsed, phase, due, lag, health>>
version == <<tags, seen, todo, flight, chaindb, db, lost>>
vars    == <<prog, up, outages, pc, price, version>>

-----------------------------------------------------------------------------
(* The price oracle.                                                       *)

Never == -1

NewHealth == [done |-> FALSE, behind |-> 0, age |-> Never]

\* Mutant: the age of the last write does not count.
Healthy_any_age(h) == h.done => h.behind =< MaxLag

\* Health::snapshot: 200 until the first tick is over, then by lag and by the age of the
\* last write, if there was one.
Healthy(h) ==
    h.done => h.behind =< MaxLag /\ (h.age = Never \/ h.age =< MaxWriteAge)

\* The interval's next tick; the first one fires at once.
StartTick ==
    /\ prog = "price" /\ pc = "wait" /\ due > 0
    /\ due' = due - 1
    /\ pc' = "fetch" /\ attempt' = 1 /\ spent' = 0 /\ elapsed' = 0
    /\ UNCHANGED <<prog, up, outages, phase, lag, health, version>>

EndTick ==
    /\ pc' = "wait" /\ attempt' = 1 /\ spent' = 0 /\ elapsed' = 0
    /\ health' = [health EXCEPT !.done = TRUE]

\* backoff_before_retry: another attempt, or the end of the tick.
AfterFailure ==
    IF attempt >= TickAttempts \/ elapsed + 1 >= Interval
    THEN EndTick
    ELSE pc' = "backoff" /\ UNCHANGED <<attempt, spent, elapsed, health>>

FetchPrices ==
    /\ prog = "price" /\ pc = "fetch"
    /\ IF up.feed THEN pc' = "sync" /\ UNCHANGED <<attempt, spent, elapsed, health>>
       ELSE AfterFailure
    /\ UNCHANGED <<prog, up, outages, phase, due, lag, version>>

SyncWallet ==
    /\ prog = "price" /\ pc = "sync"
    /\ IF up.chain
       THEN pc' = "lag" /\ lag' = 0 /\ UNCHANGED <<attempt, spent, elapsed, health>>
       ELSE AfterFailure /\ UNCHANGED lag
    /\ UNCHANGED <<prog, up, outages, phase, due, version>>

\* measure_lag; without a tip the old figure stays.
MeasureLag ==
    /\ prog = "price" /\ pc = "lag"
    /\ pc' = "write"
    /\ health' = IF up.chain THEN [health EXCEPT !.behind = lag] ELSE health
    /\ UNCHANGED <<prog, up, outages, attempt, spent, elapsed, phase, due, lag, version>>

\* Mutant: mark_write_ok is forgotten.
WriteBatch_unmarked ==
    /\ prog = "price" /\ pc = "write"
    /\ IF up.chain /\ up.funds THEN EndTick ELSE AfterFailure
    /\ UNCHANGED <<prog, up, outages, phase, due, lag, version>>

\* set_many_no_sync: both quotes in one transaction.
WriteBatch ==
    /\ prog = "price" /\ pc = "write"
    /\ IF up.chain /\ up.funds
       THEN /\ pc' = "wait" /\ attempt' = 1 /\ spent' = 0 /\ elapsed' = 0
            /\ health' = [health EXCEPT !.done = TRUE, !.age = 0]
       ELSE AfterFailure
    /\ UNCHANGED <<prog, up, outages, phase, due, lag, version>>

\* A unit of time; calls do not take for ever, and a tick that is due starts.
Pass ==
    /\ prog = "price"
    /\ \/ pc = "wait" /\ due = 0
       \/ pc = "backoff"
       \/ pc \in {"fetch", "sync", "lag", "write"} /\ spent < MaxSpent
    /\ phase' = (phase + 1) % Interval
    /\ due' = IF phase' = 0 /\ due < 2 THEN due + 1 ELSE due
    /\ elapsed' = IF pc # "wait" /\ elapsed < Interval THEN elapsed + 1 ELSE elapsed
    /\ spent' = IF pc \in {"wait", "backoff"} THEN 0 ELSE spent + 1
    /\ health' = IF health.age \in 0..MaxWriteAge THEN [health EXCEPT !.age = @ + 1] ELSE health
    /\ IF pc = "backoff" THEN pc' = "fetch" /\ attempt' = attempt + 1
       ELSE UNCHANGED <<pc, attempt>>
    /\ UNCHANGED <<prog, up, outages, lag, version>>

\* A block; fewer than MaxLag of them come while the tip is asked for.
NewBlock ==
    /\ prog = "price"
    /\ lag =< MaxLag /\ (pc = "lag" => lag < MaxLag)
    /\ lag' = lag + 1
    /\ UNCHANGED <<prog, up, outages, pc, attempt, spent, elapsed, phase, due, health, version>>

\* The orchestrator restarts a container whose probe answers 503.
Restart ==
    /\ prog = "price" /\ ~Healthy(health)
    /\ health' = NewHealth
    /\ pc' = "wait" /\ attempt' = 1 /\ spent' = 0 /\ elapsed' = 0 /\ phase' = 0 /\ due' = 1
    /\ UNCHANGED <<prog, up, outages, lag, version>>

-----------------------------------------------------------------------------
(* The version oracle.                                                     *)

\* select: the highest version of a tag that is not ignored, parses and fits the channel.
select(tagset, channel) ==
    LET fit == {TagInfo[t].version : t \in {x \in tagset :
                   /\ ~TagInfo[x].ignored /\ TagInfo[x].version # 0
                   /\ channel = "stable" => ~TagInfo[x].pre}}
    IN  IF fit = {} THEN NoValue ELSE Max(fit)

memo(e) == [op |-> "SET", key |-> e.key, value |-> e.value, seq |-> e.seq, signer |-> Root]

\* The wallet's rows of our writes that it has not seen mined, which replay folds in the
\* order of their txids: those it lists as pending are past every sequence before them.
\* (The window's ceiling is out of reach of the writes in flight.)
Listed(key) ==
    LET held == {n \in DOMAIN flight : flight[n].key = key /\ flight[n].fate # "expired"}
    IN  {n \in held :
            /\ flight[n].seq >= db.kv_versions[key]
            /\ \A m \in held : flight[m].rank < flight[n].rank => flight[m].seq < flight[n].seq}

\* merge_pending: after the rows replay lists come the recorded writes it does not list,
\* in the order of the file.
LastPending(key) ==
    LET listed == Listed(key)
        rest   == {n \in DOMAIN flight : flight[n].recorded /\ flight[n].key = key} \ listed
    IN  IF rest # {} THEN Max(rest)
        ELSE CHOOSE n \in listed : \A m \in listed : flight[m].rank =< flight[n].rank

\* The writes of a key in flight, as the read shows them.
Pending(key) == Listed(key) \cup {n \in DOMAIN flight : flight[n].recorded /\ flight[n].key = key}

\* Mutant: only the confirmed value counts.
effective_value_confirmed(key) == db.kv[key]

\* effective_value: the last pending write, or the confirmed value.
effective_value(key) ==
    IF Pending(key) = {} THEN db.kv[key] ELSE flight[LastPending(key)].value

\* The sequence of the next write of a key (prepare): past the rows replay has folded, and
\* past as many as are in flight.
NextSeq(key) ==
    Max({db.kv_versions[key]} \cup {flight[n].seq + 1 : n \in Listed(key)})
    + Cardinality(Pending(key))

\* pending::load drops the entries that are too old.
Stale(e) == e.age >= StaleTicks

\* Txids are told apart by their order only.
Ranked(f) ==
    [n \in DOMAIN f |-> [f[n] EXCEPT !.rank = Cardinality({m \in DOMAIN f : f[m].rank =< @})]]

\* A tick: the sync scans what was mined and prunes pending.toml, or the tick is skipped.
\* By the time an entry is too old its transaction has been mined or has expired.
StartPoll ==
    /\ prog = "version" /\ pc = "wait"
    /\ \A n \in DOMAIN flight : flight[n].age + 1 >= StaleTicks => flight[n].fate # "unmined"
    /\ LET age(e) == [e EXCEPT !.age = IF @ < StaleTicks THEN @ + 1 ELSE @]
           load(e) == [age(e) EXCEPT !.recorded = @ /\ ~Stale(age(e))]
           file == [n \in DOMAIN flight |-> load(flight[n])]
           kept == SelectSeq(file, LAMBDA e : e.fate = "expired" => e.recorded)
       IN  IF up.chain
           THEN /\ pc' = "tags"
                /\ db' = chaindb
                /\ flight' = Ranked(SelectSeq(kept, LAMBDA e : e.fate # "mined"))
           ELSE /\ flight' = Ranked(kept)
                /\ UNCHANGED <<pc, db>>
    /\ UNCHANGED <<prog, up, outages, price, tags, seen, todo, chaindb, lost>>

\* fetch_tags: all the pages, or the project is left for the next tick.
FetchTags ==
    /\ prog = "version" /\ pc = "tags"
    /\ IF up.feed THEN pc' = "reconcile" /\ seen' = tags /\ todo' = Channels
       ELSE pc' = "wait" /\ UNCHANGED <<seen, todo>>
    /\ UNCHANGED <<prog, up, outages, price, tags, flight, chaindb, db, lost>>

Advance == IF Len(todo) = 1 THEN pc' = "wait" /\ todo' = << >> ELSE pc' = pc /\ todo' = Tail(todo)

\* reconcile, nothing to write: no version qualifies, it is there already, or no funds.
Unchanged ==
    /\ prog = "version" /\ pc = "reconcile"
    /\ LET want == select(seen, Head(todo))
       IN  want = NoValue \/ effective_value(Head(todo)) = want \/ ~up.funds \/ ~up.chain
    /\ Advance
    /\ UNCHANGED <<prog, up, outages, price, tags, seen, flight, chaindb, db, lost>>

\* reconcile, the value differs: a SET, sent and recorded (set_no_sync); a failure to
\* record it is only logged.  Its txid falls anywhere among the others.
Publish ==
    /\ prog = "version" /\ pc = "reconcile" /\ up.funds /\ up.chain
    /\ LET key  == Head(todo)
           want == select(seen, key)
       IN  /\ want # NoValue /\ effective_value(key) # want
           /\ \E rank \in 1..(Len(flight) + 1), recorded \in BOOLEAN :
               /\ recorded \/ outages < MaxOutages
               /\ outages' = IF recorded THEN outages ELSE outages + 1
               /\ flight' = Append([n \in DOMAIN flight |->
                                       IF flight[n].rank < rank THEN flight[n]
                                       ELSE [flight[n] EXCEPT !.rank = @ + 1]],
                                   [key |-> key, value |-> want, rank |-> rank,
                                    seq |-> NextSeq(key), fate |-> "unmined",
                                    recorded |-> recorded, age |-> 0])
    /\ Advance
    /\ UNCHANGED <<prog, up, price, tags, seen, chaindb, db, lost>>

\* The process is killed and started again; pending.toml and the wallet remain.
Crash ==
    /\ prog = "version" /\ pc \in {"tags", "reconcile"}
    /\ outages < MaxOutages
    /\ outages' = outages + 1
    /\ pc' = "wait" /\ todo' = << >>
    /\ UNCHANGED <<prog, up, price, tags, seen, flight, chaindb, db, lost>>

Mine(n) ==
    /\ prog = "version" /\ n \in DOMAIN flight /\ flight[n].fate = "unmined"
    /\ flight' = [flight EXCEPT ![n].fate = "mined"]
    /\ chaindb' = Fold(chaindb, memo(flight[n]), "Confirmed")
    /\ UNCHANGED <<prog, up, outages, pc, price, tags, seen, todo, db, lost>>

\* The wallet learns of it with the sync of the next tick.
Expire(n) ==
    /\ prog = "version" /\ pc = "wait" /\ lost < MaxLost
    /\ n \in DOMAIN flight /\ flight[n].fate = "unmined"
    /\ flight' = [flight EXCEPT ![n].fate = "expired"]
    /\ lost' = lost + 1
    /\ UNCHANGED <<prog, up, outages, pc, price, tags, seen, todo, chaindb, db>>

Release(t) ==
    /\ prog = "version" /\ t \notin tags
    /\ tags' = tags \cup {t}
    /\ UNCHANGED <<prog, up, outages, pc, price, seen, todo, flight, chaindb, db, lost>>

-----------------------------------------------------------------------------

Services == {"feed", "chain", "funds"}

Fail(s) ==
    /\ up[s] /\ outages < MaxOutages
    /\ up' = [up EXCEPT ![s] = FALSE]
    /\ outages' = outages + 1
    /\ UNCHANGED <<prog, pc, price, version>>

Repair(s) ==
    /\ ~up[s]
    /\ up' = [up EXCEPT ![s] = TRUE]
    /\ UNCHANGED <<prog, outages, pc, price, version>>

MaxFlight == (StaleTicks + 1) * Len(Channels)

InitialDatabase ==
    Fold(EmptyDatabase, [op |-> "INIT", key |-> NoValue, value |-> NoValue, seq |-> 0,
                         signer |-> Root], "Confirmed")

Init ==
    /\ prog \in {"price", "version"}
    /\ up = [s \in Services |-> TRUE]
    /\ outages = 0
    /\ pc = "wait" /\ attempt = 1 /\ spent = 0 /\ elapsed = 0 /\ phase = 0 /\ due = 1
    /\ lag = 0 /\ health = NewHealth
    /\ tags = {t \in DOMAIN TagInfo : TagInfo[t].ignored} /\ seen = {} /\ todo = << >> /\ flight = << >> 
    /\ chaindb = InitialDatabase /\ db = InitialDatabase
    /\ lost = 0

Work == StartTick \/ FetchPrices \/ SyncWallet \/ MeasureLag \/ WriteBatch

Poll == StartPoll \/ FetchTags \/ Unchanged \/ Publish

Settle == \E n \in 1..MaxFlight : Mine(n)

Next ==
    \/ Work \/ Pass \/ NewBlock \/ Restart
    \/ Poll \/ Crash \/ Settle
    \/ \E n \in 1..MaxFlight : Expire(n)
    \/ \E t \in DOMAIN TagInfo : Release(t)
    \/ \E s \in Services : Fail(s) \/ Repair(s)

\* The loops run, time passes, an orchestrator acts on the probe, blocks are mined.
Fairness == WF_vars(Work) /\ WF_vars(Pass) /\ WF_vars(Restart) /\ WF_vars(Poll) /\ WF_vars(Settle)

Spec == Init /\ [][Next]_vars /\ Fairness

-----------------------------------------------------------------------------
(* Correctness.                                                            *)

\* The state is well formed.
TypeOK ==
    /\ prog \in {"price", "version"} /\ up \in [Services -> BOOLEAN] /\ outages \in 0..MaxOutages
    /\ pc \in {"wait", "fetch", "sync", "lag", "write", "backoff", "tags", "reconcile"}
    /\ attempt \in 1..TickAttempts /\ spent \in 0..MaxSpent /\ elapsed \in 0..Interval
    /\ phase \in 0..(Interval - 1) /\ due \in 0..2 /\ lag \in 0..(MaxLag + 1)
    /\ health \in [done: BOOLEAN, behind: 0..MaxLag + 1, age: Never..(MaxWriteAge + 1)]
    /\ tags \subseteq DOMAIN TagInfo /\ seen \subseteq tags
    /\ todo \in Seq(Keys) /\ Len(flight) =< MaxFlight
    /\ db \in Database /\ chaindb \in Database /\ lost \in 0..MaxLost

AllUp == \A s \in Services : up[s]

\* Over a well-formed state, a retry begins before the interval of its own tick is over.
RetriesStartInTime ==
    TypeOK /\ (prog = "price" /\ pc = "fetch" /\ attempt > 1 /\ spent = 0 => elapsed < Interval)

\* Once its services stay up the price oracle publishes again and again, whatever failed
\* before, in whichever attempt, and however often the container was restarted; and every
\* retry starts in time.
PriceOracleRecovers ==
    []RetriesStartInTime /\ (prog = "price" /\ <>[]AllUp => []<>(health.age = 0))

\* After a write has landed, another one lands or the probe says 503: prices do not go
\* stale behind a healthy answer.
StaleIsReported == prog = "price" /\ health.age = 1 ~> health.age = 0 \/ ~Healthy(health)

\* While the wallet can sync, the probe does not have the container restarted for ever:
\* "a restart can't make the chain confirm or conjure funds".
NoRestartLoop == <>[](up["chain"]) => <>[][~Restart]_vars

\* The health probe is honest: it reports stale prices and does not restart for nothing.
HealthHonest == StaleIsReported /\ NoRestartLoop

\* Once the services stay up, the database ends up with the newest version of every
\* channel: after writes that expired, crashes and failed ticks.
VersionsPublished ==
    prog = "version" /\ <>[]AllUp =>
        <>[](\A n \in DOMAIN Channels : LET want == select(tags, Channels[n])
                                        IN  want # NoValue => chaindb.kv[Channels[n]] = want)

\* A value is not paid for twice: it is sent again only after the first one expired, or
\* while another write of the same key is on record.
NoRebroadcast ==
    [][Len(flight') > Len(flight) =>
          LET want == select(seen, Head(todo))
              same == {n \in DOMAIN flight : flight[n].key = Head(todo)}
          IN  \A n \in same : flight[n].value = want /\ flight[n].fate = "unmined" =>
                  \E m \in same : flight[m].value # want]_vars

\* A published version never goes back while tags are only added, in whatever order the
\* writes in flight are mined.
VersionsNeverGoBack ==
    [][\A k \in Keys : chaindb.kv[k] # NoValue => chaindb'.kv[k] >= chaindb.kv[k]]_vars

\* The version oracle's record is right: the newest versions end up published, no value is
\* paid for twice and none goes back.
VersionsRight == VersionsPublished /\ NoRebroadcast /\ VersionsNeverGoBack

\* What the comment on effective_value says: a value just broadcast "is not re-broadcast
\* next tick".
NeverRebroadcast ==
    [][Len(flight') > Len(flight) =>
          \A n \in DOMAIN flight :
              flight[n].key = Head(todo) /\ flight[n].fate = "unmined" =>
                  flight[n].value # select(seen, Head(todo))]_vars

\* What the comment in Health::snapshot says: a wallet that is stuck behind the tip for
\* good "is still caught".
StuckIsCaught == prog = "price" /\ <>[](lag > MaxLag) => <>~Healthy(health)

\* What the comment on retry_backoff says: retries "never bleed past the next scheduled
\* tick".
RetriesBeforeNextTick == prog = "price" /\ pc = "fetch" /\ attempt > 1 /\ spent = 0 => due = 0

=============================================================================
