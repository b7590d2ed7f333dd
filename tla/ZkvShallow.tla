----------------------------- MODULE ZkvShallow -----------------------------
(***************************************************************************)
(* The shallow client: reads of a recent window of blocks, without a       *)
(* wallet.  scan reads a fixed window, find walks back from the tip until  *)
(* the wanted keys have a winner, poll goes forward from a cursor and      *)
(* `shallow follow` is a scan followed by polls for ever.  Before a scan   *)
(* or a find is believed the INIT anchor is looked up: in the client, in   *)
(* shallow_init.toml, or by a walk forward from the birthday.              *)
(*                                                                         *)
(* Every request to lightwalletd is a step of its own: the tip is read     *)
(* first and used throughout, and blocks may be mined or reorganised       *)
(* between any two requests.  Any request may fail, which ends the call.   *)
(*                                                                         *)
(* A block carries at most one transaction that pays this database, and a  *)
(* transaction carries a sequence of memos.  An update is identified by    *)
(* <<height, txid, output index>>, the order reads replay memos in.        *)
(***************************************************************************)
EXTENDS ZkvProtocol, SequencesExt

CONSTANTS
    Tx,             \* transaction ids, numbers since txids are ordered
    MemosOf,        \* the memos each transaction carries
    ExtraSigners,   \* ShallowOptions::extra_signers
    Followed,       \* the keys `follow` matches
    Searches,       \* what `get` looks for: [want: keys, pattern: a pattern or a list?]
    Confs,          \* the min_confirmations calls ask for
    Verify,         \* with or without the INIT check (ShallowOptions::verify_init)
    Depth,          \* ShallowOptions::depth and max_depth, 48 by default
    Grace,          \* blocks a pattern search goes on below its first match, 48
    ReorgMargin,    \* REORG_MARGIN, 10
    FirstChunk,     \* first chunk of a progressive walk, 48
    Chunk,          \* CHUNK, 1000
    InitScanLimit,  \* ShallowOptions::init_scan_limit, 10000
    Birthday,       \* the birthday the address embeds
    ReorgDepth,     \* bound: how many blocks a reorganisation replaces
    MaxHeight, MaxReorgs, MaxFailures     \* bounds

ASSUME TxAssumption == Tx \subseteq Nat \ {0} /\ MemosOf \in [Tx -> Seq(Memo)]
ASSUME DepthAssumption ==
    /\ {Depth, FirstChunk, Chunk, Birthday} \subseteq Nat \ {0}
    /\ {Grace, ReorgMargin, InitScanLimit, ReorgDepth} \subseteq Nat
    /\ {MaxHeight, MaxReorgs, MaxFailures} \subseteq Nat
    /\ Confs \subseteq Nat
    /\ Followed \subseteq Keys

VARIABLES
    chain,      \* the transaction each block carries, 0 for none
    reorgs,     \* reorganisations so far
    cache,      \* shallow_init.toml
    client,     \* the client: its options, its memoised anchor and its cursor
    call,       \* the call in progress
    failures,   \* calls that failed so far
    emitted     \* the updates `follow` printed, in order

shallowVars == <<chain, reorgs, cache, client, call, failures, emitted>>

-----------------------------------------------------------------------------
(* Updates and the pure validator (validate.rs).                           *)

AtLeast(a, b) == IF a >= b THEN a ELSE b
AtMost(a, b)  == IF a =< b THEN a ELSE b
Minus(a, b)   == IF a >= b THEN a - b ELSE 0      \* saturating_sub

MemoOf(u) == MemosOf[u[2]][u[3]]

\* The total order of (height, txid, output_index).
Before(u, w) ==
    \/ u[1] < w[1]
    \/ u[1] = w[1] /\ u[2] < w[2]
    \/ u[1] = w[1] /\ u[2] = w[2] /\ u[3] < w[3]

\* A tip older than the block counts as one confirmation.
Confirmations(u, tip) == Minus(tip, u[1]) + 1

Deep(raw, tip, confs) == {u \in raw : Confirmations(u, tip) >= confs}

Updates(deep) == {u \in deep : MemoOf(u).op \in DataOps}

Verified(updates) == {u \in updates : MemoOf(u).signer \in {Root} \cup ExtraSigners}

\* The winner of each key: the last verified write in chain order.
Latest(updates) ==
    LET verified == Verified(updates)
    IN  {u \in verified : \A w \in verified \ {u} :
            MemoOf(w).key = MemoOf(u).key => Before(w, u)}

\* Keys whose winner carries a lower sequence than another verified write of the window.
SeqOrderMismatch(updates) ==
    {k \in Keys : \E u \in Latest(updates), w \in Verified(updates) :
        MemoOf(u).key = k /\ MemoOf(w).key = k /\ MemoOf(u).seq < MemoOf(w).seq}

\* Keys a readable signature of an unaccepted signer wrote to.
UnverifiedSigner(updates) ==
    {k \in Keys : \E u \in updates \ Verified(updates) :
        MemoOf(u).key = k /\ MemoOf(u).signer # NoSigner}

\* A management, FINALIZE or VERSION memo in the window.
ManagementSeen(deep) == \E u \in deep : MemoOf(u).op \in OwnerOnlyOps

\* Root-signed INITs.
RootInits(deep) == {u \in deep : MemoOf(u).op = "INIT" /\ MemoOf(u).signer = Root}

-----------------------------------------------------------------------------
(* The cursor.                                                             *)

\* Mutant: the margin is not widened to the confirmations asked for.
Margin_fixed(confs) == ReorgMargin

Margin(confs) == AtLeast(ReorgMargin, confs)

\* ShallowCursor::at_tip: the validated updates inside the re-fetch margin.
Recent(raw, tip, confs) ==
    {u \in Updates(Deep(raw, tip, AtLeast(confs, 1))) : u[1] > Minus(tip, Margin(confs))}

NoCursor == [height |-> 0, recent |-> {}]

\* poll_range: new blocks and the margin behind the cursor, not before the birthday.
PollFrom(height, confs) == AtLeast(Minus(height, Margin(confs)) + 1, Birthday)

-----------------------------------------------------------------------------
(* The chain and the server.                                               *)

OnChain == {chain[h] : h \in DOMAIN chain}

\* scan_compact_block: the block holds an output this viewing key trial-decrypts.
PaysUs(h) == h \in DOMAIN chain /\ chain[h] # 0

\* Candidates of a block range, with the heights they were seen at.
Candidates(lo, hi) == {<<h, chain[h]>> : h \in {n \in lo..hi : PaysUs(n)}}

\* GetTransaction: the heights it may report, 0 for a transaction that is not mined.
MinedAt(t) == IF t \in OnChain THEN {h \in DOMAIN chain : chain[h] = t} ELSE {0}

\* Heights transaction_memos may answer for a transaction seen at a height: where it
\* is mined now; once reorganised away, the height it was seen at while it sits in
\* the mempool, and nothing (0) when it is gone.
FetchedAt(t, seen) == IF MinedAt(t) # {0} THEN MinedAt(t) ELSE {seen, 0}

\* extract_memos: one hit per text memo of the transaction.
Hits(t, height) ==
    IF height = 0 THEN {} ELSE {<<height, t, i>> : i \in DOMAIN MemosOf[t]}

MineBlock(t) ==
    /\ Len(chain) < MaxHeight
    /\ t \in (Tx \ OnChain) \cup {0}
    /\ chain' = Append(chain, t)
    /\ UNCHANGED <<reorgs, cache, client, call, failures, emitted>>

\* Another branch of the same length replaces the last blocks, and is extended later;
\* a transaction it leaves out goes back to the mempool.
Reorganise(depth) ==
    /\ reorgs < MaxReorgs
    /\ depth =< Len(chain)
    /\ Len(chain) < MaxHeight
    /\ LET kept == SubSeq(chain, 1, Len(chain) - depth)
           free == (Tx \ {kept[h] : h \in DOMAIN kept}) \cup {0}
       IN  \E branch \in [1..depth -> free] :
             /\ \A i, j \in 1..depth : branch[i] = branch[j] => i = j \/ branch[i] = 0
             /\ chain' = kept \o branch
    /\ reorgs' = reorgs + 1
    /\ UNCHANGED <<cache, client, call, failures, emitted>>

-----------------------------------------------------------------------------
(* The calls.                                                              *)

NoAnchor == [at |-> << >>, confs |-> 0]

\* A cache file: the receiver it was verified for and the anchor.
NoCache == [receiver |-> "none", anchor |-> NoAnchor]

Closed == [open |-> FALSE, confs |-> 0, verify |-> FALSE, anchor |-> NoAnchor,
           cursor |-> NoCursor, since |-> 0, first |-> {}]

\* at and size: where the next chunk starts and how long it is; stop: the grace floor,
\* 0 until the search is satisfied (a floor saturated to 0 excludes no block either).
IdleCall == [pc |-> "idle", op |-> "none", want |-> {}, pattern |-> FALSE, tip |-> 0,
             from |-> 0, at |-> 0, size |-> 0, hits |-> {}, raw |-> {}, stop |-> 0]

ShallowInit ==
    /\ chain = << >>
    /\ reorgs = 0
    /\ cache \in {NoCache, [receiver |-> "other", anchor |-> [at |-> <<1, 0, 1>>, confs |-> 1]]}
    /\ client = Closed
    /\ call = IdleCall
    /\ failures = 0
    /\ emitted = << >>

\* from_db: a client of a local database, and the options of its calls.
Open(confs, verify) ==
    /\ ~client.open
    /\ client' = [Closed EXCEPT !.open = TRUE, !.confs = confs, !.verify = verify]
    /\ UNCHANGED <<chain, reorgs, cache, call, failures, emitted>>

\* The process ends: Ctrl-C, or a one-shot command that returned.
Close ==
    /\ client.open
    /\ client' = Closed
    /\ call' = IdleCall
    /\ emitted' = << >>
    /\ UNCHANGED <<chain, reorgs, cache, failures>>

WindowFloor(tip) == AtLeast(Birthday, Minus(tip, Depth - 1))

\* scan and find_where begin with GetLatestBlock.
Start(op, want, pattern) ==
    /\ client.open /\ client.cursor = NoCursor /\ call.pc = "idle"
    /\ Len(chain) >= Birthday
    /\ call' = [IdleCall EXCEPT !.pc = "init", !.op = op, !.want = want, !.pattern = pattern,
                                !.tip = Len(chain), !.from = WindowFloor(Len(chain))]
    /\ UNCHANGED <<chain, reorgs, cache, client, failures, emitted>>

\* The fetch of scan and poll goes up in fixed chunks, the one of find down in growing ones.
Fetch(c) == IF c.op = "find" THEN [c EXCEPT !.pc = "find", !.at = c.tip, !.size = FirstChunk]
            ELSE [c EXCEPT !.pc = "window", !.at = c.from, !.size = Chunk]

\* Mutant: a tip one block ahead does not count as new.
StartPoll_late ==
    /\ client.cursor # NoCursor /\ call.pc = "idle"
    /\ Len(chain) > client.cursor.height + 1
    /\ call' = Fetch([IdleCall EXCEPT !.op = "poll", !.tip = Len(chain),
                          !.from = PollFrom(client.cursor.height, client.confs)])
    /\ UNCHANGED <<chain, reorgs, cache, client, failures, emitted>>

\* poll with a tip beyond the cursor; without one it returns the cursor it was given.
StartPoll ==
    /\ client.cursor # NoCursor /\ call.pc = "idle"
    /\ Len(chain) > client.cursor.height
    /\ call' = Fetch([IdleCall EXCEPT !.op = "poll", !.tip = Len(chain),
                          !.from = PollFrom(client.cursor.height, client.confs)])
    /\ UNCHANGED <<chain, reorgs, cache, client, failures, emitted>>

\* ensure_init: skipped, memoised, cached for this receiver, or a walk from the birthday.
EnsureInit ==
    /\ call.pc = "init"
    /\ LET known  == ~client.verify \/ client.anchor # NoAnchor
           cached == ~known /\ cache.receiver = "own"
       IN  /\ client' = [client EXCEPT !.anchor = IF cached THEN cache.anchor ELSE @]
           /\ call' = IF known \/ cached THEN Fetch(call)
                      ELSE [call EXCEPT !.pc = "walk", !.at = Birthday, !.size = FirstChunk]
    /\ UNCHANGED <<chain, reorgs, cache, failures, emitted>>

InitCap == AtMost(call.tip, Birthday + InitScanLimit)

NextSize(size) == AtMost(2 * size, Chunk)

\* verify_init_at: the candidates of the next chunk, or InitNotFound past the cap.
WalkChunk ==
    /\ call.pc = "walk" /\ call.hits = {}
    /\ LET top == AtMost(call.at + call.size - 1, InitCap)
       IN  call' = IF call.at > InitCap THEN IdleCall
                   ELSE [call EXCEPT !.hits = Candidates(call.at, top), !.at = top + 1,
                                     !.size = NextSize(@)]
    /\ UNCHANGED <<chain, reorgs, cache, client, failures, emitted>>

Lowest(hits)  == CHOOSE c \in hits : \A d \in hits : c[1] =< d[1]
Highest(hits) == CHOOSE c \in hits : \A d \in hits : d[1] =< c[1]

InitConfs == AtLeast(client.confs, 1)

\* Mutant: an INIT counts as soon as it is mined.
WalkHeight_unconfirmed ==
    /\ call.pc = "walk" /\ call.hits # {}
    /\ LET hit == Lowest(call.hits)
       IN  \E height \in FetchedAt(hit[2], hit[1]) :
             LET inits  == RootInits(Hits(hit[2], height))
                 anchor == [at |-> CHOOSE u \in inits : \A w \in inits : ~Before(w, u),
                            confs |-> InitConfs]
             IN  IF inits = {}
                 THEN /\ call' = [call EXCEPT !.hits = @ \ {hit}]
                      /\ UNCHANGED <<cache, client>>
                 ELSE /\ client' = [client EXCEPT !.anchor = anchor]
                      /\ cache' = [receiver |-> "own", anchor |-> anchor]
                      /\ call' = Fetch([call EXCEPT !.hits = {}])
    /\ UNCHANGED <<chain, reorgs, failures, emitted>>

\* One block of the walk, oldest first: its transaction is fetched, and the first
\* root-signed INIT that is deep enough is memoised and cached.
WalkHeight ==
    /\ call.pc = "walk" /\ call.hits # {}
    /\ LET hit == Lowest(call.hits)
       IN  \E height \in FetchedAt(hit[2], hit[1]) :
             LET inits  == RootInits(Deep(Hits(hit[2], height), call.tip, InitConfs))
                 anchor == [at |-> CHOOSE u \in inits : \A w \in inits : ~Before(w, u),
                            confs |-> InitConfs]
             IN  IF inits = {}
                 THEN /\ call' = [call EXCEPT !.hits = @ \ {hit}]
                      /\ UNCHANGED <<cache, client>>
                 ELSE /\ client' = [client EXCEPT !.anchor = anchor]
                      /\ cache' = [receiver |-> "own", anchor |-> anchor]
                      /\ call' = Fetch([call EXCEPT !.hits = {}])
    /\ UNCHANGED <<chain, reorgs, failures, emitted>>

\* candidates of scan and poll, chunk after chunk; a transaction seen twice keeps the
\* height it was seen at first.
WindowChunk ==
    /\ call.pc = "window"
    /\ LET top == AtMost(call.at + call.size - 1, call.tip)
           new == {c \in Candidates(call.at, top) : \A d \in call.hits : d[2] # c[2]}
       IN  call' = [call EXCEPT !.hits = @ \cup new, !.at = top + 1,
                                !.pc = IF top = call.tip THEN "enhance" ELSE "window"]
    /\ UNCHANGED <<chain, reorgs, cache, client, failures, emitted>>

\* enhance: one transaction fetched per hit, in the order of the txids.
Enhance ==
    /\ call.pc = "enhance" /\ call.hits # {}
    /\ LET hit == CHOOSE c \in call.hits : \A d \in call.hits : c[2] =< d[2]
       IN  \E height \in FetchedAt(hit[2], hit[1]) :
             call' = [call EXCEPT !.hits = @ \ {hit}, !.raw = @ \cup Hits(hit[2], height)]
    /\ UNCHANGED <<chain, reorgs, cache, client, failures, emitted>>

\* What validated gives for the hits of the call.
ValidUpdates(raw) == Updates(Deep(raw, call.tip, AtLeast(client.confs, 1)))

KeysOf(updates) == {MemoOf(u).key : u \in updates}

\* A pattern wants some key it matches, a list of keys wants every one.
Satisfied(raw) ==
    LET found == KeysOf(Latest(ValidUpdates(raw)))
    IN  IF call.pattern THEN call.want \cap found # {} ELSE call.want \subseteq found

\* find_where: the next chunk down, unless it lies below the grace floor.
FindChunk ==
    /\ call.pc = "find" /\ call.hits = {}
    /\ LET bottom == AtLeast(Minus(call.at, call.size - 1), call.from)
       IN  call' = IF call.at < call.from \/ call.stop > call.at
                   THEN [call EXCEPT !.pc = "done", !.from = AtLeast(call.stop, call.from)]
                   ELSE [call EXCEPT !.hits = Candidates(bottom, call.at), !.at = bottom - 1,
                                     !.size = NextSize(@)]
    /\ UNCHANGED <<chain, reorgs, cache, client, failures, emitted>>

\* One block, newest first; the first one that satisfies the search anchors the floor.
FindHeight ==
    /\ call.pc = "find" /\ call.hits # {}
    /\ LET hit   == Highest(call.hits)
           floor == IF call.pattern THEN Minus(hit[1], Grace) ELSE hit[1]
       IN  IF hit[1] < call.stop
           THEN call' = [call EXCEPT !.pc = "done", !.hits = {},
                                     !.from = AtLeast(call.stop, call.from)]
           ELSE \E height \in FetchedAt(hit[2], hit[1]) :
                  LET raw == call.raw \cup Hits(hit[2], height)
                  IN  call' = [call EXCEPT !.hits = @ \ {hit}, !.raw = raw,
                                   !.stop = IF @ = 0 /\ Satisfied(raw) THEN floor ELSE @]
    /\ UNCHANGED <<chain, reorgs, cache, client, failures, emitted>>

EnhanceDone ==
    /\ call.pc = "enhance" /\ call.hits = {}
    /\ call' = [call EXCEPT !.pc = "done"]
    /\ UNCHANGED <<chain, reorgs, cache, client, failures, emitted>>

Matching(updates) == {u \in updates : MemoOf(u).key \in Followed}

\* dedup_updates: what the cursor does not remember.
Fresh(updates) == updates \ client.cursor.recent

NewCursor == [height |-> call.tip, recent |-> Recent(call.raw, call.tip, client.confs)]

\* The updates of a read in chain order: each at the place of its rank.
InOrder(updates) ==
    [n \in 1..Cardinality(updates) |->
        CHOOSE u \in updates : Cardinality({w \in updates : Before(w, u)}) = n - 1]

\* The call returns.  A scan starts `follow` over: the current values are printed and
\* the cursor is seeded; a poll prints the fresh verified updates and moves the cursor.
Return ==
    /\ call.pc = "done"
    /\ call' = IdleCall
    /\ LET updates == ValidUpdates(call.raw)
       IN  CASE call.op = "scan" ->
                  /\ emitted' = InOrder(Matching(Latest(updates)))
                  /\ client' = [client EXCEPT !.cursor = NewCursor, !.since = call.from,
                                              !.first = Verified(updates)]
             [] call.op = "poll" ->
                  /\ emitted' = emitted \o InOrder(Matching(Verified(Fresh(updates))))
                  /\ client' = [client EXCEPT !.cursor = NewCursor]
             [] call.op = "find" -> UNCHANGED <<emitted, client>>
    /\ UNCHANGED <<chain, reorgs, cache, failures>>

\* A request fails: a poll is retried at the next tick from the same cursor.
Fail ==
    /\ call.pc \in {"walk", "window", "enhance", "find"}
    /\ failures < MaxFailures
    /\ failures' = failures + 1
    /\ call' = IdleCall
    /\ UNCHANGED <<chain, reorgs, cache, client, emitted>>

Read == EnsureInit \/ WalkChunk \/ WalkHeight \/ WindowChunk \/ Enhance \/ EnhanceDone
        \/ FindChunk \/ FindHeight \/ Return

ShallowNext ==
    \/ \E t \in Tx \cup {0} : MineBlock(t)
    \/ \E depth \in 1..ReorgDepth : Reorganise(depth)
    \/ \E confs \in Confs, verify \in Verify : Open(confs, verify)
    \/ Close
    \/ Start("scan", {}, FALSE)
    \/ \E s \in Searches : Start("find", s.want, s.pattern)
    \/ StartPoll
    \/ Read
    \/ Fail

ShallowSpec == ShallowInit /\ [][ShallowNext]_shallowVars

\* The follow loop polls again after every sleep, a request is answered or fails, and
\* the chain grows.
FairShallow ==
    /\ ShallowSpec
    /\ WF_shallowVars(Read)
    /\ WF_shallowVars(StartPoll)
    /\ WF_shallowVars(\E t \in Tx \cup {0} : MineBlock(t))

-----------------------------------------------------------------------------
(* Correctness.                                                            *)

UpdateId == (1..MaxHeight) \X Tx \X Nat

\* The state is well formed.
ShallowTypeOK ==
    /\ chain \in Seq(Tx \cup {0}) /\ Len(chain) =< MaxHeight
    /\ reorgs \in 0..MaxReorgs /\ failures \in 0..MaxFailures
    /\ cache.receiver \in {"none", "other", "own"}
    /\ client.open \in BOOLEAN /\ client.confs \in Confs \cup {0}
    /\ client.cursor.recent \subseteq UpdateId /\ client.first \subseteq UpdateId
    /\ call.pc \in {"idle", "init", "walk", "window", "enhance", "find", "done"}
    /\ call.hits \subseteq (1..MaxHeight) \X Tx /\ call.raw \subseteq UpdateId
    /\ emitted \in Seq(UpdateId)

\* Reorganisations too shallow to undo what the client counts as confirmed.
Settled(confs) == ReorgDepth < confs

\* The updates the chain holds in a range, deep enough at a tip.
ChainUpdates(lo, tip, confs) ==
    Updates(Deep(UNION {Hits(chain[h], h) : h \in {n \in (lo..tip) \cap DOMAIN chain : chain[n] # 0}},
                 tip, confs))

\* The INIT anchor, memoised by the client or cached in shallow_init.toml for this
\* database, is the first root-signed INIT of the chain, whatever was mined or
\* reorganised during the walk that found it and since (verify_init_at, read_cache_file).
AnchorStands ==
    \A a \in {client.anchor} \cup (IF cache.receiver = "own" THEN {cache.anchor} ELSE {}) :
        a # NoAnchor /\ Settled(a.confs) =>
            /\ a.at[1] \in DOMAIN chain /\ chain[a.at[1]] = a.at[2]
            /\ RootInits({a.at}) # {}
            /\ \A h \in Birthday..(a.at[1] - 1) : chain[h] # 0 => RootInits(Hits(chain[h], h)) = {}

\* A read returns exactly the confirmed updates of the range it says it scanned, although
\* the chain moved while it walked: chunks leave no block out and read none twice, and a
\* search that stops early claims no more than it saw (find_where, covered_from).
ReadCoversItsRange ==
    call.pc = "done" /\ Settled(client.confs) =>
        ValidUpdates(call.raw) = ChainUpdates(call.from, call.tip, client.confs)

\* The rows a full read replays: the confirmed memos of the chain.
ConfirmedRows(tip, confs) ==
    Deep(UNION {Hits(chain[h], h) : h \in {n \in 1..tip : chain[n] # 0}}, tip, confs)

\* The database after each row of an ordered replay.
Replay(order) ==
    LET db[n \in 0..Len(order)] ==
            IF n = 0 THEN EmptyDatabase ELSE Fold(db[n - 1], MemoOf(order[n]), "Confirmed")
    IN  db

\* The rows of a replay that write a key and are honoured.
Honoured(order, k) ==
    {n \in DOMAIN order :
        /\ MemoOf(order[n]).op \in DataOps /\ MemoOf(order[n]).key = k
        /\ classify(Replay(order)[n - 1], MemoOf(order[n]), "Confirmed") = "Applied"}

\* The full read: the update each key holds, none for a key that was never written.
FullRead(tip, confs) ==
    LET order == InOrder(ConfirmedRows(tip, confs))
        last(k) == CHOOSE n \in Honoured(order, k) : \A m \in Honoured(order, k) : m =< n
    IN  [k \in Keys |-> IF Honoured(order, k) = {} THEN << >> ELSE order[last(k)]]

\* A shallow read that saw the write the full read settles on for a key reports that
\* write, or warns: of a sequence out of order (a re-broadcast), of a signer it cannot
\* judge, or of a management memo it did not apply (validate).  Not an invariant: the
\* full read keeps the first of two writes under one sequence, the shallow one the last.
AgreesOrWarns ==
    call.pc = "done" /\ call.op # "poll" /\ Settled(client.confs) =>
        LET full    == FullRead(call.tip, client.confs)
            updates == ValidUpdates(call.raw)
        IN  \A k \in Keys : full[k] # << >> /\ full[k][1] >= call.from =>
                \/ \E u \in Latest(updates) : MemoOf(u) = MemoOf(full[k])
                \/ k \in SeqOrderMismatch(updates) \cup UnverifiedSigner(updates)
                \/ ManagementSeen(Deep(call.raw, call.tip, AtLeast(client.confs, 1)))

SentMemos  == UNION {{MemosOf[t][i] : i \in DOMAIN MemosOf[t]} : t \in Tx}
RootWrites == {m \in SentMemos : m.op \in DataOps /\ m.signer = Root}

\* What a window cannot show is not there to decide: each sequence names one write of a
\* key and lies within the replay window, root is never demoted, and no other signer is
\* vouched for.
WindowTells ==
    /\ \A m, n \in RootWrites : m.key = n.key /\ m.seq = n.seq => m = n
    /\ \A m \in RootWrites : m.seq =< VersionWindow
    /\ \A m \in SentMemos : m.op = "OWNERDEL" => Canonical[m.key] # Root
    /\ ExtraSigners = {}

\* Where a window tells, a read agrees with the full read or warns (validate): of the
\* writes it saw, the one it shows is the one the full read holds.
AgreesWithFullReadOrWarns == WindowTells => AgreesOrWarns

\* A read of the client is honest: its anchor stands, it covers the range it claims, and
\* it agrees with the full read or warns.
ReadsHonest == ShallowTypeOK /\ AnchorStands /\ ReadCoversItsRange /\ AgreesWithFullReadOrWarns

\* A read with a verified INIT shows no key the full read does not hold, or warns.  Not
\* an invariant: a write mined before the INIT is dropped by the full read and shown here.
ShowsOnlyLiveKeys ==
    call.pc = "done" /\ call.op # "poll" /\ client.verify /\ Settled(client.confs) =>
        LET full    == FullRead(call.tip, client.confs)
            updates == ValidUpdates(call.raw)
        IN  \A u \in Latest(updates) :
                \/ full[MemoOf(u).key] # << >>
                \/ MemoOf(u).key \in SeqOrderMismatch(updates) \cup UnverifiedSigner(updates)

\* The anchor a client relies on stands at the confirmations that client asked for.  Not
\* an invariant: the cache does not record how deep the INIT was when it was verified.
AnchorAsDeepAsAsked ==
    client.anchor # NoAnchor /\ Settled(client.confs) =>
        client.anchor.at[1] \in DOMAIN chain /\ chain[client.anchor.at[1]] = client.anchor.at[2]

Reported(u) == u \in client.first \/ \E i \in DOMAIN emitted : emitted[i] = u

\* Once a block has left the margin polls re-read, every verified write of a followed
\* key in it has been printed (or was superseded in the first scan): reorganisations up
\* to the margin, failed polls and confirmations still missing lose none.
FollowMissesNothing ==
    client.cursor # NoCursor /\ ReorgDepth =< Margin(client.confs) =>
        LET settled == client.cursor.height - Margin(client.confs)
        IN  \A u \in Matching(Verified(ChainUpdates(client.since, settled, 1))) : Reported(u)

\* `follow` prints each update once and the updates of a key in chain order, so the
\* last line printed for a key is its newest value (dedup_updates, at_tip).
FollowInOrder ==
    Settled(client.confs) =>
        \A i, j \in DOMAIN emitted :
            i < j /\ MemoOf(emitted[i]).key = MemoOf(emitted[j]).key => Before(emitted[i], emitted[j])

\* What `follow` printed is on the chain, where it was said to be, and signed by an
\* accepted signer: no value is forged and none was undone.
EmittedStands ==
    Settled(client.confs) =>
        \A i \in DOMAIN emitted :
            /\ chain[emitted[i][1]] = emitted[i][2]
            /\ MemoOf(emitted[i]).signer \in {Root} \cup ExtraSigners

\* What `follow` prints is exact: nothing missed, nothing repeated or out of order, and
\* nothing that is not on the chain.
FollowExact == FollowMissesNothing /\ FollowInOrder /\ EmittedStands

\* A follower that is not stopped prints every verified write of the followed keys that
\* reaches the confirmations asked for, in spite of failed polls.
FollowDelivers ==
    <>[](client.cursor # NoCursor) =>
        <>[](\A u \in Matching(Verified(ChainUpdates(client.since, Len(chain), client.confs))) :
                Reported(u))

=============================================================================
