-------------------------- MODULE ZkvReadSyncProofs --------------------------
(***************************************************************************)
(* What a read and the gates may rely on, for any chain, depths, tolerance *)
(* and epochs: SyncInv of ZkvReadSync is inductive.                        *)
(***************************************************************************)
EXTENDS ZkvReadSync, WellFoundedInduction, TLAPS

-----------------------------------------------------------------------------
(* The operators.                                                          *)

\* A non-empty set of natural numbers has a least element, and Min is it.
LEMMA MinFacts ==
    ASSUME NEW T, T \subseteq Nat, T # {}
    PROVE  Min(T) \in T /\ \A m \in T : Min(T) <= m
<1> DEFINE less == {ss \in Nat \X Nat : ss[1] < ss[2]}
<1>1. OpToRel(<, Nat) = less
  BY Zenon DEF OpToRel
<1>2. \E x \in T : \A y \in T : ~(<<y, x>> \in OpToRel(<, Nat))
  BY NatLessThanWellFounded, WFMin, Zenon
<1>3. \E x \in T : \A y \in T : ~(<<y, x>> \in less)
  BY <1>1, <1>2, Zenon
<1>4. ASSUME NEW x \in Nat, NEW y \in Nat, y < x
      PROVE  <<y, x>> \in less
  BY <1>4
<1> HIDE DEF less
<1>5. \E x \in T : \A y \in T : ~(y < x)
  BY <1>3, <1>4, Zenon
<1>6. \E x \in T : \A y \in T : x <= y
  BY <1>5
<1> QED BY <1>6 DEF Min

\* A non-empty bounded set has a greatest element, and Max is it.
LEMMA MaxFacts ==
    ASSUME NEW n \in Nat, NEW T, T \subseteq 1..n, T # {}
    PROVE  Max(T) \in T
<1> DEFINE D == {d \in 0..n : n - d \in T}
<1>1. D \subseteq Nat /\ D # {}
  <2>1. PICK t \in T : TRUE
    OBVIOUS
  <2>2. n - t \in D
    BY <2>1
  <2>3. D \subseteq Nat
    OBVIOUS
  <2> HIDE DEF D
  <2> QED BY <2>2, <2>3
<1>2. Min(D) \in D /\ \A d \in D : Min(D) <= d
  BY <1>1, MinFacts
<1>3. n - Min(D) \in T /\ \A t \in T : n - Min(D) >= t
  <2>1. \A t \in T : n - t \in D
    OBVIOUS
  <2> QED BY <1>2, <2>1
<1>4. \E x \in T : \A y \in T : x >= y
  BY <1>3
<1> QED BY <1>4 DEF Max

LEMMA MaxOfTwo == ASSUME NEW a \in Int, NEW b \in Int
                  PROVE  Max({a, b}) = IF a >= b THEN a ELSE b
<1> DEFINE m == IF a >= b THEN a ELSE b
<1>1. m \in {a, b} /\ \A y \in {a, b} : m >= y
  OBVIOUS
<1>2. \A x \in {a, b} : (\A y \in {a, b} : x >= y) => x = m
  OBVIOUS
<1> QED BY <1>1, <1>2 DEF Max

LEMMA MinOfTwo == ASSUME NEW a \in Int, NEW b \in Int
                  PROVE  Min({a, b}) = IF a <= b THEN a ELSE b
<1> DEFINE m == IF a <= b THEN a ELSE b
<1>1. m \in {a, b} /\ \A y \in {a, b} : m <= y
  OBVIOUS
<1>2. \A x \in {a, b} : (\A y \in {a, b} : x <= y) => x = m
  OBVIOUS
<1> QED BY <1>1, <1>2 DEF Min

\* More rows hold more VERSION memos.
LEMMA VersionMemosGrow ==
    ASSUME NEW H, NEW K, H \subseteq K
    PROVE  VersionMemos(H) \subseteq VersionMemos(K)
BY DEF VersionMemos

\* Rows with the same VERSION memos announce the same epoch.
LEMMA SameEpoch ==
    ASSUME NEW H, NEW K, VersionMemos(H) = VersionMemos(K)
    PROVE  Version(H) = Version(K)
BY DEF Version

\* What is deep enough at a height is deep enough at every later tip.
LEMMA DeeperConfirms ==
    ASSUME NEW h \in Nat, NEW at \in Nat, NEW c \in Nat, NEW H, h <= at, 1..h \subseteq H
    PROVE  Confirmed(1..h, h, c) \subseteq Confirmed(H, at, c)
BY DEF Confirmed, Threshold

\* promote takes the watermark only over fetched blocks, SAFE_DEPTH behind the tip.
LEMMA PromoteFacts ==
    ASSUME TypeOK, promoted = 0 \/ promoted <= tip - SafeDepth, Promote
    PROVE  /\ promoted' \in Nat /\ 1..promoted' \subseteq Readable
           /\ promoted' = 0 \/ promoted' <= tip - SafeDepth
<1> DEFINE gaps   == (1..MaxHeight + 1) \ Readable
           deep   == Max({tip - SafeDepth, 0})
           cutoff == Min({deep, Min(gaps) - 1})
<1>1. /\ tip \in Nat /\ SafeDepth \in Nat /\ MaxHeight \in Nat /\ Readable \subseteq 1..MaxHeight
      /\ promoted \in Nat /\ 1..promoted \subseteq Readable
  <2>1. Len(chain) \in Nat
    BY DEF TypeOK
  <2> QED BY <2>1, HeightAssumption DEF TypeOK, Readable
<1>2. Min(gaps) \in gaps /\ \A g \in gaps : Min(gaps) <= g
  <2>1. MaxHeight + 1 \in gaps /\ gaps \subseteq Nat
    BY <1>1
  <2> QED BY <2>1, MinFacts
<1>3. Min(gaps) \in Nat /\ Min(gaps) >= 1 /\ Min(gaps) <= MaxHeight + 1
  BY <1>1, <1>2
<1>4. deep \in Nat /\ deep = IF tip - SafeDepth >= 0 THEN tip - SafeDepth ELSE 0
  BY <1>1, MaxOfTwo
<1>5. 1..(Min(gaps) - 1) \subseteq Readable
  <2> SUFFICES ASSUME NEW h \in 1..(Min(gaps) - 1), h \notin Readable PROVE FALSE
    OBVIOUS
  <2>1. h \in gaps
    BY <1>1, <1>3
  <2> QED BY <1>2, <1>3, <2>1
<1> HIDE DEF gaps, deep
<1>6. cutoff \in Nat /\ cutoff <= deep /\ cutoff <= Min(gaps) - 1
  BY <1>3, <1>4, MinOfTwo
<1>7. promoted' = IF \E h \in 1..cutoff : chain[h] = "INIT" THEN Max({promoted, cutoff}) ELSE promoted
  BY DEF Promote, gaps, deep
<1> HIDE DEF cutoff
<1>8. Max({promoted, cutoff}) = IF promoted >= cutoff THEN promoted ELSE cutoff
  BY <1>1, <1>6, MaxOfTwo
<1>9. promoted' = promoted \/ (promoted' = cutoff /\ cutoff >= 1)
  BY <1>1, <1>6, <1>7, <1>8
<1> QED BY <1>1, <1>3, <1>4, <1>5, <1>6, <1>9

-----------------------------------------------------------------------------
(* Primed operators.                                                       *)

LEMMA SameChain ==
    ASSUME chain' = chain
    PROVE  /\ \A H : VersionMemos(H)' = VersionMemos(H) /\ Version(H)' = Version(H)
           /\ \A H, at, c : Confirmed(H, at, c)' = Confirmed(H, at, c)
BY DEF VersionMemos, Version, Confirmed

\* A block more changes nothing that is read of the blocks before it.
LEMMA LongerChain ==
    ASSUME TypeOK, NEW what \in Memos, chain' = Append(chain, what)
    PROVE  /\ \A H : H \subseteq 1..Len(chain) =>
                  VersionMemos(H)' = VersionMemos(H) /\ Version(H)' = Version(H)
           /\ \A H, at, c : H \subseteq 1..Len(chain) =>
                  Confirmed(H, at, c)' = Confirmed(H, at, c)
<1>1. \A h \in 1..Len(chain) : chain'[h] = chain[h]
  BY DEF TypeOK
<1>2. ASSUME NEW H, H \subseteq 1..Len(chain)
      PROVE  VersionMemos(H)' = VersionMemos(H)
  BY <1>1, <1>2 DEF VersionMemos
<1>3. ASSUME NEW H, H \subseteq 1..Len(chain)
      PROVE  Version(H)' = Version(H)
  <2> DEFINE V == VersionMemos(H)
  <2>1. V' = V
    BY <1>2, <1>3
  <2>2. CASE V = {}
    BY <2>1, <2>2 DEF Version
  <2>3. CASE V # {}
    <3>1. V \subseteq 1..Len(chain)
      BY <1>3, Zenon DEF VersionMemos
    <3>2. Max(V) \in V
      BY <2>3, <3>1, MaxFacts DEF TypeOK
    <3> HIDE DEF V
    <3>3. chain'[Max(V)] = chain[Max(V)]
      BY <1>1, <3>1, <3>2
    <3> QED BY <2>1, <2>3, <3>3 DEF Version, V
  <2> QED BY <2>2, <2>3
<1>4. ASSUME NEW H, NEW at, NEW c, H \subseteq 1..Len(chain)
      PROVE  Confirmed(H, at, c)' = Confirmed(H, at, c)
  BY <1>1, <1>4 DEF Confirmed
<1> QED BY <1>2, <1>3, <1>4

\* What the node, the chain and the server do meanwhile puts no epoch in force.
LEMMA InForceKept ==
    ASSUME SyncInv, call' = call, NEW op, InForce(op)',
           chain' = chain \/ \E what \in Memos : chain' = Append(chain, what)
    PROVE  InForce(op)
<1>1. CASE chain' = chain
  BY <1>1 DEF InForce, Version, VersionMemos, Confirmed
<1>2. CASE \E what \in Memos : chain' = Append(chain, what)
  <2>1. PICK what \in Memos : chain' = Append(chain, what)
    BY <1>2
  <2> DEFINE seen == Confirmed(1..call.height, call.height, call.confs)
             all  == VersionMemos(1..Len(chain))
  <2>2. /\ TypeOK /\ Len(chain) \in Nat /\ Len(chain') = Len(chain) + 1
        /\ \A h \in 1..Len(chain) : chain'[h] = chain[h]
    BY <2>1 DEF SyncInv, TypeOK
  <2>3. call.how = "synced" /\ call.height \in Nat /\ 1..call.height \subseteq 1..Len(chain)
    <3>1. call.how = "synced"
      BY DEF InForce
    <3>2. 1..call.height \subseteq Readable /\ Readable \subseteq 1..Len(chain)
      BY <2>2, <3>1 DEF SyncInv, Measured, TypeOK, Readable
    <3> QED BY <3>1, <3>2 DEF SyncInv, TypeOK, CallType
  <2>4. seen' = seen /\ seen \subseteq 1..Len(chain)
    BY <2>2, <2>3 DEF Confirmed
  <2>5. Version(seen)' = Version(seen)
    <3>1. \A H : H \subseteq 1..Len(chain) => Version(H)' = Version(H)
      BY <2>1, <2>2, LongerChain
    <3> QED BY <2>4, <3>1
  <2>6. all \subseteq all'
    BY <2>2 DEF VersionMemos
  <2>7. all' \subseteq seen' /\ blocks(Version(seen)', op)
    BY DEF InForce
  <2> HIDE DEF seen, all
  <2>8. all \subseteq seen /\ blocks(Version(seen), op)
    BY <2>4, <2>5, <2>6, <2>7
  <2> QED BY <2>3, <2>8 DEF InForce, seen, all
<1> QED BY <1>1, <1>2

-----------------------------------------------------------------------------
(* The steps.                                                              *)

LEMMA DeepHeights ==
    ASSUME NEW t \in Nat, NEW u \in Nat, NEW d \in Nat, NEW n \in Nat, t <= u, t <= n,
           NEW h \in 1..t - d
    PROVE  h \in 1..u - d /\ 1..h \subseteq 1..n
OBVIOUS

\* The chain and the node: what a call has measured stays so.
LEMMA WalletStep ==
    ASSUME SyncInv, call' = call, promoted' = promoted,
           chain' = chain \/ \E what \in Memos : chain' = Append(chain, what),
           Len(chain') <= MaxHeight, tip' \in 0..Len(chain'), tip <= tip',
           scanned \subseteq scanned', scanned' \subseteq 1..tip',
           enhanced \subseteq enhanced', enhanced' \subseteq scanned'
    PROVE  SyncInv'
<1>0. /\ TypeOK /\ call \in CallType /\ Len(chain) \in Nat /\ SafeDepth \in Nat
      /\ tip \in Nat /\ tip <= Len(chain)
  BY HeightAssumption DEF SyncInv, TypeOK
<1>1. /\ chain' \in Seq(Memos) /\ Len(chain) <= Len(chain') /\ Len(chain') \in Nat
      /\ Readable \subseteq Readable'
  BY <1>0 DEF TypeOK, Readable
<1>2. TypeOK'
  BY <1>0, <1>1 DEF TypeOK
<1>3. Measured' /\ Asked'
  BY <1>1 DEF SyncInv, Measured, Asked
<1>4. SyncedReadComplete'
  <2> SUFFICES ASSUME call.pc = "done", call.how = "synced"
               PROVE  Confirmed(1..call.height, call.height, call.confs)' \subseteq call.view
    BY DEF SyncedReadComplete
  <2> DEFINE seen == Confirmed(1..call.height, call.height, call.confs)
  <2>1. seen \subseteq call.view
    BY DEF SyncInv, SyncedReadComplete
  <2>2. 1..call.height \subseteq 1..Len(chain)
    BY <1>0 DEF SyncInv, Measured, TypeOK, Readable
  <2>3. seen' = seen
    <3>1. \A h \in 1..Len(chain) : chain'[h] = chain[h]
      BY <1>0 DEF TypeOK
    <3> QED BY <2>2, <3>1 DEF Confirmed
  <2> QED BY <2>1, <2>3
<1>5. \A op : InForce(op)' => InForce(op)
  BY InForceKept
<1>6. EpochRespected'
  <2>1. /\ call'.pc = "ship" /\ call'.what = "write" => ~InForce("write")'
        /\ call'.pc = "done" => ~InForce("read")'
    BY <1>5 DEF SyncInv, EpochRespected
  <2>2. ASSUME call.how = "stopped"
        PROVE  \E h \in 1..tip' - SafeDepth : blocks(Version(1..h)', "sync")
    <3>1. PICK h \in 1..tip - SafeDepth : blocks(Version(1..h), "sync")
      BY <2>2 DEF SyncInv, EpochRespected
    <3>0. tip' \in Nat
      BY <1>1
    <3>2. h \in 1..tip' - SafeDepth /\ 1..h \subseteq 1..Len(chain)
      BY <1>0, <3>0, DeepHeights
    <3>3. Version(1..h)' = Version(1..h)
      BY <1>0, <3>2, SameChain, LongerChain
    <3> QED BY <3>1, <3>2, <3>3
  <2> QED BY <2>1, <2>2 DEF EpochRespected
<1>7. /\ call'.pc = "show" => ~InForce("read")'
      /\ promoted' = 0 \/ promoted' <= tip' - SafeDepth
  BY <1>0, <1>1, <1>5 DEF SyncInv, TypeOK
<1> QED BY <1>2, <1>3, <1>4, <1>6, <1>7 DEF SyncInv

\* A step of the call that shows and ships nothing yet.
LEMMA CallStep ==
    ASSUME SyncInv, UNCHANGED <<chain, Wallet, promoted>>,
           call' \in CallType, call'.view \in {call.view, {}}, call'.pc \notin {"show", "done"},
           call'.pc = "ship" => call'.what = "init",
           call'.how = "stopped" => \E h \in 1..tip - SafeDepth : blocks(Version(1..h), "sync"),
           Measured', Asked'
    PROVE  SyncInv'
<1>1. /\ chain' = chain /\ tip' = tip /\ scanned' = scanned /\ enhanced' = enhanced
      /\ promoted' = promoted
  BY DEF Wallet
<1>2. TypeOK'
  BY <1>1 DEF SyncInv, TypeOK, Readable
<1>3. EpochRespected'
  <2>1. \A h : Version(1..h)' = Version(1..h)
    BY <1>1, SameChain
  <2> QED BY <1>1, <2>1 DEF EpochRespected
<1> QED BY <1>1, <1>2, <1>3 DEF SyncInv, SyncedReadComplete

LEMMA IdleIsTyped == IdleCall \in CallType
BY DEF IdleCall, CallType

\* A directive that stops the scan is SAFE_DEPTH deep.
LEMMA BeginFacts ==
    ASSUME SyncInv, NEW what \in {"get", "roles"}, NEW c \in Nat, NEW t \in Nat
    PROVE  LET b == Begin(what, c, t)
           IN  /\ b \in CallType /\ b.what = what /\ b.confs = c /\ b.tol = t /\ b.view = {}
               /\ \/ b.pc \in {"check", "sync"} /\ b.how = "none"
                  \/ /\ b.pc = "load" /\ b.how = "stopped"
                     /\ \E h \in 1..tip - SafeDepth : blocks(Version(1..h), "sync")
<1> DEFINE i == [IdleCall EXCEPT !.what = what, !.confs = c, !.tol = t]
<1>0. tip \in Nat /\ promoted \in Nat /\ SafeDepth \in Nat
  BY HeightAssumption DEF SyncInv, TypeOK
<1>1. i \in CallType /\ i.what = what /\ i.confs = c /\ i.tol = t /\ i.view = {} /\ i.how = "none"
  BY IdleIsTyped DEF IdleCall, CallType
<1> HIDE DEF i
<1>2. CASE ~blocksync_skip
  BY <1>1, <1>2 DEF Begin, i, CallType
<1>3. CASE blocksync_skip
  <2>1. promoted \in 1..tip - SafeDepth /\ blocks(Version(1..promoted), "sync")
    <3>1. blocks(Version(1..promoted), "sync")
      BY <1>3 DEF blocksync_skip, cached_version
    <3>2. promoted # 0
      <4> SUFFICES ASSUME promoted = 0 PROVE FALSE
        OBVIOUS
      <4>1. VersionMemos(1..0) = {}
        BY DEF VersionMemos
      <4>2. Version(1..0) = "downgrade"
        BY <4>1 DEF Version
      <4> QED BY <3>1, <4>2 DEF blocks, Forbids
    <3> QED BY <1>0, <3>1, <3>2 DEF SyncInv
  <2>2. Begin(what, c, t) = [i EXCEPT !.pc = "load", !.how = "stopped", !.height = tip]
    BY <1>3 DEF Begin, i
  <2> QED BY <1>0, <1>1, <2>1, <2>2 DEF CallType
<1> QED BY <1>2, <1>3

LEMMA StartStep ==
    ASSUME SyncInv,
           \/ \E c \in Confs : StartGet(c) \/ StartRoles(c) \/ StartOffline(c)
           \/ StartMempool
           \/ \E no_sync \in BOOLEAN : StartWrite(no_sync)
           \/ StartInit \/ Return
    PROVE  SyncInv'
<1>1. CASE \E c \in Confs : StartGet(c) \/ StartRoles(c)
  <2>1. PICK c \in Confs, what \in {"get", "roles"} :
            LET t == IF what = "get" THEN read_tip_tolerance(c) ELSE NearTipTolerance
            IN  call' = Begin(what, c, t) /\ UNCHANGED <<chain, Wallet, promoted>>
    BY <1>1 DEF StartGet, StartRoles
  <2> DEFINE t == IF what = "get" THEN read_tip_tolerance(c) ELSE NearTipTolerance
  <2>2. c \in Nat /\ t \in Nat
    BY ConfsAssumption, HeightAssumption DEF read_tip_tolerance
  <2>3. call' = Begin(what, c, t) /\ UNCHANGED <<chain, Wallet, promoted>>
    BY <2>1
  <2>4. what = "get" => t = read_tip_tolerance(c)
    OBVIOUS
  <2> HIDE DEF t
  <2>5. /\ call' \in CallType /\ call'.what = what /\ call'.confs = c /\ call'.tol = t
        /\ call'.view = {}
        /\ \/ call'.pc \in {"check", "sync"} /\ call'.how = "none"
           \/ /\ call'.pc = "load" /\ call'.how = "stopped"
              /\ \E h \in 1..tip - SafeDepth : blocks(Version(1..h), "sync")
    <3> DEFINE b == Begin(what, c, t)
    <3>1. /\ b \in CallType /\ b.what = what /\ b.confs = c /\ b.tol = t /\ b.view = {}
          /\ \/ b.pc \in {"check", "sync"} /\ b.how = "none"
             \/ /\ b.pc = "load" /\ b.how = "stopped"
                /\ \E h \in 1..tip - SafeDepth : blocks(Version(1..h), "sync")
      BY <2>2, BeginFacts
    <3>2. call' = b
      BY <2>3
    <3> HIDE DEF b
    <3> QED BY <3>1, <3>2
  <2>6. Measured' /\ Asked'
    BY <2>4, <2>5 DEF Measured, Asked, read_tip_tolerance
  <2>7. /\ call'.how = "stopped" => \E h \in 1..tip - SafeDepth : blocks(Version(1..h), "sync")
        /\ call'.view \in {call.view, {}} /\ call'.pc \notin {"show", "done", "ship"}
    BY <2>5
  <2> QED BY <2>3, <2>5, <2>6, <2>7, CallStep
<1>2. CASE StartMempool
  <2> DEFINE b == Begin("roles", 0, 0)
  <2>1. /\ call' = IF b.pc = "check" THEN [b EXCEPT !.pc = "sync"] ELSE b
        /\ UNCHANGED <<chain, Wallet, promoted>>
    BY <1>2 DEF StartMempool
  <2>2. /\ b \in CallType /\ b.what = "roles" /\ b.view = {}
        /\ \/ b.pc \in {"check", "sync"} /\ b.how = "none"
           \/ /\ b.pc = "load" /\ b.how = "stopped"
              /\ \E h \in 1..tip - SafeDepth : blocks(Version(1..h), "sync")
    BY BeginFacts
  <2> HIDE DEF b
  <2>3. /\ call' \in CallType /\ call'.what = "roles" /\ call'.view = {}
        /\ \/ call'.pc = "sync" /\ call'.how = "none"
           \/ call'.pc = "load" /\ call'.how = "stopped"
        /\ call'.how = "stopped" => b.how = "stopped"
    BY <2>1, <2>2 DEF CallType
  <2>4. Measured' /\ Asked'
    BY <2>3 DEF Measured, Asked
  <2> QED BY <2>1, <2>2, <2>3, <2>4, CallStep
<1>3. CASE \/ \E c \in Confs : StartOffline(c)
           \/ \E no_sync \in BOOLEAN : StartWrite(no_sync)
           \/ StartInit \/ Return
  <2>1. /\ call' \in CallType /\ call'.view = {} /\ UNCHANGED <<chain, Wallet, promoted>>
        /\ call'.pc \in {"idle", "load", "sync", "check"} /\ call'.how \in {"none", "offline"}
        /\ call'.what = "init" => call'.how = "none" /\ call'.pc # "sync"
        /\ call'.what = "write" => call'.confs = 0 /\ call'.pc # "check"
        /\ call'.pc = "check" => call'.how = "none"
        /\ call'.pc = "check" => call'.what = "init"
    <3>1. CASE \E c \in Confs : StartOffline(c)
      BY <3>1, ConfsAssumption, IdleIsTyped DEF StartOffline, IdleCall, CallType
    <3>2. CASE \E no_sync \in BOOLEAN : StartWrite(no_sync)
      BY <3>2, IdleIsTyped DEF StartWrite, IdleCall, CallType
    <3>3. CASE StartInit
      BY <3>3, IdleIsTyped DEF StartInit, IdleCall, CallType
    <3>4. CASE Return
      BY <3>4, IdleIsTyped DEF Return, IdleCall
    <3> QED BY <1>3, <3>1, <3>2, <3>3, <3>4
  <2>2. Measured' /\ Asked'
    BY <2>1 DEF Measured, Asked
  <2> QED BY <2>1, <2>2, CallStep
<1> QED BY <1>1, <1>2, <1>3

\* The skip rule, the barrier and the INIT gate.
LEMMA DecideStep ==
    ASSUME SyncInv, CheckWallet \/ AskServer \/ SyncDone \/ SyncFails \/ AskGate
    PROVE  SyncInv'
<1>0. /\ call \in CallType /\ Measured /\ Asked /\ tip \in Nat /\ Len(chain) \in Nat
      /\ call.how = "stopped" => \E h \in 1..tip - SafeDepth : blocks(Version(1..h), "sync")
  BY DEF SyncInv, TypeOK, EpochRespected
<1>1. CASE CheckWallet
  <2>1. UNCHANGED <<chain, Wallet, promoted>> /\ scanned' = scanned /\ Readable' = Readable
    BY <1>1 DEF CheckWallet, Wallet, Readable
  <2>2. /\ call' \in CallType /\ call'.view = call.view /\ call'.how = call.how
        /\ call'.what = call.what /\ call'.confs = call.confs /\ call'.tol = call.tol
        /\ call'.rpc = call.rpc /\ call'.height = call.height /\ call.pc = "check"
        /\ \/ call'.pc = "ask" /\ call'.wtip = tip /\ scanned = 1..tip
           \/ call'.pc = "refused" /\ call'.wtip = call.wtip
           \/ call'.pc = "sync" /\ call'.wtip = call.wtip /\ call.what # "init"
    BY <1>0, <1>1 DEF CheckWallet, CallType
  <2>3. Measured' /\ Asked'
    <3>1. Measured'
      BY <1>0, <2>1, <2>2 DEF Measured, Asked
    <3>2. Asked'
      BY <1>0, <2>2 DEF Asked
    <3> QED BY <3>1, <3>2
  <2> QED BY <1>0, <2>1, <2>2, <2>3, CallStep
<1>2. CASE AskServer
  <2>1. UNCHANGED <<chain, Wallet, promoted>> /\ scanned' = scanned /\ Readable' = Readable
    BY <1>2 DEF AskServer, Wallet, Readable
  <2>2. /\ call' \in CallType /\ call'.view = call.view /\ call.what # "init" /\ call.pc = "ask"
        /\ call'.what = call.what /\ call'.confs = call.confs /\ call'.tol = call.tol
        /\ call'.wtip = call.wtip
        /\ \/ /\ call'.pc = "load" /\ call'.how = "skipped" /\ call'.rpc - call'.wtip <= call'.tol
           \/ /\ call'.pc = "sync" /\ call'.how = call.how /\ call'.rpc = call.rpc
              /\ call'.height = call.height
    BY <1>0, <1>2 DEF AskServer, CallType
  <2>3. Measured' /\ Asked'
    BY <1>0, <2>1, <2>2 DEF Measured, Asked
  <2> QED BY <1>0, <2>1, <2>2, <2>3, CallStep
<1>3. CASE SyncDone
  <2>1. /\ UNCHANGED <<chain, Wallet, promoted>> /\ Readable' = Readable
        /\ scanned = 1..tip /\ Readable = 1..tip
    BY <1>3 DEF SyncDone, Wallet, Readable
  <2>2. /\ call' \in CallType /\ call'.view = call.view /\ call.pc = "sync"
        /\ call'.what = call.what /\ call'.confs = call.confs
        /\ call'.pc = "load" /\ call'.how = "synced" /\ call'.height = tip
    BY <1>0, <1>3 DEF SyncDone, CallType
  <2>3. Measured' /\ Asked'
    BY <1>0, <2>1, <2>2 DEF Measured, Asked
  <2> QED BY <1>0, <2>1, <2>2, <2>3, CallStep
<1>4. CASE SyncFails
  <2>1. UNCHANGED <<chain, Wallet, promoted>>
    BY <1>4 DEF SyncFails
  <2>2. /\ call' \in CallType /\ call'.view \in {call.view, {}}
        /\ \/ call'.pc = "idle" /\ call'.how = "none" /\ call'.what = "get"
           \/ call'.pc = "load" /\ call'.how = "cancelled" /\ call'.what = "roles"
    <3>1. CASE call' = IdleCall
      BY <3>1, IdleIsTyped DEF IdleCall
    <3>2. CASE call' = [call EXCEPT !.pc = "load", !.how = "cancelled", !.height = tip]
               /\ call.what = "roles"
      BY <1>0, <3>2 DEF CallType
    <3> QED BY <1>4, <3>1, <3>2 DEF SyncFails
  <2>3. Measured' /\ Asked'
    BY <2>2 DEF Measured, Asked
  <2> QED BY <2>1, <2>2, <2>3, CallStep
<1>5. CASE AskGate
  <2>1. UNCHANGED <<chain, Wallet, promoted>> /\ scanned' = scanned /\ Readable' = Readable
    BY <1>5 DEF AskGate, Wallet, Readable
  <2>2. /\ call' \in CallType /\ call'.view = call.view /\ call.what = "init" /\ call.pc = "ask"
        /\ call'.what = "init" /\ call'.wtip = call.wtip /\ call'.how = call.how
        /\ call'.pc \in {"ship", "refused"}
        /\ call'.pc = "ship" => call'.rpc - call'.wtip <= NearTipTolerance
    BY <1>0, <1>5 DEF AskGate, CallType
  <2>3. Measured' /\ Asked'
    BY <1>0, <2>1, <2>2 DEF Measured, Asked
  <2> QED BY <1>0, <2>1, <2>2, <2>3, CallStep
<1> QED BY <1>1, <1>2, <1>3, <1>4, <1>5

\* A load sees at least the VERSION memos that were deep enough at the height its call
\* synced to, so it refuses under an epoch in force.
LEMMA LoadSeesEpoch ==
    ASSUME SyncInv, NEW op, InForce(op), NEW c \in Nat, c <= call.confs \/ (c = 1 /\ call.confs = 0)
    PROVE  Version(Confirmed(Readable, tip, c)) = Version(Confirmed(1..call.height, call.height, call.confs))
<1> DEFINE seen == Confirmed(1..call.height, call.height, call.confs)
           view == Confirmed(Readable, tip, c)
<1>1. /\ call.how = "synced" /\ call.height \in Nat /\ call.confs \in Nat /\ tip \in Nat
      /\ 1..call.height \subseteq Readable /\ Readable \subseteq 1..tip /\ tip <= Len(chain)
      /\ Len(chain) \in Nat /\ VersionMemos(1..Len(chain)) \subseteq seen
  BY DEF InForce, SyncInv, Measured, TypeOK, CallType, Readable
<1>2. call.height <= tip
  BY <1>1
<1>3. seen \subseteq view
  BY <1>1, <1>2 DEF Confirmed, Threshold
<1>4. VersionMemos(view) \subseteq VersionMemos(seen)
  <2> SUFFICES ASSUME NEW h \in VersionMemos(view) PROVE h \in VersionMemos(seen)
    OBVIOUS
  <2>1. view \subseteq 1..Len(chain)
    <3>1. view \subseteq Readable /\ \A k \in 1..tip : k \in 1..Len(chain)
      BY <1>1 DEF Confirmed
    <3> QED BY <1>1, <3>1, Zenon
  <2>2. h \in VersionMemos(1..Len(chain))
    BY <2>1, VersionMemosGrow
  <2>3. h \in seen /\ chain[h] \in Epochs
    BY <1>1, <2>2 DEF VersionMemos
  <2>4. PICK i \in view : i < h /\ chain[i] = "INIT"
    BY DEF VersionMemos
  <2>5. i \in seen
    BY <1>1, <2>1, <2>3, <2>4 DEF Confirmed, Threshold
  <2> HIDE DEF seen
  <2> QED BY <2>3, <2>4, <2>5 DEF VersionMemos
<1> HIDE DEF seen, view
<1>5. VersionMemos(view) = VersionMemos(seen)
  BY <1>3, <1>4, VersionMemosGrow
<1> QED BY <1>5, SameEpoch DEF seen, view

\* A load with its promotion, on behalf of a call that goes on as the step says.
LEMMA LoadFrame ==
    ASSUME SyncInv, Promote, UNCHANGED <<chain, Wallet>>,
           call' \in CallType, call'.view \subseteq 1..Len(chain),
           call'.what = call.what, call'.confs = call.confs, call'.tol = call.tol,
           call'.wtip = call.wtip, call'.rpc = call.rpc, call'.how = call.how,
           call'.height = call.height, call.pc \in {"load", "show"},
           call'.pc \in {"show", "done", "ship", "refused"},
           call'.pc = "ship" => call.what = "write" /\ ~InForce("write"),
           call'.pc \in {"show", "done"} => ~InForce("read"),
           call'.pc = "done" => call'.view = Confirmed(Readable, tip, call.confs)
    PROVE  SyncInv'
<1>0. /\ chain' = chain /\ tip' = tip /\ scanned' = scanned /\ enhanced' = enhanced
      /\ Readable' = Readable /\ call \in CallType /\ TypeOK /\ tip \in Nat
  BY DEF Wallet, Readable, SyncInv, TypeOK
<1>1. /\ promoted' \in Nat /\ 1..promoted' \subseteq Readable
      /\ promoted' = 0 \/ promoted' <= tip - SafeDepth
  BY PromoteFacts DEF SyncInv
<1>2. TypeOK'
  BY <1>0, <1>1 DEF TypeOK
<1>3. Measured' /\ Asked'
  <2>1. Measured'
    BY <1>0 DEF SyncInv, Measured, Asked
  <2>2. Asked'
    BY DEF SyncInv, Asked
  <2> QED BY <2>1, <2>2
<1>4. \A op : InForce(op)' = InForce(op)
  BY <1>0 DEF InForce, Version, VersionMemos, Confirmed
<1>5. SyncedReadComplete'
  <2> SUFFICES ASSUME call'.pc = "done", call.how = "synced"
               PROVE  Confirmed(1..call.height, call.height, call.confs)' \subseteq call'.view
    BY DEF SyncedReadComplete
  <2>1. /\ 1..call.height \subseteq Readable /\ Readable \subseteq 1..tip
        /\ call.height \in Nat /\ call.confs \in Nat
    BY <1>0 DEF SyncInv, Measured, TypeOK, Readable, CallType
  <2>2. call.height <= tip
    BY <1>0, <2>1
  <2>3. Confirmed(1..call.height, call.height, call.confs) \subseteq call'.view
    BY <1>0, <2>1, <2>2, DeeperConfirms
  <2>4. Confirmed(1..call.height, call.height, call.confs)'
            = Confirmed(1..call.height, call.height, call.confs)
    BY <1>0 DEF Confirmed
  <2> QED BY <2>3, <2>4
<1>6. EpochRespected'
  <2>1. \A h : Version(1..h)' = Version(1..h)
    BY <1>0, SameChain
  <2> QED BY <1>0, <1>4, <2>1 DEF SyncInv, EpochRespected
<1> QED BY <1>0, <1>1, <1>2, <1>3, <1>4, <1>5, <1>6 DEF SyncInv

LEMMA LoadStep == ASSUME SyncInv, Load \/ Show \/ Prepare PROVE SyncInv'
<1> DEFINE view == Confirmed(Readable, tip, call.confs)
<1>0. /\ call \in CallType /\ call.confs \in Nat
      /\ view \subseteq 1..Len(chain) /\ view \subseteq Nat /\ Readable \subseteq Nat
  <2>1. view \subseteq Readable /\ Readable \subseteq 1..tip /\ tip \in Nat
    BY DEF SyncInv, TypeOK, Readable, Confirmed
  <2>2. \A k \in 1..tip : k \in 1..Len(chain) /\ k \in Nat
    BY DEF SyncInv, TypeOK
  <2> HIDE DEF view
  <2>3. view \subseteq 1..Len(chain) /\ view \subseteq Nat /\ Readable \subseteq Nat
    BY <2>1, <2>2, Zenon
  <2> QED BY <2>3 DEF SyncInv, TypeOK, CallType
<1>1. CASE Load
  <2>1. ~blocks(Version(view), "read") => ~InForce("read")
    <3> SUFFICES ASSUME InForce("read") PROVE blocks(Version(view), "read")
      OBVIOUS
    <3>1. Version(view) = Version(Confirmed(1..call.height, call.height, call.confs))
      <4>1. call.confs \in Nat /\ call.confs <= call.confs
        BY <1>0
      <4> QED BY <4>1, LoadSeesEpoch, Zenon
    <3> QED BY <3>1 DEF InForce
  <2> HIDE DEF view
  <2>2. /\ UNCHANGED <<chain, Wallet>> /\ Promote /\ call.pc = "load"
        /\ \/ call' = [call EXCEPT !.pc = "refused"]
           \/ /\ ~blocks(Version(view), "read")
              /\ \/ call' = [call EXCEPT !.pc = "show"]
                 \/ call' = [call EXCEPT !.pc = "done", !.rows = Readable, !.view = view]
    BY <1>1 DEF Load, view
  <2>3. /\ call' \in CallType /\ call'.view \in {call.view, view}
        /\ call'.what = call.what /\ call'.confs = call.confs /\ call'.tol = call.tol
        /\ call'.wtip = call.wtip /\ call'.rpc = call.rpc /\ call'.how = call.how
        /\ call'.height = call.height
        /\ call'.pc \in {"show", "done", "refused"}
        /\ call'.pc = "done" => call'.view = view
        /\ call'.pc \in {"show", "done"} => ~blocks(Version(view), "read")
    BY <1>0, <2>2 DEF CallType
  <2>4. call'.view \subseteq 1..Len(chain)
    BY <1>0, <2>3 DEF SyncInv, TypeOK
  <2> QED BY <2>1, <2>2, <2>3, <2>4, LoadFrame DEF view
<1>2. CASE Show
  <2>1. ~InForce("read")
    BY <1>2 DEF Show, SyncInv
  <2> HIDE DEF view
  <2>2. /\ UNCHANGED <<chain, Wallet>> /\ Promote /\ call.pc = "show"
        /\ call' = [call EXCEPT !.pc = "done", !.rows = Readable, !.view = view]
    BY <1>2 DEF Show, view
  <2>3. /\ call' \in CallType /\ call'.view = view
        /\ call'.what = call.what /\ call'.confs = call.confs /\ call'.tol = call.tol
        /\ call'.wtip = call.wtip /\ call'.rpc = call.rpc /\ call'.how = call.how
        /\ call'.height = call.height /\ call'.pc = "done"
    BY <1>0, <2>2 DEF CallType
  <2> QED BY <1>0, <2>1, <2>2, <2>3, LoadFrame DEF view
<1>3. CASE Prepare
  <2>0. call.what = "write" /\ call.confs = 0
    BY <1>3 DEF Prepare, SyncInv, Asked
  <2>1. ~blocks(WriteEpoch, "write") => ~InForce("write")
    BY <2>0, LoadSeesEpoch DEF InForce, WriteEpoch
  <2>2. /\ UNCHANGED <<chain, Wallet>> /\ Promote /\ call.pc = "load"
        /\ \/ call' = [call EXCEPT !.pc = "refused"]
           \/ call' = [call EXCEPT !.pc = "ship"] /\ ~blocks(WriteEpoch, "write")
    BY <1>3 DEF Prepare
  <2>3. /\ call' \in CallType /\ call'.view = call.view
        /\ call'.what = call.what /\ call'.confs = call.confs /\ call'.tol = call.tol
        /\ call'.wtip = call.wtip /\ call'.rpc = call.rpc /\ call'.how = call.how
        /\ call'.height = call.height /\ call'.pc \in {"ship", "refused"}
        /\ call'.pc = "ship" => ~blocks(WriteEpoch, "write")
    BY <1>0, <2>2 DEF CallType
  <2>4. call'.view \subseteq 1..Len(chain)
    BY <2>3 DEF SyncInv, TypeOK
  <2> QED BY <2>0, <2>1, <2>2, <2>3, <2>4, LoadFrame
<1> QED BY <1>1, <1>2, <1>3

-----------------------------------------------------------------------------
(* The theorems.                                                           *)

LEMMA SyncInvInit == Init => SyncInv
<1> SUFFICES ASSUME Init PROVE SyncInv
  OBVIOUS
<1>1. /\ call \in CallType /\ call.pc = "idle" /\ call.how = "none" /\ call.what = "get"
      /\ call.view = {}
  BY IdleIsTyped DEF Init, IdleCall
<1>2. /\ chain = << >> /\ Len(chain) = 0 /\ chain \in Seq(Memos) /\ MaxHeight \in Nat
      /\ tip = 0 /\ scanned = {} /\ enhanced = {} /\ promoted = 0 /\ 1..0 = {}
  BY HeightAssumption DEF Init
<1>3. TypeOK
  BY <1>1, <1>2 DEF TypeOK
<1> QED BY <1>1, <1>2, <1>3
     DEF SyncInv, Measured, Asked, SyncedReadComplete, EpochRespected

LEMMA SyncInvStep == SyncInv /\ [Next]_vars => SyncInv'
<1> SUFFICES ASSUME SyncInv, [Next]_vars PROVE SyncInv'
  OBVIOUS
<1>0. /\ TypeOK /\ Len(chain) \in Nat /\ tip \in Nat /\ tip <= Len(chain)
      /\ Len(chain) <= MaxHeight /\ MaxHeight \in Nat
      /\ scanned \subseteq 1..tip /\ enhanced \subseteq scanned
  BY HeightAssumption DEF SyncInv, TypeOK
<1>1. ASSUME NEW what \in Memos, Mine(what) PROVE SyncInv'
  <2>1. /\ chain' = Append(chain, what) /\ Len(chain') = Len(chain) + 1
        /\ call' = call /\ promoted' = promoted /\ tip' = tip /\ scanned' = scanned
        /\ enhanced' = enhanced /\ Len(chain) < MaxHeight
    BY <1>0, <1>1 DEF Mine, Wallet, TypeOK
  <2>2. Len(chain') <= MaxHeight /\ tip' \in 0..Len(chain') /\ tip <= tip'
    BY <1>0, <2>1
  <2> QED BY <1>0, <2>1, <2>2, WalletStep
<1>2. ASSUME \/ UNCHANGED vars \/ NodeStart \/ UpdateTip \/ NodeStop
             \/ \E h \in 1..MaxHeight : ScanBlock(h) \/ Enhance(h)
      PROVE  SyncInv'
  <2>1. /\ chain' = chain /\ call' = call /\ promoted' = promoted
        /\ tip' \in {tip, Len(chain)}
        /\ \/ scanned' = scanned
           \/ \E h \in 1..tip : scanned' = scanned \cup {h} /\ tip' = tip
        /\ enhanced' = enhanced \/ \E h \in scanned : enhanced' = enhanced \cup {h}
    BY <1>2 DEF vars, NodeStart, UpdateTip, NodeStop, ScanBlock, Enhance
  <2>2. tip' \in 0..Len(chain') /\ tip <= tip' /\ Len(chain') <= MaxHeight
    BY <1>0, <2>1
  <2>3. /\ scanned \subseteq scanned' /\ scanned' \subseteq 1..tip'
        /\ enhanced \subseteq enhanced' /\ enhanced' \subseteq scanned'
    <3>1. 1..tip \subseteq 1..tip'
      BY <1>0, <2>1
    <3> QED BY <1>0, <2>1, <3>1
  <2> QED BY <2>1, <2>2, <2>3, WalletStep
<1> QED BY <1>1, <1>2, StartStep, DecideStep, LoadStep DEF Next

\* A skipped scan hides no block the read could confirm, and a read that synced is
\* complete (read_sync_skippable, sync_wallet, load_state), for any chain, any depths
\* asked for and any tolerance, with a node of any process scanning, stopping or being
\* killed between any two steps.
THEOREM ReadsComplete == Spec => []ReadComplete
<1>1. SyncInv => ReadComplete
  <2> SUFFICES ASSUME SyncInv PROVE SkipHidesNoDeepBlock
    BY DEF SyncInv, ReadComplete
  <2> SUFFICES ASSUME call.how = "skipped", NEW h \in 1..call.rpc,
                      (call.rpc - h) + 1 >= call.confs,
                      call.what = "roles" => call.rpc - h >= call.tol
               PROVE  h \in scanned
    BY DEF SkipHidesNoDeepBlock
  <2>1. /\ call.rpc \in Nat /\ call.wtip \in Nat /\ call.tol \in Nat /\ call.confs \in Nat
        /\ call.what \in {"get", "roles", "init", "write"}
    BY DEF SyncInv, TypeOK, CallType
  <2>2. 1..call.wtip \subseteq scanned /\ call.rpc - call.wtip <= call.tol
    BY DEF SyncInv, Measured
  <2>3. call.rpc - h >= call.tol
    BY <2>1 DEF SyncInv, Asked, read_tip_tolerance
  <2>4. h \in 1..call.wtip
    BY <2>1, <2>2, <2>3
  <2> QED BY <2>2, <2>4
<1> QED BY <1>1, SyncInvInit, SyncInvStep, PTL DEF Spec

\* The gates let nothing through that the chain they synced forbids
\* (wallet_synced_to_tip, gate_read, ensure_client_supported, blocksync_skip): INIT is
\* re-broadcast only from a wallet that has scanned all but the last NEAR_TIP_TOLERANCE
\* blocks, no call that synced reads or writes under an epoch that forbids it, and only a
\* directive SAFE_DEPTH deep stops the scan, for any chain of VERSION memos.
THEOREM GatesAlwaysHold == Spec => []GatesHold
<1>1. SyncInv => GatesHold
  <2> SUFFICES ASSUME SyncInv PROVE GateScannedAllButTip
    BY DEF SyncInv, GatesHold
  <2> SUFFICES ASSUME call.pc = "ship", call.what = "init",
                      NEW h \in 1..(call.rpc - NearTipTolerance)
               PROVE  h \in scanned
    BY DEF GateScannedAllButTip
  <2>1. call.rpc \in Nat /\ call.wtip \in Nat /\ NearTipTolerance \in Nat
    BY HeightAssumption DEF SyncInv, TypeOK, CallType
  <2>2. 1..call.wtip \subseteq scanned /\ call.rpc - call.wtip <= NearTipTolerance
    BY DEF SyncInv, Measured
  <2>3. h \in 1..call.wtip
    BY <2>1, <2>2
  <2> QED BY <2>2, <2>3
<1> QED BY <1>1, SyncInvInit, SyncInvStep, PTL DEF Spec

=============================================================================
