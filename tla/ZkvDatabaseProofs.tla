-------------------------- MODULE ZkvDatabaseProofs --------------------------
(***************************************************************************)
(* Theorems of ZkvSnapshot and ZkvWriter: what a database reads through    *)
(* its cache and what it writes, for every value of the constants.         *)
(***************************************************************************)
EXTENDS ZkvSnapshot, ZkvWriter, ZkvProtocolProofs

-----------------------------------------------------------------------------
(* The snapshot cache.                                                     *)

\* Folding a batch in promote either leaves the store alone or leaves an INIT in it.
LEMMA PromoteKeepsGenesis ==
    ASSUME NEW s, NEW batch
    PROVE  promote(s, batch).db.init = "Uninitialized" => promote(s, batch) = s
<1> DEFINE folded == apply_rows(s.db, batch)
           moved  == [db |-> folded, wm |-> LastOf(batch), tables |-> "all"]
<1>1. promote(s, batch) = IF DOMAIN batch = {} \/ folded.init = "Uninitialized" THEN s ELSE moved
  BY DEF promote
<1>2. moved.db = folded
  OBVIOUS
<1> HIDE DEF folded, moved
<1>3. QED
  BY <1>1, <1>2

\* Opening the store wipes a buried one and otherwise keeps it.
LEMMA OpenKeepsGenesis ==
    ASSUME NEW r, OpenSnapshot(r)
    PROVE  GenesisNotBuried
<1>1. snap' = FreshSnapshot \/ snap' = snap
  BY DEF OpenSnapshot
<1>2. FreshSnapshot.wm = 0
  BY DEF FreshSnapshot
<1>3. QED
  BY <1>1, <1>2 DEF GenesisNotBuried

\* Every step keeps genesis safety.
LEMMA StepKeepsGenesis == [Next]_vars => GenesisNotBuried
<1> SUFFICES ASSUME [Next]_vars, snap' # snap
             PROVE  GenesisNotBuried
  BY DEF GenesisNotBuried
<1>1. PICK r \in Readers : OpenSnapshot(r) \/ Promote(r) \/ KillInWipe(r)
  <2>1. Next
    BY DEF vars
  <2>2. QED
    BY <2>1 DEF Next, Mine, SeeUnmined, UpdateTip, DropUnmined, ScanBlock, Enhance, Rewind,
                Reorg, ReadTip, ScanMemos, ReadFloor, Replay, Fail, Return
<1>2. CASE OpenSnapshot(r)
  BY <1>2, OpenKeepsGenesis
<1>3. CASE Promote(r)
  <2>1. snap' = promote(snap, Promotable(r))
    BY <1>3 DEF Promote
  <2>2. QED
    BY <2>1, PromoteKeepsGenesis DEF GenesisNotBuried
<1>4. CASE KillInWipe(r)
  <2>1. snap' = [snap EXCEPT !.tables = "some"] \/ snap' = [FreshSnapshot EXCEPT !.tables = "none"]
    BY <1>4 DEF KillInWipe
  <2>2. CASE snap' = [snap EXCEPT !.tables = "some"]
    BY <2>2 DEF GenesisNotBuried
  <2>3. CASE snap' = [FreshSnapshot EXCEPT !.tables = "none"]
    BY <2>3 DEF GenesisNotBuried, FreshSnapshot
  <2>4. QED
    BY <2>1, <2>2, <2>3
<1>5. QED
  BY <1>1, <1>2, <1>3, <1>4

\* Genesis safety (promote's early return and the wipe of a buried store): with
\* any number of readers racing the node, no step moves the watermark while no
\* INIT has been promoted.
THEOREM GenesisSafety == Spec => NeverBuriesGenesis
<1>1. [Next]_vars => [GenesisNotBuried]_vars
  BY StepKeepsGenesis
<1>2. QED
  BY <1>1, PTL DEF Spec, NeverBuriesGenesis

-----------------------------------------------------------------------------
(* The replay loop, as a recursion over heights.                           *)

JudgedOK(j) ==
    /\ DOMAIN j \subseteq 1..MaxHeight
    /\ \A h \in DOMAIN j : j[h].memo \in Memo /\ j[h].status \in Status

\* One iteration of the loop.
FoldAt(j, h, d) == IF h \in DOMAIN j THEN Fold(d, j[h].memo, j[h].status) ELSE d

LEMMA FoldAtTyped ==
    ASSUME NEW j, JudgedOK(j), NEW h, NEW d \in Database
    PROVE  FoldAt(j, h, d) \in Database
BY FoldFacts DEF FoldAt, JudgedOK, FoldStep

\* The loop is defined at every height, and each height takes one step.
LEMMA FoldToRec ==
    ASSUME NEW seed \in Database, NEW j, JudgedOK(j)
    PROVE  /\ FoldTo(seed, j) \in [0..MaxHeight -> Database]
           /\ FoldTo(seed, j)[0] = seed
           /\ \A h \in 1..MaxHeight : FoldTo(seed, j)[h] = FoldAt(j, h, FoldTo(seed, j)[h - 1])
<1> DEFINE Loop(f) == f = [h \in 0..MaxHeight |->
                              IF h = 0 THEN seed
                              ELSE IF h \in DOMAIN j THEN Fold(f[h - 1], j[h].memo, j[h].status)
                              ELSE f[h - 1]]
           step == [x \in (1..MaxHeight) \X Database |-> FoldAt(j, x[1], x[2])]
<1>m. MaxHeight \in Nat
  BY BoundsAssumption
<1>1. step \in [(1..MaxHeight) \X Database -> Database]
  BY FoldAtTyped
<1> HIDE DEF step
<1>2. PICK g : Iterates(g, MaxHeight, Database, seed, step)
  BY <1>m, <1>1, RecursionExists, Zenon
<1>3. ASSUME NEW h \in 1..MaxHeight
      PROVE  g[h] = FoldAt(j, h, g[h - 1])
  <2>1. g[h] = step[<<h, g[h - 1]>>] /\ g[h - 1] \in Database
    BY <1>2, <1>m DEF Iterates
  <2>2. step[<<h, g[h - 1]>>] = FoldAt(j, h, g[h - 1])
    BY <2>1 DEF step
  <2> QED BY <2>1, <2>2
<1>4. Loop(g)
  BY <1>2, <1>3, <1>m DEF FoldAt, Iterates
<1> DEFINE f == CHOOSE x : Loop(x)
<1>5. FoldTo(seed, j) = f
  BY Zenon DEF FoldTo
<1>6. Loop(f)
  <2> HIDE DEF Loop
  <2> QED BY <1>4, Zenon
<1> HIDE DEF f
<1>7. f[0] = seed /\ \A h \in 1..MaxHeight : f[h] = FoldAt(j, h, f[h - 1])
  BY <1>6, <1>m DEF FoldAt
<1>8. \A h \in 0..MaxHeight : f[h] \in Database
  <2> DEFINE S == {n \in Nat : n <= MaxHeight => f[n] \in Database}
  <2>1. 0 \in S
    BY <1>7
  <2>2. ASSUME NEW n \in Nat, n \in S PROVE n + 1 \in S
    <3> SUFFICES ASSUME n + 1 <= MaxHeight PROVE f[n + 1] \in Database
      OBVIOUS
    <3>1. f[n] \in Database
      BY <2>2, <1>m
    <3>2. f[n + 1] = FoldAt(j, n + 1, f[n])
      BY <1>7, <1>m
    <3> QED BY <3>1, <3>2, FoldAtTyped
  <2> HIDE DEF S
  <2>3. \A n \in Nat : n \in S
    BY <2>1, <2>2, NatSetInduction
  <2> QED BY <2>3, <1>m DEF S
<1>9. f \in [0..MaxHeight -> Database]
  BY <1>6, <1>8
<1> QED BY <1>5, <1>7, <1>9

\* Two loops that agree at some height and have the same rows above it, up to another,
\* agree in between.
LEMMA FoldToAgree ==
    ASSUME NEW s1 \in Database, NEW s2 \in Database, NEW j1, NEW j2,
           JudgedOK(j1), JudgedOK(j2), NEW a \in 0..MaxHeight, NEW b \in a..MaxHeight,
           FoldTo(s1, j1)[a] = FoldTo(s2, j2)[a],
           \A h \in (a + 1)..b : /\ h \in DOMAIN j1 <=> h \in DOMAIN j2
                                 /\ h \in DOMAIN j1 => j1[h] = j2[h]
    PROVE  FoldTo(s1, j1)[b] = FoldTo(s2, j2)[b]
<1> DEFINE f == FoldTo(s1, j1)
           g == FoldTo(s2, j2)
           S == {n \in Nat : a + n <= b => f[a + n] = g[a + n]}
<1>m. MaxHeight \in Nat
  BY BoundsAssumption
<1>1. \A h \in 1..MaxHeight : f[h] = FoldAt(j1, h, f[h - 1]) /\ g[h] = FoldAt(j2, h, g[h - 1])
  BY FoldToRec
<1>2. f[a] = g[a]
  OBVIOUS
<1> HIDE DEF f, g
<1>3. 0 \in S
  BY <1>2
<1>4. ASSUME NEW n \in Nat, n \in S PROVE n + 1 \in S
  <2> SUFFICES ASSUME a + n + 1 <= b PROVE f[a + n + 1] = g[a + n + 1]
    OBVIOUS
  <2> DEFINE h == a + n + 1
  <2>1. h \in 1..MaxHeight /\ h \in (a + 1)..b /\ h - 1 = a + n
    BY <1>m
  <2>2. f[h - 1] = g[h - 1]
    BY <1>4, <1>m, <2>1
  <2> HIDE DEF h
  <2>3. f[h] = g[h]
    BY <1>1, <2>1, <2>2 DEF FoldAt
  <2> QED BY <2>3 DEF h
<1> HIDE DEF S
<1>5. \A n \in Nat : n \in S
  BY <1>3, <1>4, NatSetInduction
<1>6. b - a \in Nat /\ a + (b - a) = b
  BY <1>m
<1>7. f[b] = g[b]
  <2>1. b - a \in S
    BY <1>5, <1>6
  <2>2. a + (b - a) <= b => f[a + (b - a)] = g[a + (b - a)]
    BY <2>1 DEF S
  <2>3. b <= b
    BY <1>m
  <2> QED BY <1>6, <2>2, <2>3
<1> QED BY <1>7 DEF f, g

\* A stretch of heights without rows changes nothing.
LEMMA FoldToSkips ==
    ASSUME NEW s \in Database, NEW j, JudgedOK(j),
           NEW a \in 0..MaxHeight, NEW b \in a..MaxHeight,
           \A h \in (a + 1)..b : h \notin DOMAIN j
    PROVE  FoldTo(s, j)[b] = FoldTo(s, j)[a]
<1> DEFINE f == FoldTo(s, j)
           S == {n \in Nat : a + n <= b => f[a + n] = f[a]}
<1>m. MaxHeight \in Nat
  BY BoundsAssumption
<1>1. \A h \in 1..MaxHeight : f[h] = FoldAt(j, h, f[h - 1])
  BY FoldToRec
<1> HIDE DEF f
<1>2. 0 \in S
  OBVIOUS
<1>3. ASSUME NEW n \in Nat, n \in S PROVE n + 1 \in S
  <2> SUFFICES ASSUME a + n + 1 <= b PROVE f[a + n + 1] = f[a]
    OBVIOUS
  <2> DEFINE h == a + n + 1
  <2>1. h \in 1..MaxHeight /\ h \in (a + 1)..b /\ h - 1 = a + n
    BY <1>m
  <2>2. f[h - 1] = f[a]
    BY <1>3, <1>m, <2>1
  <2> HIDE DEF h
  <2>3. f[h] = f[a]
    BY <1>1, <2>1, <2>2 DEF FoldAt
  <2> QED BY <2>3 DEF h
<1> HIDE DEF S
<1>4. \A n \in Nat : n \in S
  BY <1>2, <1>3, NatSetInduction
<1>5. b - a \in Nat /\ a + (b - a) = b
  BY <1>m
<1>6. f[b] = f[a]
  BY <1>4, <1>5 DEF S
<1> QED BY <1>6 DEF f

\* Folding the rows up to a height and then the others folds them all.
LEMMA FoldSplit ==
    ASSUME NEW s \in Database, NEW j, NEW lo, NEW hi, NEW c \in 0..MaxHeight,
           JudgedOK(j), JudgedOK(lo), JudgedOK(hi),
           DOMAIN lo = DOMAIN j \cap 1..c, DOMAIN hi = DOMAIN j \ 1..c,
           \A h \in DOMAIN lo : lo[h] = j[h],
           \A h \in DOMAIN hi : hi[h] = j[h]
    PROVE  FoldMined(FoldMined(s, lo), hi) = FoldMined(s, j)
<1>m. MaxHeight \in Nat /\ 0 \in 0..MaxHeight /\ MaxHeight \in c..MaxHeight /\ c \in 0..MaxHeight
  BY BoundsAssumption
<1> DEFINE d == FoldMined(s, lo)
<1>1. FoldTo(s, lo)[0] = s /\ FoldTo(s, j)[0] = s /\ d \in Database
  BY FoldToRec, <1>m DEF FoldMined
<1>2. FoldTo(s, lo)[c] = FoldTo(s, j)[c]
  BY <1>1, <1>m, FoldToAgree
<1>3. d = FoldTo(s, lo)[c]
  <2>1. \A h \in (c + 1)..MaxHeight : h \notin DOMAIN lo
    OBVIOUS
  <2> QED BY <2>1, <1>m, FoldToSkips DEF FoldMined
<1> HIDE DEF d
<1>4. FoldTo(d, hi)[c] = d
  <2>1. \A h \in 1..c : h \notin DOMAIN hi
    OBVIOUS
  <2>2. FoldTo(d, hi)[0] = d
    BY <1>1, FoldToRec
  <2>3. FoldTo(d, hi)[c] = FoldTo(d, hi)[0]
    BY <2>1, <1>1, <1>m, FoldToSkips
  <2> QED BY <2>2, <2>3
<1>5. \A h \in (c + 1)..MaxHeight : /\ h \in DOMAIN hi <=> h \in DOMAIN j
                                    /\ h \in DOMAIN hi => hi[h] = j[h]
  OBVIOUS
<1>6. FoldTo(d, hi)[MaxHeight] = FoldTo(s, j)[MaxHeight]
  BY <1>1, <1>2, <1>3, <1>4, <1>5, <1>m, FoldToAgree
<1> QED BY <1>6 DEF FoldMined, d

\* Every unmined row is folded once; the result is a database.
LEMMA UnminedTyped ==
    ASSUME NEW seed \in Database, NEW rows \in Seq(Rows)
    PROVE  FoldUnmined(seed, rows) \in Database
<1> DEFINE n == Len(rows)
           Loop(f) == f = [i \in 0..Len(rows) |->
                              IF i = 0 THEN seed
                              ELSE Fold(f[i - 1], rows[i].memo, "Confirming")]
           step == [x \in (1..n) \X Database |-> Fold(x[2], rows[x[1]].memo, "Confirming")]
<1>n. n \in Nat
  OBVIOUS
<1>1. ASSUME NEW i \in 1..n, NEW d \in Database
      PROVE  Fold(d, rows[i].memo, "Confirming") \in Database
  <2>1. rows[i] \in Rows
    OBVIOUS
  <2>2. rows[i].memo \in Memo
    BY <2>1, RowsAssumption
  <2> QED BY <2>2, FoldFacts DEF FoldStep, Status
<1>2. step \in [(1..n) \X Database -> Database]
  BY <1>1
<1> HIDE DEF step
<1>3. PICK g : Iterates(g, n, Database, seed, step)
  BY <1>n, <1>2, RecursionExists, Zenon
<1>4. ASSUME NEW i \in 1..n
      PROVE  g[i] = Fold(g[i - 1], rows[i].memo, "Confirming")
  <2>1. g[i] = step[<<i, g[i - 1]>>] /\ g[i - 1] \in Database
    BY <1>3, <1>n DEF Iterates
  <2>2. step[<<i, g[i - 1]>>] = Fold(g[i - 1], rows[i].memo, "Confirming")
    BY <2>1 DEF step
  <2> QED BY <2>1, <2>2
<1>5. Loop(g)
  BY <1>3, <1>4, <1>n DEF Iterates
<1> DEFINE f == CHOOSE x : Loop(x)
<1>6. FoldUnmined(seed, rows) = f[n]
  BY Zenon DEF FoldUnmined
<1>7. Loop(f)
  <2> HIDE DEF Loop
  <2> QED BY <1>5, Zenon
<1> HIDE DEF f
<1>8. f[0] = seed /\ \A i \in 1..n : f[i] = Fold(f[i - 1], rows[i].memo, "Confirming")
  BY <1>7, <1>n
<1> DEFINE S == {k \in Nat : k <= n => f[k] \in Database}
<1>9. 0 \in S
  BY <1>8
<1>10. ASSUME NEW k \in Nat, k \in S PROVE k + 1 \in S
  <2> SUFFICES ASSUME k + 1 <= n PROVE f[k + 1] \in Database
    OBVIOUS
  <2>1. f[k] \in Database /\ k + 1 \in 1..n /\ (k + 1) - 1 = k
    BY <1>10, <1>n
  <2> QED BY <2>1, <1>1, <1>8
<1> HIDE DEF S
<1>11. n \in S
  BY <1>9, <1>10, <1>n, NatSetInduction
<1> QED BY <1>6, <1>11, <1>n DEF S

-----------------------------------------------------------------------------
(* Rows and their statuses.                                                *)

\* Rows read from the wallet give memos with statuses.
LEMMA DecodedJudged ==
    ASSUME NEW rows \in Decoded, NEW at
    PROVE  JudgedOK(AllConfirmed(rows)) /\ JudgedOK(JudgedAt(rows, at))
<1>1. \A h \in DOMAIN rows : rows[h].memo \in Memo
  BY RowsAssumption DEF Decoded
<1>2. \A h : TailStatus(at, h, rows[h]) \in Status \cup {"Dropped"}
  BY DEF TailStatus, Status
<1>3. JudgedOK(AllConfirmed(rows))
  BY <1>1 DEF JudgedOK, AllConfirmed, Decoded, Status
<1>4. JudgedOK(JudgedAt(rows, at))
  <2> DEFINE D == {g \in DOMAIN rows : TailStatus(at, g, rows[g]) # "Dropped"}
  <2>1. /\ DOMAIN JudgedAt(rows, at) = D
        /\ \A h \in D : /\ JudgedAt(rows, at)[h].memo = rows[h].memo
                        /\ JudgedAt(rows, at)[h].status = TailStatus(at, h, rows[h])
    BY DEF JudgedAt
  <2>2. D \subseteq 1..MaxHeight
    BY DEF Decoded
  <2>3. \A h \in D : TailStatus(at, h, rows[h]) \in Status /\ h \in DOMAIN rows
    BY <1>2
  <2> HIDE DEF D
  <2> QED BY <1>1, <2>1, <2>2, <2>3 DEF JudgedOK
<1> QED BY <1>3, <1>4

\* The chain's own rows, at any heights it has.
LEMMA ChainRows ==
    ASSUME chain \in Seq(Rows), Len(chain) <= MaxHeight, NEW H, H \subseteq 1..Len(chain)
    PROVE  /\ RowsAt(H) \in Decoded /\ DOMAIN RowsAt(H) = H
           /\ \A h \in H : RowsAt(H)[h] = chain[h]
<1>1. \A h \in H : chain[h] \in Rows /\ h \in 1..MaxHeight
  BY BoundsAssumption
<1>2. RowsAt(H) \in [H -> Rows] /\ H \in SUBSET (1..MaxHeight)
  BY <1>1 DEF RowsAt
<1>3. RowsAt(H) \in Decoded
  BY <1>2 DEF Decoded
<1> QED BY <1>3 DEF RowsAt

\* What confirmed rows fold to, from genesis.
LEMMA ConfirmedShape ==
    ASSUME NEW rows \in Decoded, NEW seed \in Database, ConfirmedOnly(seed)
    PROVE  /\ apply_rows(seed, rows) \in Database
           /\ ConfirmedOnly(apply_rows(seed, rows))
           /\ seed.init = "Initialized" => apply_rows(seed, rows).init = "Initialized"
<1> DEFINE j == AllConfirmed(rows)
           f == FoldTo(seed, j)
           OK(d) == /\ d \in Database /\ ConfirmedOnly(d)
                    /\ seed.init = "Initialized" => d.init = "Initialized"
           S == {n \in Nat : n <= MaxHeight => OK(f[n])}
<1>m. MaxHeight \in Nat
  BY BoundsAssumption
<1>j. JudgedOK(j)
  BY DecodedJudged
<1>1. /\ f[0] = seed
      /\ \A h \in 1..MaxHeight : f[h] = FoldAt(j, h, f[h - 1])
  BY <1>j, FoldToRec
<1>2. \A h \in DOMAIN j : j[h].memo \in Memo /\ j[h].status = "Confirmed"
  BY <1>j DEF AllConfirmed, JudgedOK
<1> HIDE DEF j, f
<1>3. 0 \in S
  BY <1>1
<1>4. ASSUME NEW n \in Nat, n \in S PROVE n + 1 \in S
  <2> SUFFICES ASSUME n + 1 <= MaxHeight PROVE OK(f[n + 1])
    OBVIOUS
  <2> DEFINE h == n + 1
  <2>1. h \in 1..MaxHeight /\ h - 1 = n /\ OK(f[n])
    BY <1>4, <1>m
  <2> HIDE DEF h
  <2>2. f[h] = FoldAt(j, h, f[n])
    BY <1>1, <2>1
  <2>3. OK(FoldAt(j, h, f[n]))
    <3>1. FoldAt(j, h, f[n]) \in Database
      BY <1>j, <2>1, FoldAtTyped
    <3>2. CASE h \in DOMAIN j
      BY <1>2, <2>1, <3>1, <3>2, ConfirmedFold DEF FoldAt
    <3>3. CASE h \notin DOMAIN j
      BY <2>1, <3>3 DEF FoldAt
    <3> QED BY <3>2, <3>3
  <2> QED BY <2>2, <2>3 DEF h
<1> HIDE DEF S
<1>5. MaxHeight \in S
  BY <1>m, <1>3, <1>4, NatSetInduction
<1>6. OK(f[MaxHeight])
  BY <1>5, <1>m DEF S
<1> QED BY <1>6 DEF apply_rows, FoldMined, f, j

\* ChainState, in the terms of the store.
LEMMA ChainStateShape ==
    ASSUME chain \in Seq(Rows), Len(chain) <= MaxHeight, NEW n \in 0..Len(chain)
    PROVE  /\ ChainState(n) = apply_rows(EmptyDatabase, RowsAt(1..n))
           /\ ChainState(n) \in Database /\ ConfirmedOnly(ChainState(n))
<1>1. 1..n \subseteq 1..Len(chain)
  OBVIOUS
<1>2. RowsAt(1..n) \in Decoded
  BY <1>1, ChainRows
<1>3. ChainState(n) = apply_rows(EmptyDatabase, RowsAt(1..n))
  BY DEF ChainState, apply_rows
<1> QED BY <1>2, <1>3, ConfirmedShape, EmptyIsDatabase

\* No rows fold to the empty database.
LEMMA ChainStateZero ==
    ASSUME chain \in Seq(Rows), Len(chain) <= MaxHeight
    PROVE  ChainState(0) = EmptyDatabase
<1> DEFINE j == AllConfirmed(RowsAt(1..0))
<1>m. MaxHeight \in Nat /\ 0 \in 0..MaxHeight /\ MaxHeight \in 0..MaxHeight
  BY BoundsAssumption
<1>1. 1..0 = {} /\ {} \subseteq 1..Len(chain)
  OBVIOUS
<1>2. RowsAt(1..0) \in Decoded /\ DOMAIN RowsAt(1..0) = {}
  BY <1>1, ChainRows
<1>3. JudgedOK(j) /\ DOMAIN j = {}
  BY <1>2, DecodedJudged DEF AllConfirmed
<1> HIDE DEF j
<1>4. FoldTo(EmptyDatabase, j)[MaxHeight] = FoldTo(EmptyDatabase, j)[0]
  BY <1>m, <1>3, EmptyIsDatabase, FoldToSkips
<1>5. FoldTo(EmptyDatabase, j)[0] = EmptyDatabase
  BY <1>3, EmptyIsDatabase, FoldToRec
<1> QED BY <1>4, <1>5 DEF ChainState, FoldMined, j

\* A chain that keeps its first n rows keeps their fold.
LEMMA ChainStateStable ==
    ASSUME NEW n \in Nat, \A h \in 1..n : chain'[h] = chain[h]
    PROVE  ChainState(n)' = ChainState(n)
<1>1. [h \in 1..n |-> chain'[h]] = [h \in 1..n |-> chain[h]]
  OBVIOUS
<1>2. RowsAt(1..n)' = RowsAt(1..n)
  BY <1>1 DEF RowsAt
<1> QED BY <1>2 DEF ChainState

\* Promoting the rows between two heights takes the fold of the first to that of the second.
LEMMA ChainStateExtends ==
    ASSUME chain \in Seq(Rows), Len(chain) <= MaxHeight,
           NEW c \in 0..Len(chain), NEW w \in 0..c
    PROVE  apply_rows(ChainState(w), RowsAt((w + 1)..c)) = ChainState(c)
<1> DEFINE lo == AllConfirmed(RowsAt(1..w))
           hi == AllConfirmed(RowsAt((w + 1)..c))
           j  == AllConfirmed(RowsAt(1..c))
<1>1. /\ 1..w \subseteq 1..Len(chain)
      /\ (w + 1)..c \subseteq 1..Len(chain)
      /\ 1..c \subseteq 1..Len(chain)
      /\ w \in 0..MaxHeight
  BY BoundsAssumption
<1>2. /\ RowsAt(1..w) \in Decoded /\ DOMAIN RowsAt(1..w) = 1..w
      /\ RowsAt((w + 1)..c) \in Decoded /\ DOMAIN RowsAt((w + 1)..c) = (w + 1)..c
      /\ RowsAt(1..c) \in Decoded /\ DOMAIN RowsAt(1..c) = 1..c
      /\ \A h \in 1..w : RowsAt(1..w)[h] = RowsAt(1..c)[h]
      /\ \A h \in (w + 1)..c : RowsAt((w + 1)..c)[h] = RowsAt(1..c)[h]
  BY <1>1, ChainRows
<1>3. JudgedOK(lo) /\ JudgedOK(hi) /\ JudgedOK(j)
  BY <1>2, DecodedJudged
<1>4. /\ DOMAIN lo = 1..w /\ DOMAIN hi = (w + 1)..c /\ DOMAIN j = 1..c
      /\ \A h \in DOMAIN lo : lo[h] = j[h]
      /\ \A h \in DOMAIN hi : hi[h] = j[h]
  BY <1>2 DEF AllConfirmed
<1> HIDE DEF lo, hi, j
<1>5. DOMAIN lo = DOMAIN j \cap 1..w /\ DOMAIN hi = DOMAIN j \ 1..w
  BY <1>4
<1>6. FoldMined(FoldMined(EmptyDatabase, lo), hi) = FoldMined(EmptyDatabase, j)
  BY <1>1, <1>3, <1>4, <1>5, EmptyIsDatabase, FoldSplit
<1> QED BY <1>6 DEF ChainState, apply_rows, lo, hi, j

-----------------------------------------------------------------------------
(* The cutoff.                                                             *)

\* fully_scanned_height exists: the wallet's scanned blocks have a first gap.
LEMMA FullyScannedFacts ==
    ASSUME tip \in 0..MaxHeight, scanned \subseteq 1..tip
    PROVE  FullyScanned \in 0..MaxHeight /\ 1..FullyScanned \subseteq scanned
<1> DEFINE T == {n \in Nat : (n + 1) \notin scanned}
           P(n) == 1..n \subseteq scanned /\ (n + 1) \notin scanned
<1>m. MaxHeight \in Nat
  BY BoundsAssumption
<1>1. T \subseteq Nat /\ MaxHeight \in T
  BY <1>m
<1>2. PICK n \in T : \A m \in T : n <= m
  BY <1>1, LeastNat
<1>3. \A h \in 1..n : h \in scanned
  <2> SUFFICES ASSUME NEW h \in 1..n, h \notin scanned PROVE FALSE
    OBVIOUS
  <2>1. h - 1 \in T
    OBVIOUS
  <2> QED BY <1>2, <2>1
<1>4. n \in 0..MaxHeight /\ P(n)
  BY <1>1, <1>2, <1>3, <1>m
<1> DEFINE c == CHOOSE k \in 0..MaxHeight : P(k)
<1>5. c \in 0..MaxHeight /\ P(c)
  <2> HIDE DEF P
  <2> QED BY <1>4
<1>6. FullyScanned = c
  BY DEF FullyScanned
<1> QED BY <1>5, <1>6

\* promote_cutoff stays SAFE_DEPTH below the tip and below everything the wallet has
\* not scanned and fetched.
LEMMA CutoffFacts ==
    ASSUME tip \in 0..MaxHeight, scanned \subseteq 1..tip, enhanced \subseteq scanned
    PROVE  LET c == promote_cutoff(tip, FullyScanned, UnenhancedHeights)
           IN  /\ c \in 0..MaxHeight
               /\ c > 0 => c + SafeDepth <= tip
               /\ \A h \in 1..c : h \in scanned /\ h \in enhanced
<1> DEFINE u == UnenhancedHeights
           n == FullyScanned
           safe == MinOf(MaxOf(tip - SafeDepth, 0), n)
           c == promote_cutoff(tip, n, u)
<1>m. MaxHeight \in Nat /\ SafeDepth \in Nat
  BY BoundsAssumption
<1>1. n \in 0..MaxHeight /\ 1..n \subseteq scanned
  BY FullyScannedFacts
<1>2. u \subseteq Nat /\ \A h \in scanned : h \notin u => h \in enhanced
  BY DEF UnenhancedHeights
<1>3. \A h \in u : h \in 1..tip
  BY DEF UnenhancedHeights
<1> HIDE DEF u, n
<1>4. /\ safe \in 0..MaxHeight /\ safe <= n
      /\ safe > 0 => safe + SafeDepth <= tip
  BY <1>m, <1>1 DEF MinOf, MaxOf
<1>5. CASE u = {}
  <2>1. c = safe
    BY <1>5 DEF promote_cutoff
  <2>2. \A h \in 1..safe : h \in scanned /\ h \in enhanced
    BY <1>1, <1>2, <1>4, <1>5
  <2> QED BY <1>4, <2>1, <2>2 DEF n, u
<1>6. CASE u # {}
  <2> DEFINE least == CHOOSE h \in u : \A g \in u : h <= g
  <2>1. least \in u /\ \A g \in u : least <= g
    <3>1. \E h \in u : \A g \in u : h <= g
      BY <1>2, <1>6, LeastNat
    <3> QED BY <3>1
  <2>2. c = MinOf(safe, least - 1)
    BY <1>6 DEF promote_cutoff
  <2> HIDE DEF least, safe
  <2>3. /\ c \in 0..MaxHeight /\ c <= safe /\ c < least
    BY <1>m, <1>3, <1>4, <2>1, <2>2 DEF MinOf
  <2> HIDE DEF c
  <2>4. ASSUME NEW h \in 1..c PROVE h \in scanned /\ h \in enhanced
    <3>1. h \in scanned
      BY <1>1, <1>4, <2>3
    <3>2. h \notin u
      BY <1>2, <1>3, <2>1, <2>3
    <3> QED BY <1>2, <3>1, <3>2
  <2> QED BY <1>4, <2>3, <2>4, <1>m DEF n, u, c
<1> QED BY <1>5, <1>6

-----------------------------------------------------------------------------
(* The cache.  CacheInv is inductive when reads do not overlap, the node   *)
(* is idle during a read and no reorg is deeper than SAFE_DEPTH.           *)

SnapType == [db : Database, wm : 0..MaxHeight, tables : {"all", "some", "none"}]

\* What a well-formed wallet gives every lemma below.
LEMMA WalletFacts ==
    ASSUME TypeOK
    PROVE  /\ chain \in Seq(Rows) /\ Len(chain) \in Nat /\ Len(chain) <= MaxHeight
           /\ Len(chain) <= peak /\ peak \in Nat /\ MaxHeight \in Nat
           /\ tip \in 0..MaxHeight /\ tip \in 0..Len(chain) /\ tip \in Nat
           /\ scanned \subseteq 1..tip /\ enhanced \subseteq scanned
           /\ Readable \subseteq 1..Len(chain)
           /\ unmined \in Seq(Rows)
           /\ snap \in SnapType
<1>1. chain \in Seq(Rows) /\ Len(chain) \in Nat /\ peak \in 0..MaxHeight /\ Len(chain) <= peak
      /\ MaxHeight \in Nat /\ tip \in 0..Len(chain) /\ scanned \subseteq 1..tip
      /\ enhanced \subseteq scanned /\ unmined \in Seq(Rows) /\ snap \in SnapType
  BY BoundsAssumption DEF TypeOK, SnapType
<1>2. Readable \subseteq scanned
  BY DEF Readable
<1> QED BY <1>1, <1>2

\* A batch is exactly the rows between the watermark and the cutoff: nothing below the
\* cutoff is unknown to the wallet.
LEMMA BatchIsContiguous ==
    ASSUME TypeOK, NEW r \in Readers, ReaderInv(r),
           reader[r].pc \in {"cut", "promoted", "done"}
    PROVE  LET w == reader[r].wm
               c == reader[r].cutoff
           IN  /\ c \in 0..Len(chain) /\ w \in 0..MaxHeight
               /\ c > 0 => c + SafeDepth <= tip
               /\ \A h \in 1..c : h \in Readable
               /\ Promotable(r) = RowsAt((w + 1)..c)
               /\ DOMAIN Promotable(r) = (w + 1)..c
<1> DEFINE w == reader[r].wm
           c == reader[r].cutoff
           rows == reader[r].rows
           H == {h \in Readable : h > w}
<1>1. /\ c = promote_cutoff(tip, FullyScanned, UnenhancedHeights)
      /\ rows = RowsAt(H)
  BY DEF ReaderInv, scan_memos_past_watermark
<1>2. w \in 0..MaxHeight
  BY DEF TypeOK
<1>3. /\ c \in 0..MaxHeight
      /\ c > 0 => c + SafeDepth <= tip
      /\ \A h \in 1..c : h \in scanned /\ h \in enhanced
  BY <1>1, WalletFacts, CutoffFacts
<1>4. \A h \in 1..c : h \in Readable
  BY <1>3 DEF Readable
<1>5. c \in 0..Len(chain)
  <2>1. SafeDepth \in Nat
    BY BoundsAssumption
  <2> QED BY <2>1, <1>3, WalletFacts
<1>6. DOMAIN rows = H /\ \A h \in H : rows[h] = chain[h]
  BY <1>1 DEF RowsAt
<1> HIDE DEF w, c, rows
<1>7. H \cap 1..c = (w + 1)..c
  <2>1. Readable \subseteq 1..Len(chain) /\ Len(chain) \in Nat
    BY WalletFacts
  <2> QED BY <2>1, <1>2, <1>4, <1>5
<1> HIDE DEF H
<1>8. [h \in DOMAIN rows \cap 1..c |-> rows[h]] = [h \in (w + 1)..c |-> chain[h]]
  BY <1>6, <1>7
<1>9. Promotable(r) = RowsAt((w + 1)..c)
  BY <1>8 DEF Promotable, RowsAt, rows, c
<1>10. DOMAIN Promotable(r) = (w + 1)..c
  BY <1>9 DEF RowsAt
<1> QED BY <1>2, <1>3, <1>4, <1>5, <1>9, <1>10 DEF w, c

\* promote leaves a store that is the fold of every row up to the read's base.
LEMMA PromoteKeepsStore ==
    ASSUME TypeOK, StoreInv, NEW r \in Readers, ReaderInv(r), reader[r].pc = "cut",
           NEW s, s = promote(snap, Promotable(r))
    PROVE  LET b == MaxOf(reader[r].wm, reader[r].cutoff)
           IN  /\ s \in SnapType
               /\ \/ s = snap
                  \/ /\ s.db.init = "Initialized" /\ s.db = ChainState(s.wm)
                     /\ s.wm <= Len(chain) /\ s.wm + SafeDepth <= peak
               /\ MaxOf(s.wm, reader[r].cutoff) = b
               /\ b <= Len(chain) /\ s.db = ChainState(b)
<1> DEFINE w == reader[r].wm
           c == reader[r].cutoff
           batch == Promotable(r)
           folded == apply_rows(snap.db, batch)
<1>1. /\ c \in 0..Len(chain) /\ w \in 0..MaxHeight
      /\ c > 0 => c + SafeDepth <= tip
      /\ batch = RowsAt((w + 1)..c) /\ DOMAIN batch = (w + 1)..c
  BY BatchIsContiguous
<1>2. w = snap.wm /\ w <= Len(chain) /\ snap.db = ChainState(w) /\ snap \in SnapType
  BY WalletFacts DEF ReaderInv
<1>3. s = IF DOMAIN batch = {} \/ folded.init = "Uninitialized" THEN snap
          ELSE [db |-> folded, wm |-> LastOf(batch), tables |-> "all"]
  BY DEF promote
<1>w. /\ chain \in Seq(Rows) /\ Len(chain) \in Nat /\ Len(chain) <= MaxHeight
      /\ Len(chain) <= peak /\ peak \in Nat /\ tip \in 0..Len(chain) /\ MaxHeight \in Nat
      /\ SafeDepth \in Nat
  BY WalletFacts, BoundsAssumption
<1> HIDE DEF w, c, batch
<1>4. CASE c <= w
  <2>1. DOMAIN batch = {}
    BY <1>1, <1>4, <1>w
  <2>2. s = snap /\ MaxOf(s.wm, c) = w /\ MaxOf(w, c) = w
    BY <1>1, <1>2, <1>3, <1>4, <1>w, <2>1 DEF MaxOf
  <2> QED BY <1>2, <2>2 DEF w, c
<1>5. CASE w < c
  <2>1. DOMAIN batch # {} /\ w \in 0..c /\ w \in 0..Len(chain) /\ MaxOf(w, c) = c
    <3>1. c \in (w + 1)..c /\ w \in 0..c /\ w \in 0..Len(chain) /\ MaxOf(w, c) = c
      BY <1>1, <1>5, <1>w DEF MaxOf
    <3> QED BY <1>1, <3>1
  <2>2. folded = ChainState(c)
    BY <1>1, <1>2, <1>w, <2>1, ChainStateExtends
  <2>3. /\ ChainState(c) \in Database /\ ConfirmedOnly(ChainState(c))
        /\ ChainState(w) \in Database /\ ConfirmedOnly(ChainState(w))
    BY <1>1, <1>w, <2>1, ChainStateShape
  <2>4. CASE folded.init = "Uninitialized"
    <3>1. ChainState(c) = EmptyDatabase
      BY <2>2, <2>3, <2>4 DEF ConfirmedOnly
    <3>2. (w + 1)..c \subseteq 1..Len(chain)
      BY <1>1, <1>w, <2>1
    <3>3. batch \in Decoded
      BY <1>1, <1>w, <3>2, ChainRows
    <3>4. ChainState(w).init = "Initialized" => folded.init = "Initialized"
      BY <1>2, <2>3, <3>3, ConfirmedShape
    <3>5. ChainState(w) = EmptyDatabase
      BY <2>3, <2>4, <3>4 DEF ConfirmedOnly
    <3>6. s = snap
      BY <1>3, <2>4
    <3>7. MaxOf(s.wm, c) = c
      BY <1>2, <1>1, <1>5, <1>w, <3>6 DEF MaxOf
    <3> QED BY <1>1, <1>2, <1>w, <2>1, <3>1, <3>5, <3>6, <3>7 DEF w, c
  <2>5. CASE folded.init # "Uninitialized"
    <3>1. ChainState(c).init = "Initialized"
      BY <2>2, <2>3, <2>5 DEF ConfirmedOnly, EmptyDatabase
    <3>2. LastOf(batch) = c
      <4>1. c \in DOMAIN batch /\ \A g \in DOMAIN batch : g <= c
        BY <1>1, <1>5, <1>w
      <4>2. ASSUME NEW h \in DOMAIN batch, \A g \in DOMAIN batch : g <= h PROVE h = c
        <5>1. c <= h /\ h <= c /\ h \in Int /\ c \in Int
          BY <1>1, <1>w, <4>1, <4>2
        <5> QED BY <5>1
      <4> QED BY <4>1, <4>2 DEF LastOf
    <3>3. s = [db |-> ChainState(c), wm |-> c, tables |-> "all"]
      BY <1>3, <2>1, <2>2, <2>5, <3>2
    <3>4. s \in SnapType /\ s.wm = c /\ s.db = ChainState(c)
      BY <1>1, <1>w, <2>3, <3>3 DEF SnapType
    <3>5. c <= Len(chain) /\ c + SafeDepth <= peak /\ MaxOf(c, c) = c
      BY <1>1, <1>5, <1>w DEF MaxOf
    <3> QED BY <2>1, <3>1, <3>4, <3>5 DEF w, c
  <2> QED BY <2>4, <2>5
<1>6. c <= w \/ w < c
  BY <1>1, <1>w
<1> QED BY <1>4, <1>5, <1>6

\* The tail replayed on the store gives what replaying every known row from genesis does.
LEMMA ReplayAgrees ==
    ASSUME TypeOK, NEW r \in Readers, ReaderInv(r), reader[r].pc = "promoted",
           MinConfs <= SafeDepth + 1
    PROVE  replay_with_seed(clear_pending(snap.db), JudgedAt(TailRows(r), reader[r].tip),
                            reader[r].pending)
               = replay_with_seed(EmptyDatabase, JudgedForRead(r), unmined)
<1> DEFINE b == Base(r)
           c == reader[r].cutoff
           w == reader[r].wm
           H == {h \in Readable : h > b}
           lo == AllConfirmed(RowsAt(1..b))
           hi == JudgedAt(TailRows(r), tip)
           j  == JudgedForRead(r)
           status(h) == TailStatus(TipFor(r, h), h, chain[h])
<1>w. /\ chain \in Seq(Rows) /\ Len(chain) \in Nat /\ Len(chain) <= MaxHeight
      /\ tip \in Nat /\ tip <= Len(chain) /\ MaxHeight \in Nat /\ SafeDepth \in Nat
      /\ MinConfs \in Nat /\ Readable \subseteq 1..Len(chain) /\ unmined \in Seq(Rows)
      /\ snap.wm \in Nat
  BY WalletFacts, BoundsAssumption DEF SnapType
<1>1. /\ c \in 0..Len(chain) /\ w \in 0..MaxHeight
      /\ c > 0 => c + SafeDepth <= tip
      /\ \A h \in 1..c : h \in Readable
  BY BatchIsContiguous
<1>2. /\ b = MaxOf(w, c) /\ b = MaxOf(snap.wm, c) /\ b <= Len(chain)
      /\ snap.db = ChainState(b)
      /\ reader[r].tip = tip /\ reader[r].pending = unmined
      /\ reader[r].rows = RowsAt({h \in Readable : h > w})
  BY DEF ReaderInv, Base, scan_memos_past_watermark
<1>3. b \in 0..Len(chain) /\ b \in 0..MaxHeight /\ snap.wm <= b /\ c <= b
  BY <1>1, <1>2, <1>w DEF MaxOf
<1>4. TailRows(r) = RowsAt(H)
  <2>1. DOMAIN reader[r].rows = {h \in Readable : h > w}
        /\ \A h \in DOMAIN reader[r].rows : reader[r].rows[h] = chain[h]
    BY <1>2 DEF RowsAt
  <2>2. \A h \in Readable : h > b <=> (h > w /\ ~(h \in 1..c))
    BY <1>1, <1>2, <1>w DEF MaxOf
  <2>3. DOMAIN reader[r].rows \ 1..c = H
    BY <2>1, <2>2
  <2> HIDE DEF H
  <2>4. [h \in DOMAIN reader[r].rows \ 1..c |-> reader[r].rows[h]] = [h \in H |-> chain[h]]
    BY <2>1, <2>3
  <2> QED BY <2>4 DEF TailRows, RowsAt
<1> HIDE DEF b, c, w
<1>5. /\ RowsAt(1..b) \in Decoded /\ DOMAIN RowsAt(1..b) = 1..b
      /\ \A h \in 1..b : RowsAt(1..b)[h] = chain[h]
      /\ RowsAt(H) \in Decoded /\ DOMAIN RowsAt(H) = H
      /\ \A h \in H : RowsAt(H)[h] = chain[h]
  <2>1. 1..b \subseteq 1..Len(chain) /\ H \subseteq 1..Len(chain)
    <3>1. 1..b \subseteq 1..Len(chain)
      BY <1>3, <1>w
    <3>2. H \subseteq Readable
      OBVIOUS
    <3> HIDE DEF H
    <3> QED BY <3>1, <3>2, <1>w
  <2> HIDE DEF H
  <2> QED BY <2>1, <1>w, ChainRows
<1>6. JudgedOK(lo) /\ JudgedOK(hi)
  BY <1>4, <1>5, DecodedJudged
<1>7. \A h \in 1..b : status(h) = "Confirmed"
  <2> SUFFICES ASSUME NEW h \in 1..b
               PROVE  TailStatus(TipFor(r, h), h, chain[h]) = "Confirmed"
    OBVIOUS
  <2>1. effective_min_confs(chain[h]) <= SafeDepth + 1 /\ effective_min_confs(chain[h]) \in Nat
    BY <1>w DEF effective_min_confs, MinOf
  <2>2. TipFor(r, h) \in Nat /\ TipFor(r, h) - h >= SafeDepth
    <3>1. CASE h <= snap.wm
      BY <1>2, <1>3, <1>w, <3>1 DEF TipFor, MaxOf
    <3>2. CASE ~(h <= snap.wm)
      <4>1. h <= c
        BY <1>1, <1>2, <1>3, <1>w, <3>2 DEF MaxOf
      <4> QED BY <1>1, <1>2, <1>3, <1>w, <3>2, <4>1 DEF TipFor
    <3> QED BY <3>1, <3>2
  <2>3. MaxOf(TipFor(r, h) - h, 0) + 1 >= effective_min_confs(chain[h])
    BY <1>3, <1>w, <2>1, <2>2 DEF MaxOf
  <2> QED BY <2>3 DEF TailStatus
<1>8. \A h \in Readable \cup 1..snap.wm : h \notin 1..b => h \in H /\ TipFor(r, h) = tip
  BY <1>2, <1>3, <1>w DEF TipFor
<1>9. 1..b \subseteq Readable \cup 1..snap.wm
  BY <1>1, <1>2, <1>3, <1>w DEF MaxOf
<1>10. H \subseteq Readable \cup 1..snap.wm /\ H \cap 1..b = {}
  BY <1>w, <1>3
<1> DEFINE D == {g \in Readable \cup 1..snap.wm : status(g) # "Dropped"}
<1>11. DOMAIN j = D /\ \A h \in D : j[h] = [memo |-> chain[h].memo, status |-> status(h)]
  BY DEF JudgedForRead
<1>12. /\ DOMAIN lo = 1..b
       /\ \A h \in 1..b : lo[h] = [memo |-> chain[h].memo, status |-> "Confirmed"]
  BY <1>5 DEF AllConfirmed
<1>13. /\ DOMAIN hi = {g \in H : TailStatus(tip, g, chain[g]) # "Dropped"}
       /\ \A h \in DOMAIN hi : hi[h] = [memo |-> chain[h].memo,
                                        status |-> TailStatus(tip, h, chain[h])]
  BY <1>4, <1>5 DEF JudgedAt
<1>14. \A h : TailStatus(TipFor(r, h), h, chain[h]) \in Status \cup {"Dropped"}
  BY DEF TailStatus, Status
<1>15. \A h \in Readable \cup 1..snap.wm : h \in 1..MaxHeight /\ chain[h].memo \in Memo
  <2>1. \A h \in Readable \cup 1..snap.wm : h \in 1..Len(chain)
    BY <1>3, <1>w
  <2>2. \A h \in 1..Len(chain) : chain[h] \in Rows
    BY <1>w
  <2> QED BY <2>1, <2>2, <1>w, RowsAssumption
<1> HIDE DEF lo, hi, j, H, status
<1>16. JudgedOK(j)
  <2>1. \A h \in D : status(h) \in Status
    <3>1. \A h : status(h) \in Status \cup {"Dropped"}
      BY <1>14 DEF status
    <3> QED BY <3>1
  <2>2. \A h \in D : h \in 1..MaxHeight /\ chain[h].memo \in Memo
    BY <1>15
  <2> HIDE DEF D
  <2>3. ASSUME NEW h \in D
        PROVE  j[h].memo = chain[h].memo /\ j[h].status = status(h)
    <3>1. j[h] = [memo |-> chain[h].memo, status |-> status(h)]
      BY <1>11
    <3> QED BY <3>1
  <2> QED BY <1>11, <2>1, <2>2, <2>3 DEF JudgedOK
<1>17. DOMAIN lo = DOMAIN j \cap 1..b /\ \A h \in DOMAIN lo : lo[h] = j[h]
  BY <1>7, <1>9, <1>11, <1>12
<1>18. \A h \in H : status(h) = TailStatus(tip, h, chain[h])
  BY <1>8, <1>10 DEF status
<1>19. DOMAIN hi = DOMAIN j \ 1..b /\ \A h \in DOMAIN hi : hi[h] = j[h]
  BY <1>8, <1>10, <1>11, <1>13, <1>18
<1>20. FoldMined(FoldMined(EmptyDatabase, lo), hi) = FoldMined(EmptyDatabase, j)
  BY <1>3, <1>6, <1>16, <1>17, <1>19, EmptyIsDatabase, FoldSplit
<1>21. snap.db = FoldMined(EmptyDatabase, lo)
  BY <1>2 DEF ChainState, lo
<1>22. clear_pending(snap.db) = snap.db
  <2>1. snap.db \in Database /\ ConfirmedOnly(snap.db)
    BY <1>2, <1>3, <1>w, ChainStateShape
  <2> QED BY <2>1 DEF clear_pending, ConfirmedOnly, Database
<1> QED BY <1>2, <1>20, <1>21, <1>22 DEF replay_with_seed, hi, j

\* A step that leaves the wallet alone leaves what is computed from it alone.
LEMMA WalletUnchanged ==
    ASSUME UNCHANGED wallet
    PROVE  /\ FullyScanned' = FullyScanned /\ UnenhancedHeights' = UnenhancedHeights
           /\ Readable' = Readable
           /\ \A w : scan_memos_past_watermark(w)' = scan_memos_past_watermark(w)
           /\ \A n : ChainState(n)' = ChainState(n)
<1>1. /\ chain' = chain /\ peak' = peak /\ tip' = tip /\ scanned' = scanned
      /\ enhanced' = enhanced /\ unmined' = unmined
  BY DEF wallet
<1>2. Readable' = Readable
  BY <1>1 DEF Readable
<1>3. \A H : RowsAt(H)' = RowsAt(H)
  BY <1>1 DEF RowsAt
<1>4. \A w : scan_memos_past_watermark(w)' = scan_memos_past_watermark(w)
  BY <1>1 DEF scan_memos_past_watermark, Readable, RowsAt
<1>5. \A n : ChainState(n)' = ChainState(n)
  BY <1>1 DEF ChainState, RowsAt
<1> QED BY <1>1, <1>2, <1>4, <1>5 DEF FullyScanned, UnenhancedHeights

\* An idle reader has gathered nothing.
LEMMA IdleReader ==
    /\ Idle \in [pc : Pc, tip : 0..MaxHeight, fully : 0..MaxHeight, wm : 0..MaxHeight,
                 rows : Decoded, pending : Seq(Rows), cutoff : 0..MaxHeight, result : Database]
    /\ Idle.pc = "idle"
<1>1. 0 \in 0..MaxHeight
  BY BoundsAssumption
<1>2. << >> \in Decoded
  <2>1. << >> \in [{} -> Rows] /\ {} \in SUBSET (1..MaxHeight)
    OBVIOUS
  <2> QED BY <2>1 DEF Decoded
<1> QED BY <1>1, <1>2, EmptyIsDatabase DEF Idle, Pc

\* New and inherited databases.
LEMMA CacheInvInit == Init => CacheInv
<1> SUFFICES ASSUME Init PROVE CacheInv
  OBVIOUS
<1>m. MaxHeight \in Nat /\ MaxHeight >= 1
  BY BoundsAssumption, HeightAssumption
<1>1. chain \in Seq(Rows) /\ Len(chain) \in 0..1
  <2>1. CASE chain = << >>
    BY <2>1
  <2>2. ASSUME NEW row \in Rows, chain = <<row>> PROVE chain \in Seq(Rows) /\ Len(chain) \in 0..1
    BY <2>2
  <2> QED BY <2>1, <2>2 DEF Init
<1>2. snap \in SnapType /\ snap.db = EmptyDatabase
  BY <1>m, EmptyIsDatabase DEF Init, FreshSnapshot, SnapType
<1>3. /\ reader \in [Readers -> [pc : Pc, tip : 0..MaxHeight, fully : 0..MaxHeight,
                                 wm : 0..MaxHeight, rows : Decoded, pending : Seq(Rows),
                                 cutoff : 0..MaxHeight, result : Database]]
      /\ \A r \in Readers : reader[r].pc = "idle"
  BY IdleReader DEF Init
<1>4. TypeOK
  BY <1>m, <1>1, <1>2, <1>3 DEF TypeOK, Init, SnapType
<1>5. \A r \in Readers : ReaderInv(r)
  BY <1>3 DEF ReaderInv
<1> QED BY <1>2, <1>4, <1>5 DEF CacheInv, StoreInv

\* A node step that leaves the chain, and so the store's meaning, alone.
LEMMA ScanStep ==
    ASSUME CacheInv, Undisturbed,
           \/ \E row \in Rows : SeeUnmined(row)
           \/ UpdateTip \/ DropUnmined
           \/ \E h \in 1..MaxHeight : ScanBlock(h) \/ Enhance(h)
           \/ \E n \in 0..MaxHeight : Rewind(n)
    PROVE  CacheInv'
<1>1. /\ chain' = chain /\ peak' = peak /\ snap' = snap /\ reader' = reader
      /\ \A r \in Readers : reader[r].pc = "idle"
  BY DEF Undisturbed, NodeMayRun, SeeUnmined, UpdateTip, DropUnmined, ScanBlock, Enhance, Rewind
<1>2. /\ tip' \in 0..Len(chain) /\ scanned' \subseteq 1..tip' /\ enhanced' \subseteq scanned'
      /\ unmined' \in Seq(Rows)
  <2>w. /\ chain \in Seq(Rows) /\ Len(chain) \in Nat /\ tip \in 0..Len(chain)
        /\ scanned \subseteq 1..tip /\ enhanced \subseteq scanned /\ unmined \in Seq(Rows)
    BY DEF CacheInv, TypeOK
  <2>1. CASE \E row \in Rows : SeeUnmined(row)
    BY <2>w, <2>1 DEF SeeUnmined
  <2>2. CASE UpdateTip
    BY <2>w, <2>2 DEF UpdateTip
  <2>3. CASE DropUnmined
    BY <2>w, <2>3 DEF DropUnmined
  <2>4. CASE \E h \in 1..MaxHeight : ScanBlock(h) \/ Enhance(h)
    BY <2>w, <2>4 DEF ScanBlock, Enhance
  <2>5. CASE \E n \in 0..MaxHeight : Rewind(n)
    BY <2>w, <2>5 DEF Rewind
  <2> QED BY <2>1, <2>2, <2>3, <2>4, <2>5
<1>3. TypeOK'
  BY <1>1, <1>2 DEF CacheInv, TypeOK
<1>4. StoreInv'
  <2>1. ChainState(snap.wm)' = ChainState(snap.wm)
    BY <1>1 DEF ChainState, RowsAt
  <2> QED BY <1>1, <2>1 DEF CacheInv, StoreInv
<1>5. \A r \in Readers : ReaderInv(r)'
  BY <1>1 DEF ReaderInv
<1> QED BY <1>3, <1>4, <1>5 DEF CacheInv

\* The chain grows, or loses blocks no deeper than the store's watermark.
LEMMA ChainStep ==
    ASSUME CacheInv, Undisturbed,
           \/ \E row \in Rows : Mine(row)
           \/ \E n \in 0..MaxHeight : Reorg(n)
    PROVE  CacheInv'
<1>w. /\ chain \in Seq(Rows) /\ Len(chain) \in Nat /\ tip \in 0..Len(chain)
      /\ peak \in 0..MaxHeight /\ Len(chain) <= peak /\ MaxHeight \in Nat
      /\ scanned \subseteq 1..tip /\ enhanced \subseteq scanned
      /\ MaxReorg \in Nat /\ SafeDepth \in Nat /\ MaxReorg <= SafeDepth
      /\ snap.wm \in Nat
  BY BoundsAssumption DEF CacheInv, TypeOK, Undisturbed
<1>1. /\ snap' = snap /\ reader' = reader /\ unmined' = unmined
      /\ \A r \in Readers : reader[r].pc = "idle"
  BY DEF Undisturbed, NodeMayRun, Mine, Reorg
<1>2. /\ chain' \in Seq(Rows) /\ peak' \in 0..MaxHeight /\ Len(chain') <= peak'
      /\ tip' \in 0..Len(chain') /\ scanned' \subseteq 1..tip' /\ enhanced' \subseteq scanned'
      /\ peak <= peak'
      /\ \A h \in 1..Len(chain) : peak - h >= MaxReorg => chain'[h] = chain[h] /\ h <= Len(chain')
  <2>1. CASE \E row \in Rows : Mine(row)
    <3>1. PICK row \in Rows : Mine(row)
      BY <2>1
    <3>2. /\ chain' = Append(chain, row) /\ Len(chain) < MaxHeight
          /\ peak' = MaxOf(peak, Len(chain) + 1)
          /\ tip' = tip /\ scanned' = scanned /\ enhanced' = enhanced
      BY <3>1 DEF Mine
    <3>3. chain' \in Seq(Rows) /\ Len(chain') = Len(chain) + 1
          /\ \A h \in 1..Len(chain) : chain'[h] = chain[h]
      BY <3>2, <1>w
    <3> QED BY <1>w, <3>2, <3>3 DEF MaxOf
  <2>2. CASE \E n \in 0..MaxHeight : Reorg(n)
    <3>1. PICK n \in 0..MaxHeight : Reorg(n)
      BY <2>2
    <3>2. /\ chain' = SubSeq(chain, 1, n) /\ n < Len(chain) /\ peak - n <= MaxReorg
          /\ tip' = MinOf(tip, n) /\ peak' = peak
          /\ scanned' = scanned \cap (1..n) /\ enhanced' = enhanced \cap (1..n)
      BY <3>1 DEF Reorg
    <3>3. chain' \in Seq(Rows) /\ Len(chain') = n /\ \A h \in 1..n : chain'[h] = chain[h]
      BY <3>2, <1>w
    <3>4. tip' \in 0..n /\ scanned' \subseteq 1..tip'
      BY <1>w, <3>2 DEF MinOf
    <3> QED BY <1>w, <3>2, <3>3, <3>4
  <2> QED BY <2>1, <2>2
<1>3. TypeOK'
  BY <1>1, <1>2 DEF CacheInv, TypeOK
<1>4. StoreInv'
  <2>1. CASE snap.db = EmptyDatabase
    BY <1>1, <2>1 DEF StoreInv
  <2>2. CASE snap.db # EmptyDatabase
    <3>1. /\ snap.db.init = "Initialized" /\ snap.db = ChainState(snap.wm)
          /\ snap.wm <= Len(chain) /\ snap.wm + SafeDepth <= peak
      BY <2>2 DEF CacheInv, StoreInv
    <3>2. \A h \in 1..snap.wm : chain'[h] = chain[h] /\ h <= Len(chain')
      BY <1>w, <1>2, <3>1
    <3>3. ChainState(snap.wm)' = ChainState(snap.wm)
      BY <1>w, <1>1, <3>2, ChainStateStable
    <3>4. Len(chain') \in Nat /\ peak' \in Nat
      BY <1>2, <1>w
    <3>5. snap.wm <= Len(chain')
      BY <1>w, <3>2, <3>4
    <3> QED BY <1>w, <1>1, <1>2, <3>1, <3>3, <3>4, <3>5 DEF StoreInv
  <2> QED BY <2>1, <2>2
<1>5. \A r \in Readers : ReaderInv(r)'
  BY <1>1 DEF ReaderInv
<1> QED BY <1>3, <1>4, <1>5 DEF CacheInv

ReaderType ==
    [pc : Pc, tip : 0..MaxHeight, fully : 0..MaxHeight, wm : 0..MaxHeight, rows : Decoded,
     pending : Seq(Rows), cutoff : 0..MaxHeight, result : Database]

\* With one reader, a step of a read is judged by the store and that reader alone.
LEMMA ReadFrame ==
    ASSUME CacheInv, Undisturbed, NEW r \in Readers, UNCHANGED wallet,
           snap' \in SnapType, StoreInv', NEW new \in ReaderType,
           reader' = [reader EXCEPT ![r] = new],
           reader'[r] = new => ReaderInv(r)'
    PROVE  CacheInv'
<1>1. reader \in [Readers -> ReaderType] /\ \A q \in Readers : q = r
  BY DEF CacheInv, TypeOK, ReaderType, Undisturbed
<1>2. reader' \in [Readers -> ReaderType] /\ reader'[r] = new
  BY <1>1
<1>3. TypeOK'
  BY <1>2 DEF CacheInv, TypeOK, wallet, SnapType, ReaderType
<1>4. \A q \in Readers : ReaderInv(q)'
  BY <1>1, <1>2
<1> QED BY <1>3, <1>4 DEF CacheInv

\* The store, when a step leaves it and the wallet alone.
LEMMA StoreUnchanged ==
    ASSUME CacheInv, UNCHANGED <<wallet, snap>>
    PROVE  snap' \in SnapType /\ StoreInv'
BY WalletFacts, WalletUnchanged DEF CacheInv, StoreInv, wallet

LEMMA ReadTipStep ==
    ASSUME CacheInv, Undisturbed, NEW r \in Readers, ReadTip(r)
    PROVE  CacheInv'
<1> DEFINE new == [Idle EXCEPT !.pc = "tip", !.tip = tip, !.fully = FullyScanned]
<1>1. UNCHANGED wallet /\ snap' = snap /\ reader' = [reader EXCEPT ![r] = new]
  BY DEF ReadTip, wallet
<1>2. FullyScanned \in 0..MaxHeight /\ tip \in 0..MaxHeight
  BY WalletFacts, FullyScannedFacts DEF CacheInv
<1>3. /\ new \in ReaderType
      /\ new.pc = "tip" /\ new.tip = tip /\ new.fully = FullyScanned
  BY <1>2, IdleReader DEF ReaderType, Pc, Idle
<1> HIDE DEF new
<1>4. reader'[r] = new => ReaderInv(r)'
  BY <1>1, <1>3, WalletUnchanged DEF ReaderInv, wallet
<1> QED BY <1>1, <1>3, <1>4, StoreUnchanged, ReadFrame

LEMMA OpenStep ==
    ASSUME CacheInv, Undisturbed, NEW r \in Readers, OpenSnapshot(r)
    PROVE  CacheInv'
<1> DEFINE opened == IF MustWipe(r) THEN FreshSnapshot ELSE snap
           new == [reader[r] EXCEPT !.pc = "open", !.wm = opened.wm]
<1>1. /\ UNCHANGED wallet /\ snap' = opened
      /\ reader' = [reader EXCEPT ![r] = new] /\ reader[r].pc = "tip"
  BY DEF OpenSnapshot, wallet
<1>w. /\ chain \in Seq(Rows) /\ Len(chain) \in Nat /\ Len(chain) <= MaxHeight
      /\ tip \in 0..Len(chain) /\ snap \in SnapType /\ MaxHeight \in Nat
      /\ reader[r] \in ReaderType /\ StoreInv
  BY WalletFacts DEF CacheInv, TypeOK, ReaderType
<1>2. /\ FreshSnapshot \in SnapType /\ FreshSnapshot.db = EmptyDatabase /\ FreshSnapshot.wm = 0
  BY <1>w, EmptyIsDatabase DEF FreshSnapshot, SnapType
<1>3. opened \in SnapType /\ opened.wm \in 0..MaxHeight
  BY <1>w, <1>2 DEF SnapType
<1>4. opened.db = ChainState(opened.wm) /\ opened.wm <= Len(chain)
  <2>1. CASE MustWipe(r)
    BY <1>w, <1>2, <2>1, ChainStateZero
  <2>2. CASE ~MustWipe(r)
    <3>1. opened = snap /\ (snap.wm = 0 \/ snap.db.init # "Uninitialized")
      BY <2>2, <1>w DEF MustWipe, SnapType
    <3>2. CASE snap.db = EmptyDatabase
      <4>1. snap.wm = 0
        BY <3>1, <3>2 DEF EmptyDatabase
      <4> QED BY <1>w, <3>1, <3>2, <4>1, ChainStateZero
    <3>3. CASE snap.db # EmptyDatabase
      BY <1>w, <3>1, <3>3 DEF StoreInv
    <3> QED BY <3>2, <3>3
  <2> QED BY <2>1, <2>2
<1>5. StoreInv'
  <2>1. CASE opened = FreshSnapshot
    BY <1>1, <1>2, <2>1 DEF StoreInv
  <2>2. CASE opened = snap
    BY <1>1, <1>w, <2>2, WalletUnchanged DEF StoreInv, wallet
  <2> QED BY <2>1, <2>2
<1>6. /\ new \in ReaderType
      /\ new.pc = "open" /\ new.wm = opened.wm
      /\ new.tip = reader[r].tip /\ new.fully = reader[r].fully
  BY <1>w, <1>3 DEF ReaderType, Pc
<1>7. reader[r].tip = tip /\ reader[r].fully = FullyScanned
  BY <1>1 DEF CacheInv, ReaderInv
<1> HIDE DEF new, opened
<1>8. reader'[r] = new => ReaderInv(r)'
  BY <1>1, <1>4, <1>6, <1>7, WalletUnchanged DEF ReaderInv, wallet
<1> QED BY <1>1, <1>3, <1>5, <1>6, <1>8, ReadFrame

\* A wipe that is interrupted, a read that fails and one that returns end idle.
LEMMA EndStep ==
    ASSUME CacheInv, Undisturbed, NEW r \in Readers, KillInWipe(r) \/ Fail(r) \/ Return(r)
    PROVE  CacheInv'
<1>1. UNCHANGED wallet /\ reader' = [reader EXCEPT ![r] = Idle]
  BY DEF KillInWipe, Fail, Return, wallet
<1>2. Idle \in ReaderType /\ (reader'[r] = Idle => ReaderInv(r)')
  BY IdleReader DEF ReaderType, ReaderInv
<1>3. snap' \in SnapType /\ StoreInv'
  <2>1. CASE snap' = snap
    BY <1>1, <2>1, StoreUnchanged
  <2>2. CASE snap' = [snap EXCEPT !.tables = "some"]
    <3>1. snap \in SnapType /\ StoreInv
      BY WalletFacts DEF CacheInv
    <3>2. snap' \in SnapType /\ snap'.db = snap.db /\ snap'.wm = snap.wm
      BY <2>2, <3>1 DEF SnapType
    <3> QED BY <1>1, <3>1, <3>2, WalletUnchanged DEF StoreInv, wallet
  <2>3. CASE snap' = [FreshSnapshot EXCEPT !.tables = "none"]
    <3>1. snap' \in SnapType /\ snap'.db = EmptyDatabase
      BY <2>3, EmptyIsDatabase, BoundsAssumption DEF FreshSnapshot, SnapType
    <3> QED BY <3>1 DEF StoreInv
  <2> QED BY <2>1, <2>2, <2>3 DEF KillInWipe, Fail, Return
<1> QED BY <1>1, <1>2, <1>3, ReadFrame

LEMMA ScanMemosStep ==
    ASSUME CacheInv, Undisturbed, NEW r \in Readers, ScanMemos(r)
    PROVE  CacheInv'
<1> DEFINE rows == scan_memos_past_watermark(reader[r].wm)
           new == [reader[r] EXCEPT !.pc = "rows", !.rows = rows, !.pending = unmined]
<1>1. /\ UNCHANGED wallet /\ snap' = snap
      /\ reader' = [reader EXCEPT ![r] = new] /\ reader[r].pc = "open"
  BY DEF ScanMemos, wallet
<1>2. reader[r] \in ReaderType /\ unmined \in Seq(Rows) /\ ReaderInv(r)
  BY DEF CacheInv, TypeOK, ReaderType
<1>3. rows \in Decoded
  <2> DEFINE H == {h \in Readable : h > reader[r].wm}
  <2>1. H \subseteq 1..Len(chain)
    <3>1. H \subseteq Readable
      OBVIOUS
    <3> QED BY <3>1, WalletFacts DEF CacheInv
  <2> HIDE DEF H
  <2>2. RowsAt(H) \in Decoded
    BY <2>1, WalletFacts, ChainRows DEF CacheInv
  <2> QED BY <2>2 DEF scan_memos_past_watermark, H
<1> HIDE DEF rows
<1>4. /\ new \in ReaderType
      /\ new.pc = "rows" /\ new.rows = rows /\ new.pending = unmined
      /\ new.tip = reader[r].tip /\ new.fully = reader[r].fully /\ new.wm = reader[r].wm
  BY <1>2, <1>3 DEF ReaderType, Pc
<1> HIDE DEF new
<1>5. /\ new.tip = tip /\ new.fully = FullyScanned /\ new.wm = snap.wm
      /\ snap.wm <= Len(chain) /\ snap.db = ChainState(snap.wm)
      /\ new.rows = scan_memos_past_watermark(new.wm)
  BY <1>1, <1>2, <1>4 DEF ReaderInv, rows
<1>6. reader'[r] = new => ReaderInv(r)'
  BY <1>1, <1>4, <1>5, WalletUnchanged DEF ReaderInv, wallet
<1> QED BY <1>1, <1>4, <1>6, StoreUnchanged, ReadFrame

LEMMA ReadFloorStep ==
    ASSUME CacheInv, Undisturbed, NEW r \in Readers, ReadFloor(r)
    PROVE  CacheInv'
<1> DEFINE c == promote_cutoff(reader[r].tip, reader[r].fully, UnenhancedHeights)
           new == [reader[r] EXCEPT !.pc = "cut", !.cutoff = c]
<1>1. /\ UNCHANGED wallet /\ snap' = snap
      /\ reader' = [reader EXCEPT ![r] = new] /\ reader[r].pc = "rows"
  BY DEF ReadFloor, wallet
<1>2. reader[r] \in ReaderType /\ ReaderInv(r)
  BY DEF CacheInv, TypeOK, ReaderType
<1>3. reader[r].tip = tip /\ reader[r].fully = FullyScanned
  BY <1>1, <1>2 DEF ReaderInv
<1>4. c = promote_cutoff(tip, FullyScanned, UnenhancedHeights) /\ c \in 0..MaxHeight
  BY <1>3, WalletFacts, CutoffFacts DEF CacheInv
<1> HIDE DEF c
<1>5. /\ new \in ReaderType
      /\ new.pc = "cut" /\ new.cutoff = c /\ new.rows = reader[r].rows
      /\ new.pending = reader[r].pending
      /\ new.tip = reader[r].tip /\ new.fully = reader[r].fully /\ new.wm = reader[r].wm
  BY <1>2, <1>4 DEF ReaderType, Pc
<1> HIDE DEF new
<1>6. reader'[r] = new => ReaderInv(r)'
  BY <1>1, <1>2, <1>4, <1>5, WalletUnchanged DEF ReaderInv, wallet
<1> QED BY <1>1, <1>5, <1>6, StoreUnchanged, ReadFrame

LEMMA PromoteStep ==
    ASSUME CacheInv, Undisturbed, NEW r \in Readers, Promote(r)
    PROVE  CacheInv'
<1> DEFINE s == promote(snap, Promotable(r))
           new == [reader[r] EXCEPT !.pc = "promoted"]
           b == MaxOf(reader[r].wm, reader[r].cutoff)
<1>1. /\ UNCHANGED wallet /\ snap' = s
      /\ reader' = [reader EXCEPT ![r] = new] /\ reader[r].pc = "cut"
  BY DEF Promote, wallet
<1>2. reader[r] \in ReaderType /\ ReaderInv(r) /\ TypeOK /\ StoreInv
  BY DEF CacheInv, TypeOK, ReaderType
<1>3. /\ s \in SnapType
      /\ \/ s = snap
         \/ /\ s.db.init = "Initialized" /\ s.db = ChainState(s.wm)
            /\ s.wm <= Len(chain) /\ s.wm + SafeDepth <= peak
      /\ MaxOf(s.wm, reader[r].cutoff) = b
      /\ b <= Len(chain) /\ s.db = ChainState(b)
  BY <1>1, <1>2, PromoteKeepsStore
<1> HIDE DEF s
<1>4. StoreInv'
  BY <1>1, <1>2, <1>3, WalletUnchanged DEF StoreInv, wallet
<1>5. /\ new \in ReaderType
      /\ new.pc = "promoted" /\ new.cutoff = reader[r].cutoff /\ new.rows = reader[r].rows
      /\ new.pending = reader[r].pending
      /\ new.tip = reader[r].tip /\ new.fully = reader[r].fully /\ new.wm = reader[r].wm
  BY <1>2 DEF ReaderType, Pc
<1> HIDE DEF new
<1>6. reader'[r] = new => ReaderInv(r)'
  BY <1>1, <1>2, <1>3, <1>5, WalletUnchanged DEF ReaderInv, Base, wallet
<1> QED BY <1>1, <1>3, <1>4, <1>5, <1>6, ReadFrame

LEMMA ReplayStep ==
    ASSUME CacheInv, Undisturbed, NEW r \in Readers, Replay(r)
    PROVE  CacheInv'
<1> DEFINE j == JudgedAt(TailRows(r), reader[r].tip)
           res == replay_with_seed(clear_pending(snap.db), j, reader[r].pending)
           new == [reader[r] EXCEPT !.pc = "done", !.result = res]
<1>1. /\ UNCHANGED wallet /\ snap' = snap
      /\ reader' = [reader EXCEPT ![r] = new] /\ reader[r].pc = "promoted"
  BY DEF Replay, wallet
<1>2. reader[r] \in ReaderType /\ ReaderInv(r) /\ TypeOK /\ StoreInv
  BY DEF CacheInv, TypeOK, ReaderType
<1>3. res \in Database
  <2>1. clear_pending(snap.db) \in Database
    <3>1. snap.db \in Database /\ [k \in Keys |-> << >>] \in [Keys -> Seq(PendingOp)]
      BY <1>2 DEF TypeOK
    <3> QED BY <3>1 DEF clear_pending, Database
  <2>2. TailRows(r) \in Decoded
    <3> DEFINE D == DOMAIN reader[r].rows \ 1..reader[r].cutoff
    <3>1. PICK H \in SUBSET (1..MaxHeight) : reader[r].rows \in [H -> Rows]
      BY <1>2 DEF ReaderType, Decoded
    <3>2. D \in SUBSET (1..MaxHeight) /\ [h \in D |-> reader[r].rows[h]] \in [D -> Rows]
      BY <3>1
    <3> HIDE DEF D
    <3>3. [h \in D |-> reader[r].rows[h]] \in Decoded
      BY <3>2 DEF Decoded
    <3> QED BY <3>3 DEF TailRows, D
  <2>3. JudgedOK(j)
    BY <2>2, DecodedJudged
  <2> HIDE DEF j
  <2>4. FoldMined(clear_pending(snap.db), j) \in Database
    <3>1. MaxHeight \in 0..MaxHeight
      BY BoundsAssumption
    <3> QED BY <2>1, <2>3, <3>1, FoldToRec DEF FoldMined
  <2>5. reader[r].pending \in Seq(Rows)
    BY <1>2 DEF ReaderType
  <2>6. FoldUnmined(FoldMined(clear_pending(snap.db), j), reader[r].pending) \in Database
    BY <2>4, <2>5, UnminedTyped
  <2> QED BY <2>6, PruneFacts DEF replay_with_seed
<1>4. MinConfs <= SafeDepth + 1 => res = replay_with_seed(EmptyDatabase, JudgedForRead(r), unmined)
  BY <1>1, <1>2, ReplayAgrees
<1> HIDE DEF res
<1>5. /\ new \in ReaderType
      /\ new.pc = "done" /\ new.cutoff = reader[r].cutoff /\ new.rows = reader[r].rows
      /\ new.pending = reader[r].pending /\ new.result = res
      /\ new.tip = reader[r].tip /\ new.fully = reader[r].fully /\ new.wm = reader[r].wm
  BY <1>2, <1>3 DEF ReaderType, Pc
<1> HIDE DEF new
<1>6. reader'[r] = new => JudgedForRead(r)' = JudgedForRead(r)
  <2>1. reader'[r] = new => /\ chain' = chain /\ Readable' = Readable /\ snap' = snap
                            /\ reader'[r].tip = reader[r].tip
    BY <1>1, <1>5, WalletUnchanged DEF wallet
  <2> QED BY <2>1 DEF JudgedForRead, TipFor
<1>7. reader'[r] = new => ReaderInv(r)'
  BY <1>1, <1>2, <1>4, <1>5, <1>6, WalletUnchanged DEF ReaderInv, Base, wallet
<1> QED BY <1>1, <1>5, <1>7, StoreUnchanged, ReadFrame

\* The invariant is inductive.
LEMMA CacheInvStep == Undisturbed /\ CacheInv /\ [Next]_vars => CacheInv'
<1> SUFFICES ASSUME Undisturbed, CacheInv, [Next]_vars PROVE CacheInv'
  OBVIOUS
<1>1. CASE UNCHANGED vars
  <2>1. UNCHANGED wallet /\ snap' = snap /\ reader' = reader
    BY <1>1 DEF vars, wallet
  <2>2. TypeOK' /\ StoreInv'
    BY <2>1, StoreUnchanged DEF CacheInv, TypeOK, wallet
  <2>3. ASSUME NEW r \in Readers PROVE ReaderInv(r)'
    <3>1. JudgedForRead(r)' = JudgedForRead(r)
      BY <2>1, WalletUnchanged DEF JudgedForRead, TipFor, wallet
    <3>2. Base(r)' = Base(r) /\ ReaderInv(r)
      BY <2>1 DEF Base, CacheInv
    <3> QED BY <2>1, <3>1, <3>2, WalletUnchanged DEF ReaderInv, wallet
  <2> QED BY <2>2, <2>3 DEF CacheInv
<1>2. CASE Next
  <2>1. CASE \/ \E row \in Rows : Mine(row)
             \/ \E n \in 0..MaxHeight : Reorg(n)
    BY <2>1, ChainStep
  <2>2. CASE \/ \E row \in Rows : SeeUnmined(row)
             \/ UpdateTip \/ DropUnmined
             \/ \E h \in 1..MaxHeight : ScanBlock(h) \/ Enhance(h)
             \/ \E n \in 0..MaxHeight : Rewind(n)
    BY <2>2, ScanStep
  <2>3. ASSUME NEW r \in Readers,
               \/ ReadTip(r) \/ OpenSnapshot(r) \/ ScanMemos(r) \/ ReadFloor(r)
               \/ Promote(r) \/ Replay(r) \/ Fail(r) \/ Return(r) \/ KillInWipe(r)
        PROVE  CacheInv'
    BY <2>3, ReadTipStep, OpenStep, ScanMemosStep, ReadFloorStep, PromoteStep, ReplayStep, EndStep
  <2> QED BY <1>2, <2>1, <2>2, <2>3 DEF Next
<1> QED BY <1>1, <1>2

\* The cache is right (promote_cutoff, promote, wipe): on any chain, whatever order blocks
\* are scanned and fetched in, with rewinds of any depth, reorgs up to SAFE_DEPTH and
\* wipes interrupted anywhere, an initialised snapshot is the fold of the chain's rows up
\* to its watermark.  Hypotheses: reads do not overlap and the node is idle during a read.
THEOREM CacheIsRight == ASSUME Undisturbed PROVE Spec => []SnapshotAgrees
<1>1. Init => CacheInv
  BY CacheInvInit
<1>2. CacheInv /\ [Next]_vars => CacheInv'
  BY CacheInvStep
<1>3. CacheInv => SnapshotAgrees
  BY DEF CacheInv, StoreInv, SnapshotAgrees, EmptyDatabase
<1> QED BY <1>1, <1>2, <1>3, PTL DEF Spec

\* The cache is invisible (load_state_with_height): under the same hypotheses, a read at a
\* depth the snapshot can serve returns what replaying every known row from genesis would.
THEOREM CacheIsInvisible ==
    ASSUME Undisturbed, MinConfs <= SafeDepth + 1 PROVE Spec => []ReadAgrees
<1>1. Init => CacheInv
  BY CacheInvInit
<1>2. CacheInv /\ [Next]_vars => CacheInv'
  BY CacheInvStep
<1>3. CacheInv => ReadAgrees
  BY DEF CacheInv, ReaderInv, ReadAgrees
<1> QED BY <1>1, <1>2, <1>3, PTL DEF Spec

-----------------------------------------------------------------------------
(* The write path: its loops.                                                *)

Row == [tx : Nat, memo : Memo]

\* The rows of some transactions are a sequence of theirs that misses none.
LEMMA RowsOfFacts ==
    ASSUME NEW txs, waiting \in Seq(Row)
    PROVE  /\ RowsOf(txs) \in Seq(Row)
           /\ \A h \in DOMAIN RowsOf(txs) :
                  RowsOf(txs)[h].tx \in txs /\ \E i \in DOMAIN waiting : RowsOf(txs)[h] = waiting[i]
           /\ \A i \in DOMAIN waiting :
                  waiting[i].tx \in txs => \E h \in DOMAIN RowsOf(txs) : RowsOf(txs)[h] = waiting[i]
<1>w. PICK w \in Seq(Row) : w = waiting
  OBVIOUS
<1>0. PICK n \in Nat : n = Len(w)
  OBVIOUS
<1> DEFINE S == {w[i] : i \in {j \in 1..n : w[j].tx \in txs}}
           D == Seq(S)
           One(x, i) == IF w[i].tx \in txs THEN Append(x, w[i]) ELSE x
           step == [z \in (1..n) \X D |-> One(z[2], z[1])]
           Loop(f) == f = [i \in 0..Len(waiting) |->
                              IF i = 0 THEN << >>
                              ELSE IF waiting[i].tx \in txs THEN Append(f[i - 1], waiting[i])
                              ELSE f[i - 1]]
<1>1. ASSUME NEW i \in 1..n, NEW x \in D PROVE One(x, i) \in D
  <2>1. w[i].tx \in txs => w[i] \in S
    OBVIOUS
  <2> HIDE DEF S
  <2> QED BY <2>1
<1>e. << >> \in D
  <2> HIDE DEF S
  <2> QED OBVIOUS
<1> HIDE DEF D, One
<1>2. step \in [(1..n) \X D -> D]
  BY <1>1
<1> HIDE DEF step
<1>3. PICK g : Iterates(g, n, D, << >>, step)
  BY <1>e, <1>2, RecursionExists, Zenon
<1>4. ASSUME NEW i \in 1..n
      PROVE  g[i] = One(g[i - 1], i)
  <2>1. g[i] = step[<<i, g[i - 1]>>] /\ g[i - 1] \in D
    BY <1>3 DEF Iterates
  <2>2. step[<<i, g[i - 1]>>] = One(g[i - 1], i)
    BY <2>1 DEF step
  <2> QED BY <2>1, <2>2
<1> DEFINE Loops(x) == x = [i \in 0..n |-> IF i = 0 THEN << >> ELSE One(x[i - 1], i)]
<1>s. ASSUME NEW x PROVE Loop(x) <=> Loops(x)
  BY <1>w, <1>0 DEF One
<1>5. Loop(g)
  <2>1. Loops(g)
    BY <1>3, <1>4 DEF Iterates
  <2> HIDE DEF Loop, Loops
  <2> QED BY <2>1, <1>s
<1> DEFINE f == CHOOSE x : Loop(x)
<1>6. RowsOf(txs) = f[Len(waiting)]
  BY Zenon DEF RowsOf
<1>7. Loop(f)
  <2> HIDE DEF Loop
  <2> QED BY <1>5, Zenon
<1> HIDE DEF f
<1>8. f[0] = << >> /\ \A i \in 1..n : f[i] = One(f[i - 1], i)
  <2>1. Loops(f)
    <3> HIDE DEF Loop, Loops
    <3> QED BY <1>s, <1>7
  <2> QED BY <2>1
<1> DEFINE Good(i) == /\ f[i] \in D
                      /\ \A j \in 1..i : w[j].tx \in txs => \E h \in 1..Len(f[i]) : f[i][h] = w[j]
           T == {i \in Nat : i <= n => Good(i)}
<1>9. 0 \in T
  BY <1>8, <1>e
<1>10. ASSUME NEW i \in Nat, i \in T PROVE i + 1 \in T
  <2> SUFFICES ASSUME i + 1 <= n PROVE Good(i + 1)
    OBVIOUS
  <2>1. Good(i) /\ i + 1 \in 1..n /\ f[i + 1] = One(f[i], i + 1)
    BY <1>8, <1>10
  <2>2. f[i + 1] \in D
    BY <1>1, <2>1
  <2>3. ASSUME NEW j \in 1..(i + 1), w[j].tx \in txs
        PROVE  \E h \in 1..Len(f[i + 1]) : f[i + 1][h] = w[j]
    <3>1. CASE j = i + 1
      <4>1. f[i + 1] = Append(f[i], w[j]) /\ f[i] \in D
        BY <2>1, <2>3, <3>1 DEF One
      <4>2. f[i] \in Seq(S)
        BY <4>1 DEF D
      <4>3. Len(f[i]) + 1 \in 1..Len(f[i + 1]) /\ f[i + 1][Len(f[i]) + 1] = w[j]
        BY <4>1, <4>2
      <4> QED BY <4>3
    <3>2. CASE j # i + 1
      <4>1. j \in 1..i
        BY <3>2
      <4>2. PICK h \in 1..Len(f[i]) : f[i][h] = w[j]
        BY <4>1, <2>1, <2>3
      <4>3. f[i] \in Seq(S)
        BY <2>1 DEF D
      <4>4. h \in 1..Len(f[i + 1]) /\ f[i + 1][h] = w[j]
        <5>1. CASE f[i + 1] = f[i]
          BY <4>2, <5>1
        <5>2. CASE f[i + 1] = Append(f[i], w[i + 1])
          BY <4>2, <4>3, <5>2
        <5> QED BY <2>1, <5>1, <5>2 DEF One
      <4> QED BY <4>4
    <3> QED BY <3>1, <3>2
  <2> QED BY <2>2, <2>3
<1> HIDE DEF T
<1>11. \A i \in Nat : i \in T
  BY <1>9, <1>10, NatSetInduction
<1>12. Good(n)
  BY <1>11 DEF T
<1> DEFINE r == RowsOf(txs)
<1>13. r = f[n]
  BY <1>6, <1>w, <1>0
<1> HIDE DEF r
<1>14. r \in Seq(S) /\ \A j \in 1..n : w[j].tx \in txs => \E h \in 1..Len(r) : r[h] = w[j]
  BY <1>12, <1>13 DEF D
<1>15. S \subseteq Row
  BY <1>0
<1>16. r \in Seq(Row)
  <2> HIDE DEF S
  <2> QED BY <1>14, <1>15
<1>17. \A h \in DOMAIN r : r[h] \in S
  <2> HIDE DEF S
  <2> QED BY <1>14
<1>18. DOMAIN w = 1..n /\ DOMAIN r = 1..Len(r)
  BY <1>0, <1>16
<1>19. \A h \in DOMAIN r : r[h].tx \in txs /\ \E i \in DOMAIN w : r[h] = w[i]
  BY <1>17, <1>18
<1>20. \A i \in DOMAIN w : w[i].tx \in txs => \E h \in DOMAIN r : r[h] = w[i]
  BY <1>14, <1>18
<1> QED BY <1>w, <1>16, <1>19, <1>20 DEF r

\* Folding rows as confirmed is defined after each of them.
LEMMA ConfirmedRec ==
    ASSUME NEW rows \in Seq(Row), db \in Database
    PROVE  \E f \in [0..Len(rows) -> Database] :
               /\ f[0] = db
               /\ \A i \in 1..Len(rows) : f[i] = Fold(f[i - 1], rows[i].memo, "Confirmed")
               /\ Confirmed(rows) = f[Len(rows)]
<1>d. PICK d \in Database : d = db
  OBVIOUS
<1>0. PICK n \in Nat : n = Len(rows)
  OBVIOUS
<1> DEFINE One(x, i) == Fold(x, rows[i].memo, "Confirmed")
           step == [z \in (1..n) \X Database |-> One(z[2], z[1])]
           Loop(f) == f = [i \in 0..Len(rows) |->
                              IF i = 0 THEN db ELSE Fold(f[i - 1], rows[i].memo, "Confirmed")]
           Loops(f) == f = [i \in 0..n |-> IF i = 0 THEN d ELSE One(f[i - 1], i)]
<1>1. ASSUME NEW i \in 1..n, NEW x \in Database PROVE One(x, i) \in Database
  <2>1. rows[i] \in Row
    BY <1>0
  <2>2. rows[i].memo \in Memo
    BY <2>1 DEF Row
  <2> QED BY <2>2, FoldFacts DEF FoldStep, Status
<1>s. ASSUME NEW x PROVE Loop(x) <=> Loops(x)
  BY <1>d, <1>0
<1> HIDE DEF One
<1>2. step \in [(1..n) \X Database -> Database]
  BY <1>1
<1> HIDE DEF step
<1>3. PICK g : Iterates(g, n, Database, d, step)
  BY <1>2, RecursionExists, Zenon
<1>4. ASSUME NEW i \in 1..n
      PROVE  g[i] = One(g[i - 1], i)
  <2>1. g[i] = step[<<i, g[i - 1]>>] /\ g[i - 1] \in Database
    BY <1>3 DEF Iterates
  <2>2. step[<<i, g[i - 1]>>] = One(g[i - 1], i)
    BY <2>1 DEF step
  <2> QED BY <2>1, <2>2
<1>5. Loop(g)
  <2>1. g = [i \in 0..n |-> g[i]] /\ g[0] = d
    BY <1>3 DEF Iterates
  <2>2. ASSUME NEW i \in 0..n PROVE g[i] = IF i = 0 THEN d ELSE One(g[i - 1], i)
    <3>1. CASE i = 0
      BY <2>1, <3>1
    <3>2. CASE i # 0
      <4>1. i \in 1..n
        BY <3>2
      <4> QED BY <1>4, <4>1, <3>2
    <3> QED BY <3>1, <3>2
  <2>3. Loops(g)
    BY <2>1, <2>2
  <2> HIDE DEF Loop, Loops
  <2> QED BY <2>3, <1>s
<1> DEFINE f == CHOOSE x : Loop(x)
<1>6. Confirmed(rows) = f[Len(rows)]
  BY Zenon DEF Confirmed
<1>7. Loop(f)
  <2> HIDE DEF Loop
  <2> QED BY <1>5, Zenon
<1> HIDE DEF f
<1>8. f[0] = d /\ (\A i \in 1..n : f[i] = One(f[i - 1], i)) /\ f = [i \in 0..n |-> f[i]]
  <2>1. Loops(f)
    <3> HIDE DEF Loop, Loops
    <3> QED BY <1>s, <1>7
  <2> QED BY <2>1
<1> DEFINE T == {i \in Nat : i <= n => f[i] \in Database}
<1>9. 0 \in T
  BY <1>8
<1>10. ASSUME NEW i \in Nat, i \in T PROVE i + 1 \in T
  <2> SUFFICES ASSUME i + 1 <= n PROVE f[i + 1] \in Database
    OBVIOUS
  <2>1. f[i] \in Database /\ i + 1 \in 1..n
    BY <1>10
  <2>2. f[i + 1] = One(f[i], i + 1)
    BY <1>8, <2>1
  <2> QED BY <1>1, <2>1, <2>2
<1> HIDE DEF T
<1>11. \A i \in Nat : i \in T
  BY <1>9, <1>10, NatSetInduction
<1>12. \A i \in 0..n : f[i] \in Database
  BY <1>11 DEF T
<1>13. f \in [0..n -> Database]
  BY <1>8, <1>12
<1>14. /\ f[0] = db
       /\ \A i \in 1..Len(rows) : f[i] = Fold(f[i - 1], rows[i].memo, "Confirmed")
  BY <1>8, <1>d, <1>0 DEF One
<1> QED BY <1>0, <1>6, <1>13, <1>14

\* The overlay of the unmined rows is defined after each of them.
Waiters == {waiting[i].tx : i \in DOMAIN waiting}

Overlays == [db : Database, txs : [Keys -> SUBSET Waiters]]

LEMMA OverlaidRec ==
    ASSUME waiting \in Seq(Row), db \in Database
    PROVE  \E f \in [0..Len(waiting) -> Overlays] :
               /\ f[0].db = db
               /\ \A i \in 1..Len(waiting) :
                      f[i].db = Fold(f[i - 1].db, waiting[i].memo, "Confirming")
               /\ Overlaid = f[Len(waiting)]
<1>d. PICK d \in Database : d = db
  OBVIOUS
<1>w. PICK w \in Seq(Row) : w = waiting
  OBVIOUS
<1>0. PICK n \in Nat : n = Len(w)
  OBVIOUS
<1> DEFINE U == {w[i].tx : i \in 1..n}
           D == [db : Database, txs : [Keys -> SUBSET U]]
           seed == [db |-> d, txs |-> [k \in Keys |-> {}]]
           One(x, i) ==
               LET m == w[i].memo
                   honoured == classify(x.db, m, "Confirming") = "Pending"
               IN  [db  |-> Fold(x.db, m, "Confirming"),
                    txs |-> IF honoured /\ m.op \in DataOps
                            THEN [x.txs EXCEPT ![m.key] = @ \cup {w[i].tx}]
                            ELSE x.txs]
           step == [z \in (1..n) \X D |-> One(z[2], z[1])]
           Loop(f) ==
               f = [i \in 0..Len(waiting) |->
                       IF i = 0 THEN [db |-> db, txs |-> [k \in Keys |-> {}]]
                       ELSE LET m == waiting[i].memo
                                honoured == classify(f[i - 1].db, m, "Confirming") = "Pending"
                            IN  [db  |-> Fold(f[i - 1].db, m, "Confirming"),
                                 txs |-> IF honoured /\ m.op \in DataOps
                                         THEN [f[i - 1].txs EXCEPT ![m.key] = @ \cup {waiting[i].tx}]
                                         ELSE f[i - 1].txs]]
           Loops(f) == f = [i \in 0..n |-> IF i = 0 THEN seed ELSE One(f[i - 1], i)]
<1>1. ASSUME NEW i \in 1..n, NEW x \in D PROVE One(x, i) \in D
  <2>0. w[i] \in Row
    BY <1>0
  <2>1. w[i].memo \in Memo /\ w[i].tx \in U
    BY <2>0 DEF Row
  <2>2. x.db \in Database /\ x.txs \in [Keys -> SUBSET U]
    OBVIOUS
  <2>3. Fold(x.db, w[i].memo, "Confirming") \in Database
    BY <2>1, <2>2, FoldFacts DEF FoldStep, Status
  <2> HIDE DEF U
  <2>4. [x.txs EXCEPT ![w[i].memo.key] = @ \cup {w[i].tx}] \in [Keys -> SUBSET U]
    BY <2>1, <2>2
  <2> QED BY <2>2, <2>3, <2>4
<1>s. ASSUME NEW x PROVE Loop(x) <=> Loops(x)
  BY <1>d, <1>w, <1>0
<1>e. seed \in D
  OBVIOUS
<1>o. ASSUME NEW x, NEW i PROVE One(x, i).db = Fold(x.db, w[i].memo, "Confirming")
  OBVIOUS
<1>v. seed.db = d
  OBVIOUS
<1> HIDE DEF One, D, seed
<1>2. step \in [(1..n) \X D -> D]
  BY <1>1
<1> HIDE DEF step
<1>3. PICK g : Iterates(g, n, D, seed, step)
  BY <1>e, <1>2, RecursionExists, Zenon
<1>4. ASSUME NEW i \in 1..n
      PROVE  g[i] = One(g[i - 1], i)
  <2>1. g[i] = step[<<i, g[i - 1]>>] /\ g[i - 1] \in D
    BY <1>3 DEF Iterates
  <2>2. step[<<i, g[i - 1]>>] = One(g[i - 1], i)
    BY <2>1 DEF step
  <2> QED BY <2>1, <2>2
<1>5. Loop(g)
  <2>1. g = [i \in 0..n |-> g[i]] /\ g[0] = seed
    BY <1>3 DEF Iterates
  <2>2. ASSUME NEW i \in 0..n PROVE g[i] = IF i = 0 THEN seed ELSE One(g[i - 1], i)
    <3>1. CASE i = 0
      BY <2>1, <3>1
    <3>2. CASE i # 0
      <4>1. i \in 1..n
        BY <3>2
      <4> QED BY <1>4, <4>1, <3>2
    <3> QED BY <3>1, <3>2
  <2>3. Loops(g)
    BY <2>1, <2>2
  <2> HIDE DEF Loop, Loops
  <2> QED BY <2>3, <1>s
<1> DEFINE f == CHOOSE x : Loop(x)
<1>6. Overlaid = f[Len(waiting)]
  BY Zenon DEF Overlaid
<1>7. Loop(f)
  <2> HIDE DEF Loop
  <2> QED BY <1>5, Zenon
<1> HIDE DEF f
<1>8. f[0] = seed /\ (\A i \in 1..n : f[i] = One(f[i - 1], i)) /\ f = [i \in 0..n |-> f[i]]
  <2>1. Loops(f)
    <3> HIDE DEF Loop, Loops
    <3> QED BY <1>s, <1>7
  <2>2. 0 \in 0..n /\ f = [i \in 0..n |-> IF i = 0 THEN seed ELSE One(f[i - 1], i)]
    BY <2>1
  <2>3. f[0] = seed
    BY <2>2
  <2>4. ASSUME NEW i \in 1..n PROVE f[i] = One(f[i - 1], i)
    <3>1. i \in 0..n /\ i # 0
      OBVIOUS
    <3> QED BY <2>2, <3>1
  <2>5. f = [i \in 0..n |-> f[i]]
    BY <2>2
  <2> QED BY <2>3, <2>4, <2>5
<1> DEFINE T == {i \in Nat : i <= n => f[i] \in D}
<1>9. 0 \in T
  BY <1>8, <1>e
<1>10. ASSUME NEW i \in Nat, i \in T PROVE i + 1 \in T
  <2> SUFFICES ASSUME i + 1 <= n PROVE f[i + 1] \in D
    OBVIOUS
  <2>1. f[i] \in D /\ i + 1 \in 1..n
    BY <1>10
  <2>2. \A j \in 1..n : \A h : h = j - 1 => f[j] = One(f[h], j)
    BY <1>8
  <2>3. i = (i + 1) - 1
    OBVIOUS
  <2>4. f[i + 1] = One(f[i], i + 1)
    BY <2>1, <2>2, <2>3
  <2> QED BY <1>1, <2>1, <2>4
<1> HIDE DEF T
<1>11. \A i \in Nat : i \in T
  BY <1>9, <1>10, NatSetInduction
<1>12. \A i \in 0..n : f[i] \in D
  BY <1>11 DEF T
<1>13. f \in [0..n -> D]
  BY <1>8, <1>12
<1>14. f[0].db = d /\ \A i \in 1..n : f[i].db = Fold(f[i - 1].db, w[i].memo, "Confirming")
  BY <1>8, <1>o, <1>v
<1>15. D = Overlays
  <2>1. DOMAIN waiting = 1..n
    BY <1>w, <1>0
  <2>2. U = Waiters
    BY <1>w, <2>1 DEF Waiters
  <2> HIDE DEF U
  <2> QED BY <2>2 DEF D, Overlays
<1>16. f \in [0..n -> Overlays]
  BY <1>13, <1>15
<1> HIDE DEF f, Loop, Loops
<1> QED BY <1>w, <1>d, <1>0, <1>6, <1>14, <1>16

-----------------------------------------------------------------------------
(* What folding a row does to the sequences and the authority of others.   *)

\* The high-waters of e are at least those of d.
Grown(d, e) ==
    /\ d \in Database /\ e \in Database
    /\ \A k \in Keys : d.kv_versions[k] =< e.kv_versions[k]
    /\ \A t \in Targets : d.target_versions[t] =< e.target_versions[t]

LEMMA FoldGrows ==
    ASSUME NEW d \in Database, NEW m \in Memo, NEW status \in Status
    PROVE  Grown(d, Fold(d, m, status))
BY FoldFacts DEF FoldStep, Grown

LEMMA GrownSteps ==
    ASSUME NEW d, NEW e, NEW f, Grown(d, e), Grown(e, f)
    PROVE  Grown(d, f)
<1>1. \A k \in Keys : d.kv_versions[k] \in Nat /\ e.kv_versions[k] \in Nat /\ f.kv_versions[k] \in Nat
  BY DEF Grown, Database
<1>2. \A t \in Targets : /\ d.target_versions[t] \in Nat /\ e.target_versions[t] \in Nat
                         /\ f.target_versions[t] \in Nat
  BY DEF Grown, Database
<1> QED BY <1>1, <1>2 DEF Grown

LEMMA GrownWaters ==
    ASSUME NEW d, NEW e, Grown(d, e), NEW m \in Memo, is_versioned(m.op)
    PROVE  /\ high_water(d, m) \in Nat /\ high_water(e, m) \in Nat
           /\ high_water(d, m) =< high_water(e, m)
<1>1. (m.op \in DataOps /\ m.key \in Keys) \/ (m.op \notin DataOps /\ m.key \in Targets)
  BY MemoFields DEF is_versioned
<1> QED BY <1>1 DEF Grown, high_water, Database

\* A confirming row confers and seals nothing.
LEMMA ConfirmingKeeps ==
    ASSUME NEW d \in Database, NEW m \in Memo
    PROVE  /\ Fold(d, m, "Confirming").owners = d.owners
           /\ Fold(d, m, "Confirming").finalized = d.finalized
           /\ d.init = "Initialized" => Fold(d, m, "Confirming").init = "Initialized"
<1> DEFINE e == Fold(d, m, "Confirming")
<1>1. CASE classify(d, m, "Confirming") \notin {"Applied", "Pending"}
  BY <1>1 DEF Fold
<1>2. CASE classify(d, m, "Confirming") \in {"Applied", "Pending"}
  <2>1. /\ classify(d, m, "Confirming") = "Pending"
        /\ m.op = "INIT" => d.init = "Uninitialized"
    BY <1>2, HonouredGate DEF Status
  <2>2. e = apply_pending(d, m)
    BY <2>1 DEF Fold
  <2>3. m.op \in DataOps \cup RegistryOps \cup {"INIT", "FINALIZE", "VERSION"}
    BY MemoFields
  <2> HIDE DEF e
  <2>4. CASE m.op = "INIT"
    <3>1. e = [d EXCEPT !.init = "Initializing"]
      BY <2>2, <2>4 DEF apply_pending, DataOps, SetOps, RegistryOps
    <3> QED BY <2>1, <2>4, <3>1 DEF e, Database
  <2>5. CASE m.op \in RegistryOps
    <3>1. e = [d EXCEPT !.target_versions[m.key] = bump_hw(@, m.seq)]
      BY <2>2, <2>5 DEF apply_pending, DataOps, SetOps, RegistryOps
    <3> QED BY <3>1 DEF e, Database
  <2>6. CASE m.op \in DataOps
    <3> DEFINE queued == [op |-> IF m.op = "DEL" THEN "Del" ELSE "Set", value |-> m.value]
    <3>1. e = [d EXCEPT !.pending[m.key] = Append(@, queued),
                        !.kv_versions[m.key] = bump_hw(@, m.seq)]
      BY <2>2, <2>6 DEF apply_pending, DataOps, SetOps, RegistryOps
    <3> HIDE DEF queued
    <3> QED BY <3>1 DEF e, Database
  <2>7. CASE m.op \in {"FINALIZE", "VERSION"}
    <3>1. e = d
      BY <2>2, <2>7 DEF apply_pending, DataOps, SetOps, RegistryOps
    <3> QED BY <3>1 DEF e
  <2> QED BY <2>3, <2>4, <2>5, <2>6, <2>7
<1> QED BY <1>1, <1>2

\* Owners imply an INIT.
OwnersInit(d) == d.owners # {} => d.init = "Initialized"

\* What a confirmed row may change of that: it never unseals, an INIT or an owner comes
\* with an initialised database, and data ops leave all of it alone.
Carried(d, m, e) ==
    /\ OwnersInit(e)
    /\ d.finalized => e = d
    /\ m.op \in DataOps => e.owners = d.owners /\ e.init = d.init
                           /\ e.finalized = d.finalized
    /\ \/ e.kv = d.kv /\ e.kv_versions = d.kv_versions
       \/ /\ m.op \in DataOps /\ m.key \in Keys
          /\ e.kv = [d.kv EXCEPT ![m.key] = m.value]
          /\ e.kv_versions = [d.kv_versions EXCEPT ![m.key] = m.seq + 1]

LEMMA ConfirmedKeeps ==
    ASSUME NEW d \in Database, NEW m \in Memo, NEW e, e = Fold(d, m, "Confirmed"), OwnersInit(d)
    PROVE  Carried(d, m, e)
<1> USE DEF Carried
<1>1. CASE classify(d, m, "Confirmed") \notin {"Applied", "Pending"}
  BY <1>1 DEF Fold
<1>2. CASE classify(d, m, "Confirmed") \in {"Applied", "Pending"}
  <2>1. /\ classify(d, m, "Confirmed") = "Applied"
        /\ m.op # "INIT" => d.init = "Initialized"
    BY <1>2, HonouredGate DEF Status
  <2>2. e = apply_confirmed(d, m)
    BY <2>1 DEF Fold
  <2>3. ~d.finalized /\ seq_in_window(d, m)
    BY <2>1 DEF classify, decide
  <2>4. m.op \in DataOps \cup RegistryOps \cup {"INIT", "FINALIZE", "VERSION"}
    BY MemoFields
  <2>5. CASE m.op = "INIT"
    <3>1. e = [d EXCEPT !.owners = @ \cup {Root}, !.writers[Root] = {}, !.init = "Initialized"]
      BY <2>2, <2>5 DEF apply_confirmed, insert_owner, Database, DataOps, SetOps, RegistryOps
    <3>2. e.kv = d.kv /\ e.kv_versions = d.kv_versions /\ e.init = "Initialized"
      BY <3>1 DEF Database
    <3> QED BY <2>3, <2>5, <3>2 DEF OwnersInit, DataOps, SetOps
  <2>6. CASE m.op \in RegistryOps
    <3> DEFINE a == apply_management(d, m)
    <3>1. a \in Database /\ a = [d EXCEPT !.owners = a.owners, !.writers = a.writers]
      BY <2>6, ManagementTyped
    <3>2. e = [a EXCEPT !.target_versions[m.key] = bump_hw(@, m.seq)]
      BY <2>2, <2>6 DEF apply_confirmed, DataOps, SetOps, RegistryOps
    <3> HIDE DEF a
    <3>3. a.kv = d.kv /\ a.kv_versions = d.kv_versions /\ a.init = d.init
      BY <3>1 DEF Database
    <3>4. e.kv = a.kv /\ e.kv_versions = a.kv_versions /\ e.init = a.init
      BY <3>1, <3>2 DEF Database
    <3>5. m.op \notin DataOps /\ m.op # "INIT"
      BY <2>6 DEF DataOps, SetOps, RegistryOps
    <3> QED BY <2>1, <2>3, <3>3, <3>4, <3>5 DEF OwnersInit
  <2>7. CASE m.op \in {"VERSION", "FINALIZE"}
    <3>1. e.kv = d.kv /\ e.kv_versions = d.kv_versions /\ e.init = d.init /\ m.op \notin DataOps
      BY <2>2, <2>7 DEF apply_confirmed, apply_version, DataOps, SetOps, RegistryOps, Database
    <3> QED BY <2>1, <2>3, <2>7, <3>1 DEF OwnersInit
  <2>8. CASE m.op \in DataOps
    <3>1. e = [d EXCEPT !.kv[m.key] = m.value, !.kv_versions[m.key] = bump_hw(@, m.seq)]
      BY <2>2, <2>8 DEF apply_confirmed, DataOps, SetOps, RegistryOps
    <3>2. m.key \in Keys /\ m.seq \in Nat
      BY <2>8, MemoFields
    <3>3. d.kv_versions[m.key] \in Nat /\ d.kv_versions[m.key] =< m.seq
      BY <2>3, <2>8, <3>2 DEF seq_in_window, is_versioned, high_water, Database
    <3>4. bump_hw(d.kv_versions[m.key], m.seq) = m.seq + 1
      BY <3>2, <3>3 DEF bump_hw
    <3>5. /\ e.owners = d.owners /\ e.init = d.init /\ e.finalized = d.finalized
          /\ e.kv = [d.kv EXCEPT ![m.key] = m.value]
          /\ e.kv_versions = [d.kv_versions EXCEPT ![m.key] = m.seq + 1]
      BY <3>1, <3>4 DEF Database
    <3> QED BY <2>3, <2>8, <3>2, <3>5 DEF OwnersInit
  <2> QED BY <2>4, <2>5, <2>6, <2>7, <2>8
<1> QED BY <1>1, <1>2

\* A memo that can no longer be honoured: its sequence is used up, or the database sealed.
Spent(d, m) == d.finalized \/ m.seq < high_water(d, m)

\* A memo of the client that a database would honour or has used up.
Hearable(d, m) ==
    /\ Me \in d.owners /\ d.init = "Initialized"
    /\ m.signer = Me /\ is_versioned(m.op)
    /\ m.seq =< high_water(d, m) + VersionWindow

\* Folding such a memo uses it up.
LEMMA FoldSpends ==
    ASSUME NEW d \in Database, NEW m \in Memo, NEW status \in Status, Hearable(d, m), ~d.finalized
    PROVE  m.seq < high_water(Fold(d, m, status), m)
<1>1. Grown(d, Fold(d, m, status))
  BY FoldGrows
<1>2. /\ high_water(d, m) \in Nat /\ high_water(Fold(d, m, status), m) \in Nat
      /\ high_water(d, m) =< high_water(Fold(d, m, status), m) /\ m.seq \in Nat
  BY <1>1, GrownWaters, MemoFields DEF Hearable
<1>3. CASE m.seq < high_water(d, m)
  BY <1>2, <1>3
<1>4. CASE ~(m.seq < high_water(d, m))
  <2>1. seq_in_window(d, m)
    BY <1>2, <1>4 DEF seq_in_window, Hearable
  <2>2. m.signer # NoSigner
    BY MeAssumption, NotAPubkeyAssumption DEF Hearable
  <2>3. m.op \in DataOps \cup RegistryOps /\ m.op # "INIT"
    BY DEF Hearable, is_versioned, DataOps, SetOps, RegistryOps
  <2>4. authorize(d, m.signer, m.op, d.kv[m.key] # NoValue) = "Ok" /\ m.signer \in d.owners
    BY DEF authorize, Hearable
  <2>5. decide(d, m, status) \in {"Applied", "Pending"}
    BY <2>3, <2>4 DEF decide, decide_unsealed, Hearable
  <2>6. classify(d, m, status) \in {"Applied", "Pending"}
    BY <2>1, <2>2, <2>5 DEF classify
  <2> QED BY <2>6, FoldFacts DEF Hearable
<1> QED BY <1>3, <1>4

\* What is used up stays so.
LEMMA SpentStays ==
    ASSUME NEW d \in Database, NEW m \in Memo, is_versioned(m.op), Spent(d, m),
           NEW e, Grown(d, e), d.finalized => e.finalized
    PROVE  Spent(e, m)
<1>1. /\ high_water(d, m) \in Nat /\ high_water(e, m) \in Nat /\ m.seq \in Nat
      /\ high_water(d, m) =< high_water(e, m)
  BY GrownWaters, MemoFields
<1> QED BY <1>1 DEF Spent

-----------------------------------------------------------------------------
(* The invariant.                                                          *)

\* Two memos that claim sequences of the same key or target.
SameEntity(m, n) ==
    /\ is_versioned(m.op) /\ is_versioned(n.op)
    /\ m.op \in DataOps <=> n.op \in DataOps
    /\ m.key = n.key

\* What one call signs: data ops whose sequences ascend, or a single memo.
Batched(ms) ==
    /\ ms \in Seq(Memo)
    /\ \A i \in DOMAIN ms : ms[i].signer = Me
    /\ (\A i \in DOMAIN ms : ms[i].op \in DataOps) \/ (\A i, j \in DOMAIN ms : i = j)
    /\ \A i, j \in DOMAIN ms : i < j /\ SameEntity(ms[i], ms[j]) => ms[i].seq < ms[j].seq

SentRight == sent \in Seq(Seq(Memo)) /\ \A t \in DOMAIN sent : Batched(sent[t])

RowsRight ==
    /\ waiting \in Seq(Row)
    /\ \A i \in DOMAIN waiting :
           /\ waiting[i].tx \in Live
           /\ \E j \in DOMAIN sent[waiting[i].tx] : waiting[i].memo = sent[waiting[i].tx][j]

FileRight == IsFiniteSet(toml) /\ \A e \in toml : e.tx \in 1..Len(sent)

CallRight(x) ==
    /\ x = [pc |-> x.pc, memos |-> x.memos, entries |-> x.entries]
    /\ x.pc \in {"idle", "prepared", "shipped"}
    /\ IsFiniteSet(x.entries)
    /\ x.pc = "prepared" => Batched(x.memos)
    /\ x.pc = "shipped" => \A e \in x.entries : e.tx \in 1..Len(sent)

CallsRight ==
    /\ call = [c \in Clients |-> call[c]]
    /\ \A c \in Clients : CallRight(call[c])
    /\ \A c, d \in Clients : call[c].pc # "idle" /\ call[d].pc # "idle" => c = d

DbRight == db \in Database /\ OwnersInit(db)

CountsRight == lost \subseteq 1..Len(sent) /\ others \in 0..MaxOthers

WellFormed == SentRight /\ RowsRight /\ FileRight /\ CallsRight /\ DbRight /\ CountsRight

\* Every live versioned memo is unmined or used up.
Accounted ==
    \A t \in Live : \A i \in DOMAIN sent[t] :
        is_versioned(sent[t][i].op) =>
            \/ Spent(db, sent[t][i])
            \/ \E j \in DOMAIN waiting : waiting[j].tx = t /\ waiting[j].memo = sent[t][i]

\* Memos that go past every live one.
Follows(ms) ==
    \A t \in Live : \A i \in DOMAIN sent[t], j \in DOMAIN ms :
        SameEntity(sent[t][i], ms[j]) => sent[t][i].seq < ms[j].seq

\* Each live transaction goes past the earlier ones.
Ascending ==
    \A s, t \in Live : s < t =>
        \A i \in DOMAIN sent[s], j \in DOMAIN sent[t] :
            SameEntity(sent[s][i], sent[t][j]) => sent[s][i].seq < sent[t][j].seq

\* And so do the memos of a call under way.
PreparedFollow == \A c \in Clients : call[c].pc = "prepared" => Follows(call[c].memos)

\* Nothing was confirmed on the key, or the memo that took its last sequence wrote its value.
HoldsWrite(d, k) ==
    d.kv_versions[k] = 0 \/
    \E t \in DOMAIN sent : \E i \in DOMAIN sent[t] :
        /\ sent[t][i].op \in DataOps /\ sent[t][i].key = k
        /\ sent[t][i].seq + 1 = d.kv_versions[k]
        /\ d.kv[k] = sent[t][i].value

KvRight == others = 0 => \A k \in Keys : HoldsWrite(db, k)

WriterInvariant == WellFormed /\ Accounted /\ Ascending /\ PreparedFollow /\ KvRight

-----------------------------------------------------------------------------
(* What a call reads.                                                      *)

LEMMA ImageIsFinite ==
    ASSUME NEW S, IsFiniteSet(S), NEW f, DOMAIN f = S
    PROVE  IsFiniteSet({f[x] : x \in S})
<1> DEFINE T == {f[x] : x \in S}
           g == [x \in S |-> f[x]]
<1>1. g \in Surjection(S, T)
  BY DEF Surjection
<1> HIDE DEF T, g
<1>2. IsFiniteSet(T)
  BY <1>1, FS_Surjection
<1> QED BY <1>2 DEF T

LEMMA WaitersFinite == ASSUME waiting \in Seq(Row) PROVE IsFiniteSet(Waiters)
<1>w. PICK w \in Seq(Row) : w = waiting
  OBVIOUS
<1>0. PICK n \in Nat : n = Len(w) /\ DOMAIN w = 1..n
  OBVIOUS
<1> DEFINE f == [i \in 1..n |-> w[i].tx]
           S == 1..n
<1>1. IsFiniteSet(S)
  BY FS_Interval
<1>2. DOMAIN f = S
  OBVIOUS
<1> HIDE DEF f, S
<1>3. IsFiniteSet({f[x] : x \in S})
  BY <1>1, <1>2, ImageIsFinite
<1>4. {f[x] : x \in S} = Waiters
  BY <1>w, <1>0 DEF f, S, Waiters
<1> QED BY <1>3, <1>4

\* The read of a client goes past every memo of its that is unmined.
LEMMA OverlaidPasses ==
    ASSUME DbRight, RowsRight, SentRight, Heard
    PROVE  /\ Overlaid \in Overlays
           /\ Grown(db, Overlaid.db)
           /\ Overlaid.db.finalized = db.finalized
           /\ \A i \in DOMAIN waiting :
                  LET m == waiting[i].memo
                  IN  is_versioned(m.op) /\ ~db.finalized => m.seq < high_water(Overlaid.db, m)
<1>d. PICK d \in Database : d = db
  BY DEF DbRight
<1>w. PICK w \in Seq(Row) : w = waiting
  BY DEF RowsRight
<1>0. PICK n \in Nat : n = Len(w) /\ DOMAIN w = 1..n
  OBVIOUS
<1>1. PICK f \in [0..n -> Overlays] :
          /\ f[0].db = d
          /\ \A i \in 1..n : f[i].db = Fold(f[i - 1].db, w[i].memo, "Confirming")
          /\ Overlaid = f[n]
  BY <1>d, <1>w, <1>0, OverlaidRec
<1>t. \A i \in 0..n : f[i].db \in Database
  BY <1>1 DEF Overlays
<1>m. \A i \in 1..n : w[i] \in Row /\ w[i].memo \in Memo
  <2>1. \A i \in 1..n : w[i] \in Row
    BY <1>0
  <2> QED BY <2>1 DEF Row
<1>h. \A i \in 1..n : is_versioned(w[i].memo.op) =>
          /\ Me \in d.owners /\ d.init = "Initialized" /\ w[i].memo.signer = Me
          /\ w[i].memo.seq =< high_water(d, w[i].memo) + VersionWindow
  <2> SUFFICES ASSUME NEW i \in 1..n, is_versioned(w[i].memo.op)
               PROVE  /\ Me \in d.owners /\ d.init = "Initialized" /\ w[i].memo.signer = Me
                      /\ w[i].memo.seq =< high_water(d, w[i].memo) + VersionWindow
    OBVIOUS
  <2>1. i \in DOMAIN waiting /\ waiting[i] = w[i]
    BY <1>w, <1>0
  <2>2. Me \in d.owners /\ w[i].memo.seq =< high_water(d, w[i].memo) + VersionWindow
    BY <2>1, <1>d DEF Heard
  <2>3. d.init = "Initialized"
    BY <2>2, <1>d DEF DbRight, OwnersInit
  <2>4. PICK j \in DOMAIN sent[w[i].tx] : w[i].memo = sent[w[i].tx][j]
    BY <2>1 DEF RowsRight
  <2>5. w[i].tx \in DOMAIN sent
    BY <2>1 DEF RowsRight, Live, SentRight
  <2>6. w[i].memo.signer = Me
    BY <2>4, <2>5 DEF SentRight, Batched
  <2> QED BY <2>2, <2>3, <2>6
<1> DEFINE Good(i) ==
               /\ Grown(d, f[i].db)
               /\ f[i].db.owners = d.owners /\ f[i].db.finalized = d.finalized
               /\ d.init = "Initialized" => f[i].db.init = "Initialized"
               /\ \A j \in 1..i : is_versioned(w[j].memo.op) /\ ~d.finalized
                                      => w[j].memo.seq < high_water(f[i].db, w[j].memo)
           T == {i \in Nat : i <= n => Good(i)}
<1>2. 0 \in T
  <2>1. Grown(d, d)
    BY DEF Grown, Database
  <2> QED BY <1>1, <2>1
<1>3. ASSUME NEW i \in Nat, i \in T PROVE i + 1 \in T
  <2> SUFFICES ASSUME i + 1 <= n PROVE Good(i + 1)
    OBVIOUS
  <2>g. Good(i)
    BY <1>3
  <2>a. PICK a \in Database : a = f[i].db
    BY <1>t
  <2>b. PICK b \in Database : b = f[i + 1].db
    BY <1>t
  <2>x. PICK x \in Memo : x = w[i + 1].memo
    BY <1>m
  <2>1. b = Fold(a, x, "Confirming")
    <3>1. \A j \in 1..n : \A h : h = j - 1 => f[j].db = Fold(f[h].db, w[j].memo, "Confirming")
      BY <1>1
    <3>2. i + 1 \in 1..n /\ i = (i + 1) - 1
      OBVIOUS
    <3> QED BY <3>1, <3>2, <2>a, <2>b, <2>x
  <2>2. /\ Grown(d, a) /\ a.owners = d.owners /\ a.finalized = d.finalized
        /\ d.init = "Initialized" => a.init = "Initialized"
    BY <2>g, <2>a
  <2>3. Grown(a, b)
    BY <2>1, FoldGrows DEF Status
  <2>4. Grown(d, b)
    BY <2>2, <2>3, GrownSteps
  <2>5. /\ b.owners = d.owners /\ b.finalized = d.finalized
        /\ d.init = "Initialized" => b.init = "Initialized"
    BY <2>1, <2>2, ConfirmingKeeps
  <2>6. ASSUME NEW j \in 1..(i + 1), is_versioned(w[j].memo.op), ~d.finalized
        PROVE  w[j].memo.seq < high_water(b, w[j].memo)
    <3>1. CASE j = i + 1
      <4>1. is_versioned(x.op) /\ x = w[j].memo
        BY <2>6, <2>x, <3>1
      <4>2. j \in 1..n
        BY <3>1
      <4>3. /\ Me \in d.owners /\ d.init = "Initialized" /\ x.signer = Me
            /\ x.seq =< high_water(d, x) + VersionWindow
        BY <1>h, <4>1, <4>2
      <4>4. /\ high_water(d, x) \in Nat /\ high_water(a, x) \in Nat
            /\ high_water(d, x) =< high_water(a, x) /\ x.seq \in Nat /\ VersionWindow \in Nat
        BY <2>2, <4>1, GrownWaters, MemoFields, WindowAssumption
      <4>5. x.seq =< high_water(a, x) + VersionWindow
        BY <4>3, <4>4
      <4>6. Hearable(a, x) /\ ~a.finalized
        BY <2>2, <2>6, <4>1, <4>3, <4>5 DEF Hearable
      <4> QED BY <2>1, <4>1, <4>6, FoldSpends DEF Status
    <3>2. CASE j # i + 1
      <4>1. j \in 1..i
        BY <3>2
      <4>2. w[j].memo.seq < high_water(a, w[j].memo)
        BY <2>6, <2>g, <2>a, <4>1
      <4>3. j \in 1..n
        BY <4>1
      <4>4. PICK y \in Memo : y = w[j].memo
        BY <1>m, <4>3
      <4>5. /\ high_water(a, y) \in Nat /\ high_water(b, y) \in Nat
            /\ high_water(a, y) =< high_water(b, y) /\ y.seq \in Nat
        BY <2>3, <2>6, <4>4, GrownWaters, MemoFields
      <4>6. y.seq < high_water(a, y)
        BY <4>2, <4>4
      <4>7. y.seq < high_water(b, y)
        BY <4>5, <4>6
      <4> QED BY <4>4, <4>7
    <3> QED BY <3>1, <3>2
  <2> QED BY <2>b, <2>4, <2>5, <2>6
<1> HIDE DEF T
<1>4. \A i \in Nat : i \in T
  BY <1>2, <1>3, NatSetInduction
<1>5. Good(n)
  BY <1>4 DEF T
<1>6. f[n] \in Overlays
  BY <1>1
<1>7. ASSUME NEW i \in DOMAIN waiting, is_versioned(waiting[i].memo.op), ~db.finalized
      PROVE  waiting[i].memo.seq < high_water(Overlaid.db, waiting[i].memo)
  BY <1>1, <1>5, <1>7, <1>w, <1>d, <1>0
<1> QED BY <1>1, <1>5, <1>6, <1>7, <1>d

\* The in-flight counts are numbers.
LEMMA CountsAreNumbers ==
    ASSUME waiting \in Seq(Row), Overlaid \in Overlays, NEW file, IsFiniteSet(file),
           NEW view, view = View(file)
    PROVE  /\ \A k \in Keys : inflight_count(view, k, DataOps) \in Nat
           /\ \A t \in Targets : inflight_count(view, t, RegistryOps) \in Nat
<1>1. view.toml = file /\ view.txs = Overlaid.txs
  BY DEF View
<1>2. \A k \in Keys : IsFiniteSet(view.txs[k])
  <2>1. \A k \in Keys : view.txs[k] \subseteq Waiters
    BY <1>1 DEF Overlays
  <2> QED BY <2>1, WaitersFinite, FS_Subset
<1> DEFINE all == {e.tx : e \in file}
<1>3. IsFiniteSet(all)
  <2> DEFINE f == [e \in file |-> e.tx]
  <2>1. DOMAIN f = file /\ {f[e] : e \in file} = all
    OBVIOUS
  <2> HIDE DEF f, all
  <2> QED BY <2>1, ImageIsFinite
<1>4. ASSUME NEW k \in Keys PROVE inflight_count(view, k, DataOps) \in Nat
  <2> DEFINE q == IF DataOps = DataOps /\ view.db.pending[k] # << >> THEN view.txs[k] ELSE {}
             r == {e.tx : e \in {x \in view.toml : x.key = k /\ x.op \in DataOps}}
  <2>1. IsFiniteSet(q)
    BY <1>2, FS_EmptySet
  <2>r. r \subseteq all
    BY <1>1
  <2>2. IsFiniteSet(r)
    <3> HIDE DEF r, all
    <3> QED BY <1>3, <2>r, FS_Subset
  <2>3. inflight_count(view, k, DataOps) = Cardinality(q \cup r)
    BY DEF inflight_count
  <2> HIDE DEF q, r
  <2> QED BY <2>1, <2>2, <2>3, FS_Union, FS_CardinalityType
<1>5. ASSUME NEW t \in Targets PROVE inflight_count(view, t, RegistryOps) \in Nat
  <2> DEFINE r == {e.tx : e \in {x \in view.toml : x.key = t /\ x.op \in RegistryOps}}
  <2>r. r \subseteq all
    BY <1>1
  <2>1. IsFiniteSet(r)
    <3> HIDE DEF r, all
    <3> QED BY <1>3, <2>r, FS_Subset
  <2>2. "SET" \in DataOps /\ "SET" \notin RegistryOps
    BY DEF DataOps, SetOps, RegistryOps
  <2>3. RegistryOps # DataOps
    BY <2>2
  <2>4. inflight_count(view, t, RegistryOps) = Cardinality({} \cup r)
    BY <2>3 DEF inflight_count
  <2>5. {} \cup r = r
    OBVIOUS
  <2> HIDE DEF r
  <2> QED BY <2>1, <2>4, <2>5, FS_CardinalityType
<1> QED BY <1>4, <1>5

\* The memos a sequence goes past, when it starts from a read.
Past(d, m) == is_versioned(m.op) => high_water(d, m) =< m.seq

\* What a call reads goes past every live memo of the client.
LEMMA ReadPasses ==
    ASSUME DbRight, RowsRight, SentRight, Accounted, Heard, ~db.finalized,
           NEW file, IsFiniteSet(file), NEW view, view = View(file)
    PROVE  /\ view.db \in Database
           /\ \A t \in Live : \A i \in DOMAIN sent[t] :
                  is_versioned(sent[t][i].op) => sent[t][i].seq < high_water(view.db, sent[t][i])
           /\ \A k \in Keys : inflight_count(view, k, DataOps) \in Nat
           /\ \A t \in Targets : inflight_count(view, t, RegistryOps) \in Nat
<1>o. PICK o \in Overlays : o = Overlaid
  BY OverlaidPasses
<1>d. PICK d \in Database : d = db
  BY DEF DbRight
<1>1. /\ Grown(d, o.db) /\ o.db \in Database
      /\ \A i \in DOMAIN waiting : is_versioned(waiting[i].memo.op)
              => waiting[i].memo.seq < high_water(o.db, waiting[i].memo)
  BY <1>o, <1>d, OverlaidPasses DEF Overlays
<1>2. view.db = prune(o.db)
  BY <1>o DEF View
<1>3. /\ view.db \in Database
      /\ view.db.kv_versions = o.db.kv_versions /\ view.db.target_versions = o.db.target_versions
  BY <1>1, <1>2, PruneFacts
<1>4. ASSUME NEW m PROVE high_water(view.db, m) = high_water(o.db, m)
  BY <1>3 DEF high_water
<1>5. ASSUME NEW t \in Live, NEW i \in DOMAIN sent[t], is_versioned(sent[t][i].op)
      PROVE  sent[t][i].seq < high_water(view.db, sent[t][i])
  <2>1. t \in DOMAIN sent
    BY DEF Live, SentRight
  <2>2. sent[t] \in Seq(Memo)
    BY <2>1 DEF SentRight
  <2>3. sent[t][i] \in Memo
    BY <2>2
  <2>4. PICK m \in Memo : m = sent[t][i]
    BY <2>3
  <2>5. CASE m.seq < high_water(d, m)
    <3>1. /\ high_water(d, m) \in Nat /\ high_water(o.db, m) \in Nat
          /\ high_water(d, m) =< high_water(o.db, m) /\ m.seq \in Nat
      BY <1>1, <1>5, <2>4, GrownWaters, MemoFields
    <3>2. m.seq < high_water(o.db, m)
      BY <3>1, <2>5
    <3> QED BY <3>2, <2>4, <1>4
  <2>6. CASE \E j \in DOMAIN waiting : waiting[j].tx = t /\ waiting[j].memo = sent[t][i]
    <3>1. PICK j \in DOMAIN waiting : waiting[j].memo = sent[t][i]
      BY <2>6
    <3>2. sent[t][i].seq < high_water(o.db, sent[t][i])
      BY <1>1, <1>5, <3>1
    <3> QED BY <3>2, <1>4
  <2>7. Spent(db, m) \/ \E j \in DOMAIN waiting : waiting[j].tx = t /\ waiting[j].memo = sent[t][i]
    BY <1>5, <2>4 DEF Accounted
  <2> QED BY <2>5, <2>6, <2>7, <1>d DEF Spent
<1>6. waiting \in Seq(Row) /\ Overlaid \in Overlays
  BY <1>o DEF RowsRight
<1>7. /\ \A k \in Keys : inflight_count(view, k, DataOps) \in Nat
      /\ \A t \in Targets : inflight_count(view, t, RegistryOps) \in Nat
  BY <1>6, CountsAreNumbers
<1> QED BY <1>3, <1>5, <1>7

\* So memos signed over it follow every live one.
LEMMA SignedFollows ==
    ASSUME SentRight, NEW d \in Database, NEW ms, Batched(ms),
           \A t \in Live : \A i \in DOMAIN sent[t] :
               is_versioned(sent[t][i].op) => sent[t][i].seq < high_water(d, sent[t][i]),
           \A j \in DOMAIN ms : Past(d, ms[j])
    PROVE  Follows(ms)
<1> SUFFICES ASSUME NEW t \in Live, NEW i \in DOMAIN sent[t], NEW j \in DOMAIN ms,
                    SameEntity(sent[t][i], ms[j])
             PROVE  sent[t][i].seq < ms[j].seq
  BY DEF Follows
<1>1. t \in DOMAIN sent
  BY DEF Live, SentRight
<1>2. sent[t] \in Seq(Memo)
  BY <1>1 DEF SentRight
<1>3. sent[t][i] \in Memo
  BY <1>2
<1>4. ms \in Seq(Memo)
  BY DEF Batched
<1>5. ms[j] \in Memo
  BY <1>4
<1>6. PICK m \in Memo, n \in Memo : m = sent[t][i] /\ n = ms[j]
  BY <1>3, <1>5
<1>7. SameEntity(m, n) /\ m.seq < high_water(d, m) /\ high_water(d, n) =< n.seq
  BY <1>6 DEF SameEntity, Past
<1>8. high_water(d, m) = high_water(d, n)
  BY <1>7 DEF SameEntity, high_water
<1>9. m.seq \in Nat /\ n.seq \in Nat /\ high_water(d, m) \in Nat
  <2>1. Grown(d, d)
    BY DEF Grown, Database
  <2> QED BY <1>7, <2>1, GrownWaters, MemoFields DEF SameEntity
<1>10. m.seq < n.seq
  BY <1>7, <1>8, <1>9
<1> QED BY <1>6, <1>10

\* A data batch ascends past what the call has read.
LEMMA BatchIsRight ==
    ASSUME NEW view, view.db \in Database, NEW batch \in Batches,
           \A k \in Keys : inflight_count(view, k, DataOps) \in Nat
    PROVE  /\ Batched(sequence_versions(view, batch))
           /\ \A j \in DOMAIN sequence_versions(view, batch) :
                  Past(view.db, sequence_versions(view, batch)[j])
<1> DEFINE Request == [op : SetOps, key : Keys, value : Values]
                      \cup [op : {"DEL"}, key : Keys, value : {NoValue}]
<1>1. batch \in Seq(Request)
  BY BatchAssumption
<1>2. PICK n \in Nat : n = Len(batch)
  BY <1>1
<1>3. \A i \in 1..n : batch[i] \in Request
  <2> HIDE DEF Request
  <2> QED BY <1>1, <1>2
<1>4. \A i \in 1..n : /\ batch[i].op \in DataOps /\ batch[i].key \in Keys
                      /\ batch[i].op \in SetOps => batch[i].value \in Values
                      /\ batch[i].op = "DEL" => batch[i].value = NoValue
  <2> SUFFICES ASSUME NEW i \in 1..n
               PROVE  /\ batch[i].op \in DataOps /\ batch[i].key \in Keys
                      /\ batch[i].op \in SetOps => batch[i].value \in Values
                      /\ batch[i].op = "DEL" => batch[i].value = NoValue
    OBVIOUS
  <2>1. batch[i] \in Request
    BY <1>3
  <2>2. CASE batch[i] \in [op : SetOps, key : Keys, value : Values]
    BY <2>2 DEF DataOps, SetOps
  <2>3. CASE batch[i] \in [op : {"DEL"}, key : Keys, value : {NoValue}]
    BY <2>3 DEF DataOps, SetOps
  <2> QED BY <2>1, <2>2, <2>3
<1> HIDE DEF Request
<1> DEFINE earlier(i) == {j \in 1..(i - 1) : batch[j].key = batch[i].key}
           b(i) == base(view, batch[i].key)
           memo(i) == [op |-> batch[i].op, key |-> batch[i].key, value |-> batch[i].value,
                       seq |-> b(i) + Cardinality(earlier(i)), signer |-> Me]
           ms == [i \in 1..n |-> memo(i)]
<1>5. sequence_versions(view, batch) = ms
  BY <1>2 DEF sequence_versions
<1>6. \A i \in 1..n : IsFiniteSet(earlier(i)) /\ Cardinality(earlier(i)) \in Nat
  <2> SUFFICES ASSUME NEW i \in 1..n
               PROVE  IsFiniteSet(earlier(i)) /\ Cardinality(earlier(i)) \in Nat
    OBVIOUS
  <2>1. IsFiniteSet(1..(i - 1)) /\ earlier(i) \subseteq 1..(i - 1)
    BY FS_Interval
  <2> HIDE DEF earlier
  <2> QED BY <2>1, FS_Subset, FS_CardinalityType
<1>7. \A i \in 1..n : view.db.kv_versions[batch[i].key] \in Nat /\ b(i) \in Nat
                      /\ view.db.kv_versions[batch[i].key] =< b(i)
  <2> SUFFICES ASSUME NEW i \in 1..n
               PROVE  view.db.kv_versions[batch[i].key] \in Nat /\ b(i) \in Nat
                      /\ view.db.kv_versions[batch[i].key] =< b(i)
    OBVIOUS
  <2>1. batch[i].key \in Keys
    BY <1>4
  <2>2. view.db.kv_versions[batch[i].key] \in Nat
    BY <2>1 DEF Database
  <2>3. inflight_count(view, batch[i].key, DataOps) \in Nat
    BY <2>1
  <2> QED BY <2>2, <2>3 DEF base
<1>8. \A i, j \in 1..n : i < j /\ batch[i].key = batch[j].key
          => Cardinality(earlier(i)) < Cardinality(earlier(j))
  <2> SUFFICES ASSUME NEW i \in 1..n, NEW j \in 1..n, i < j, batch[i].key = batch[j].key
               PROVE  Cardinality(earlier(i)) < Cardinality(earlier(j))
    OBVIOUS
  <2>1. earlier(i) \subseteq earlier(j) /\ i \in earlier(j) /\ i \notin earlier(i)
    OBVIOUS
  <2>2. IsFiniteSet(earlier(i)) /\ IsFiniteSet(earlier(j))
        /\ Cardinality(earlier(i)) \in Nat /\ Cardinality(earlier(j)) \in Nat
    BY <1>6
  <2> HIDE DEF earlier
  <2>3. earlier(i) # earlier(j)
    BY <2>1
  <2> QED BY <2>1, <2>2, <2>3, FS_Subset
<1> HIDE DEF earlier, b
<1>9. \A i \in 1..n : memo(i) \in Memo
  <2> SUFFICES ASSUME NEW i \in 1..n PROVE memo(i) \in Memo
    OBVIOUS
  <2>1. b(i) + Cardinality(earlier(i)) \in Nat
    BY <1>6, <1>7
  <2>2. Me \in Pubkeys \cup {NoSigner}
    BY MeAssumption
  <2>3. CASE batch[i].op \in SetOps
    BY <1>4, <2>1, <2>2, <2>3 DEF Memo
  <2>4. CASE batch[i].op = "DEL"
    BY <1>4, <2>1, <2>2, <2>4 DEF Memo
  <2> QED BY <1>4, <2>3, <2>4 DEF DataOps
<1>10. ms \in Seq(Memo) /\ DOMAIN ms = 1..n
  <2> HIDE DEF memo
  <2> QED BY <1>9
<1>11. \A i \in 1..n : /\ ms[i].op = batch[i].op /\ ms[i].key = batch[i].key
                       /\ ms[i].signer = Me /\ ms[i].seq = b(i) + Cardinality(earlier(i))
  OBVIOUS
<1> HIDE DEF ms, memo
<1>12. Batched(ms)
  <2>1. ASSUME NEW i \in 1..n, NEW j \in 1..n, i < j, SameEntity(ms[i], ms[j])
        PROVE  ms[i].seq < ms[j].seq
    <3>1. batch[i].key = batch[j].key
      BY <2>1, <1>11 DEF SameEntity
    <3>2. b(i) = b(j)
      BY <3>1 DEF b
    <3>3. Cardinality(earlier(i)) < Cardinality(earlier(j))
      BY <1>8, <2>1, <3>1
    <3> QED BY <1>6, <1>7, <1>11, <3>2, <3>3
  <2> QED BY <1>4, <1>10, <1>11, <2>1 DEF Batched
<1>13. \A j \in 1..n : Past(view.db, ms[j])
  <2> SUFFICES ASSUME NEW j \in 1..n PROVE high_water(view.db, ms[j]) =< ms[j].seq
    BY DEF Past
  <2>1. high_water(view.db, ms[j]) = view.db.kv_versions[batch[j].key]
    BY <1>4, <1>11 DEF high_water
  <2> QED BY <1>6, <1>7, <1>11, <2>1
<1> QED BY <1>5, <1>10, <1>12, <1>13

LEMMA SingleBatch == ASSUME NEW m \in Memo, m.signer = Me PROVE Batched(<<m>>)
BY DEF Batched

\* So does a management memo, which is alone in its call.
LEMMA ManagementIsRight ==
    ASSUME NEW view, view.db \in Database, NEW req \in Managements,
           req.op # "FINALIZE" => Canonical[req.target] # NotAPubkey,
           \A t \in Targets : inflight_count(view, t, RegistryOps) \in Nat,
           NEW target, target = IF req.op = "FINALIZE" THEN NoValue ELSE Spelling[Canonical[req.target]],
           NEW seq, seq = IF req.op = "FINALIZE" THEN 0
                          ELSE view.db.target_versions[target] + inflight_count(view, target, RegistryOps),
           NEW value, value = CASE req.op = "FINALIZE"  -> NoValue
                                [] req.op = "WRITERADD" -> req.scope
                                [] OTHER                -> {},
           NEW m, m = [op |-> req.op, key |-> target, value |-> value, seq |-> seq, signer |-> Me]
    PROVE  Batched(<<m>>) /\ Past(view.db, m)
<1>s. Me \in Pubkeys \cup {NoSigner}
  BY MeAssumption
<1>m. m.op = req.op /\ m.key = target /\ m.value = value /\ m.seq = seq /\ m.signer = Me
  OBVIOUS
<1>1. CASE req.op = "FINALIZE"
  <2>1. m = [op |-> "FINALIZE", key |-> NoValue, value |-> NoValue, seq |-> 0, signer |-> Me]
    BY <1>1
  <2>2. m \in Memo
    BY <1>s, <2>1 DEF Memo
  <2>3. ~is_versioned(m.op)
    BY <1>1, <1>m DEF is_versioned, DataOps, SetOps, RegistryOps
  <2> QED BY <1>m, <2>2, <2>3, SingleBatch DEF Past
<1>2. CASE req.op # "FINALIZE"
  <2>1. req.op \in RegistryOps /\ req.target \in Targets /\ req.scope \in Scope
    BY <1>2, ManagementAssumption DEF RegistryOps
  <2>2. Canonical[req.target] \in Pubkeys
    BY <1>2, <2>1, CanonicalAssumption
  <2>3. target \in Targets
    BY <1>2, <2>2, WriterSpellingAssumption
  <2>4. view.db.target_versions[target] \in Nat /\ inflight_count(view, target, RegistryOps) \in Nat
    BY <2>3 DEF Database
  <2>5. seq \in Nat /\ view.db.target_versions[target] =< seq
    BY <1>2, <2>4
  <2>6. value \in Scope
    BY <1>2, <2>1 DEF Scope
  <2>7. m \in Memo
    BY <1>s, <2>1, <2>3, <2>5, <2>6 DEF Memo
  <2>8. m.op \notin DataOps
    BY <1>m, <2>1 DEF DataOps, SetOps, RegistryOps
  <2>9. high_water(view.db, m) =< m.seq
    BY <1>m, <2>5, <2>8 DEF high_water
  <2> QED BY <1>m, <2>7, <2>9, SingleBatch DEF Past
<1> QED BY <1>1, <1>2

\* A database that a call may write to is not sealed.
LEMMA WritableIsOpen ==
    ASSUME DbRight, RowsRight, SentRight, Heard, NEW file, WritesAllowed(View(file))
    PROVE  ~db.finalized
<1>1. ~prune(Overlaid.db).finalized
  BY DEF WritesAllowed, View
<1>2. Overlaid.db \in Database /\ Overlaid.db.finalized = db.finalized
  BY OverlaidPasses DEF Overlays
<1>o. PICK d \in Database : d = Overlaid.db
  BY <1>2
<1>3. prune(d).finalized = d.finalized
  <2>1. PICK q : prune(d) = [d EXCEPT !.pending = q]
    BY DEF prune
  <2> QED BY <2>1 DEF Database
<1> QED BY <1>1, <1>2, <1>3, <1>o

-----------------------------------------------------------------------------
(* The calls.                                                              *)

\* Steps that leave the chain and the broadcast memos alone.
LEMMA Quiet ==
    ASSUME WriterInvariant, UNCHANGED <<db, waiting, sent, lost, others>>
    PROVE  /\ SentRight' /\ RowsRight' /\ DbRight' /\ CountsRight'
           /\ Accounted' /\ Ascending' /\ KvRight'
           /\ \A ms : Follows(ms) => Follows(ms)'
           /\ Len(sent') = Len(sent)
<1>l. Live' = Live
  BY DEF Live
<1>1. SentRight'
  BY DEF WriterInvariant, WellFormed, SentRight
<1>2. RowsRight'
  BY <1>l DEF WriterInvariant, WellFormed, RowsRight
<1>3. DbRight' /\ CountsRight'
  BY DEF WriterInvariant, WellFormed, DbRight, CountsRight
<1>4. Accounted'
  BY <1>l DEF WriterInvariant, Accounted
<1>5. Ascending'
  BY <1>l DEF WriterInvariant, Ascending
<1>6. KvRight'
  BY DEF WriterInvariant, KvRight, HoldsWrite
<1>7. ASSUME NEW ms, Follows(ms) PROVE Follows(ms)'
  BY <1>l, <1>7 DEF Follows
<1> QED BY <1>1, <1>2, <1>3, <1>4, <1>5, <1>6, <1>7

\* The entries a call keeps are of broadcast transactions.
LEMMA SyncedFile ==
    ASSUME FileRight, NEW sync \in BOOLEAN
    PROVE  Synced(sync) \subseteq toml /\ IsFiniteSet(Synced(sync))
<1>1. Synced(sync) \subseteq toml
  BY DEF Synced, Pruned
<1> QED BY <1>1, FS_Subset DEF FileRight

\* A turn taken while nobody else's call is under way.
LEMMA PreparedKeeps ==
    ASSUME Serialized, WriterInvariant, NEW c \in Clients, Turn(c), NEW ms, NEW es,
           Batched(ms), Follows(ms), IsFiniteSet(es), Prepared(c, ms, es), toml' \subseteq toml,
           UNCHANGED <<db, waiting, sent, lost, others>>
    PROVE  WriterInvariant'
<1> USE DEF WriterInvariant, WellFormed
<1>1. /\ SentRight' /\ RowsRight' /\ DbRight' /\ CountsRight' /\ Accounted' /\ Ascending' /\ KvRight'
      /\ \A x : Follows(x) => Follows(x)'
      /\ Len(sent') = Len(sent)
  BY Quiet
<1> DEFINE x == [pc |-> "prepared", memos |-> ms, entries |-> es]
<1>2. call' = [d \in Clients |-> IF d = c THEN x ELSE call[d]]
  BY DEF Prepared, CallsRight
<1>3. CallRight(x) /\ x.pc = "prepared" /\ x.memos = ms
  BY DEF CallRight
<1>4. \A d \in Clients : d # c => call[d].pc = "idle"
  BY DEF Turn
<1> HIDE DEF x
<1>5. call'[c] = x /\ \A d \in Clients : d # c => call'[d] = call[d]
  BY <1>2
<1>6. \A d \in Clients : CallRight(call[d])
  BY DEF CallsRight
<1>7. \A d \in Clients : CallRight(call[d])'
  <2> SUFFICES ASSUME NEW d \in Clients PROVE CallRight(call[d])'
    OBVIOUS
  <2>1. CallRight(call'[d])
    BY <1>3, <1>5, <1>6
  <2>2. Len(sent') = Len(sent)
    BY <1>1
  <2> QED BY <2>1, <2>2 DEF CallRight
<1>8. CallsRight'
  <2>1. call' = [d \in Clients |-> call'[d]]
    BY <1>2
  <2>2. \A d, e \in Clients : call'[d].pc # "idle" /\ call'[e].pc # "idle" => d = e
    BY <1>4, <1>5
  <2> QED BY <1>7, <2>1, <2>2 DEF CallsRight
<1>9. FileRight'
  <2>1. IsFiniteSet(toml')
    BY FS_Subset DEF FileRight
  <2> QED BY <1>1, <2>1 DEF FileRight
<1>10. PreparedFollow'
  BY <1>1, <1>3, <1>4, <1>5 DEF PreparedFollow
<1> QED BY <1>1, <1>8, <1>9, <1>10

LEMMA BatchStep ==
    ASSUME Serialized, WriterInvariant, Heard, NEW c \in Clients, NEW batch \in Batches,
           NEW sync \in BOOLEAN, PrepareBatch(c, batch, sync)
    PROVE  WriterInvariant'
<1> USE DEF WriterInvariant, WellFormed
<1>f. PICK file : file = Synced(sync)
  OBVIOUS
<1>v. PICK view : view = View(file)
  OBVIOUS
<1>1. /\ Turn(c)
      /\ WritesAllowed(view)
      /\ Prepared(c, sequence_versions(view, batch),
                  {[op |-> batch[i].op, key |-> batch[i].key] : i \in 1..Len(batch)})
      /\ toml' = file
      /\ UNCHANGED <<db, waiting, sent, lost, others>>
  BY <1>f, <1>v DEF PrepareBatch
<1>2. IsFiniteSet(file) /\ file \subseteq toml
  BY <1>f, SyncedFile
<1>3. ~db.finalized
  BY <1>1, <1>v, WritableIsOpen
<1>4. /\ view.db \in Database
      /\ \A t \in Live : \A i \in DOMAIN sent[t] :
             is_versioned(sent[t][i].op) => sent[t][i].seq < high_water(view.db, sent[t][i])
      /\ \A k \in Keys : inflight_count(view, k, DataOps) \in Nat
  BY <1>2, <1>3, <1>v, ReadPasses
<1>m. PICK ms : ms = sequence_versions(view, batch)
  OBVIOUS
<1>5. Batched(ms) /\ \A j \in DOMAIN ms : Past(view.db, ms[j])
  BY <1>4, <1>m, BatchIsRight
<1>6. Follows(ms)
  <2>1. PICK d \in Database : d = view.db
    BY <1>4
  <2> QED BY <1>4, <1>5, <2>1, SignedFollows
<1>e. PICK es : es = {[op |-> batch[i].op, key |-> batch[i].key] : i \in 1..Len(batch)}
  OBVIOUS
<1>7. IsFiniteSet(es)
  <2>1. PICK n \in Nat : n = Len(batch)
    BY BatchAssumption
  <2> DEFINE S == 1..n
             f == [i \in S |-> [op |-> batch[i].op, key |-> batch[i].key]]
  <2>2. DOMAIN f = S /\ {f[i] : i \in S} = es
    BY <1>e, <2>1
  <2>3. IsFiniteSet(S)
    BY FS_Interval
  <2> HIDE DEF S, f
  <2> QED BY <2>2, <2>3, ImageIsFinite
<1>8. Prepared(c, ms, es) /\ toml' \subseteq toml
  BY <1>1, <1>2, <1>e, <1>m
<1> HIDE DEF WriterInvariant, WellFormed
<1> QED BY <1>1, <1>5, <1>6, <1>7, <1>8, PreparedKeeps

LEMMA ManagementStep ==
    ASSUME Serialized, WriterInvariant, Heard, NEW c \in Clients, NEW req \in Managements,
           NEW sync \in BOOLEAN, PrepareManagement(c, req, sync)
    PROVE  WriterInvariant'
<1> USE DEF WriterInvariant, WellFormed
<1>f. PICK file : file = Synced(sync)
  OBVIOUS
<1>v. PICK view : view = View(file)
  OBVIOUS
<1>t. PICK target : target = IF req.op = "FINALIZE" THEN NoValue ELSE Spelling[Canonical[req.target]]
  OBVIOUS
<1>s. PICK seq : seq = IF req.op = "FINALIZE" THEN 0
                       ELSE view.db.target_versions[target] + inflight_count(view, target, RegistryOps)
  OBVIOUS
<1>u. PICK value : value = CASE req.op = "FINALIZE"  -> NoValue
                             [] req.op = "WRITERADD" -> req.scope
                             [] OTHER                -> {}
  OBVIOUS
<1>m. PICK m : m = [op |-> req.op, key |-> target, value |-> value, seq |-> seq, signer |-> Me]
  OBVIOUS
<1>e. PICK es : es = {[op |-> req.op, key |-> req.target]}
  OBVIOUS
<1>1. /\ Turn(c)
      /\ req.op # "FINALIZE" => Canonical[req.target] # NotAPubkey
      /\ WritesAllowed(view)
      /\ Prepared(c, <<m>>, es)
      /\ toml' = file
      /\ UNCHANGED <<db, waiting, sent, lost, others>>
  BY <1>f, <1>v, <1>t, <1>s, <1>u, <1>m, <1>e, Zenon DEF PrepareManagement
<1>2. IsFiniteSet(file) /\ file \subseteq toml
  BY <1>f, SyncedFile
<1>3. ~db.finalized
  BY <1>1, <1>v, WritableIsOpen
<1>4. /\ view.db \in Database
      /\ \A t \in Live : \A i \in DOMAIN sent[t] :
             is_versioned(sent[t][i].op) => sent[t][i].seq < high_water(view.db, sent[t][i])
      /\ \A t \in Targets : inflight_count(view, t, RegistryOps) \in Nat
  BY <1>2, <1>3, <1>v, ReadPasses
<1>5. Batched(<<m>>) /\ Past(view.db, m)
  BY <1>1, <1>4, <1>t, <1>s, <1>u, <1>m, ManagementIsRight
<1>6. Follows(<<m>>)
  <2>1. PICK d \in Database : d = view.db
    BY <1>4
  <2>2. \A j \in DOMAIN <<m>> : Past(d, <<m>>[j])
    BY <1>5, <2>1
  <2> QED BY <1>4, <1>5, <2>1, <2>2, SignedFollows
<1>7. IsFiniteSet(es)
  BY <1>e, FS_Singleton
<1>8. toml' \subseteq toml
  BY <1>1, <1>2
<1> HIDE DEF WriterInvariant, WellFormed
<1> QED BY <1>1, <1>5, <1>6, <1>7, <1>8, PreparedKeeps

LEMMA InitStep ==
    ASSUME Serialized, WriterInvariant, NEW c \in Clients, PrepareInit(c)
    PROVE  WriterInvariant'
<1> DEFINE m == [op |-> "INIT", key |-> NoValue, value |-> NoValue, seq |-> 0, signer |-> Me]
<1>1. m \in Memo
  BY MeAssumption DEF Memo
<1>2. ~is_versioned(m.op) /\ m.signer = Me
  BY DEF is_versioned, DataOps, SetOps, RegistryOps
<1>3. /\ Turn(c) /\ Prepared(c, <<m>>, {[op |-> "INIT", key |-> NoValue]})
      /\ UNCHANGED <<db, waiting, toml, sent, lost, others>>
  BY DEF PrepareInit
<1> HIDE DEF m
<1>4. Batched(<<m>>)
  BY <1>1, <1>2, SingleBatch
<1>5. Follows(<<m>>)
  BY <1>2 DEF Follows, SameEntity
<1>6. IsFiniteSet({[op |-> "INIT", key |-> NoValue]})
  BY FS_Singleton
<1> QED BY <1>3, <1>4, <1>5, <1>6, PreparedKeeps

-----------------------------------------------------------------------------
(* Shipping.                                                               *)

\* A sequence spliced into another holds the elements of both.
Spliced(w, p, r) == SubSeq(w, 1, p) \o r \o SubSeq(w, p + 1, Len(w))

HoldsBoth(S, u, w, r) ==
    /\ u \in Seq(S)
    /\ \A i \in DOMAIN u : \/ \E j \in DOMAIN w : u[i] = w[j]
                           \/ \E j \in DOMAIN r : u[i] = r[j]
    /\ \A j \in DOMAIN w : \E i \in DOMAIN u : u[i] = w[j]
    /\ \A j \in DOMAIN r : \E i \in DOMAIN u : u[i] = r[j]

LEMMA SpliceFacts ==
    ASSUME NEW S, NEW w \in Seq(S), NEW r \in Seq(S), NEW p \in 0..Len(w),
           NEW u, u = Spliced(w, p, r)
    PROVE  HoldsBoth(S, u, w, r)
<1>n. PICK n \in Nat, q \in Nat : n = Len(w) /\ q = Len(r) /\ DOMAIN w = 1..n /\ DOMAIN r = 1..q
  OBVIOUS
<1>p. PICK a, b : a = SubSeq(w, 1, p) /\ b = SubSeq(w, p + 1, n)
  OBVIOUS
<1>a. a \in Seq(S) /\ Len(a) = p /\ \A i \in 1..p : a[i] = w[i]
  BY <1>n, <1>p
<1>b. b \in Seq(S) /\ Len(b) = n - p /\ \A i \in 1..(n - p) : b[i] = w[p + i]
  BY <1>n, <1>p
<1>u. u = a \o r \o b
  BY <1>n, <1>p DEF Spliced
<1>r. r \in Seq(S)
  OBVIOUS
<1>c. PICK c : c = a \o r
  OBVIOUS
<1>1. c \in Seq(S) /\ Len(c) = p + q /\ (\A i \in 1..p : c[i] = w[i])
      /\ \A i \in 1..q : c[p + i] = r[i]
  <2>1. /\ c \in Seq(S) /\ Len(c) = Len(a) + Len(r)
        /\ \A i \in 1..Len(a) : c[i] = a[i]
        /\ \A i \in 1..Len(r) : c[Len(a) + i] = r[i]
    <3>1. a \in Seq(S)
      BY <1>a
    <3> QED BY ONLY <3>1, <1>r, <1>c
  <2> QED BY <2>1, <1>a, <1>n
<1>2. u = c \o b
  BY <1>c, <1>u
<1>4. /\ u \in Seq(S) /\ Len(u) = p + q + (n - p)
      /\ (\A i \in 1..(p + q) : u[i] = c[i]) /\ \A i \in 1..(n - p) : u[p + q + i] = b[i]
  <2>1. /\ u \in Seq(S) /\ Len(u) = Len(c) + Len(b)
        /\ \A i \in 1..Len(c) : u[i] = c[i]
        /\ \A i \in 1..Len(b) : u[Len(c) + i] = b[i]
    <3>1. c \in Seq(S)
      BY <1>1
    <3>2. b \in Seq(S)
      BY <1>b
    <3> QED BY ONLY <3>1, <3>2, <1>2
  <2> QED BY <2>1, <1>1, <1>b
<1>3. Len(u) = n + q /\ DOMAIN u = 1..(n + q)
  <2>1. p \in 0..n
    BY <1>n
  <2>2. p + q + (n - p) = n + q
    BY <2>1
  <2>3. Len(u) = n + q
    BY <1>4, <2>2
  <2>4. DOMAIN u = 1..Len(u)
    BY <1>4
  <2> QED BY <2>3, <2>4
<1>5. /\ \A i \in 1..p : u[i] = w[i]
      /\ \A i \in 1..q : u[p + i] = r[i]
      /\ \A i \in 1..(n - p) : u[p + q + i] = w[p + i]
  <2>1. p \in 0..n
    BY <1>n
  <2>2. ASSUME NEW i \in 1..p PROVE u[i] = w[i]
    <3>1. i \in 1..(p + q)
      BY <2>1
    <3> QED BY <3>1, <1>1, <1>4
  <2>3. ASSUME NEW i \in 1..q PROVE u[p + i] = r[i]
    <3>1. p + i \in 1..(p + q)
      BY <2>1
    <3> QED BY <3>1, <1>1, <1>4
  <2>4. ASSUME NEW i \in 1..(n - p) PROVE u[p + q + i] = w[p + i]
    BY <1>4, <1>b
  <2> QED BY <2>2, <2>3, <2>4
<1>6. ASSUME NEW i \in DOMAIN u
      PROVE  (\E j \in DOMAIN w : u[i] = w[j]) \/ (\E j \in DOMAIN r : u[i] = r[j])
  <2>1. CASE i <= p
    <3>1. i \in 1..p /\ i \in 1..n
      BY <2>1, <1>3, <1>n
    <3> QED BY <3>1, <1>5, <1>n
  <2>2. CASE p < i /\ i <= p + q
    <3>1. i - p \in 1..q /\ p + (i - p) = i
      BY <2>2, <1>3, <1>n
    <3> QED BY <3>1, <1>5, <1>n
  <2>3. CASE p + q < i
    <3>0. p \in 0..n /\ i \in 1..(n + q)
      BY <1>3, <1>n
    <3> DEFINE h == i - (p + q)
    <3>1. h \in 1..(n - p) /\ p + q + h = i /\ p + h \in 1..n
      BY <2>3, <3>0
    <3> HIDE DEF h
    <3>2. u[p + q + h] = w[p + h]
      BY <3>1, <1>5
    <3>g. PICK g : g = p + h
      OBVIOUS
    <3>3. g \in DOMAIN w /\ u[i] = w[g]
      BY <3>1, <3>2, <3>g, <1>n
    <3> QED BY <3>3
  <2>4. i <= p \/ (p < i /\ i <= p + q) \/ p + q < i
    BY <1>3, <1>n
  <2> QED BY <2>1, <2>2, <2>3, <2>4, Zenon
<1>7. ASSUME NEW j \in DOMAIN w PROVE \E i \in DOMAIN u : u[i] = w[j]
  <2>0. p \in 0..n /\ j \in 1..n
    BY <1>n
  <2>1. CASE j <= p
    <3>1. j \in 1..p /\ j \in 1..(n + q)
      BY <2>0, <2>1
    <3> QED BY <3>1, <1>5, <1>3
  <2>2. CASE p < j
    <3> DEFINE h == j - p
    <3>1. h \in 1..(n - p) /\ p + h = j /\ p + q + h \in 1..(n + q)
      BY <2>0, <2>2
    <3> HIDE DEF h
    <3>2. u[p + q + h] = w[p + h]
      BY <3>1, <1>5
    <3>g. PICK g : g = p + q + h
      OBVIOUS
    <3>3. g \in DOMAIN u /\ u[g] = w[j]
      BY <3>1, <3>2, <3>g, <1>3
    <3> QED BY <3>3
  <2>3. j <= p \/ p < j
    BY <2>0
  <2> QED BY <2>1, <2>2, <2>3, Zenon
<1>8. ASSUME NEW j \in DOMAIN r PROVE \E i \in DOMAIN u : u[i] = r[j]
  <2>1. j \in 1..q /\ p + j \in 1..(n + q)
    BY <1>n
  <2> QED BY <2>1, <1>5, <1>3
<1> QED BY <1>4, <1>6, <1>7, <1>8 DEF HoldsBoth

\* The rows after transaction t of memos ms is broadcast: the old ones and its own.
Broadcast(t, ms) ==
    /\ waiting' \in Seq(Row)
    /\ \A i \in DOMAIN waiting' :
           \/ \E j \in DOMAIN waiting : waiting'[i] = waiting[j]
           \/ \E j \in DOMAIN ms : waiting'[i] = [tx |-> t, memo |-> ms[j]]
    /\ \A j \in DOMAIN waiting : \E i \in DOMAIN waiting' : waiting'[i] = waiting[j]
    /\ \A j \in DOMAIN ms : \E i \in DOMAIN waiting' :
           waiting'[i] = [tx |-> t, memo |-> ms[j]]

\* What shipping adds to the unmined rows: the memos of the call, under a new transaction.
LEMMA ShippedRows ==
    ASSUME WriterInvariant, NEW c \in Clients, Ship(c), NEW ms, ms = call[c].memos
    PROVE  Broadcast(Len(sent) + 1, ms)
<1>m. PICK k \in Nat : ms \in Seq(Memo) /\ k = Len(ms) /\ DOMAIN ms = 1..k
  <2>1. ms \in Seq(Memo)
    BY DEF Ship, WriterInvariant, WellFormed, CallsRight, CallRight, Batched
  <2> QED BY <2>1
<1>w. PICK w \in Seq(Row) : w = waiting
  BY DEF WriterInvariant, WellFormed, RowsRight
<1>t. PICK t \in Nat : t = Len(sent) + 1
  BY DEF WriterInvariant, WellFormed, SentRight
<1> DEFINE at(n, i) == IF n = 0 THEN i ELSE k + 1 - i
           rows(n) == [i \in 1..k |-> [tx |-> t, memo |-> ms[at(n, i)]]]
<1>1. PICK p \in 0..Len(w), n \in 0..1 :
          waiting' = SubSeq(w, 1, p) \o rows(n) \o SubSeq(w, p + 1, Len(w))
  BY <1>m, <1>w, <1>t DEF Ship
<1>2. \A i \in 1..k : at(n, i) \in 1..k /\ at(n, at(n, i)) = i
  OBVIOUS
<1>s. waiting' = SubSeq(w, 1, p) \o rows(n) \o SubSeq(w, p + 1, Len(w))
  BY <1>1
<1> HIDE DEF at
<1>3. \A i \in 1..k : rows(n)[i] = [tx |-> t, memo |-> ms[at(n, i)]]
  OBVIOUS
<1>4. rows(n) \in Seq(Row) /\ DOMAIN rows(n) = 1..k
  <2>1. \A i \in 1..k : [tx |-> t, memo |-> ms[at(n, i)]] \in Row
    <3> SUFFICES ASSUME NEW i \in 1..k PROVE [tx |-> t, memo |-> ms[at(n, i)]] \in Row
      OBVIOUS
    <3>1. ms[at(n, i)] \in Memo
      BY <1>2, <1>m
    <3> QED BY <3>1 DEF Row
  <2> QED BY <2>1
<1>r. PICK r \in Seq(Row) : r = rows(n)
  BY <1>4
<1>u. PICK u : u = waiting'
  OBVIOUS
<1>5. /\ u \in Seq(Row)
      /\ \A i \in DOMAIN u : \/ \E j \in DOMAIN w : u[i] = w[j]
                             \/ \E j \in DOMAIN r : u[i] = r[j]
      /\ \A j \in DOMAIN w : \E i \in DOMAIN u : u[i] = w[j]
      /\ \A j \in DOMAIN r : \E i \in DOMAIN u : u[i] = r[j]
  <2>1. u = Spliced(w, p, r)
    BY <1>s, <1>r, <1>u DEF Spliced
  <2> HIDE DEF rows
  <2>2. w \in Seq(Row) /\ r \in Seq(Row) /\ p \in 0..Len(w)
    OBVIOUS
  <2>3. HoldsBoth(Row, u, w, r)
    BY ONLY <2>1, <2>2, SpliceFacts
  <2> QED BY ONLY <2>3 DEF HoldsBoth
<1>6. \A j \in DOMAIN r : j \in 1..k /\ r[j] = [tx |-> t, memo |-> ms[at(n, j)]]
  BY <1>3, <1>4, <1>r
<1>7. \A j \in 1..k : at(n, j) \in DOMAIN r /\ r[at(n, j)] = [tx |-> t, memo |-> ms[j]]
  BY <1>2, <1>3, <1>4, <1>r
<1>8. ASSUME NEW i \in DOMAIN u
      PROVE  \/ \E j \in DOMAIN w : u[i] = w[j]
             \/ \E j \in 1..k : u[i] = [tx |-> t, memo |-> ms[j]]
  <2>1. CASE \E j \in DOMAIN w : u[i] = w[j]
    BY <2>1
  <2>2. CASE \E j \in DOMAIN r : u[i] = r[j]
    <3>1. PICK j \in DOMAIN r : u[i] = r[j]
      BY <2>2
    <3>2. PICK h : h = at(n, j)
      OBVIOUS
    <3>3. h \in 1..k /\ u[i] = [tx |-> t, memo |-> ms[h]]
      BY <3>1, <3>2, <1>2, <1>6
    <3> QED BY <3>3
  <2> QED BY <2>1, <2>2, <1>5
<1>9. \A j \in 1..k : \E i \in DOMAIN u : u[i] = [tx |-> t, memo |-> ms[j]]
  <2> SUFFICES ASSUME NEW j \in 1..k
               PROVE  \E i \in DOMAIN u : u[i] = [tx |-> t, memo |-> ms[j]]
    OBVIOUS
  <2>1. PICK h : h = at(n, j)
    OBVIOUS
  <2>2. h \in DOMAIN r /\ r[h] = [tx |-> t, memo |-> ms[j]]
    BY <2>1, <1>7
  <2>3. PICK i \in DOMAIN u : u[i] = r[h]
    BY <2>2, <1>5
  <2> QED BY <2>2, <2>3
<1>10. waiting = w /\ waiting' = u /\ Len(sent) + 1 = t /\ DOMAIN ms = 1..k
  BY <1>m, <1>w, <1>t, <1>u
<1>11. /\ u \in Seq(Row)
       /\ \A j \in DOMAIN w : \E i \in DOMAIN u : u[i] = w[j]
  BY <1>5
<1> HIDE DEF rows
<1>12. \A i \in DOMAIN u : \/ \E j \in DOMAIN waiting : u[i] = waiting[j]
                           \/ \E j \in DOMAIN ms : u[i] = [tx |-> t, memo |-> ms[j]]
  <2> SUFFICES ASSUME NEW i \in DOMAIN u
               PROVE  \/ \E j \in DOMAIN waiting : u[i] = waiting[j]
                      \/ \E j \in DOMAIN ms : u[i] = [tx |-> t, memo |-> ms[j]]
    BY Zenon
  <2>1. CASE \E j \in DOMAIN w : u[i] = w[j]
    BY <2>1, <1>10
  <2>2. CASE \E j \in 1..k : u[i] = [tx |-> t, memo |-> ms[j]]
    <3>1. PICK j \in 1..k : u[i] = [tx |-> t, memo |-> ms[j]]
      BY <2>2
    <3>2. j \in DOMAIN ms
      BY <1>10
    <3> QED BY <3>1, <3>2
  <2>3. \/ \E j \in DOMAIN w : u[i] = w[j]
        \/ \E j \in 1..k : u[i] = [tx |-> t, memo |-> ms[j]]
    BY <1>8
  <2> QED BY <2>1, <2>2, <2>3, Zenon
<1>13. \A j \in DOMAIN waiting : \E i \in DOMAIN u : u[i] = waiting[j]
  BY <1>10, <1>11
<1>14. \A j \in DOMAIN ms : \E i \in DOMAIN u : u[i] = [tx |-> t, memo |-> ms[j]]
  BY <1>9, <1>10
<1>15. Broadcast(t, ms)
  BY ONLY <1>10, <1>11, <1>12, <1>13, <1>14, Zenon DEF Broadcast
<1> QED BY ONLY <1>10, <1>15

LEMMA ShipStep ==
    ASSUME Serialized, WriterInvariant, NEW c \in Clients, Ship(c)
    PROVE  WriterInvariant'
<1> USE DEF WriterInvariant, WellFormed
<1>m. PICK ms : ms = call[c].memos
  OBVIOUS
<1>s. PICK s \in Seq(Seq(Memo)) : s = sent
  BY DEF SentRight
<1>n. PICK n \in Nat : n = Len(s) /\ DOMAIN s = 1..n
  OBVIOUS
<1>1. /\ call[c].pc = "prepared"
      /\ sent' = Append(s, ms)
      /\ UNCHANGED <<db, toml, lost, others>>
  BY <1>m, <1>s DEF Ship
<1>2. Batched(ms) /\ ms \in Seq(Memo) /\ Follows(ms)
  BY <1>1, <1>m DEF CallsRight, CallRight, Batched, PreparedFollow
<1>3. /\ sent' \in Seq(Seq(Memo)) /\ Len(sent') = n + 1 /\ DOMAIN sent' = 1..(n + 1)
      /\ \A t \in 1..n : sent'[t] = s[t]
      /\ sent'[n + 1] = ms
  BY <1>1, <1>2, <1>n
<1>4. Live' = Live \cup {n + 1} /\ Live \subseteq 1..n /\ n + 1 \notin lost
  <2>1. Len(sent) = n /\ lost \subseteq 1..n /\ lost' = lost
    BY <1>1, <1>s, <1>n DEF CountsRight
  <2> QED BY <2>1, <1>3 DEF Live
<1>5. /\ waiting' \in Seq(Row)
      /\ \A i \in DOMAIN waiting' :
             \/ \E j \in DOMAIN waiting : waiting'[i] = waiting[j]
             \/ \E j \in DOMAIN ms : waiting'[i] = [tx |-> n + 1, memo |-> ms[j]]
      /\ \A j \in DOMAIN waiting : \E i \in DOMAIN waiting' : waiting'[i] = waiting[j]
      /\ \A j \in DOMAIN ms : \E i \in DOMAIN waiting' :
             waiting'[i] = [tx |-> n + 1, memo |-> ms[j]]
  <2>1. Broadcast(Len(sent) + 1, ms)
    BY <1>m, ShippedRows
  <2>2. Len(sent) + 1 = n + 1
    BY <1>s, <1>n
  <2>3. Broadcast(n + 1, ms)
    BY ONLY <2>1, <2>2
  <2> QED BY ONLY <2>3 DEF Broadcast
<1>6. SentRight'
  <2>1. \A t \in 1..n : Batched(s[t])
    BY <1>s, <1>n DEF SentRight
  <2>2. \A t \in 1..(n + 1) : t \in 1..n \/ t = n + 1
    OBVIOUS
  <2>3. \A t \in DOMAIN sent' : Batched(sent'[t])
    BY <1>2, <1>3, <2>1, <2>2
  <2> QED BY <1>3, <2>3 DEF SentRight
<1>7. RowsRight'
  <2> SUFFICES ASSUME NEW i \in DOMAIN waiting'
               PROVE  /\ waiting'[i].tx \in Live'
                      /\ \E j \in DOMAIN sent'[waiting'[i].tx] :
                             waiting'[i].memo = sent'[waiting'[i].tx][j]
    BY <1>5 DEF RowsRight
  <2>1. ASSUME NEW j \in DOMAIN waiting, waiting'[i] = waiting[j]
        PROVE  /\ waiting'[i].tx \in Live'
               /\ \E h \in DOMAIN sent'[waiting'[i].tx] :
                      waiting'[i].memo = sent'[waiting'[i].tx][h]
    <3>1. waiting[j].tx \in Live
      BY DEF RowsRight
    <3>2. PICK h \in DOMAIN sent[waiting[j].tx] : waiting[j].memo = sent[waiting[j].tx][h]
      BY DEF RowsRight
    <3>3. sent'[waiting[j].tx] = sent[waiting[j].tx]
      BY <3>1, <1>3, <1>4, <1>s
    <3> QED BY <2>1, <3>1, <3>2, <3>3, <1>4
  <2>2. ASSUME NEW j \in DOMAIN ms, waiting'[i] = [tx |-> n + 1, memo |-> ms[j]]
        PROVE  /\ waiting'[i].tx \in Live'
               /\ \E h \in DOMAIN sent'[waiting'[i].tx] :
                      waiting'[i].memo = sent'[waiting'[i].tx][h]
    <3>1. waiting'[i].tx = n + 1 /\ waiting'[i].memo = ms[j]
      BY <2>2
    <3> QED BY <3>1, <1>3, <1>4
  <2> QED BY <2>1, <2>2, <1>5
<1>8. FileRight'
  <2>1. \A e \in toml : e.tx \in 1..n
    BY <1>s, <1>n DEF FileRight
  <2>2. \A e \in toml : e.tx \in 1..(n + 1)
    BY <2>1
  <2> QED BY <1>1, <1>3, <2>2 DEF FileRight
<1> DEFINE es == {[tx |-> n + 1, op |-> e.op, key |-> e.key] : e \in call[c].entries}
           x == [pc |-> "shipped", memos |-> ms, entries |-> es]
<1>9. call' = [d \in Clients |-> IF d = c THEN x ELSE call[d]]
  <2>1. call' = [call EXCEPT ![c] = [pc |-> "shipped", memos |-> call[c].memos,
            entries |-> {[tx |-> Len(sent) + 1, op |-> e.op, key |-> e.key] : e \in call[c].entries}]]
    BY DEF Ship
  <2>2. Len(sent) = n
    BY <1>s, <1>n
  <2>3. {[tx |-> Len(sent) + 1, op |-> e.op, key |-> e.key] : e \in call[c].entries} = es
    BY <2>2
  <2> HIDE DEF es
  <2>4. call' = [call EXCEPT ![c] = x]
    BY <2>1, <2>3, <1>m
  <2> HIDE DEF x
  <2>5. call = [d \in Clients |-> call[d]]
    BY DEF CallsRight
  <2> QED BY <2>4, <2>5
<1>10. IsFiniteSet(es) /\ \A e \in es : e.tx = n + 1
  <2>1. PICK z : z = call[c].entries
    OBVIOUS
  <2>2. IsFiniteSet(z)
    BY <2>1 DEF CallsRight, CallRight
  <2> DEFINE f == [e \in z |-> [tx |-> n + 1, op |-> e.op, key |-> e.key]]
  <2>3. DOMAIN f = z /\ {f[e] : e \in z} = es
    BY <2>1
  <2>4. \A e \in es : e.tx = n + 1
    OBVIOUS
  <2> HIDE DEF f, es
  <2>5. IsFiniteSet(es)
    BY <2>2, <2>3, ImageIsFinite
  <2> QED BY <2>4, <2>5
<1> HIDE DEF es
<1>11. x = [pc |-> x.pc, memos |-> x.memos, entries |-> x.entries] /\ x.pc = "shipped" /\ x.entries = es
  OBVIOUS
<1> HIDE DEF x
<1>12. \A d \in Clients : d # c => call[d].pc = "idle"
  BY <1>1 DEF CallsRight
<1>13. call'[c] = x /\ \A d \in Clients : d # c => call'[d] = call[d]
  BY <1>9
<1>14. CallsRight'
  <2>1. call' = [d \in Clients |-> call'[d]]
    BY <1>9
  <2>2. \A d, e \in Clients : call'[d].pc # "idle" /\ call'[e].pc # "idle" => d = e
    BY <1>12, <1>13
  <2>3. ASSUME NEW d \in Clients PROVE CallRight(call[d])'
    <3>1. CASE d = c
      BY <3>1, <1>3, <1>10, <1>11, <1>13 DEF CallRight
    <3>2. CASE d # c
      <4>1. CallRight(call[d]) /\ call[d].pc = "idle" /\ call'[d] = call[d]
        BY <3>2, <1>12, <1>13 DEF CallsRight
      <4> QED BY <4>1 DEF CallRight
    <3> QED BY <3>1, <3>2
  <2> QED BY <2>1, <2>2, <2>3 DEF CallsRight
<1>15. DbRight' /\ CountsRight'
  <2>1. lost \subseteq 1..n
    BY <1>s, <1>n DEF CountsRight
  <2>2. lost \subseteq 1..(n + 1)
    BY <2>1
  <2> QED BY <1>1, <1>3, <2>2 DEF DbRight, CountsRight
<1>16. Accounted'
  <2> SUFFICES ASSUME NEW t \in Live', NEW i \in DOMAIN sent'[t], is_versioned(sent'[t][i].op)
               PROVE  \/ Spent(db', sent'[t][i])
                      \/ \E j \in DOMAIN waiting' :
                             waiting'[j].tx = t /\ waiting'[j].memo = sent'[t][i]
    BY DEF Accounted
  <2>1. CASE t = n + 1
    <3>1. sent'[t] = ms /\ i \in DOMAIN ms
      BY <2>1, <1>3
    <3>2. PICK j \in DOMAIN waiting' : waiting'[j] = [tx |-> n + 1, memo |-> ms[i]]
      BY <3>1, <1>5
    <3> QED BY <2>1, <3>1, <3>2
  <2>2. CASE t # n + 1
    <3>1. t \in Live /\ sent'[t] = sent[t]
      BY <2>2, <1>3, <1>4, <1>s
    <3>2. CASE Spent(db, sent[t][i])
      BY <3>1, <3>2, <1>1 DEF Spent
    <3>3. CASE \E j \in DOMAIN waiting : waiting[j].tx = t /\ waiting[j].memo = sent[t][i]
      <4>1. PICK j \in DOMAIN waiting : waiting[j].tx = t /\ waiting[j].memo = sent[t][i]
        BY <3>3
      <4>2. PICK h \in DOMAIN waiting' : waiting'[h] = waiting[j]
        BY <1>5
      <4> QED BY <3>1, <4>1, <4>2
    <3> QED BY <3>1, <3>2, <3>3 DEF Accounted
  <2> QED BY <2>1, <2>2
<1>17. Ascending'
  <2> SUFFICES ASSUME NEW a \in Live', NEW b \in Live', a < b,
                      NEW i \in DOMAIN sent'[a], NEW j \in DOMAIN sent'[b],
                      SameEntity(sent'[a][i], sent'[b][j])
               PROVE  sent'[a][i].seq < sent'[b][j].seq
    BY DEF Ascending
  <2>1. a \in Live /\ sent'[a] = sent[a]
    <3>1. \A x1 \in Live : x1 \in 1..n
      BY <1>4
    <3>2. b \in Live \/ b = n + 1
      BY <1>4
    <3>3. b \in Nat /\ b =< n + 1
      BY <3>1, <3>2
    <3>4. a # n + 1
      BY <3>3
    <3>5. a \in Live /\ a \in 1..n
      BY <1>4, <3>1, <3>4
    <3> QED BY <3>5, <1>3, <1>s
  <2>2. CASE b = n + 1
    BY <2>1, <2>2, <1>2, <1>3 DEF Follows
  <2>3. CASE b # n + 1
    <3>1. b \in Live /\ sent'[b] = sent[b]
      BY <2>3, <1>3, <1>4, <1>s
    <3> QED BY <2>1, <3>1 DEF Ascending
  <2> QED BY <2>2, <2>3
<1>18. PreparedFollow'
  BY <1>11, <1>12, <1>13 DEF PreparedFollow
<1>19. KvRight'
  <2> SUFFICES ASSUME others = 0, NEW k \in Keys PROVE HoldsWrite(db, k)'
    BY <1>1 DEF KvRight
  <2>1. HoldsWrite(db, k)
    BY DEF KvRight
  <2>2. \A t \in DOMAIN sent : t \in DOMAIN sent' /\ sent'[t] = sent[t]
    BY <1>3, <1>s, <1>n
  <2> QED BY <2>1, <2>2, <1>1 DEF HoldsWrite
<1> QED BY <1>5, <1>6, <1>7, <1>8, <1>14, <1>15, <1>16, <1>17, <1>18, <1>19

\* A call that ends leaves its client idle.
LEMMA EndedKeeps ==
    ASSUME WriterInvariant, NEW c \in Clients, call' = [call EXCEPT ![c] = IdleCall], FileRight',
           UNCHANGED <<db, waiting, sent, lost, others>>
    PROVE  WriterInvariant'
<1> USE DEF WriterInvariant, WellFormed
<1>1. /\ SentRight' /\ RowsRight' /\ DbRight' /\ CountsRight' /\ Accounted' /\ Ascending' /\ KvRight'
      /\ \A ms : Follows(ms) => Follows(ms)'
      /\ Len(sent') = Len(sent)
  BY Quiet
<1>2. call' = [d \in Clients |-> IF d = c THEN IdleCall ELSE call[d]]
  BY DEF CallsRight
<1>3. CallRight(IdleCall) /\ IdleCall.pc = "idle"
  BY FS_EmptySet DEF CallRight, IdleCall
<1>4. call'[c] = IdleCall /\ \A d \in Clients : d # c => call'[d] = call[d]
  BY <1>2
<1>5. \A d \in Clients : CallRight(call[d])'
  <2> SUFFICES ASSUME NEW d \in Clients PROVE CallRight(call[d])'
    OBVIOUS
  <2>1. CallRight(call'[d])
    BY <1>3, <1>4 DEF CallsRight
  <2> QED BY <2>1, <1>1 DEF CallRight
<1>6. CallsRight'
  <2>1. call' = [d \in Clients |-> call'[d]]
    BY <1>2
  <2>2. \A d, e \in Clients : call'[d].pc # "idle" /\ call'[e].pc # "idle" => d = e
    BY <1>3, <1>4 DEF CallsRight
  <2> QED BY <1>5, <2>1, <2>2 DEF CallsRight
<1>7. PreparedFollow'
  BY <1>1, <1>3, <1>4 DEF PreparedFollow
<1> QED BY <1>1, <1>6, <1>7

LEMMA RecordStep ==
    ASSUME WriterInvariant, NEW c \in Clients, Record(c) \/ RecordLost(c)
    PROVE  WriterInvariant'
<1>1. call' = [call EXCEPT ![c] = IdleCall] /\ UNCHANGED <<db, waiting, sent, lost, others>>
  BY DEF Record, RecordLost
<1>2. /\ IsFiniteSet(toml) /\ \A e \in toml : e.tx \in 1..Len(sent)
      /\ IsFiniteSet(call[c].entries)
      /\ call[c].pc = "shipped" => \A e \in call[c].entries : e.tx \in 1..Len(sent)
  BY DEF WriterInvariant, WellFormed, FileRight, CallsRight, CallRight
<1>3. FileRight'
  <2>1. CASE toml' = toml
    BY <1>1, <1>2, <2>1 DEF FileRight
  <2>2. CASE call[c].pc = "shipped" /\ toml' = toml \cup call[c].entries
    <3>1. IsFiniteSet(toml')
      BY <1>2, <2>2, FS_Union
    <3>2. \A e \in toml' : e.tx \in 1..Len(sent)
      BY <1>2, <2>2
    <3> QED BY <1>1, <3>1, <3>2 DEF FileRight
  <2> QED BY <2>1, <2>2 DEF Record, RecordLost
<1> QED BY <1>1, <1>3, EndedKeeps

\* A pruned pending.toml.
LEMMA PrunedKeeps ==
    ASSUME WriterInvariant, toml' \subseteq toml, UNCHANGED <<db, waiting, call, sent, lost, others>>
    PROVE  WriterInvariant'
<1> USE DEF WriterInvariant, WellFormed
<1>1. /\ SentRight' /\ RowsRight' /\ DbRight' /\ CountsRight' /\ Accounted' /\ Ascending' /\ KvRight'
      /\ \A ms : Follows(ms) => Follows(ms)'
      /\ Len(sent') = Len(sent)
  BY Quiet
<1>2. FileRight'
  <2>1. IsFiniteSet(toml')
    BY FS_Subset DEF FileRight
  <2> QED BY <1>1, <2>1 DEF FileRight
<1>3. CallsRight'
  BY <1>1 DEF CallsRight, CallRight
<1>4. PreparedFollow'
  BY <1>1 DEF PreparedFollow
<1> QED BY <1>1, <1>2, <1>3, <1>4

-----------------------------------------------------------------------------
(* The chain.                                                              *)

\* A row folded as confirmed keeps what was last written on every key.
LEMMA HoldsAcross ==
    ASSUME SentRight, NEW d \in Database, OwnersInit(d), NEW t \in DOMAIN sent, NEW i \in DOMAIN sent[t],
           NEW e, e = Fold(d, sent[t][i], "Confirmed"), NEW k \in Keys, HoldsWrite(d, k)
    PROVE  HoldsWrite(e, k)
<1>1. sent[t][i] \in Memo
  <2>1. sent[t] \in Seq(Memo)
    BY DEF SentRight
  <2> QED BY <2>1
<1>m. PICK m \in Memo : m = sent[t][i]
  BY <1>1
<1>2. \/ e.kv = d.kv /\ e.kv_versions = d.kv_versions
      \/ /\ m.op \in DataOps /\ m.key \in Keys
         /\ e.kv = [d.kv EXCEPT ![m.key] = m.value]
         /\ e.kv_versions = [d.kv_versions EXCEPT ![m.key] = m.seq + 1]
  <2>1. Carried(d, m, e)
    BY <1>m, ConfirmedKeeps
  <2> QED BY <2>1 DEF Carried
<1>3. CASE e.kv = d.kv /\ e.kv_versions = d.kv_versions
  BY <1>3 DEF HoldsWrite
<1>4. CASE /\ m.op \in DataOps /\ m.key \in Keys
           /\ e.kv = [d.kv EXCEPT ![m.key] = m.value]
           /\ e.kv_versions = [d.kv_versions EXCEPT ![m.key] = m.seq + 1]
  <2>1. d.kv \in [Keys -> Values \cup {NoValue}] /\ d.kv_versions \in [Keys -> Nat]
    BY DEF Database
  <2>2. CASE m.key = k
    <3>1. e.kv[k] = m.value /\ e.kv_versions[k] = m.seq + 1
      BY <1>4, <2>1, <2>2
    <3> QED BY <3>1, <1>4, <1>m, <2>2 DEF HoldsWrite
  <2>3. CASE m.key # k
    <3>1. e.kv[k] = d.kv[k] /\ e.kv_versions[k] = d.kv_versions[k]
      BY <1>4, <2>1, <2>3
    <3> QED BY <3>1 DEF HoldsWrite
  <2> QED BY <2>2, <2>3
<1> QED BY <1>2, <1>3, <1>4

\* The rows of a transaction are memos it was sent with.
Delivers(tx, r) ==
    /\ r \in Seq(Row)
    /\ \A h \in DOMAIN r :
           /\ tx \in DOMAIN sent /\ Batched(sent[tx])
           /\ r[h].memo \in Memo /\ \E j \in DOMAIN sent[tx] : r[h].memo = sent[tx][j]
           /\ \E i \in DOMAIN waiting : waiting[i].memo = r[h].memo

LEMMA RowsOfOne ==
    ASSUME SentRight, RowsRight, NEW tx, NEW txs, txs = {tx}, NEW r, r = RowsOf(txs)
    PROVE  Delivers(tx, r)
<1>1. waiting \in Seq(Row)
  BY DEF RowsRight
<1>2. /\ r \in Seq(Row)
      /\ \A h \in DOMAIN r : r[h].tx \in {tx} /\ \E i \in DOMAIN waiting : r[h] = waiting[i]
  <2>2. r = RowsOf(txs)
    OBVIOUS
  <2>3. /\ r \in Seq(Row)
        /\ \A h \in DOMAIN r : r[h].tx \in txs /\ \E i \in DOMAIN waiting : r[h] = waiting[i]
    BY ONLY <1>1, <2>2, RowsOfFacts
  <2> QED BY <2>3
<1>3. ASSUME NEW h \in DOMAIN r
      PROVE  /\ tx \in DOMAIN sent /\ Batched(sent[tx])
             /\ r[h].memo \in Memo /\ \E j \in DOMAIN sent[tx] : r[h].memo = sent[tx][j]
             /\ \E i \in DOMAIN waiting : waiting[i].memo = r[h].memo
  <2>1. PICK i \in DOMAIN waiting : r[h] = waiting[i] /\ waiting[i].tx = tx
    BY <1>2
  <2>2. tx \in Live /\ \E j \in DOMAIN sent[tx] : waiting[i].memo = sent[tx][j]
    BY <2>1 DEF RowsRight
  <2>3. tx \in DOMAIN sent /\ Batched(sent[tx])
    BY <2>2 DEF Live, SentRight
  <2>4. r[h] \in Row
    BY <1>2
  <2>5. r[h].memo \in Memo
    BY <2>4 DEF Row
  <2> QED BY <2>1, <2>2, <2>3, <2>5
<1> QED BY <1>2, <1>3 DEF Delivers

\* Mining a transaction uses up each of its memos.
LEMMA MinePasses ==
    ASSUME DbRight, RowsRight, SentRight, KvRight, Heard, NEW tx, NEW txs, txs = {tx},
           NEW r, r = RowsOf(txs), NEW e, e = Confirmed(r)
    PROVE  /\ e \in Database /\ OwnersInit(e) /\ Grown(db, e)
           /\ db.finalized => e.finalized
           /\ \A h \in DOMAIN r : is_versioned(r[h].memo.op) => Spent(e, r[h].memo)
           /\ others = 0 => \A k \in Keys : HoldsWrite(e, k)
<1>d. PICK d \in Database : d = db /\ OwnersInit(d)
  BY DEF DbRight
<1>q. /\ r \in Seq(Row)
      /\ \A h \in DOMAIN r :
             /\ tx \in DOMAIN sent /\ Batched(sent[tx])
             /\ r[h].memo \in Memo /\ \E j \in DOMAIN sent[tx] : r[h].memo = sent[tx][j]
             /\ \E i \in DOMAIN waiting : waiting[i].memo = r[h].memo
  <2>1. Delivers(tx, r)
    BY RowsOfOne
  <2> QED BY <2>1 DEF Delivers
<1>r. PICK n \in Nat : r \in Seq(Row) /\ n = Len(r) /\ DOMAIN r = 1..n
  <2>1. r \in Seq(Row)
    BY <1>q
  <2> QED BY <2>1
<1>b. ASSUME NEW h \in 1..n
      PROVE  /\ tx \in DOMAIN sent /\ Batched(sent[tx])
             /\ r[h].memo \in Memo /\ \E j \in DOMAIN sent[tx] : r[h].memo = sent[tx][j]
             /\ \E i \in DOMAIN waiting : waiting[i].memo = r[h].memo
  BY <1>r, <1>q
<1>f. PICK f \in [0..n -> Database] :
          /\ f[0] = d
          /\ \A i \in 1..n : f[i] = Fold(f[i - 1], r[i].memo, "Confirmed")
          /\ e = f[n]
  BY <1>d, <1>r, ConfirmedRec
<1>h. ASSUME NEW h \in 1..n, is_versioned(r[h].memo.op)
      PROVE  /\ Me \in d.owners /\ d.init = "Initialized" /\ r[h].memo.signer = Me
             /\ r[h].memo.seq =< high_water(d, r[h].memo) + VersionWindow
  <2>1. PICK i \in DOMAIN waiting : waiting[i].memo = r[h].memo
    BY <1>b
  <2>2. Me \in d.owners /\ r[h].memo.seq =< high_water(d, r[h].memo) + VersionWindow
    BY <1>h, <1>d, <2>1 DEF Heard
  <2>3. d.init = "Initialized"
    BY <2>2, <1>d DEF OwnersInit
  <2>4. r[h].memo.signer = Me
    BY <1>b DEF Batched
  <2> QED BY <2>2, <2>3, <2>4
<1> DEFINE DataOnly == \A h \in 1..n : r[h].memo.op \in DataOps
           OneMemo == \A g, h \in 1..n : r[g].memo = r[h].memo
<1>o. DataOnly \/ OneMemo
  <2>1. CASE n = 0
    BY <2>1
  <2>2. CASE n # 0
    <3>1. 1 \in 1..n
      BY <2>2
    <3>2. Batched(sent[tx])
      BY <3>1, <1>b
    <3>3. CASE \A i \in DOMAIN sent[tx] : sent[tx][i].op \in DataOps
      BY <3>3, <1>b
    <3>4. CASE \A i, j \in DOMAIN sent[tx] : i = j
      <4> SUFFICES ASSUME NEW g \in 1..n, NEW h \in 1..n PROVE r[g].memo = r[h].memo
        OBVIOUS
      <4>1. PICK i \in DOMAIN sent[tx] : r[g].memo = sent[tx][i]
        BY <1>b
      <4>2. PICK j \in DOMAIN sent[tx] : r[h].memo = sent[tx][j]
        BY <1>b
      <4> QED BY <3>4, <4>1, <4>2
    <3> QED BY <3>2, <3>3, <3>4 DEF Batched
  <2> QED BY <2>1, <2>2
<1> HIDE DEF DataOnly, OneMemo
<1> DEFINE Good(i) ==
               /\ Grown(d, f[i]) /\ OwnersInit(f[i])
               /\ d.finalized => f[i].finalized
               /\ DataOnly => f[i].owners = d.owners /\ f[i].init = d.init
               /\ \A j \in 1..i : is_versioned(r[j].memo.op) => Spent(f[i], r[j].memo)
               /\ others = 0 => \A k \in Keys : HoldsWrite(f[i], k)
<1>1. Good(0)
  <2>1. Grown(d, d)
    BY DEF Grown, Database
  <2>2. others = 0 => \A k \in Keys : HoldsWrite(d, k)
    BY <1>d DEF KvRight
  <2> QED BY <1>f, <1>d, <2>1, <2>2
<1>2. ASSUME NEW i \in Nat, i + 1 <= n, Good(i) PROVE Good(i + 1)
  <2>g. Good(i)
    BY <1>2
  <2>a. PICK a \in Database : a = f[i]
    BY <1>2
  <2>p. PICK p \in 1..n : p = i + 1
    BY <1>2
  <2>c. PICK c \in Database : c = f[p]
    OBVIOUS
  <2>x. PICK x \in Memo : x = r[p].memo
    BY <1>b
  <2>1. c = Fold(a, x, "Confirmed")
    <3>1. i = p - 1
      BY <2>p
    <3>2. f[p] = Fold(f[p - 1], r[p].memo, "Confirmed")
      BY <1>f
    <3> QED BY <3>1, <3>2, <2>a, <2>c, <2>x
  <2>2. /\ Grown(d, a) /\ OwnersInit(a) /\ (d.finalized => a.finalized)
        /\ (DataOnly => a.owners = d.owners /\ a.init = d.init)
        /\ (\A j \in 1..i : is_versioned(r[j].memo.op) => Spent(a, r[j].memo))
        /\ (others = 0 => \A k \in Keys : HoldsWrite(a, k))
    BY <2>g, <2>a
  <2>3. Grown(a, c)
    BY <2>1, FoldGrows DEF Status
  <2>4. Grown(d, c)
    BY <2>2, <2>3, GrownSteps
  <2>5. /\ OwnersInit(c)
        /\ a.finalized => c = a
        /\ x.op \in DataOps => c.owners = a.owners /\ c.init = a.init
    <3>1. OwnersInit(a)
      BY <2>2
    <3>2. Carried(a, x, c)
      BY ONLY <2>1, <3>1, ConfirmedKeeps
    <3> QED BY ONLY <3>2 DEF Carried
  <2>6. DataOnly => c.owners = d.owners /\ c.init = d.init
    BY <2>2, <2>5, <2>x DEF DataOnly
  <2>7. ASSUME NEW m \in Memo, is_versioned(m.op), Spent(a, m) PROVE Spent(c, m)
    <3>1. a.finalized => c.finalized
      BY <2>5
    <3> QED BY <2>3, <2>7, <3>1, SpentStays
  <2>8. is_versioned(x.op) => Spent(c, x)
    <3> SUFFICES ASSUME is_versioned(x.op) PROVE Spent(c, x)
      OBVIOUS
    <3>1. CASE a.finalized
      BY <3>1, <2>5 DEF Spent
    <3>2. CASE ~a.finalized /\ (DataOnly \/ i = 0)
      <4>1. a.owners = d.owners /\ a.init = d.init
        BY <3>2, <2>2, <2>a, <1>f
      <4>2. /\ Me \in d.owners /\ d.init = "Initialized" /\ x.signer = Me
            /\ x.seq =< high_water(d, x) + VersionWindow
        BY <1>h, <2>x
      <4>3. /\ high_water(d, x) \in Nat /\ high_water(a, x) \in Nat
            /\ high_water(d, x) =< high_water(a, x) /\ x.seq \in Nat /\ VersionWindow \in Nat
        BY <2>2, GrownWaters, MemoFields, WindowAssumption
      <4>4. x.seq =< high_water(a, x) + VersionWindow
        BY <4>2, <4>3
      <4>5. Hearable(a, x)
        BY <4>1, <4>2, <4>4 DEF Hearable
      <4>6. x.seq < high_water(c, x)
        BY <3>2, <4>5, <2>1, FoldSpends DEF Status
      <4> QED BY <4>6 DEF Spent
    <3>3. CASE OneMemo /\ i # 0
      <4>1. 1 \in 1..i /\ 1 \in 1..n
        BY <3>3
      <4>2. r[1].memo = x
        BY <3>3, <4>1, <2>x DEF OneMemo
      <4>3. Spent(a, x)
        BY <2>2, <4>1, <4>2
      <4> QED BY <2>7, <4>3
    <3> QED BY <3>1, <3>2, <3>3, <1>o
  <2>9. ASSUME NEW j \in 1..(i + 1), is_versioned(r[j].memo.op) PROVE Spent(c, r[j].memo)
    <3>1. CASE j = p
      BY <2>8, <2>9, <2>x, <3>1
    <3>2. CASE j # p
      <4>1. j \in 1..i /\ j \in 1..n
        BY <3>2, <2>p
      <4>2. r[j].memo \in Memo
        BY <4>1, <1>b
      <4>3. Spent(a, r[j].memo)
        BY <2>2, <2>9, <4>1
      <4> QED BY <2>7, <2>9, <4>2, <4>3
    <3> QED BY <3>1, <3>2
  <2>10. others = 0 => \A k \in Keys : HoldsWrite(c, k)
    <3> SUFFICES ASSUME others = 0, NEW k \in Keys PROVE HoldsWrite(c, k)
      OBVIOUS
    <3>1. HoldsWrite(a, k)
      BY <2>2
    <3>2. tx \in DOMAIN sent /\ \E j \in DOMAIN sent[tx] : x = sent[tx][j]
      BY <1>b, <2>x
    <3>3. PICK j \in DOMAIN sent[tx] : x = sent[tx][j]
      BY <3>2
    <3> QED BY <3>1, <3>2, <3>3, <2>1, <2>2, HoldsAcross
  <2>11. d.finalized => c.finalized
    BY <2>2, <2>5
  <2> QED BY <2>c, <2>p, <2>4, <2>5, <2>6, <2>9, <2>10, <2>11
<1> HIDE DEF Good
<1> DEFINE T == {i \in Nat : i <= n => Good(i)}
<1>3. \A i \in Nat : i \in T
  <2>1. 0 \in T
    BY <1>1
  <2>2. ASSUME NEW i \in Nat, i \in T PROVE i + 1 \in T
    BY <1>2, <2>2
  <2> HIDE DEF T
  <2> QED BY <2>1, <2>2, NatSetInduction
<1>4. Good(n)
  BY <1>3
<1> USE DEF Good
<1>5. f[n] \in Database
  OBVIOUS
<1> QED BY <1>4, <1>5, <1>d, <1>f, <1>r

\* The unmined rows without one transaction.
LEMMA RowsLeft ==
    ASSUME SentRight, RowsRight, NEW tx, NEW w, w = RowsBut(tx)
    PROVE  /\ w \in Seq(Row)
           /\ \A i \in DOMAIN w : w[i].tx # tx /\ \E j \in DOMAIN waiting : w[i] = waiting[j]
           /\ \A j \in DOMAIN waiting : waiting[j].tx # tx => \E i \in DOMAIN w : w[i] = waiting[j]
<1>t. PICK txs : txs = (1..Len(sent)) \ {tx}
  OBVIOUS
<1>1. waiting \in Seq(Row) /\ w = RowsOf(txs)
  BY <1>t DEF RowsRight, RowsBut
<1>2. /\ w \in Seq(Row)
      /\ \A i \in DOMAIN w : w[i].tx \in txs /\ \E j \in DOMAIN waiting : w[i] = waiting[j]
      /\ \A j \in DOMAIN waiting : waiting[j].tx \in txs => \E i \in DOMAIN w : w[i] = waiting[j]
  BY ONLY <1>1, RowsOfFacts
<1>3. \A j \in DOMAIN waiting : waiting[j].tx \in 1..Len(sent)
  BY DEF RowsRight, Live
<1>4. \A i \in DOMAIN w : w[i].tx # tx
  BY <1>2, <1>t
<1>5. \A j \in DOMAIN waiting : waiting[j].tx # tx => waiting[j].tx \in txs
  BY <1>3, <1>t
<1> QED BY <1>2, <1>4, <1>5

\* The rows left belong to transactions that were not dropped.
LEMMA RowsLeftRight ==
    ASSUME SentRight, RowsRight, NEW tx, waiting' = RowsBut(tx), sent' = sent,
           Live \ {tx} \subseteq Live'
    PROVE  RowsRight'
<1>w. PICK w : w = RowsBut(tx)
  OBVIOUS
<1>1. /\ w \in Seq(Row)
      /\ \A i \in DOMAIN w : w[i].tx # tx /\ \E j \in DOMAIN waiting : w[i] = waiting[j]
  BY <1>w, RowsLeft
<1>2. ASSUME NEW i \in DOMAIN w
      PROVE  w[i].tx \in Live' /\ \E j \in DOMAIN sent[w[i].tx] : w[i].memo = sent[w[i].tx][j]
  <2>1. PICK j \in DOMAIN waiting : w[i] = waiting[j] /\ w[i].tx # tx
    BY <1>1
  <2>2. waiting[j].tx \in Live
        /\ \E h \in DOMAIN sent[waiting[j].tx] : waiting[j].memo = sent[waiting[j].tx][h]
    BY DEF RowsRight
  <2> QED BY <2>1, <2>2
<1>3. waiting' = w
  BY <1>w
<1> QED BY <1>1, <1>2, <1>3 DEF RowsRight

\* What the calls keep does not depend on the confirmed state or on the unmined rows.
LEMMA ChainLeaves ==
    ASSUME WriterInvariant, UNCHANGED <<toml, call, sent>>, Live' \subseteq Live
    PROVE  SentRight' /\ FileRight' /\ CallsRight' /\ Ascending' /\ PreparedFollow'
<1> USE DEF WriterInvariant, WellFormed
<1>1. SentRight'
  BY DEF SentRight
<1>2. FileRight'
  BY DEF FileRight
<1>3. CallsRight'
  BY DEF CallsRight, CallRight
<1>4. Ascending'
  BY DEF Ascending
<1>5. PreparedFollow'
  BY DEF PreparedFollow, Follows
<1> QED BY <1>1, <1>2, <1>3, <1>4, <1>5

\* A live memo that was used up stays so, whatever else is mined.
LEMMA LiveMemo ==
    ASSUME SentRight, NEW t \in Live, NEW i \in DOMAIN sent[t]
    PROVE  t \in DOMAIN sent /\ sent[t][i] \in Memo
<1>1. t \in DOMAIN sent
  BY DEF Live, SentRight
<1>2. sent[t] \in Seq(Memo)
  BY <1>1 DEF SentRight
<1> QED BY <1>1, <1>2

LEMMA MineStep ==
    ASSUME WriterInvariant, Heard, NEW tx, MineTx(tx)
    PROVE  WriterInvariant'
<1> USE DEF WriterInvariant, WellFormed
<1>s. PICK txs : txs = {tx}
  OBVIOUS
<1>r. PICK r : r = RowsOf(txs)
  OBVIOUS
<1>e. PICK e : e = Confirmed(r)
  OBVIOUS
<1>1. db' = e /\ waiting' = RowsBut(tx) /\ UNCHANGED <<toml, call, sent, lost, others>>
  BY <1>s, <1>r, <1>e DEF MineTx
<1>2. /\ e \in Database /\ OwnersInit(e) /\ Grown(db, e)
      /\ db.finalized => e.finalized
      /\ \A h \in DOMAIN r : is_versioned(r[h].memo.op) => Spent(e, r[h].memo)
      /\ others = 0 => \A k \in Keys : HoldsWrite(e, k)
  BY ONLY <1>s, <1>r, <1>e, WriterInvariant, Heard, MinePasses DEF WriterInvariant, WellFormed
<1>l. Live' = Live
  BY <1>1 DEF Live
<1>3. SentRight' /\ FileRight' /\ CallsRight' /\ Ascending' /\ PreparedFollow'
  BY <1>1, <1>l, ChainLeaves
<1>4. RowsRight'
  BY <1>1, <1>l, RowsLeftRight
<1>5. DbRight' /\ CountsRight'
  BY <1>1, <1>2 DEF DbRight, CountsRight
<1>6. Accounted'
  <2> SUFFICES ASSUME NEW t \in Live, NEW i \in DOMAIN sent[t], is_versioned(sent[t][i].op)
               PROVE  \/ Spent(e, sent[t][i])
                      \/ \E j \in DOMAIN waiting' :
                             waiting'[j].tx = t /\ waiting'[j].memo = sent[t][i]
    BY <1>1, <1>l DEF Accounted
  <2>m. PICK m \in Memo : m = sent[t][i]
    BY LiveMemo
  <2>1. CASE Spent(db, m)
    <3>d. PICK d \in Database : d = db
      BY DEF DbRight
    <3>1. Spent(e, m)
      BY <3>d, <2>1, <2>m, <1>2, SpentStays
    <3> QED BY <3>1, <2>m
  <2>2. CASE \E j \in DOMAIN waiting : waiting[j].tx = t /\ waiting[j].memo = m
    <3>j. PICK j \in DOMAIN waiting : waiting[j].tx = t /\ waiting[j].memo = m
      BY <2>2
    <3>w. waiting \in Seq(Row)
      BY DEF RowsRight
    <3>1. CASE t = tx
      <4>1. \A g \in DOMAIN waiting : waiting[g].tx \in txs => \E h \in DOMAIN r : r[h] = waiting[g]
        BY ONLY <3>w, <1>r, RowsOfFacts
      <4>2. PICK h \in DOMAIN r : r[h] = waiting[j]
        BY <4>1, <3>j, <3>1, <1>s
      <4>3. r[h].memo = m
        BY <4>2, <3>j
      <4>4. Spent(e, m)
        BY <4>3, <1>2, <2>m
      <4> QED BY <4>4, <2>m
    <3>2. CASE t # tx
      <4>1. PICK w : w = RowsBut(tx)
        OBVIOUS
      <4>2. PICK h \in DOMAIN w : w[h] = waiting[j]
        BY <4>1, <3>j, <3>2, RowsLeft
      <4>3. w[h].tx = t /\ w[h].memo = m
        BY <4>2, <3>j
      <4> QED BY <4>1, <4>3, <1>1, <2>m
    <3> QED BY <3>1, <3>2
  <2> QED BY <2>1, <2>2, <2>m DEF Accounted
<1>7. KvRight'
  BY <1>1, <1>2 DEF KvRight, HoldsWrite
<1> QED BY <1>3, <1>4, <1>5, <1>6, <1>7

LEMMA ExpireStep ==
    ASSUME WriterInvariant, NEW tx, Expire(tx)
    PROVE  WriterInvariant'
<1> USE DEF WriterInvariant, WellFormed
<1>1. /\ \E i \in DOMAIN waiting : waiting[i].tx = tx
      /\ lost' = lost \cup {tx} /\ waiting' = RowsBut(tx)
      /\ UNCHANGED <<db, toml, call, sent, others>>
  BY DEF Expire
<1>l. Live' = Live \ {tx} /\ tx \in 1..Len(sent)
  BY <1>1 DEF Live, RowsRight
<1>3. SentRight' /\ FileRight' /\ CallsRight' /\ Ascending' /\ PreparedFollow'
  BY <1>1, <1>l, ChainLeaves
<1>4. RowsRight'
  BY <1>1, <1>l, RowsLeftRight
<1>5. DbRight' /\ CountsRight'
  BY <1>1, <1>l DEF DbRight, CountsRight
<1>6. Accounted'
  <2> SUFFICES ASSUME NEW t \in Live, t # tx, NEW i \in DOMAIN sent[t], is_versioned(sent[t][i].op)
               PROVE  \/ Spent(db, sent[t][i])
                      \/ \E j \in DOMAIN waiting' :
                             waiting'[j].tx = t /\ waiting'[j].memo = sent[t][i]
    BY <1>1, <1>l DEF Accounted
  <2>2. ASSUME NEW j \in DOMAIN waiting, waiting[j].tx = t, waiting[j].memo = sent[t][i]
        PROVE  \E h \in DOMAIN waiting' : waiting'[h].tx = t /\ waiting'[h].memo = sent[t][i]
    <3>1. PICK w : w = RowsBut(tx)
      OBVIOUS
    <3>2. PICK h \in DOMAIN w : w[h] = waiting[j]
      BY <3>1, <2>2, RowsLeft
    <3>3. w[h].tx = t /\ w[h].memo = sent[t][i]
      BY <3>2, <2>2
    <3> QED BY <3>1, <3>3, <1>1
  <2> QED BY <2>2 DEF Accounted
<1>7. KvRight'
  BY <1>1 DEF KvRight, HoldsWrite
<1> QED BY <1>3, <1>4, <1>5, <1>6, <1>7

LEMMA OtherStep ==
    ASSUME WriterInvariant, NEW m \in Others, OtherMined(m)
    PROVE  WriterInvariant'
<1> USE DEF WriterInvariant, WellFormed
<1>1. /\ others < MaxOthers /\ others' = others + 1 /\ db' = Fold(db, m, "Confirmed")
      /\ UNCHANGED <<waiting, toml, call, sent, lost>>
  BY DEF OtherMined
<1>d. PICK d \in Database : d = db /\ OwnersInit(d)
  BY DEF DbRight
<1>e. PICK e : e = Fold(d, m, "Confirmed")
  OBVIOUS
<1>m. m \in Memo
  BY OthersAssumption
<1>2. Grown(d, e)
  BY <1>e, <1>m, FoldGrows DEF Status
<1>c. Carried(d, m, e)
  BY <1>d, <1>e, <1>m, ConfirmedKeeps
<1>3. OwnersInit(e) /\ (d.finalized => e.finalized)
  BY <1>c DEF Carried
<1>l. Live' = Live
  BY <1>1 DEF Live
<1>4. SentRight' /\ FileRight' /\ CallsRight' /\ Ascending' /\ PreparedFollow'
  BY <1>1, <1>l, ChainLeaves
<1>5. RowsRight'
  BY <1>1, <1>l DEF RowsRight
<1>6. DbRight'
  BY <1>1, <1>2, <1>3, <1>d, <1>e DEF DbRight, Grown
<1>n. others \in 0..MaxOthers /\ MaxOthers \in Nat
  BY WriterBoundsAssumption DEF CountsRight
<1>7. CountsRight'
  BY <1>1, <1>n DEF CountsRight
<1>8. Accounted'
  <2> SUFFICES ASSUME NEW t \in Live, NEW i \in DOMAIN sent[t], is_versioned(sent[t][i].op)
               PROVE  \/ Spent(e, sent[t][i])
                      \/ \E j \in DOMAIN waiting :
                             waiting[j].tx = t /\ waiting[j].memo = sent[t][i]
    BY <1>1, <1>l, <1>d, <1>e DEF Accounted
  <2>m. PICK x \in Memo : x = sent[t][i]
    BY LiveMemo
  <2>1. CASE Spent(d, x)
    <3>1. Spent(e, x)
      BY <2>1, <2>m, <1>2, <1>3, SpentStays
    <3> QED BY <3>1, <2>m
  <2> QED BY <2>1, <2>m, <1>d DEF Accounted
<1>9. KvRight'
  BY <1>1, <1>n DEF KvRight
<1> QED BY <1>4, <1>5, <1>6, <1>7, <1>8, <1>9

LEMMA FirstInvariant == WriterInit => WriterInvariant
<1> SUFFICES ASSUME WriterInit PROVE WriterInvariant
  OBVIOUS
<1>1. db \in Database /\ OwnersInit(db) /\ \A k \in Keys : db.kv_versions[k] = 0
  <2>1. EmptyDatabase \in Database
    BY EmptyIsDatabase
  <2>2. CASE db = EmptyDatabase
    <3>1. db.owners = {} /\ \A k \in Keys : db.kv_versions[k] = 0
      BY <2>2 DEF EmptyDatabase
    <3> QED BY <2>1, <2>2, <3>1 DEF OwnersInit
  <2>3. CASE db = [insert_owner(EmptyDatabase, Root) EXCEPT !.init = "Initialized"]
    <3>d. PICK d \in Database : d = EmptyDatabase
      BY <2>1
    <3>1. \A k \in Keys : d.kv_versions[k] = 0
      BY <3>d DEF EmptyDatabase
    <3>2. db = [d EXCEPT !.owners = @ \cup {Root}, !.writers[Root] = {}, !.init = "Initialized"]
      BY <2>3, <3>d DEF insert_owner, Database
    <3>3. /\ db \in Database /\ db.init = "Initialized"
          /\ db.kv_versions = d.kv_versions
      BY <3>2, RootAssumption DEF Database, Scope
    <3> QED BY <3>1, <3>3 DEF OwnersInit
  <2> QED BY <2>2, <2>3 DEF WriterInit
<1>2. /\ waiting = << >> /\ toml = {} /\ sent = << >> /\ lost = {} /\ others = 0
      /\ call = [c \in Clients |-> IdleCall]
  BY DEF WriterInit
<1>3. SentRight /\ RowsRight /\ Live = {}
  BY <1>2 DEF SentRight, RowsRight, Live
<1>4. FileRight /\ CountsRight
  BY <1>2, WriterBoundsAssumption, FS_EmptySet DEF FileRight, CountsRight
<1>5. CallRight(IdleCall) /\ IdleCall.pc = "idle"
  BY FS_EmptySet DEF CallRight, IdleCall
<1>6. CallsRight
  BY <1>2, <1>5 DEF CallsRight
<1>7. Accounted /\ Ascending /\ PreparedFollow
  BY <1>2, <1>3, <1>5 DEF Accounted, Ascending, PreparedFollow
<1>8. KvRight /\ DbRight
  BY <1>1 DEF KvRight, HoldsWrite, DbRight
<1> QED BY <1>3, <1>4, <1>6, <1>7, <1>8 DEF WriterInvariant, WellFormed

LEMMA NextInvariant ==
    ASSUME Serialized, WriterInvariant, Heard, [WriterNext]_writerVars
    PROVE  WriterInvariant'
<1>1. ASSUME NEW c \in Clients, NEW sync \in BOOLEAN, NEW batch \in Batches,
             do_write(c, batch, sync) \/ do_write_many(c, batch, sync)
      PROVE  WriterInvariant'
  <2>1. PrepareBatch(c, batch, sync)
    BY <1>1 DEF do_write, do_write_many
  <2> QED BY <2>1, BatchStep
<1>2. ASSUME NEW c \in Clients, NEW sync \in BOOLEAN, NEW req \in Managements, do_manage(c, req, sync)
      PROVE  WriterInvariant'
  BY <1>2, ManagementStep DEF do_manage
<1>3. ASSUME NEW c \in Clients, PrepareInit(c) PROVE WriterInvariant'
  BY <1>3, InitStep
<1>4. ASSUME NEW c \in Clients, Ship(c) PROVE WriterInvariant'
  BY <1>4, ShipStep
<1>5. ASSUME NEW c \in Clients, Record(c) \/ RecordLost(c) PROVE WriterInvariant'
  BY <1>5, RecordStep
<1>6. ASSUME NEW tx \in 1..MaxSent, MineTx(tx) PROVE WriterInvariant'
  BY <1>6, MineStep
<1>7. ASSUME NEW tx \in 1..MaxSent, Expire(tx) PROVE WriterInvariant'
  BY <1>7, ExpireStep
<1>8. ASSUME NEW m \in Others, OtherMined(m) PROVE WriterInvariant'
  BY <1>8, OtherStep
<1>9. ASSUME NEW e \in toml, Age(e) PROVE WriterInvariant'
  <2>1. toml' \subseteq toml /\ UNCHANGED <<db, waiting, call, sent, lost, others>>
    BY <1>9 DEF Age
  <2> QED BY <2>1, PrunedKeeps
<1>10. CASE ReadSync
  <2>1. toml' \subseteq toml /\ UNCHANGED <<db, waiting, call, sent, lost, others>>
    BY <1>10 DEF ReadSync, Pruned
  <2> QED BY <2>1, PrunedKeeps
<1>11. CASE UNCHANGED writerVars
  <2>1. toml' \subseteq toml /\ UNCHANGED <<db, waiting, call, sent, lost, others>>
    BY <1>11 DEF writerVars
  <2> QED BY <2>1, PrunedKeeps
<1>12. CASE WriterNext
  BY <1>1, <1>2, <1>3, <1>4, <1>5, <1>6, <1>7, <1>8, <1>9, <1>10, <1>12, Zenon DEF WriterNext
<1> QED BY <1>11, <1>12

LEMMA WriterInvariantHolds ==
    ASSUME Serialized
    PROVE  WriterSpec /\ []Heard => []WriterInvariant
<1>1. WriterInit => WriterInvariant
  BY FirstInvariant
<1>2. WriterInvariant /\ Heard /\ [WriterNext]_writerVars => WriterInvariant'
  BY NextInvariant
<1> QED BY <1>1, <1>2, PTL DEF WriterSpec

-----------------------------------------------------------------------------
(* The theorems.                                                           *)

LEMMA InvariantIsTyped == ASSUME WriterInvariant PROVE WriterTypeOK
<1> USE DEF WriterInvariant, WellFormed
<1>1. db \in Database /\ lost \subseteq 1..Len(sent) /\ others \in 0..MaxOthers
      /\ \A e \in toml : e.tx \in 1..Len(sent)
  BY DEF DbRight, CountsRight, FileRight
<1>2. \A i \in DOMAIN waiting : waiting[i].tx \in Live /\ waiting[i].memo \in Memo
  <2>1. PICK w \in Seq(Row) : w = waiting
    BY DEF RowsRight
  <2>2. \A i \in DOMAIN w : w[i] \in Row
    BY <2>1
  <2> QED BY <2>1, <2>2 DEF RowsRight, Row
<1>3. \A c \in Clients : call[c].pc \in {"idle", "prepared", "shipped"}
  BY DEF CallsRight, CallRight
<1> QED BY <1>1, <1>2, <1>3 DEF WriterTypeOK

\* The sequences of memos on one entity ascend in the order they were sent.
LEMMA SentAscends ==
    ASSUME SentRight, Ascending, NEW s \in Live, NEW t \in Live, NEW i \in DOMAIN sent[s],
           NEW j \in DOMAIN sent[t], SameEntity(sent[s][i], sent[t][j]),
           s < t \/ (s = t /\ i < j)
    PROVE  sent[s][i].seq < sent[t][j].seq
<1>1. CASE s < t
  BY <1>1 DEF Ascending
<1>2. CASE s = t /\ i < j
  <2>1. Batched(sent[s])
    BY LiveMemo DEF SentRight
  <2> QED BY <1>2, <2>1 DEF Batched
<1> QED BY <1>1, <1>2

\* A serialised client that goes on being heard never signs the same sequence
\* of a key or target twice.
THEOREM NeverSelfConflicts ==
    ASSUME Serialized
    PROVE  WriterSpec /\ []Heard => []NoSelfConflict
<1>1. ASSUME WriterInvariant PROVE NoSelfConflict
  <2> USE DEF WriterInvariant, WellFormed
  <2>1. ASSUME NEW s \in Live, NEW t \in Live, NEW i \in DOMAIN sent[s], NEW j \in DOMAIN sent[t],
               <<s, i>> # <<t, j>>, SameEntity(sent[s][i], sent[t][j])
        PROVE  sent[s][i].seq # sent[t][j].seq
    <3>1. SameEntity(sent[t][j], sent[s][i])
      BY <2>1 DEF SameEntity
    <3>2. sent[s][i].seq \in Nat /\ sent[t][j].seq \in Nat
      BY <1>1, LiveMemo, MemoFields
    <3>3. s \in Nat /\ t \in Nat /\ i \in Nat /\ j \in Nat
      <4>1. sent \in Seq(Seq(Memo)) /\ s \in DOMAIN sent /\ t \in DOMAIN sent
        BY <1>1, LiveMemo DEF SentRight
      <4>2. sent[s] \in Seq(Memo) /\ sent[t] \in Seq(Memo)
        BY <4>1
      <4> QED BY <4>1, <4>2
    <3>4. (s < t \/ (s = t /\ i < j)) \/ (t < s \/ (t = s /\ j < i))
      BY <2>1, <3>3
    <3>5. CASE s < t \/ (s = t /\ i < j)
      <4>1. sent[s][i].seq < sent[t][j].seq
        BY <1>1, <2>1, <3>5, SentAscends
      <4> QED BY <4>1, <3>2
    <3>6. CASE t < s \/ (t = s /\ j < i)
      <4>1. sent[t][j].seq < sent[s][i].seq
        BY <1>1, <3>1, <3>6, SentAscends
      <4> QED BY <4>1, <3>2
    <3> QED BY <3>4, <3>5, <3>6
  <2>2. WriterTypeOK
    BY <1>1, InvariantIsTyped
  <2> QED BY <2>1, <2>2 DEF NoSelfConflict, SameEntity
<1> QED BY <1>1, WriterInvariantHolds, PTL

\* When all a serialised client broadcast has been mined, each key holds what
\* its latest write set, in whatever order the chain took the transactions.
THEOREM LatestWriteStands ==
    ASSUME Serialized
    PROVE  WriterSpec /\ []Heard => []LastWriteWins
<1>1. ASSUME WriterInvariant PROVE LastWriteWins
  <2> USE DEF WriterInvariant, WellFormed
  <2> SUFFICES ASSUME waiting = << >>, lost = {}, others = 0, ~db.finalized,
                      NEW k \in Keys, WritesTo(k) # {},
                      NEW x, x = CHOOSE z \in WritesTo(k) : \A y \in WritesTo(k) : NoEarlier(z, y)
               PROVE  db.kv[k] = sent[x[1]][x[2]].value
    BY Zenon DEF LastWriteWins
  <2> DEFINE wrote(a, b) == sent[a][b].op \in DataOps /\ sent[a][b].key = k
  <2>i. WriterInvariant
    BY <1>1
  <2>s. PICK s \in Seq(Seq(Memo)) : s = sent
    BY <2>i DEF SentRight
  <2>d. PICK d \in Database : d = db
    BY <2>i DEF DbRight
  <2>1. \A z : z \in WritesTo(k) <=> \E a \in DOMAIN sent : \E b \in DOMAIN sent[a] :
                                         z = <<a, b>> /\ wrote(a, b)
    BY DEF WritesTo
  <2>l. Live = DOMAIN sent
    BY <2>s DEF Live
  <2>n. \A t \in DOMAIN sent : t \in Nat /\ \A i \in DOMAIN sent[t] : i \in Nat /\ sent[t][i] \in Memo
    <3>1. \A t \in DOMAIN s : t \in Nat /\ s[t] \in Seq(Memo)
      OBVIOUS
    <3> QED BY <2>s, <3>1
  <2>2. ASSUME NEW t \in DOMAIN sent, NEW i \in DOMAIN sent[t], wrote(t, i)
        PROVE  is_versioned(sent[t][i].op) /\ sent[t][i].seq < d.kv_versions[k]
    <3>1. is_versioned(sent[t][i].op)
      BY <2>2 DEF is_versioned
    <3>2. Spent(db, sent[t][i])
      BY <2>2, <2>i, <2>l, <3>1 DEF Accounted
    <3>3. high_water(db, sent[t][i]) = db.kv_versions[k]
      BY <2>2 DEF high_water
    <3> QED BY <3>1, <3>2, <3>3, <2>d DEF Spent
  <2>3. d.kv_versions[k] \in Nat /\ d.kv_versions[k] # 0
    <3>t. PICK t \in DOMAIN sent : \E i \in DOMAIN sent[t] : wrote(t, i)
      BY <2>1
    <3>1. PICK i \in DOMAIN sent[t] : wrote(t, i)
      BY <3>t
    <3>2. sent[t][i].seq < d.kv_versions[k]
      BY <2>2, <3>1
    <3>3. sent[t][i].seq \in Nat /\ d.kv_versions[k] \in Nat
      BY <2>n, MemoFields DEF Database
    <3> QED BY <3>2, <3>3
  <2>4. HoldsWrite(d, k)
    BY <2>i, <2>d DEF KvRight
  <2>p. PICK p \in DOMAIN sent : \E q \in DOMAIN sent[p] :
            /\ wrote(p, q)
            /\ sent[p][q].seq + 1 = d.kv_versions[k]
            /\ d.kv[k] = sent[p][q].value
    BY <2>3, <2>4 DEF HoldsWrite
  <2>5. PICK q \in DOMAIN sent[p] :
            /\ wrote(p, q)
            /\ sent[p][q].seq + 1 = d.kv_versions[k]
            /\ d.kv[k] = sent[p][q].value
    BY <2>p
  <2>6. ASSUME NEW u \in DOMAIN sent, NEW j \in DOMAIN sent[u], wrote(u, j)
        PROVE  u < p \/ (u = p /\ j <= q)
    <3>1. SUFFICES ASSUME ~(u < p \/ (u = p /\ j <= q)) PROVE FALSE
      OBVIOUS
    <3>2. p \in Nat /\ u \in Nat /\ q \in Nat /\ j \in Nat
      BY <2>n
    <3>3. p < u \/ (p = u /\ q < j)
      BY <3>1, <3>2
    <3>4. SameEntity(sent[p][q], sent[u][j])
      BY <2>2, <2>5, <2>6 DEF SameEntity
    <3>5. sent[p][q].seq < sent[u][j].seq
      BY <2>i, <2>l, <3>3, <3>4, SentAscends
    <3>6. sent[u][j].seq < d.kv_versions[k]
      BY <2>2, <2>6
    <3>7. sent[p][q].seq \in Nat /\ sent[u][j].seq \in Nat
      BY <2>n, MemoFields
    <3> QED BY <2>3, <2>5, <3>5, <3>6, <3>7
  <2> HIDE DEF wrote
  <2>w. PICK w : w = <<p, q>>
    OBVIOUS
  <2>7. w \in WritesTo(k) /\ w[1] = p /\ w[2] = q
    BY <2>1, <2>5, <2>w
  <2>8. \A y \in WritesTo(k) : NoEarlier(w, y)
    <3> SUFFICES ASSUME NEW y \in WritesTo(k) PROVE NoEarlier(w, y)
      OBVIOUS
    <3>u. PICK u \in DOMAIN sent : \E j \in DOMAIN sent[u] : y = <<u, j>> /\ wrote(u, j)
      BY <2>1
    <3>1. PICK j \in DOMAIN sent[u] : y = <<u, j>> /\ wrote(u, j)
      BY <3>u
    <3>2. u < p \/ (u = p /\ j <= q)
      BY <2>6, <3>1
    <3> QED BY <2>7, <3>1, <3>2 DEF NoEarlier
  <2>9. x \in WritesTo(k) /\ \A y \in WritesTo(k) : NoEarlier(x, y)
    BY <2>7, <2>8, Zenon
  <2>10. x \in WritesTo(k) /\ NoEarlier(x, w) /\ NoEarlier(w, x)
    BY <2>7, <2>8, <2>9
  <2>11. x[1] = p /\ x[2] = q
    <3>u. PICK u \in DOMAIN sent : \E j \in DOMAIN sent[u] : x = <<u, j>>
      BY <2>1, <2>10
    <3>1. PICK j \in DOMAIN sent[u] : x = <<u, j>>
      BY <3>u
    <3>2. u \in Nat /\ j \in Nat /\ p \in Nat /\ q \in Nat
      BY <2>n
    <3>3. x[1] = u /\ x[2] = j
      BY ONLY <3>1
    <3>4. p < u \/ (p = u /\ q <= j)
      BY <2>10, <2>7, <3>3 DEF NoEarlier
    <3>5. u < p \/ (u = p /\ j <= q)
      BY <2>10, <2>7, <3>3 DEF NoEarlier
    <3> QED BY <3>2, <3>3, <3>4, <3>5
  <2> QED BY <2>5, <2>11, <2>d
<1> QED BY <1>1, WriterInvariantHolds, PTL

=============================================================================
