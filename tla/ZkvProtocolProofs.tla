-------------------------- MODULE ZkvProtocolProofs --------------------------
(***************************************************************************)
(* Lemmas that the proofs about every state machine over ZkvProtocol rest  *)
(* on: what one Fold returns, and induction over the natural numbers in a  *)
(* form without operator parameters.                                       *)
(***************************************************************************)
EXTENDS ZkvProtocol, FiniteSetTheorems, WellFoundedInduction, TLAPS

-----------------------------------------------------------------------------
(* Induction.                                                              *)

\* A non-empty set of natural numbers has a least element.
LEMMA LeastNat ==
    ASSUME NEW T, T \subseteq Nat, T # {}
    PROVE  \E n \in T : \A m \in T : n <= m
<1> DEFINE less == {ss \in Nat \X Nat : ss[1] < ss[2]}
<1>1. OpToRel(<, Nat) = less
  BY Zenon DEF OpToRel
<1>2. \E x \in T : \A y \in T : ~(<<y, x>> \in OpToRel(<, Nat))
  BY NatLessThanWellFounded, WFMin, Zenon
<1>3. \E x \in T : \A y \in T : ~(<<y, x>> \in less)
  BY <1>1, <1>2, Zenon
<1>4. ASSUME NEW x \in Nat, NEW y \in Nat, y < x
      PROVE  <<y, x>> \in less
  BY <1>4
<1> HIDE DEF less
<1>5. \E x \in T : \A y \in T : ~(y < x)
  BY <1>3, <1>4, Zenon
<1> QED BY <1>5

\* A set that holds 0 and the successor of each of its members holds every number.
LEMMA NatSetInduction ==
    ASSUME NEW S, 0 \in S, \A n \in Nat : n \in S => n + 1 \in S
    PROVE  \A n \in Nat : n \in S
<1> SUFFICES ASSUME Nat \ S # {} PROVE FALSE
  OBVIOUS
<1>1. PICK n \in Nat \ S : \A m \in Nat \ S : n <= m
  BY LeastNat
<1>2. n # 0 /\ n - 1 \in Nat /\ n - 1 \notin Nat \ S
  BY <1>1
<1> QED BY <1>1, <1>2

\* f starts at the seed and takes one step at each number up to n.
Iterates(f, n, D, seed, step) ==
    /\ f \in [0..n -> D]
    /\ f[0] = seed
    /\ \A i \in 1..n : f[i] = step[<<i, f[i - 1]>>]

\* A step function can be iterated.
LEMMA RecursionExists ==
    ASSUME NEW n \in Nat, NEW D, NEW seed \in D, NEW step \in [(1..n) \X D -> D]
    PROVE  \E f : Iterates(f, n, D, seed, step)
<1> DEFINE Iter(m, f) == Iterates(f, m, D, seed, step)
           S == {m \in Nat : m <= n => \E f : Iter(m, f)}
<1>1. 0 \in S
  <2>1. Iter(0, [i \in 0..0 |-> seed])
    BY DEF Iterates
  <2> QED BY <2>1
<1>2. ASSUME NEW m \in Nat, m \in S
      PROVE  m + 1 \in S
  <2> SUFFICES ASSUME m + 1 <= n PROVE \E f : Iter(m + 1, f)
    BY <1>2
  <2>1. PICK f : Iter(m, f)
    BY <1>2
  <2> DEFINE next == step[<<m + 1, f[m]>>]
             g == [i \in 0..(m + 1) |-> IF i = m + 1 THEN next ELSE f[i]]
  <2>2. next \in D
    <3>1. f[m] \in D /\ m + 1 \in 1..n
      BY <2>1 DEF Iterates
    <3> QED BY <3>1
  <2> HIDE DEF next
  <2>3. g \in [0..(m + 1) -> D] /\ g[0] = seed
    BY <2>1, <2>2 DEF Iterates
  <2>4. \A i \in 0..m : g[i] = f[i]
    OBVIOUS
  <2>5. g[m + 1] = step[<<m + 1, g[m]>>]
    <3>1. g[m + 1] = next /\ g[m] = f[m]
      BY <2>4
    <3> HIDE DEF g
    <3> QED BY <3>1 DEF next
  <2>6. \A i \in 1..m : g[i] = step[<<i, g[i - 1]>>]
    <3> HIDE DEF g
    <3> QED BY <2>1, <2>4 DEF Iterates
  <2> HIDE DEF g
  <2>7. \A i \in 1..(m + 1) : g[i] = step[<<i, g[i - 1]>>]
    BY <2>5, <2>6
  <2> QED BY <2>3, <2>7 DEF Iterates
<1> HIDE DEF S
<1>3. n \in S
  BY <1>1, <1>2, NatSetInduction
<1> QED BY <1>3 DEF S

-----------------------------------------------------------------------------
(* Facts about the protocol operators.                                     *)

\* Parsing gives every memo an op of the protocol and a natural sequence.
LEMMA MemoFields ==
    ASSUME NEW m \in Memo
    PROVE  /\ m.op \in DataOps \cup RegistryOps \cup {"INIT", "FINALIZE", "VERSION"}
           /\ m.seq \in Nat
           /\ m.signer \in Pubkeys \cup {NoSigner}
           /\ m.op \in DataOps => m.key \in Keys /\ m.value \in Values \cup {NoValue}
           /\ m.op \in SetOps => m.value \in Values
           /\ m.op = "DEL" => m.value = NoValue
           /\ m.op \in RegistryOps => m.key \in Targets /\ m.value \in Scope
           /\ m.op = "VERSION" =>
                 m.key \in Nat \cup {NotNumeric} /\ m.value \in (SUBSET BlockCap) \cup {NoValue}
BY DEF Memo, DataOps, SetOps, RegistryOps

\* bump_hw is monotone and passes the honoured sequence.
LEMMA BumpFacts ==
    ASSUME NEW c \in Nat, NEW s \in Nat
    PROVE  /\ bump_hw(c, s) \in Nat
           /\ c =< bump_hw(c, s)
           /\ s < bump_hw(c, s)
           /\ s =< c + VersionWindow => bump_hw(c, s) =< c + VersionWindow + 1
BY WindowAssumption DEF bump_hw

\* apply_management returns a database whose only changed fields are the registry's.
LEMMA ManagementTyped ==
    ASSUME NEW d \in Database, NEW m \in Memo, m.op \in RegistryOps
    PROVE  /\ apply_management(d, m) \in Database
           /\ apply_management(d, m) = [d EXCEPT !.owners = apply_management(d, m).owners,
                                                 !.writers = apply_management(d, m).writers]
<1>1. m.key \in Targets /\ m.value \in Scope
  BY MemoFields
<1>2. Canonical[m.key] \in Pubkeys \cup {NotAPubkey}
  BY <1>1, CanonicalAssumption
<1>3. CASE management_verdict(d, m) # "Applied"
  BY <1>3 DEF apply_management, Database
<1>4. CASE management_verdict(d, m) = "Applied"
  <2>1. Canonical[m.key] \in Pubkeys
    BY <1>2, <1>4 DEF management_verdict
  <2>2. CASE m.op = "OWNERADD"
    BY <1>4, <2>1, <2>2 DEF apply_management, insert_owner, Database, Scope
  <2>3. CASE m.op = "OWNERDEL"
    BY <1>4, <2>1, <2>3 DEF apply_management, Database
  <2>4. CASE m.op = "WRITERADD"
    BY <1>1, <1>4, <2>1, <2>4 DEF apply_management, Database
  <2>5. CASE m.op = "WRITERDEL"
    BY <1>4, <2>1, <2>5 DEF apply_management, Database, Scope
  <2> QED BY <2>2, <2>3, <2>4, <2>5 DEF RegistryOps
<1> QED BY <1>3, <1>4

\* What is true of every honoured step, said once: e is a database that d may
\* become by folding m.
FoldStep(d, e, m) ==
    /\ e \in Database
    /\ \A k \in Keys : /\ d.kv_versions[k] =< e.kv_versions[k]
                       /\ e.kv_versions[k] =< d.kv_versions[k] + VersionWindow + 1
    /\ \A t \in Targets : /\ d.target_versions[t] =< e.target_versions[t]
                          /\ e.target_versions[t] =< d.target_versions[t] + VersionWindow + 1

\* A confirmed, in-window memo yields a well-formed database whose high-waters
\* moved forward by at most the window plus one, past the memo's sequence.
LEMMA ConfirmedStep ==
    ASSUME NEW d \in Database, NEW m \in Memo, seq_in_window(d, m)
    PROVE  /\ FoldStep(d, apply_confirmed(d, m), m)
           /\ is_versioned(m.op) => m.seq < high_water(apply_confirmed(d, m), m)
<1> DEFINE e == apply_confirmed(d, m)
<1> HIDE DEF e
<1>w. VersionWindow \in Nat
  BY WindowAssumption
<1>m. m.seq \in Nat
  BY MemoFields
<1>1. CASE m.op = "INIT"
  <2>1. e = [d EXCEPT !.owners = @ \cup {Root}, !.writers[Root] = {}, !.init = "Initialized"]
    BY <1>1 DEF e, apply_confirmed, insert_owner, Database, DataOps, SetOps, RegistryOps
  <2>2. e \in Database
    BY <2>1, RootAssumption DEF Database, Scope
  <2>3. e.kv_versions = d.kv_versions /\ e.target_versions = d.target_versions
    BY <2>1 DEF Database
  <2>4. ~is_versioned(m.op)
    BY <1>1 DEF is_versioned, DataOps, SetOps, RegistryOps
  <2>5. FoldStep(d, e, m)
    BY <2>2, <2>3, <1>w DEF FoldStep, Database
  <2> QED BY <2>4, <2>5 DEF e
<1>2. CASE m.op \in RegistryOps
  <2>0. m.key \in Targets /\ m.op \notin DataOps
    BY <1>2, MemoFields DEF DataOps, SetOps, RegistryOps
  <2> DEFINE a == apply_management(d, m)
  <2>a. /\ a \in Database
        /\ a = [d EXCEPT !.owners = a.owners, !.writers = a.writers]
    BY <1>2, ManagementTyped
  <2>1. e = [a EXCEPT !.target_versions[m.key] = bump_hw(@, m.seq)]
    BY <1>2 DEF e, apply_confirmed, DataOps, SetOps, RegistryOps
  <2> HIDE DEF a
  <2>2. /\ a \in Database
        /\ a.kv_versions = d.kv_versions
        /\ a.target_versions = d.target_versions
    BY <2>a DEF Database
  <2>3. /\ d.target_versions[m.key] \in Nat
        /\ m.seq =< d.target_versions[m.key] + VersionWindow
    BY <1>2, <2>0 DEF seq_in_window, is_versioned, high_water, Database
  <2>4. /\ bump_hw(d.target_versions[m.key], m.seq) \in Nat
        /\ d.target_versions[m.key] =< bump_hw(d.target_versions[m.key], m.seq)
        /\ m.seq < bump_hw(d.target_versions[m.key], m.seq)
        /\ bump_hw(d.target_versions[m.key], m.seq)
              =< d.target_versions[m.key] + VersionWindow + 1
    BY <1>m, <2>3, BumpFacts
  <2>5. /\ e.kv_versions = d.kv_versions
        /\ e.target_versions =
              [d.target_versions EXCEPT ![m.key] = bump_hw(d.target_versions[m.key], m.seq)]
    BY <2>1, <2>2 DEF Database
  <2>6. e \in Database
    BY <2>1, <2>2, <2>4, <2>0 DEF Database
  <2>7. FoldStep(d, e, m)
    BY <2>0, <2>4, <2>5, <2>6, <1>w DEF FoldStep, Database
  <2>8. m.seq < high_water(e, m)
    BY <2>0, <2>4, <2>5 DEF high_water, Database
  <2> QED BY <2>7, <2>8 DEF e
<1>3. CASE m.op = "VERSION"
  <2>1. e \in Database /\ e.kv_versions = d.kv_versions /\ e.target_versions = d.target_versions
    <3>1. e = apply_version(d, m)
      BY <1>3 DEF e, apply_confirmed, DataOps, SetOps, RegistryOps
    <3>2. CASE version_verdict(d, m) # "Applied"
      BY <3>1, <3>2 DEF apply_version
    <3>3. CASE version_verdict(d, m) = "Applied"
      <4>1. m.key \in Nat /\ m.value \in SUBSET BlockCap
        BY <1>3, <3>3, MemoFields DEF version_verdict, NotNumeric
      <4> QED BY <3>1, <3>3, <4>1 DEF apply_version, Database
    <3> QED BY <3>2, <3>3
  <2>2. ~is_versioned(m.op)
    BY <1>3 DEF is_versioned, DataOps, SetOps, RegistryOps
  <2>3. FoldStep(d, e, m)
    BY <2>1, <1>w DEF FoldStep, Database
  <2> QED BY <2>2, <2>3 DEF e
<1>4. CASE m.op \in DataOps
  <2>0. m.key \in Keys /\ m.value \in Values \cup {NoValue} /\ m.op \notin RegistryOps
    BY <1>4, MemoFields DEF DataOps, SetOps, RegistryOps
  <2>1. e = [d EXCEPT !.kv[m.key] = m.value,
                      !.kv_versions[m.key] = bump_hw(@, m.seq)]
    BY <1>4 DEF e, apply_confirmed, DataOps, SetOps, RegistryOps
  <2>3. /\ d.kv_versions[m.key] \in Nat
        /\ m.seq =< d.kv_versions[m.key] + VersionWindow
    BY <1>4, <2>0 DEF seq_in_window, is_versioned, high_water, Database
  <2>4. /\ bump_hw(d.kv_versions[m.key], m.seq) \in Nat
        /\ d.kv_versions[m.key] =< bump_hw(d.kv_versions[m.key], m.seq)
        /\ m.seq < bump_hw(d.kv_versions[m.key], m.seq)
        /\ bump_hw(d.kv_versions[m.key], m.seq) =< d.kv_versions[m.key] + VersionWindow + 1
    BY <1>m, <2>3, BumpFacts
  <2>5. /\ e.target_versions = d.target_versions
        /\ e.kv_versions =
              [d.kv_versions EXCEPT ![m.key] = bump_hw(d.kv_versions[m.key], m.seq)]
    BY <2>1 DEF Database
  <2>6. e \in Database
    BY <2>0, <2>1, <2>4 DEF Database
  <2>7. FoldStep(d, e, m)
    BY <2>0, <2>4, <2>5, <2>6, <1>w DEF FoldStep, Database
  <2>8. m.seq < high_water(e, m)
    BY <1>4, <2>0, <2>4, <2>5 DEF high_water, Database
  <2> QED BY <2>7, <2>8 DEF e
<1>5. CASE m.op = "FINALIZE"
  <2>1. e = [d EXCEPT !.finalized = TRUE]
    BY <1>5 DEF e, apply_confirmed, DataOps, SetOps, RegistryOps
  <2>2. ~is_versioned(m.op)
    BY <1>5 DEF is_versioned, DataOps, SetOps, RegistryOps
  <2>3. e \in Database
    BY <2>1, Zenon DEF Database
  <2>4. e.kv_versions = d.kv_versions /\ e.target_versions = d.target_versions
    BY <2>1 DEF Database
  <2>5. FoldStep(d, e, m)
    BY <2>3, <2>4, <1>w DEF FoldStep, Database
  <2> QED BY <2>2, <2>5 DEF e
<1> QED BY <1>1, <1>2, <1>3, <1>4, <1>5, MemoFields DEF e

\* The same for a confirming row, which moreover leaves every confirmed
\* projection alone.
LEMMA PendingStep ==
    ASSUME NEW d \in Database, NEW m \in Memo, seq_in_window(d, m)
    PROVE  /\ FoldStep(d, apply_pending(d, m), m)
           /\ is_versioned(m.op) => m.seq < high_water(apply_pending(d, m), m)
           /\ apply_pending(d, m).owners = d.owners
           /\ apply_pending(d, m).writers = d.writers
<1> DEFINE e == apply_pending(d, m)
<1> HIDE DEF e
<1>w. VersionWindow \in Nat
  BY WindowAssumption
<1>m. m.seq \in Nat
  BY MemoFields
<1>1. CASE m.op = "INIT"
  <2>1. e = [d EXCEPT !.init = "Initializing"]
    BY <1>1 DEF e, apply_pending, DataOps, SetOps, RegistryOps
  <2>2. e \in Database
    BY <2>1 DEF Database
  <2>3. /\ e.kv_versions = d.kv_versions /\ e.target_versions = d.target_versions
        /\ e.owners = d.owners /\ e.writers = d.writers
    BY <2>1 DEF Database
  <2>4. FoldStep(d, e, m)
    BY <2>2, <2>3, <1>w DEF FoldStep, Database
  <2>5. ~is_versioned(m.op)
    BY <1>1 DEF is_versioned, DataOps, SetOps, RegistryOps
  <2> QED BY <2>3, <2>4, <2>5 DEF e
<1>2. CASE m.op \in RegistryOps
  <2>0. m.key \in Targets /\ m.op \notin DataOps
    BY <1>2, MemoFields DEF DataOps, SetOps, RegistryOps
  <2>1. e = [d EXCEPT !.target_versions[m.key] = bump_hw(@, m.seq)]
    BY <1>2 DEF e, apply_pending, DataOps, SetOps, RegistryOps
  <2>3. /\ d.target_versions[m.key] \in Nat
        /\ m.seq =< d.target_versions[m.key] + VersionWindow
    BY <1>2, <2>0 DEF seq_in_window, is_versioned, high_water, Database
  <2>4. /\ bump_hw(d.target_versions[m.key], m.seq) \in Nat
        /\ d.target_versions[m.key] =< bump_hw(d.target_versions[m.key], m.seq)
        /\ m.seq < bump_hw(d.target_versions[m.key], m.seq)
        /\ bump_hw(d.target_versions[m.key], m.seq)
              =< d.target_versions[m.key] + VersionWindow + 1
    BY <1>m, <2>3, BumpFacts
  <2>5. /\ e.kv_versions = d.kv_versions
        /\ e.owners = d.owners /\ e.writers = d.writers
        /\ e.target_versions =
              [d.target_versions EXCEPT ![m.key] = bump_hw(d.target_versions[m.key], m.seq)]
    BY <2>1 DEF Database
  <2>6. e \in Database
    BY <2>0, <2>1, <2>4 DEF Database
  <2>7. FoldStep(d, e, m)
    BY <2>0, <2>4, <2>5, <2>6, <1>w DEF FoldStep, Database
  <2>8. m.seq < high_water(e, m)
    BY <2>0, <2>4, <2>5 DEF high_water, Database
  <2> QED BY <2>5, <2>7, <2>8 DEF e
<1>3. CASE m.op \in DataOps
  <2> DEFINE queued == [op |-> IF m.op = "DEL" THEN "Del" ELSE "Set", value |-> m.value]
  <2>0. m.key \in Keys /\ m.op \notin RegistryOps
    BY <1>3, MemoFields DEF DataOps, SetOps, RegistryOps
  <2>q. queued \in PendingOp
    <3>1. CASE m.op = "DEL"
      BY <3>1, MemoFields DEF PendingOp
    <3>2. CASE m.op \in SetOps
      BY <3>2, MemoFields DEF PendingOp, SetOps
    <3> QED BY <1>3, <3>1, <3>2 DEF DataOps
  <2> HIDE DEF queued
  <2>1. e = [d EXCEPT !.pending[m.key] = Append(@, queued),
                      !.kv_versions[m.key] = bump_hw(@, m.seq)]
    BY <1>3 DEF e, apply_pending, queued, DataOps, SetOps, RegistryOps
  <2>2. Append(d.pending[m.key], queued) \in Seq(PendingOp)
    BY <2>0, <2>q DEF Database
  <2>3. /\ d.kv_versions[m.key] \in Nat
        /\ m.seq =< d.kv_versions[m.key] + VersionWindow
    BY <1>3, <2>0 DEF seq_in_window, is_versioned, high_water, Database
  <2>4. /\ bump_hw(d.kv_versions[m.key], m.seq) \in Nat
        /\ d.kv_versions[m.key] =< bump_hw(d.kv_versions[m.key], m.seq)
        /\ m.seq < bump_hw(d.kv_versions[m.key], m.seq)
        /\ bump_hw(d.kv_versions[m.key], m.seq) =< d.kv_versions[m.key] + VersionWindow + 1
    BY <1>m, <2>3, BumpFacts
  <2>5. /\ e.target_versions = d.target_versions
        /\ e.owners = d.owners /\ e.writers = d.writers
        /\ e.kv_versions =
              [d.kv_versions EXCEPT ![m.key] = bump_hw(d.kv_versions[m.key], m.seq)]
    BY <2>1 DEF Database
  <2>6. e \in Database
    BY <2>0, <2>1, <2>2, <2>4 DEF Database
  <2>7. FoldStep(d, e, m)
    BY <2>0, <2>4, <2>5, <2>6, <1>w DEF FoldStep, Database
  <2>8. m.seq < high_water(e, m)
    BY <1>3, <2>0, <2>4, <2>5 DEF high_water, Database
  <2> QED BY <2>5, <2>7, <2>8 DEF e
<1>4. CASE m.op \in {"FINALIZE", "VERSION"}
  <2>1. e = d
    BY <1>4 DEF e, apply_pending, DataOps, SetOps, RegistryOps
  <2>2. ~is_versioned(m.op)
    BY <1>4 DEF is_versioned, DataOps, SetOps, RegistryOps
  <2>3. FoldStep(d, e, m)
    BY <2>1, <1>w DEF FoldStep, Database
  <2> QED BY <2>1, <2>2, <2>3 DEF e
<1> QED BY <1>1, <1>2, <1>3, <1>4, MemoFields DEF e

\* The replay loop's step: high-waters only move forward, by at most the
\* window plus one, and pass every versioned memo that was honoured.
LEMMA FoldFacts ==
    ASSUME NEW d \in Database, NEW m \in Memo, NEW status \in Status
    PROVE  /\ FoldStep(d, Fold(d, m, status), m)
           /\ classify(d, m, status) \in {"Applied", "Pending"} /\ is_versioned(m.op)
                 => m.seq < high_water(Fold(d, m, status), m)
<1>1. CASE classify(d, m, status) \in {"Applied", "Pending"}
  <2>1. seq_in_window(d, m)
    BY <1>1 DEF classify
  <2>2. CASE classify(d, m, status) = "Applied"
    BY <2>1, <2>2, ConfirmedStep DEF Fold
  <2>3. CASE classify(d, m, status) = "Pending"
    BY <2>1, <2>3, PendingStep DEF Fold
  <2> QED BY <1>1, <2>2, <2>3
<1>2. CASE classify(d, m, status) \notin {"Applied", "Pending"}
  <2>1. Fold(d, m, status) = d
    BY <1>2 DEF Fold
  <2>2. FoldStep(d, d, m)
    BY WindowAssumption DEF FoldStep, Database
  <2> QED BY <1>2, <2>1, <2>2
<1> QED BY <1>1, <1>2

\* The final prune touches the pending queues only.
LEMMA PruneFacts ==
    ASSUME NEW d \in Database
    PROVE  /\ prune(d) \in Database
           /\ prune(d).kv_versions = d.kv_versions
           /\ prune(d).target_versions = d.target_versions
           /\ prune(d).owners = d.owners /\ prune(d).writers = d.writers
           /\ prune(d).init = d.init
           /\ [prune(d) EXCEPT !.pending = d.pending] = d
<1> DEFINE listed(k) == \/ d.kv[k] # NoValue
                        \/ \E i \in DOMAIN d.pending[k] : d.pending[k][i].op = "Set"
           q == [k \in Keys |-> IF listed(k) THEN d.pending[k] ELSE << >>]
           e == prune(d)
<1>1. e = [d EXCEPT !.pending = q]
  BY DEF prune
<1>2. q \in [Keys -> Seq(PendingOp)]
  <2> HIDE DEF listed
  <2> QED BY DEF Database
<1> HIDE DEF q, e
<1>3. /\ e \in Database
      /\ e.kv_versions = d.kv_versions
      /\ e.target_versions = d.target_versions
      /\ e.owners = d.owners /\ e.writers = d.writers
      /\ e.init = d.init
      /\ [e EXCEPT !.pending = d.pending] = d
  BY <1>1, <1>2 DEF Database
<1> QED BY <1>3 DEF e

\* A registry op is honoured only on an initialised database, an INIT only on
\* an uninitialised one.
LEMMA HonouredGate ==
    ASSUME NEW d \in Database, NEW m \in Memo, NEW status \in Status,
           classify(d, m, status) \in {"Applied", "Pending"}
    PROVE  /\ m.op = "INIT" => d.init = "Uninitialized" /\ m.signer = Root
           /\ m.op # "INIT" => d.init = "Initialized"
           /\ classify(d, m, status) = "Applied" <=> status = "Confirmed"
<1>1. decide(d, m, status) = classify(d, m, status)
  BY DEF classify
<1>2. decide(d, m, status) \in {"Applied", "Pending"}
  BY <1>1
<1>3. authorize(d, m.signer, m.op, d.kv[m.key] # NoValue)
        \in {"Ok", "NoWriteAuthority", "OutOfScope"}
  BY DEF authorize
<1> QED BY <1>1, <1>2, <1>3 DEF decide, decide_unsealed, Status

\* Confirmed rows queue nothing, and before the first INIT they change nothing.
ConfirmedOnly(d) ==
    /\ d.pending = [k \in Keys |-> << >>]
    /\ d = EmptyDatabase \/ d.init = "Initialized"

LEMMA EmptyIsDatabase == EmptyDatabase \in Database /\ ConfirmedOnly(EmptyDatabase)
<1>1. EmptyDatabase.pending \in [Keys -> Seq(PendingOp)]
  BY DEF EmptyDatabase
<1> QED BY <1>1 DEF EmptyDatabase, Database, Scope, ConfirmedOnly

\* Folding a confirmed row keeps that shape.
LEMMA ConfirmedFold ==
    ASSUME NEW d \in Database, NEW m \in Memo, ConfirmedOnly(d)
    PROVE  /\ ConfirmedOnly(Fold(d, m, "Confirmed"))
           /\ d.init = "Initialized" => Fold(d, m, "Confirmed").init = "Initialized"
<1> DEFINE c == classify(d, m, "Confirmed")
           e == apply_confirmed(d, m)
<1>1. CASE c \notin {"Applied", "Pending"}
  BY <1>1 DEF Fold
<1>2. CASE c \in {"Applied", "Pending"}
  <2>1. /\ c = "Applied"
        /\ m.op # "INIT" => d.init = "Initialized"
    BY <1>2, HonouredGate DEF Status
  <2>2. Fold(d, m, "Confirmed") = e
    BY <2>1 DEF Fold
  <2>3. /\ m.op \in DataOps \cup RegistryOps \cup {"INIT", "FINALIZE", "VERSION"}
        /\ m.op \in RegistryOps => apply_management(d, m) \in Database
        /\ m.op \in RegistryOps => /\ apply_management(d, m).init = d.init
                                   /\ apply_management(d, m).pending = d.pending
    <3>1. m.op \in RegistryOps =>
              apply_management(d, m) = [d EXCEPT !.owners = apply_management(d, m).owners,
                                                 !.writers = apply_management(d, m).writers]
      BY ManagementTyped
    <3>2. m.op \in RegistryOps => /\ apply_management(d, m).init = d.init
                                  /\ apply_management(d, m).pending = d.pending
      <4> DEFINE a == apply_management(d, m)
      <4>1. m.op \in RegistryOps => a = [d EXCEPT !.owners = a.owners, !.writers = a.writers]
        BY <3>1
      <4> HIDE DEF a
      <4>2. m.op \in RegistryOps => a.init = d.init /\ a.pending = d.pending
        BY <4>1 DEF Database
      <4> QED BY <4>2 DEF a
    <3> QED BY MemoFields, ManagementTyped, <3>2
  <2>4. e.pending = d.pending
    BY <2>3 DEF apply_confirmed, insert_owner, apply_version, DataOps, SetOps, RegistryOps, Database
  <2>5. e.init = "Initialized"
    <3>1. CASE m.op = "INIT"
      <4>1. e = [insert_owner(d, Root) EXCEPT !.init = "Initialized"]
        BY <3>1 DEF apply_confirmed, DataOps, SetOps, RegistryOps
      <4> DEFINE w == [d.writers EXCEPT ![Root] = {}]
      <4>2. insert_owner(d, Root) = [d EXCEPT !.owners = d.owners \cup {Root}, !.writers = w]
        BY DEF insert_owner
      <4> HIDE DEF w
      <4>3. "init" \in DOMAIN insert_owner(d, Root)
        BY <4>2 DEF Database
      <4> QED BY <4>1, <4>3
    <3>2. CASE m.op # "INIT"
      BY <2>1, <2>3, <3>2
         DEF apply_confirmed, apply_version, DataOps, SetOps, RegistryOps, Database
    <3> QED BY <3>1, <3>2
  <2> QED BY <2>2, <2>4, <2>5 DEF ConfirmedOnly
<1> QED BY <1>1, <1>2

=============================================================================
