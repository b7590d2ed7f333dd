--------------------------- MODULE ZkvReplayProofs ---------------------------
(***************************************************************************)
(* Theorems of ZkvReplay, of the role views and of the history list, for   *)
(* every set of identities, keys, values and memos and every window: type  *)
(* correctness and replay protection, the registry, the views, that        *)
(* ZkvReplay implements ZkvStore, with what follows for writers and        *)
(* owners, that the history shows what took effect, each write once and    *)
(* the client's own always, and that a page of it is the right slice.      *)
(***************************************************************************)
EXTENDS ZkvRoles, ZkvHistory, ZkvProtocolProofs

-----------------------------------------------------------------------------
(* Type correctness and replay protection.  ReplayedMemoIsInert is not     *)
(* inductive by itself: that a copy is dropped now says nothing about the  *)
(* sequence bound it will meet later.  HonouredBelowHighWater is, because  *)
(* FoldStep never lowers a high-water.                                     *)

ReplayInv == TypeOK /\ HonouredBelowHighWater

\* A well-formed empty replay: nothing honoured, nothing written.
LEMMA ReplayInvInit == Init => ReplayInv
<1> SUFFICES ASSUME Init PROVE ReplayInv
  OBVIOUS
<1>1. EmptyDatabase \in Database
  BY DEF EmptyDatabase, Database, Scope
<1> QED BY <1>1 DEF Init, ReplayInv, TypeOK, HonouredBelowHighWater, Honoured

\* A memo that was below its high-water stays below it over any replay step.
LEMMA BelowHighWaterStable ==
    ASSUME NEW d \in Database, NEW e, NEW x \in Memo, FoldStep(d, e, x),
           NEW m \in Memo, is_versioned(m.op), m.seq < high_water(d, m)
    PROVE  m.seq < high_water(e, m)
<1>1. e \in Database /\ m.seq \in Nat
  BY MemoFields DEF FoldStep
<1>2. CASE m.op \in DataOps
  <2>1. m.key \in Keys
    BY <1>2, MemoFields
  <2> QED BY <1>1, <1>2, <2>1 DEF FoldStep, high_water, Database
<1>3. CASE m.op \notin DataOps
  <2>1. m.key \in Targets
    BY <1>3, MemoFields DEF is_versioned
  <2> QED BY <1>1, <1>3, <2>1 DEF FoldStep, high_water, Database
<1> QED BY <1>2, <1>3

\* Every step of the pass keeps ReplayInv.
LEMMA ReplayInvStep == ReplayInv /\ [Next]_vars => ReplayInv'
<1> SUFFICES ASSUME ReplayInv, [Next]_vars PROVE ReplayInv'
  OBVIOUS
<1>d. db \in Database /\ Honoured \subseteq Memo
  BY SignedAssumption DEF ReplayInv, TypeOK, Honoured
<1>1. ASSUME NEW m \in Signed, FoldConfirmed(m) PROVE ReplayInv'
  <2>1. m \in Memo
    BY SignedAssumption
  <2>2. /\ FoldStep(db, db', m)
        /\ classify(db, m, "Confirmed") = "Applied" /\ is_versioned(m.op)
              => m.seq < high_water(db', m)
    BY <1>1, <1>d, <2>1, FoldFacts DEF FoldConfirmed, Status
  <2>3. TypeOK'
    BY <1>1, <2>2 DEF FoldConfirmed, FoldStep, ReplayInv, TypeOK
  <2>4. ASSUME NEW x \in Honoured', is_versioned(x.op) PROVE x.seq < high_water(db', x)
    <3>1. CASE x \in Honoured
      BY <1>d, <2>1, <2>2, <2>4, <3>1, BelowHighWaterStable
         DEF ReplayInv, HonouredBelowHighWater
    <3>2. CASE x \notin Honoured
      BY <1>1, <2>2, <2>4, <3>2 DEF FoldConfirmed, Honoured
    <3> QED BY <3>1, <3>2
  <2> QED BY <2>3, <2>4 DEF ReplayInv, HonouredBelowHighWater
<1>2. ASSUME NEW m \in Signed, FoldConfirming(m) PROVE ReplayInv'
  <2>1. m \in Memo
    BY SignedAssumption
  <2>2. /\ FoldStep(db, db', m)
        /\ classify(db, m, "Confirming") = "Pending" /\ is_versioned(m.op)
              => m.seq < high_water(db', m)
    BY <1>2, <1>d, <2>1, FoldFacts DEF FoldConfirming, Status
  <2>3. TypeOK'
    BY <1>2, <2>2 DEF FoldConfirming, FoldStep, ReplayInv, TypeOK
  <2>4. ASSUME NEW x \in Honoured', is_versioned(x.op) PROVE x.seq < high_water(db', x)
    <3>1. CASE x \in Honoured
      BY <1>d, <2>1, <2>2, <2>4, <3>1, BelowHighWaterStable
         DEF ReplayInv, HonouredBelowHighWater
    <3>2. CASE x \notin Honoured
      BY <1>2, <2>2, <2>4, <3>2 DEF FoldConfirming, Honoured
    <3> QED BY <3>1, <3>2
  <2> QED BY <2>3, <2>4 DEF ReplayInv, HonouredBelowHighWater
<1>3. CASE Finish
  <2>1. /\ db' \in Database
        /\ db'.kv_versions = db.kv_versions /\ db'.target_versions = db.target_versions
    BY <1>3, <1>d, PruneFacts DEF Finish
  <2>2. TypeOK'
    BY <1>3, <2>1 DEF Finish, ReplayInv, TypeOK
  <2>3. HonouredBelowHighWater'
    BY <1>3, <2>1 DEF Finish, ReplayInv, HonouredBelowHighWater, Honoured, high_water
  <2> QED BY <2>2, <2>3 DEF ReplayInv
<1>4. CASE UNCHANGED vars
  BY <1>4 DEF vars, ReplayInv, TypeOK, HonouredBelowHighWater, Honoured, high_water
<1> QED BY <1>1, <1>2, <1>3, <1>4 DEF Next

\* ReplayInv holds of every replay pass.
THEOREM ReplayInvariant == Spec => []ReplayInv
BY ReplayInvInit, ReplayInvStep, PTL DEF Spec

\* The replayed state keeps its type through any stream of memos.
THEOREM TypeCorrect == Spec => []TypeOK
<1>1. ReplayInv => TypeOK
  BY DEF ReplayInv
<1> QED BY <1>1, ReplayInvariant, PTL

\* No high-water ever falls to or below a sequence that was honoured.
THEOREM HighWaterCoversHonoured == Spec => []HonouredBelowHighWater
<1>1. ReplayInv => HonouredBelowHighWater
  BY DEF ReplayInv
<1> QED BY <1>1, ReplayInvariant, PTL

\* Replay protection: a verbatim re-broadcast of an honoured versioned memo
\* changes nothing, at any later point of any stream.
THEOREM ReplayProtection == Spec => []ReplayedMemoIsInert
<1>1. ReplayInv => ReplayedMemoIsInert
  <2> SUFFICES ASSUME ReplayInv, NEW m \in Honoured, is_versioned(m.op), NEW status \in Status
               PROVE  Fold(db, m, status) = db
    BY DEF ReplayedMemoIsInert
  <2>1. m \in Memo /\ db \in Database
    BY SignedAssumption DEF ReplayInv, TypeOK, Honoured
  <2>2. m.seq \in Nat /\ high_water(db, m) \in Nat
    BY <2>1, MemoFields DEF is_versioned, high_water, Database
  <2>3. ~seq_in_window(db, m)
    BY <2>2 DEF ReplayInv, HonouredBelowHighWater, seq_in_window
  <2>4. classify(db, m, status) \notin {"Applied", "Pending"}
    BY <2>3 DEF classify
  <2> QED BY <2>4 DEF Fold
<1> QED BY <1>1, ReplayInvariant, PTL

\* One row moves a high-water forward by at most the window plus one, so no
\* single memo can push an entity's sequence out of its writers' reach.
THEOREM NoFreezeByJump == Spec => HighWaterStep
<1>1. ReplayInv /\ [Next]_vars => [HighWaterMoves]_vars
  <2> SUFFICES ASSUME ReplayInv, Next PROVE HighWaterMoves
    OBVIOUS
  <2>d. db \in Database
    BY DEF ReplayInv, TypeOK
  <2>1. ASSUME NEW m \in Signed, FoldConfirmed(m) \/ FoldConfirming(m) PROVE HighWaterMoves
    <3>1. m \in Memo
      BY SignedAssumption
    <3>2. \E status \in Status : db' = Fold(db, m, status)
      BY <2>1 DEF FoldConfirmed, FoldConfirming, Status
    <3>3. FoldStep(db, db', m)
      BY <2>d, <3>1, <3>2, FoldFacts
    <3> QED BY <3>3 DEF FoldStep, HighWaterMoves
  <2>2. CASE Finish
    <3>1. db'.kv_versions = db.kv_versions /\ db'.target_versions = db.target_versions
      BY <2>2, <2>d, PruneFacts DEF Finish
    <3> QED BY <2>d, <3>1, WindowAssumption DEF Database, HighWaterMoves
  <2> QED BY <2>1, <2>2 DEF Next
<1> QED BY <1>1, ReplayInvariant, PTL DEF Spec, HighWaterStep

\* FINALIZE is a one-way latch on everything a memo can change.
THEOREM Sealed == Spec => SealedForever
<1>1. ReplayInv /\ [Next]_vars => [StaysSealed]_vars
  <2> SUFFICES ASSUME ReplayInv, Next, db.finalized
               PROVE  [db' EXCEPT !.pending = db.pending] = db
    BY DEF StaysSealed
  <2>d. db \in Database
    BY DEF ReplayInv, TypeOK
  <2>1. ASSUME NEW m \in Signed, FoldConfirmed(m) \/ FoldConfirming(m)
        PROVE  [db' EXCEPT !.pending = db.pending] = db
    <3>1. \E status \in Status : db' = Fold(db, m, status)
      BY <2>1 DEF FoldConfirmed, FoldConfirming, Status
    <3>2. ASSUME NEW status \in Status PROVE Fold(db, m, status) = db
      <4>1. decide(db, m, status) = "Finalized"
        BY DEF decide
      <4>2. classify(db, m, status) \notin {"Applied", "Pending"}
        BY <4>1 DEF classify
      <4> QED BY <4>2 DEF Fold
    <3>3. db' = db
      BY <3>1, <3>2
    <3> QED BY <2>d, <3>3 DEF Database
  <2>2. CASE Finish
    BY <2>2, <2>d, PruneFacts DEF Finish
  <2> QED BY <2>1, <2>2 DEF Next
<1> QED BY <1>1, ReplayInvariant, PTL DEF Spec, SealedForever

-----------------------------------------------------------------------------
(* The registry.  Last-owner protection counts owners, so the invariant    *)
(* also carries that the owner set is finite.                              *)

RegistryOK(d) ==
    /\ IsFiniteSet(d.owners)
    /\ d.init = "Initialized" <=> d.owners # {}
    /\ \A p \in d.owners : d.writers[p] = {}

\* A management op leaves a registry with an owner and disjoint roles.
LEMMA ManagementKeepsRegistry ==
    ASSUME NEW d \in Database, NEW m \in Memo, m.op \in RegistryOps,
           RegistryOK(d), d.init = "Initialized"
    PROVE  LET a == apply_management(d, m)
           IN  /\ IsFiniteSet(a.owners) /\ a.owners # {}
               /\ \A p \in a.owners : a.writers[p] = {}
<1> DEFINE a == apply_management(d, m)
           target == Canonical[m.key]
<1>1. m.key \in Targets /\ m.value \in Scope
  BY MemoFields
<1>2. target \in Pubkeys \cup {NotAPubkey}
  BY <1>1, CanonicalAssumption
<1>o. IsFiniteSet(d.owners) /\ d.owners # {} /\ \A p \in d.owners : d.writers[p] = {}
  BY DEF RegistryOK
<1> SUFFICES /\ IsFiniteSet(a.owners) /\ a.owners # {}
             /\ \A p \in a.owners : a.writers[p] = {}
  OBVIOUS
<1>3. CASE management_verdict(d, m) # "Applied"
  BY <1>3, <1>o DEF apply_management
<1>4. CASE management_verdict(d, m) = "Applied"
  <2>1. target \in Pubkeys
    BY <1>2, <1>4 DEF management_verdict
  <2> HIDE DEF a, target
  <2>2. CASE m.op = "OWNERADD"
    <3>1. a = [d EXCEPT !.owners = @ \cup {target}, !.writers[target] = {}]
      BY <1>4, <2>2 DEF a, target, apply_management, insert_owner, Database
    <3>2. a.owners = d.owners \cup {target}
          /\ a.writers = [d.writers EXCEPT ![target] = {}]
      BY <3>1 DEF Database
    <3>3. IsFiniteSet(a.owners)
      BY <1>o, <3>2, FS_AddElement
    <3> QED BY <1>o, <2>1, <3>2, <3>3 DEF Database
  <2>3. CASE m.op = "OWNERDEL"
    <3>1. a.owners = d.owners \ {target} /\ a.writers = d.writers
      BY <1>4, <2>3 DEF a, target, apply_management, Database
    <3>2. IsFiniteSet(a.owners)
      BY <1>o, <3>1, FS_RemoveElement
    <3>3. ~(target \in d.owners /\ Cardinality(d.owners) <= 1)
      BY <1>4, <2>3, <2>1 DEF target, management_verdict
    <3>4. a.owners # {}
      <4> SUFFICES ASSUME a.owners = {} PROVE FALSE
        OBVIOUS
      <4>1. d.owners = {target}
        BY <1>o, <3>1
      <4>2. Cardinality(d.owners) = 1
        BY <4>1, FS_Singleton
      <4> QED BY <3>3, <4>1, <4>2
    <3> QED BY <1>o, <3>1, <3>2, <3>4
  <2>4. CASE m.op = "WRITERADD"
    <3>1. a.owners = d.owners /\ a.writers = [d.writers EXCEPT ![target] = m.value]
      BY <1>4, <2>4 DEF a, target, apply_management, Database
    <3>2. target \notin d.owners
      BY <1>4, <2>4 DEF target, management_verdict
    <3> QED BY <1>o, <3>1, <3>2 DEF Database
  <2>5. CASE m.op = "WRITERDEL"
    <3>1. a.owners = d.owners /\ a.writers = [d.writers EXCEPT ![target] = {}]
      BY <1>4, <2>5 DEF a, target, apply_management, Database
    <3> QED BY <1>o, <2>1, <3>1 DEF Database
  <2> QED BY <2>2, <2>3, <2>4, <2>5 DEF RegistryOps
<1> QED BY <1>3, <1>4

\* Folding any row keeps the registry manageable.
LEMMA FoldKeepsRegistry ==
    ASSUME NEW d \in Database, NEW m \in Memo, NEW status \in Status, RegistryOK(d)
    PROVE  RegistryOK(Fold(d, m, status))
<1> DEFINE e == Fold(d, m, status)
<1>1. CASE classify(d, m, status) = "Applied"
  <2>f. e = apply_confirmed(d, m)
    BY <1>1 DEF Fold
  <2> HIDE DEF e
  <2>1. CASE m.op = "INIT"
    <3>1. e = [d EXCEPT !.owners = @ \cup {Root}, !.writers[Root] = {}, !.init = "Initialized"]
      BY <2>1, <2>f DEF apply_confirmed, insert_owner, Database, DataOps, SetOps, RegistryOps
    <3>2. /\ e.owners = d.owners \cup {Root} /\ e.init = "Initialized"
          /\ e.writers = [d.writers EXCEPT ![Root] = {}]
      BY <3>1 DEF Database
    <3>3. IsFiniteSet(e.owners)
      BY <3>2, FS_AddElement DEF RegistryOK
    <3>4. RegistryOK(e)
      BY <3>2, <3>3, RootAssumption DEF RegistryOK, Database
    <3> QED BY <3>4 DEF e
  <2>2. CASE m.op \in RegistryOps
    <3> DEFINE a == apply_management(d, m)
    <3>0. d.init = "Initialized"
      BY <1>1, <2>2, HonouredGate DEF RegistryOps
    <3>1. /\ IsFiniteSet(a.owners) /\ a.owners # {}
          /\ \A p \in a.owners : a.writers[p] = {}
      BY <2>2, <3>0, ManagementKeepsRegistry
    <3>2. /\ a \in Database
          /\ a = [d EXCEPT !.owners = a.owners, !.writers = a.writers]
      BY <2>2, ManagementTyped
    <3>3. e = [a EXCEPT !.target_versions[m.key] = bump_hw(@, m.seq)]
      BY <2>2, <2>f DEF apply_confirmed, DataOps, SetOps, RegistryOps
    <3> HIDE DEF a
    <3>4. e.owners = a.owners /\ e.writers = a.writers /\ e.init = d.init
      BY <3>2, <3>3 DEF Database
    <3>5. RegistryOK(e)
      BY <3>0, <3>1, <3>4 DEF RegistryOK
    <3> QED BY <3>5 DEF e
  <2>3. CASE m.op \in {"VERSION", "FINALIZE"} \cup DataOps
    <3>1. e.owners = d.owners /\ e.writers = d.writers /\ e.init = d.init
      <4>1. CASE m.op = "VERSION"
        BY <2>f, <4>1 DEF apply_confirmed, apply_version, DataOps, SetOps, RegistryOps, Database
      <4>2. CASE m.op = "FINALIZE"
        BY <2>f, <4>2 DEF apply_confirmed, DataOps, SetOps, RegistryOps, Database
      <4>3. CASE m.op \in DataOps
        BY <2>f, <4>3 DEF apply_confirmed, DataOps, SetOps, RegistryOps, Database
      <4> QED BY <2>3, <4>1, <4>2, <4>3
    <3>2. RegistryOK(e)
      BY <3>1 DEF RegistryOK
    <3> QED BY <3>2 DEF e
  <2> QED BY <2>1, <2>2, <2>3, MemoFields
<1>2. CASE classify(d, m, status) = "Pending"
  <2>1. e = apply_pending(d, m)
    BY <1>2 DEF Fold
  <2> HIDE DEF e
  <2>2. e.owners = d.owners /\ e.writers = d.writers
    BY <1>2, <2>1, PendingStep DEF classify
  <2>3. e.init = "Initialized" <=> d.init = "Initialized"
    <3>1. CASE m.op = "INIT"
      <4>1. d.init = "Uninitialized"
        BY <1>2, <3>1, HonouredGate
      <4>2. e = [d EXCEPT !.init = "Initializing"]
        BY <2>1, <3>1 DEF apply_pending, DataOps, SetOps, RegistryOps
      <4> QED BY <4>1, <4>2 DEF Database
    <3>2. CASE m.op # "INIT"
      <4>1. e.init = d.init
        <5>1. CASE m.op \in RegistryOps
          BY <2>1, <5>1 DEF apply_pending, DataOps, SetOps, RegistryOps, Database
        <5>2. CASE m.op \in DataOps
          BY <2>1, <5>2 DEF apply_pending, DataOps, SetOps, RegistryOps, Database
        <5>3. CASE m.op \in {"FINALIZE", "VERSION"}
          BY <2>1, <5>3 DEF apply_pending, DataOps, SetOps, RegistryOps
        <5> QED BY <3>2, <5>1, <5>2, <5>3, MemoFields
      <4> QED BY <4>1
    <3> QED BY <3>1, <3>2
  <2>4. RegistryOK(e)
    BY <2>2, <2>3 DEF RegistryOK
  <2> QED BY <2>4 DEF e
<1>3. CASE classify(d, m, status) \notin {"Applied", "Pending"}
  BY <1>3 DEF Fold
<1> QED BY <1>1, <1>2, <1>3

\* The registry invariant, as an invariant of the specification.
LEMMA RegistryInvariant == Spec => []RegistryOK(db)
<1>1. Init => RegistryOK(db)
  BY FS_EmptySet DEF Init, EmptyDatabase, RegistryOK
<1>2. ReplayInv /\ RegistryOK(db) /\ [Next]_vars => RegistryOK(db)'
  <2> SUFFICES ASSUME ReplayInv, RegistryOK(db), [Next]_vars PROVE RegistryOK(db')
    OBVIOUS
  <2>d. db \in Database
    BY DEF ReplayInv, TypeOK
  <2>1. ASSUME NEW m \in Signed, FoldConfirmed(m) \/ FoldConfirming(m) PROVE RegistryOK(db')
    <3>1. m \in Memo
      BY SignedAssumption
    <3>2. \E status \in Status : db' = Fold(db, m, status)
      BY <2>1 DEF FoldConfirmed, FoldConfirming, Status
    <3> QED BY <2>d, <3>1, <3>2, FoldKeepsRegistry
  <2>2. CASE Finish
    BY <2>2, <2>d, PruneFacts DEF Finish, RegistryOK
  <2>3. CASE UNCHANGED vars
    BY <2>3 DEF vars
  <2> QED BY <2>1, <2>2, <2>3 DEF Next
<1> QED BY <1>1, <1>2, ReplayInvariant, PTL DEF Spec

\* The database can never become unmanageable: once INIT confirmed there is an
\* owner, whatever owners remove whomever in whatever order, and no owner also
\* carries a scoped writer entry.
THEOREM RegistryAlwaysManageable == Spec => []RegistryManageable
<1>1. RegistryOK(db) => RegistryManageable
  BY DEF RegistryOK, RegistryManageable, is_writer
<1> QED BY <1>1, RegistryInvariant, PTL

-----------------------------------------------------------------------------
(* The role views.  A grant is looked up under the canonical spelling, so  *)
(* what it says is right only if management memos use it; that everybody   *)
(* is found in one of the views needs no such hypothesis, because a        *)
(* spelling that was granted once stays in one of them.                    *)

RoleRecord == [role : {"none", "owner", "writer"}, caps : Scope, by : Pubkeys \cup {NoSigner}]

Marked(t) == held[t] # NoRole \/ revoked[t] # NoRole

AuditTyped ==
    /\ audit \in Database /\ RegistryOK(audit)
    /\ held \in [Targets -> RoleRecord] /\ revoked \in [Targets -> RoleRecord]

Partitioned ==
    /\ \A t \in Targets : revoked[t] # NoRole => held[t] = NoRole
    /\ \A p \in Pubkeys : p \in audit.owners \/ audit.writers[p] # {} =>
           \E t \in Targets : Canonical[t] = p /\ Marked(t)

GrantsRight ==
    \A p \in Pubkeys : LET g == held[Spelling[p]]
                       IN  g # NoRole => /\ g.by # NoSigner
                                         /\ \/ p \in audit.owners /\ g.role = "owner" /\ g.caps = {}
                                            \/ /\ p \notin audit.owners /\ audit.writers[p] # {}
                                               /\ g.role = "writer" /\ g.caps = audit.writers[p]

\* What a row does to the registry: an applied one concerns its subject, the others nobody.
SameRole(d, e, p) == (p \in e.owners <=> p \in d.owners) /\ e.writers[p] = d.writers[p]

RowEffect(d, e, m, p) ==
    /\ p \in Pubkeys /\ m.signer \in Pubkeys
    /\ \A q \in Pubkeys \ {p} : SameRole(d, e, q)
    /\ m.op \in {"INIT", "OWNERADD"} => p \in e.owners
    /\ m.op = "WRITERADD" => p \notin e.owners /\ e.writers[p] = m.value /\ m.value # {}
    /\ m.op \in {"OWNERDEL", "WRITERDEL"} =>
           /\ p \in e.owners => p \in d.owners
           /\ e.writers[p] # {} => d.writers[p] # {}

LEMMA AuditedRow ==
    ASSUME NEW d \in Database, NEW m \in Memo
    PROVE  LET e == Fold(d, m, "Confirmed")
           IN  IF outcome(d, m, "Confirmed") = "Applied" /\ m.op \in RegistryOps \cup {"INIT"}
               THEN RowEffect(d, e, m, IF m.op = "INIT" THEN Root ELSE Canonical[m.key])
                    /\ (m.op = "INIT" => m.signer = Root)
               ELSE \A q \in Pubkeys : SameRole(d, e, q)
<1> DEFINE e == Fold(d, m, "Confirmed")
           c == classify(d, m, "Confirmed")
<1>0. \A q \in Pubkeys : SameRole(d, d, q)
  BY DEF SameRole
<1>1. CASE c # "Applied"
  <2>1. c # "Pending"
    BY HonouredGate DEF Status
  <2>2. e = d /\ outcome(d, m, "Confirmed") # "Applied"
    BY <1>1, <2>1 DEF Fold, outcome
  <2> HIDE DEF e
  <2>3. \A q \in Pubkeys : SameRole(d, e, q)
    BY <1>0, <2>2
  <2> QED BY <2>2, <2>3 DEF e
<1>2. CASE c = "Applied"
  <2>f. e = apply_confirmed(d, m) /\ m.signer \in Pubkeys
    BY <1>2, MemoFields DEF Fold, classify
  <2> HIDE DEF e
  <2>1. CASE m.op = "INIT"
    <3>1. m.signer = Root /\ outcome(d, m, "Confirmed") = "Applied"
      BY <1>2, <2>1, HonouredGate DEF outcome, RegistryOps, Status
    <3>2. e = [d EXCEPT !.owners = @ \cup {Root}, !.writers[Root] = {}, !.init = "Initialized"]
      BY <2>1, <2>f DEF apply_confirmed, insert_owner, Database, DataOps, SetOps, RegistryOps
    <3>3. e.owners = d.owners \cup {Root} /\ e.writers = [d.writers EXCEPT ![Root] = {}]
      BY <3>2 DEF Database
    <3>4. RowEffect(d, e, m, Root)
      BY <2>1, <2>f, <3>3, RootAssumption DEF RowEffect, SameRole, Database
    <3> QED BY <2>1, <3>1, <3>4 DEF e
  <2>2. CASE m.op \in RegistryOps
    <3> DEFINE a == apply_management(d, m)
               target == Canonical[m.key]
    <3>1. a \in Database /\ m.key \in Targets /\ m.value \in Scope /\ m.op # "INIT"
      BY <2>2, MemoFields, ManagementTyped DEF RegistryOps
    <3>2. e = [a EXCEPT !.target_versions[m.key] = bump_hw(@, m.seq)]
      BY <2>2, <2>f DEF apply_confirmed, DataOps, SetOps, RegistryOps
    <3>3. outcome(d, m, "Confirmed") = management_verdict(d, m)
      BY <1>2, <2>2 DEF outcome
    <3>4. target \in Pubkeys \cup {NotAPubkey}
      BY <3>1, CanonicalAssumption
    <3> HIDE DEF a, target
    <3>5. e.owners = a.owners /\ e.writers = a.writers
      BY <3>1, <3>2 DEF Database
    <3>6. CASE management_verdict(d, m) # "Applied"
      <4>1. a = d
        BY <3>6 DEF a, apply_management
      <4>2. \A q \in Pubkeys : SameRole(d, e, q)
        BY <3>5, <4>1 DEF SameRole
      <4> QED BY <3>3, <3>6, <4>2 DEF e
    <3>7. CASE management_verdict(d, m) = "Applied"
      <4>1. target \in Pubkeys
        BY <3>4, <3>7 DEF management_verdict, target
      <4>2. RowEffect(d, e, m, target)
        <5>1. CASE m.op = "OWNERADD"
          <6>1. a = [d EXCEPT !.owners = @ \cup {target}, !.writers[target] = {}]
            BY <3>7, <5>1 DEF a, target, apply_management, insert_owner, Database
          <6>2. a.owners = d.owners \cup {target} /\ a.writers = [d.writers EXCEPT ![target] = {}]
            BY <6>1 DEF Database
          <6> QED BY <2>f, <3>5, <4>1, <5>1, <6>2 DEF RowEffect, SameRole, Database
        <5>2. CASE m.op = "OWNERDEL"
          <6>1. a.owners = d.owners \ {target} /\ a.writers = d.writers
            BY <3>7, <5>2 DEF a, target, apply_management, Database
          <6> QED BY <2>f, <3>5, <4>1, <5>2, <6>1 DEF RowEffect, SameRole, Database
        <5>3. CASE m.op = "WRITERADD"
          <6>1. a.owners = d.owners /\ a.writers = [d.writers EXCEPT ![target] = m.value]
            BY <3>7, <5>3 DEF a, target, apply_management, Database
          <6>2. target \notin d.owners /\ m.value # {}
            BY <3>7, <5>3 DEF target, management_verdict
          <6> QED BY <2>f, <3>5, <4>1, <5>3, <6>1, <6>2 DEF RowEffect, SameRole, Database
        <5>4. CASE m.op = "WRITERDEL"
          <6>1. a.owners = d.owners /\ a.writers = [d.writers EXCEPT ![target] = {}]
            BY <3>7, <5>4 DEF a, target, apply_management, Database
          <6> QED BY <2>f, <3>5, <4>1, <5>4, <6>1 DEF RowEffect, SameRole, Database
        <5> QED BY <2>2, <5>1, <5>2, <5>3, <5>4 DEF RegistryOps
      <4> QED BY <2>2, <3>1, <3>3, <3>7, <4>2 DEF e, target
    <3> QED BY <3>6, <3>7
  <2>3. CASE m.op \in {"VERSION", "FINALIZE"} \cup DataOps
    <3>1. e.owners = d.owners /\ e.writers = d.writers
      <4>1. CASE m.op = "VERSION"
        BY <2>f, <4>1 DEF apply_confirmed, apply_version, DataOps, SetOps, RegistryOps, Database
      <4>2. CASE m.op = "FINALIZE"
        BY <2>f, <4>2 DEF apply_confirmed, DataOps, SetOps, RegistryOps, Database
      <4>3. CASE m.op \in DataOps
        BY <2>f, <4>3 DEF apply_confirmed, DataOps, SetOps, RegistryOps, Database
      <4> QED BY <2>3, <4>1, <4>2, <4>3
    <3>2. m.op \notin RegistryOps \cup {"INIT"} /\ \A q \in Pubkeys : SameRole(d, e, q)
      BY <2>3, <3>1 DEF SameRole, RegistryOps, DataOps, SetOps
    <3> QED BY <3>2 DEF e
  <2> QED BY <2>1, <2>2, <2>3, MemoFields
<1> QED BY <1>1, <1>2

LEMMA AuditStart == AuditInit => AuditTyped /\ Partitioned /\ GrantsRight
<1> SUFFICES ASSUME AuditInit PROVE AuditTyped /\ Partitioned /\ GrantsRight
  OBVIOUS
<1>1. NoRole \in RoleRecord
  BY DEF NoRole, RoleRecord, Scope
<1>2. audit = EmptyDatabase /\ \A t \in Targets : held[t] = NoRole /\ revoked[t] = NoRole
  BY DEF AuditInit
<1>3. AuditTyped
  BY <1>1, EmptyIsDatabase, FS_EmptySet DEF AuditInit, AuditTyped, RegistryOK, EmptyDatabase
<1>4. EmptyDatabase.owners = {} /\ \A p \in Pubkeys : EmptyDatabase.writers[p] = {}
  BY DEF EmptyDatabase
<1>5. Partitioned
  BY <1>2, <1>4 DEF Partitioned
<1>6. GrantsRight
  BY <1>2, SpellingAssumption DEF GrantsRight
<1> QED BY <1>3, <1>5, <1>6

\* The views after a row that concerns nobody, and after one that concerns p under spelling t.
LEMMA RowViews ==
    ASSUME AuditTyped, NEW m \in Memo, FoldRow(m)
    PROVE  /\ AuditTyped'
           /\ \/ /\ UNCHANGED <<held, revoked>>
                 /\ \A q \in Pubkeys : SameRole(audit, audit', q)
              \/ \E t \in Targets, p \in Pubkeys :
                    /\ Canonical[t] = p /\ RowEffect(audit, audit', m, p)
                    /\ m.op \in RegistryOps \cup {"INIT"}
                    /\ t = IF m.op = "INIT" THEN Spelling[p] ELSE m.key
                    /\ held' = [held EXCEPT ![t] = RoleGiven(m)]
                    /\ revoked' = [revoked EXCEPT ![t] =
                           IF RoleGiven(m) # NoRole THEN NoRole
                           ELSE IF held[t] # NoRole THEN held[t] ELSE @]
<1>t. /\ audit \in Database /\ RegistryOK(audit) /\ audit' = Fold(audit, m, "Confirmed")
      /\ held \in [Targets -> RoleRecord] /\ revoked \in [Targets -> RoleRecord]
  BY DEF AuditTyped, FoldRow
<1>1. audit' \in Database /\ RegistryOK(audit')
  <2>1. "Confirmed" \in Status
    BY DEF Status
  <2>2. FoldStep(audit, audit', m)
    BY <1>t, <2>1, FoldFacts
  <2>3. RegistryOK(Fold(audit, m, "Confirmed"))
    BY <1>t, <2>1, FoldKeepsRegistry
  <2> QED BY <1>t, <2>2, <2>3 DEF FoldStep
<1> DEFINE effective == outcome(audit, m, "Confirmed") = "Applied" /\ m.op \in RegistryOps \cup {"INIT"}
           p == IF m.op = "INIT" THEN Root ELSE Canonical[m.key]
<1>2. CASE ~effective
  <2>1. UNCHANGED <<held, revoked>>
    BY <1>2 DEF FoldRow
  <2>2. \A q \in Pubkeys : SameRole(audit, audit', q)
    BY <1>t, <1>2, AuditedRow
  <2> QED BY <1>t, <1>1, <2>1, <2>2 DEF AuditTyped
<1>3. CASE effective
  <2> DEFINE t == RoleSubject(m)
             new == RoleGiven(m)
  <2>1. /\ held' = [held EXCEPT ![t] = new]
        /\ revoked' = [revoked EXCEPT ![t] =
               IF new # NoRole THEN NoRole ELSE IF held[t] # NoRole THEN held[t] ELSE @]
    BY <1>3 DEF FoldRow
  <2>2. RowEffect(audit, audit', m, p) /\ (m.op = "INIT" => m.signer = Root)
    BY <1>t, <1>3, AuditedRow
  <2>3. p \in Pubkeys /\ m.signer \in Pubkeys
    BY <2>2 DEF RowEffect
  <2>4. t \in Targets /\ Canonical[t] = p /\ t = IF m.op = "INIT" THEN Spelling[p] ELSE m.key
    <3>1. CASE m.op = "INIT"
      BY <2>2, <2>3, <3>1, SpellingAssumption DEF RoleSubject
    <3>2. CASE m.op # "INIT"
      BY <1>3, <3>2, MemoFields DEF RoleSubject
    <3> QED BY <3>1, <3>2
  <2>5. new \in RoleRecord /\ NoRole \in RoleRecord
    <3>0. NoRole \in RoleRecord
      BY DEF NoRole, RoleRecord, Scope
    <3>1. m.op \in RegistryOps => m.value \in Scope
      BY MemoFields
    <3>2. CASE m.op \in {"INIT", "OWNERADD"}
      <4>1. new = [role |-> "owner", caps |-> {}, by |-> m.signer]
        BY <3>2 DEF RoleGiven
      <4>2. {} \in Scope
        BY DEF Scope
      <4> HIDE DEF new
      <4> QED BY <2>3, <3>0, <4>1, <4>2 DEF RoleRecord
    <3>3. CASE m.op = "WRITERADD"
      <4>1. new = [role |-> "writer", caps |-> m.value, by |-> m.signer]
        BY <3>3 DEF RoleGiven
      <4>2. m.value \in Scope
        BY <3>1, <3>3 DEF RegistryOps
      <4> HIDE DEF new
      <4> QED BY <2>3, <3>0, <4>1, <4>2 DEF RoleRecord
    <3>4. CASE m.op \in {"OWNERDEL", "WRITERDEL"}
      BY <3>0, <3>4 DEF RoleGiven
    <3> QED BY <1>3, <3>0, <3>2, <3>3, <3>4 DEF RegistryOps
  <2> HIDE DEF new, t, p
  <2>6. held' \in [Targets -> RoleRecord] /\ revoked' \in [Targets -> RoleRecord]
    BY <1>t, <2>1, <2>4, <2>5
  <2> QED BY <1>1, <1>3, <2>1, <2>2, <2>3, <2>4, <2>6 DEF AuditTyped, new
<1> QED BY <1>2, <1>3

\* What the row grants its subject.
LEMMA RoleGivenFacts ==
    ASSUME NEW m, m.op \in RegistryOps \cup {"INIT"}
    PROVE  /\ m.op \in {"INIT", "OWNERADD"} =>
                  RoleGiven(m).role = "owner" /\ RoleGiven(m).caps = {} /\ RoleGiven(m).by = m.signer
           /\ m.op = "WRITERADD" => /\ RoleGiven(m).role = "writer" /\ RoleGiven(m).caps = m.value
                                    /\ RoleGiven(m).by = m.signer
           /\ m.op \in {"OWNERDEL", "WRITERDEL"} => RoleGiven(m) = NoRole
           /\ RoleGiven(m) # NoRole <=> m.op \in {"INIT", "OWNERADD", "WRITERADD"}
<1>1. NoRole.role = "none"
  BY DEF NoRole
<1>2. m.op \in {"INIT", "OWNERADD"} =>
          RoleGiven(m).role = "owner" /\ RoleGiven(m).caps = {} /\ RoleGiven(m).by = m.signer
  BY DEF RoleGiven
<1>3. m.op = "WRITERADD" => /\ RoleGiven(m).role = "writer" /\ RoleGiven(m).caps = m.value
                           /\ RoleGiven(m).by = m.signer
  BY DEF RoleGiven
<1>4. m.op \in {"OWNERDEL", "WRITERDEL"} => RoleGiven(m) = NoRole
  BY DEF RoleGiven
<1> QED BY <1>1, <1>2, <1>3, <1>4 DEF RegistryOps

LEMMA PartitionStep ==
    ASSUME AuditTyped, Partitioned, NEW m \in Memo, FoldRow(m) PROVE Partitioned'
<1>t. held \in [Targets -> RoleRecord] /\ revoked \in [Targets -> RoleRecord]
  BY DEF AuditTyped
<1>1. CASE UNCHANGED <<held, revoked>> /\ \A q \in Pubkeys : SameRole(audit, audit', q)
  BY <1>1 DEF Partitioned, SameRole, Marked
<1>2. ASSUME NEW t \in Targets, NEW p \in Pubkeys, Canonical[t] = p, RowEffect(audit, audit', m, p),
             m.op \in RegistryOps \cup {"INIT"}, held' = [held EXCEPT ![t] = RoleGiven(m)],
             revoked' = [revoked EXCEPT ![t] = IF RoleGiven(m) # NoRole THEN NoRole
                                               ELSE IF held[t] # NoRole THEN held[t] ELSE @]
      PROVE  Partitioned'
  <2> DEFINE new == RoleGiven(m)
  <2>0. new # NoRole <=> m.op \in {"INIT", "OWNERADD", "WRITERADD"}
    BY <1>2, RoleGivenFacts
  <2> HIDE DEF new
  <2>1. /\ held'[t] = new
        /\ revoked'[t] = IF new # NoRole THEN NoRole ELSE IF held[t] # NoRole THEN held[t] ELSE revoked[t]
        /\ \A x \in Targets \ {t} : held'[x] = held[x] /\ revoked'[x] = revoked[x]
    BY <1>t, <1>2 DEF new
  <2>2. \A x \in Targets : revoked'[x] # NoRole => held'[x] = NoRole
    BY <2>1 DEF Partitioned
  <2>3. \A x \in Targets : Marked(x) => Marked(x)'
    BY <2>1 DEF Marked
  <2>4. new # NoRole => Marked(t)'
    BY <2>1 DEF Marked
  <2>5. ASSUME NEW q \in Pubkeys, q \in audit'.owners \/ audit'.writers[q] # {}
        PROVE  \E x \in Targets : Canonical[x] = q /\ Marked(x)'
    <3>1. CASE q \in audit.owners \/ audit.writers[q] # {}
      BY <2>3, <3>1 DEF Partitioned
    <3>2. CASE ~(q \in audit.owners \/ audit.writers[q] # {})
      <4>1. q = p /\ m.op \notin {"OWNERDEL", "WRITERDEL"}
        BY <1>2, <2>5, <3>2 DEF RowEffect, SameRole
      <4> QED BY <1>2, <2>0, <2>4, <4>1 DEF RegistryOps
    <3> QED BY <3>1, <3>2
  <2> QED BY <2>2, <2>5 DEF Partitioned
<1> QED BY <1>1, <1>2, RowViews

LEMMA GrantsStep ==
    ASSUME AuditTyped, GrantsRight, CanonicallySpelled, NEW m \in Signed, FoldRow(m)
    PROVE  GrantsRight'
<1>t. /\ held \in [Targets -> RoleRecord] /\ m \in Memo
      /\ Spelling \in [Pubkeys -> Targets] /\ \A q \in Pubkeys : Canonical[Spelling[q]] = q
  BY SignedAssumption, SpellingAssumption DEF AuditTyped
<1>1. CASE UNCHANGED <<held, revoked>> /\ \A q \in Pubkeys : SameRole(audit, audit', q)
  BY <1>1 DEF GrantsRight, SameRole
<1>2. ASSUME NEW t \in Targets, NEW p \in Pubkeys, Canonical[t] = p, RowEffect(audit, audit', m, p),
             m.op \in RegistryOps \cup {"INIT"}, t = IF m.op = "INIT" THEN Spelling[p] ELSE m.key,
             held' = [held EXCEPT ![t] = RoleGiven(m)]
      PROVE  GrantsRight'
  <2>1. t = Spelling[p]
    BY <1>2, NotAPubkeyAssumption DEF CanonicallySpelled
  <2>2. \A q \in Pubkeys \ {p} : held'[Spelling[q]] = held[Spelling[q]] /\ SameRole(audit, audit', q)
    BY <1>t, <1>2, <2>1 DEF RowEffect
  <2>3. held'[Spelling[p]] = RoleGiven(m) /\ m.signer # NoSigner
    BY <1>t, <1>2, <2>1, NotAPubkeyAssumption DEF RowEffect
  <2>4. ASSUME NEW q \in Pubkeys, held'[Spelling[q]] # NoRole
        PROVE  LET g == held'[Spelling[q]]
               IN  /\ g.by # NoSigner
                   /\ \/ q \in audit'.owners /\ g.role = "owner" /\ g.caps = {}
                      \/ /\ q \notin audit'.owners /\ audit'.writers[q] # {}
                         /\ g.role = "writer" /\ g.caps = audit'.writers[q]
    <3>1. CASE q # p
      BY <2>2, <2>4, <3>1 DEF GrantsRight, SameRole
    <3>2. CASE q = p
      <4>1. m.op \in {"INIT", "OWNERADD", "WRITERADD"}
        BY <1>2, <2>3, <2>4, <3>2, RoleGivenFacts
      <4>2. CASE m.op \in {"INIT", "OWNERADD"}
        BY <1>2, <2>3, <3>2, <4>2, RoleGivenFacts DEF RowEffect
      <4>3. CASE m.op = "WRITERADD"
        BY <1>2, <2>3, <3>2, <4>3, RoleGivenFacts DEF RowEffect
      <4> QED BY <4>1, <4>2, <4>3
    <3> QED BY <3>1, <3>2
  <2> QED BY <2>4 DEF GrantsRight
<1> QED BY <1>t, <1>1, <1>2, RowViews

\* What the Roles tab lists.
LEMMA ListedRows ==
    /\ roles_resp.rows = {[pubkey |-> p, role |-> RegistryRole(p).role, caps |-> RegistryRole(p).caps,
                           grant |-> held[Spelling[p]]] :
                              p \in {q \in Pubkeys : RegistryRole(q).role # "none"}}
    /\ roles_resp.revoked = {t \in Targets : revoked[t] # NoRole}
    /\ \A p \in Pubkeys : RegistryRole(p).role # "none" <=> p \in audit.owners \/ audit.writers[p] # {}
BY DEF roles_resp, RegistryRole, is_writer

LEMMA PartitionedView == Partitioned => RolesPartitionAuthority
<1> SUFFICES ASSUME Partitioned PROVE RolesPartitionAuthority
  OBVIOUS
<1>1. \A t \in roles_resp.revoked : held[t] = NoRole
  BY ListedRows DEF Partitioned
<1>2. ASSUME NEW row \in roles_resp.rows
      PROVE  \E t \in Targets : /\ Canonical[t] = row.pubkey
                                /\ held[t] # NoRole \/ t \in roles_resp.revoked
  <2>1. PICK p \in Pubkeys : RegistryRole(p).role # "none" /\ row.pubkey = p
    BY <1>2, ListedRows
  <2>2. PICK t \in Targets : Canonical[t] = p /\ Marked(t)
    BY <2>1, ListedRows DEF Partitioned
  <2> QED BY <2>1, <2>2, ListedRows DEF Marked
<1> QED BY <1>1, <1>2 DEF RolesPartitionAuthority

LEMMA GrantsView == GrantsRight => GrantedRolesSound
<1> SUFFICES ASSUME GrantsRight PROVE GrantedRolesSound
  OBVIOUS
<1>1. ASSUME NEW row \in roles_resp.rows, row.grant # NoRole
      PROVE  row.grant.role = row.role /\ row.grant.caps = row.caps /\ row.grant.by # NoSigner
  <2>1. PICK p \in Pubkeys : /\ row.role = RegistryRole(p).role /\ row.caps = RegistryRole(p).caps
                             /\ row.grant = held[Spelling[p]]
    BY <1>1, ListedRows
  <2> QED BY <1>1, <2>1 DEF GrantsRight, RegistryRole, is_writer
<1>2. ASSUME NEW p \in Pubkeys, held[Spelling[p]] # NoRole
      PROVE  \E row \in roles_resp.rows : row.pubkey = p
  <2>1. RegistryRole(p).role # "none"
    BY <1>2, ListedRows DEF GrantsRight
  <2> DEFINE r == [pubkey |-> p, role |-> RegistryRole(p).role, caps |-> RegistryRole(p).caps,
                   grant |-> held[Spelling[p]]]
  <2>2. r \in roles_resp.rows
    BY <2>1 DEF roles_resp
  <2>3. r.pubkey = p
    OBVIOUS
  <2> QED BY <2>2, <2>3
<1> QED BY <1>1, <1>2 DEF GrantedRolesSound

LEMMA AuditInvariant == Audit => [](AuditTyped /\ Partitioned)
<1>1. AuditTyped /\ Partitioned /\ [\E m \in Signed : FoldRow(m)]_auditvars
          => (AuditTyped /\ Partitioned)'
  <2> SUFFICES ASSUME AuditTyped, Partitioned, [\E m \in Signed : FoldRow(m)]_auditvars
               PROVE  AuditTyped' /\ Partitioned'
    OBVIOUS
  <2>1. ASSUME NEW m \in Signed, FoldRow(m) PROVE AuditTyped' /\ Partitioned'
    BY <2>1, SignedAssumption, RowViews, PartitionStep
  <2>2. CASE UNCHANGED auditvars
    BY <2>2 DEF auditvars, AuditTyped, Partitioned, Marked
  <2> QED BY <2>1, <2>2
<1> QED BY <1>1, AuditStart, PTL DEF Audit

\* Whatever rows an audit folds, in whatever spelling: nobody is listed both as granted and as
\* revoked under one spelling, and everybody the registry trusts is found in granted_roles or
\* revoked_roles.
THEOREM EverybodyIsListed == Audit => []RolesPartitionAuthority
BY AuditInvariant, PartitionedView, PTL

\* The Roles tab is right for every history of canonically spelled grants and removals: the
\* provenance granted_roles gives for a role is of a grant of exactly that role.
THEOREM RolesTabIsRight == ASSUME CanonicallySpelled PROVE Audit => []RolesViewSound
<1>1. AuditTyped /\ GrantsRight /\ [\E m \in Signed : FoldRow(m)]_auditvars => GrantsRight'
  <2> SUFFICES ASSUME AuditTyped, GrantsRight, [\E m \in Signed : FoldRow(m)]_auditvars
               PROVE  GrantsRight'
    OBVIOUS
  <2>1. ASSUME NEW m \in Signed, FoldRow(m) PROVE GrantsRight'
    BY <2>1, GrantsStep
  <2>2. CASE UNCHANGED auditvars
    BY <2>2 DEF auditvars, GrantsRight
  <2> QED BY <2>1, <2>2
<1>2. Partitioned /\ GrantsRight => RolesViewSound
  BY PartitionedView, GrantsView DEF RolesViewSound
<1> QED BY <1>1, <1>2, AuditInvariant, AuditStart, PTL DEF Audit

-----------------------------------------------------------------------------
(* The refinement of ZkvStore: what folding a row does to each projection. *)

\* The projections of the store.
SameStore(d, e) ==
    /\ e.owners = d.owners /\ e.version = d.version /\ e.blocks = d.blocks
    /\ e.kv = d.kv /\ e.kv_versions = d.kv_versions /\ e.finalized = d.finalized

\* A registry op adds or removes at most the owner it names.
LEMMA ManagementOwners ==
    ASSUME NEW d \in Database, NEW m \in Memo, m.op \in RegistryOps
    PROVE  LET a == apply_management(d, m)
           IN  \/ a.owners = d.owners
               \/ \E p \in Pubkeys : a.owners = d.owners \cup {p} \/ a.owners = d.owners \ {p}
<1> DEFINE a == apply_management(d, m)
           target == Canonical[m.key]
<1>1. m.key \in Targets /\ m.value \in Scope
  BY MemoFields
<1>2. target \in Pubkeys \cup {NotAPubkey}
  BY <1>1, CanonicalAssumption
<1>3. CASE management_verdict(d, m) # "Applied"
  BY <1>3 DEF apply_management
<1>4. CASE management_verdict(d, m) = "Applied"
  <2>1. target \in Pubkeys
    BY <1>2, <1>4 DEF management_verdict
  <2> HIDE DEF a, target
  <2>2. \/ a.owners = d.owners
        \/ a.owners = d.owners \cup {target}
        \/ a.owners = d.owners \ {target}
    <3>1. CASE m.op = "OWNERADD"
      BY <1>4, <3>1 DEF a, target, apply_management, insert_owner, Database
    <3>2. CASE m.op = "OWNERDEL"
      BY <1>4, <3>2 DEF a, target, apply_management, Database
    <3>3. CASE m.op = "WRITERADD"
      BY <1>4, <3>3 DEF a, target, apply_management, Database
    <3>4. CASE m.op = "WRITERDEL"
      BY <1>4, <3>4 DEF a, target, apply_management, Database
    <3> QED BY <3>1, <3>2, <3>3, <3>4 DEF RegistryOps
  <2>3. a.owners = d.owners
        \/ \E p \in Pubkeys : a.owners = d.owners \cup {p} \/ a.owners = d.owners \ {p}
    BY <2>1, <2>2
  <2> QED BY <2>3 DEF a
<1> QED BY <1>3, <1>4

\* A confirmed memo changes the projections of its own kind and no other.
LEMMA ConfirmedEffects ==
    ASSUME NEW d \in Database, NEW m \in Memo, NEW e, e = apply_confirmed(d, m)
    PROVE  /\ m.op = "INIT" => SameStore([d EXCEPT !.owners = @ \cup {Root}], e)
           /\ m.op \in RegistryOps =>
                 SameStore([d EXCEPT !.owners = apply_management(d, m).owners], e)
           /\ m.op = "VERSION" => SameStore(apply_version(d, m), e)
           /\ m.op \in DataOps =>
                 SameStore([d EXCEPT !.kv[m.key] = m.value,
                                     !.kv_versions[m.key] = bump_hw(@, m.seq)], e)
           /\ m.op = "FINALIZE" => SameStore([d EXCEPT !.finalized = TRUE], e)
<1>1. CASE m.op = "INIT"
  <2>1. e = [d EXCEPT !.owners = @ \cup {Root}, !.writers[Root] = {}, !.init = "Initialized"]
    BY <1>1 DEF apply_confirmed, insert_owner, Database, DataOps, SetOps, RegistryOps
  <2> QED BY <1>1, <2>1 DEF SameStore, Database, DataOps, SetOps, RegistryOps
<1>2. CASE m.op \in RegistryOps
  <2> DEFINE a == apply_management(d, m)
  <2>1. a \in Database /\ a = [d EXCEPT !.owners = a.owners, !.writers = a.writers]
    BY <1>2, ManagementTyped
  <2>2. e = [a EXCEPT !.target_versions[m.key] = bump_hw(@, m.seq)]
    BY <1>2 DEF apply_confirmed, DataOps, SetOps, RegistryOps
  <2> HIDE DEF a
  <2>3. SameStore([d EXCEPT !.owners = a.owners], e)
    BY <2>1, <2>2 DEF SameStore, Database
  <2> QED BY <1>2, <2>3 DEF a, DataOps, SetOps, RegistryOps
<1>3. CASE m.op = "VERSION"
  BY <1>3 DEF apply_confirmed, SameStore, DataOps, SetOps, RegistryOps
<1>4. CASE m.op \in DataOps
  <2>1. e = [d EXCEPT !.kv[m.key] = m.value, !.kv_versions[m.key] = bump_hw(@, m.seq)]
    BY <1>4 DEF apply_confirmed, DataOps, SetOps, RegistryOps
  <2> QED BY <1>4, <2>1 DEF SameStore, DataOps, SetOps, RegistryOps
<1>5. CASE m.op = "FINALIZE"
  <2>1. e = [d EXCEPT !.finalized = TRUE]
    BY <1>5 DEF apply_confirmed, DataOps, SetOps, RegistryOps
  <2> QED BY <1>5, <2>1 DEF SameStore, DataOps, SetOps, RegistryOps
<1> QED BY <1>1, <1>2, <1>3, <1>4, <1>5, MemoFields

\* A confirming memo takes at most a sequence of its key.
LEMMA PendingEffects ==
    ASSUME NEW d \in Database, NEW m \in Memo, NEW e, e = apply_pending(d, m)
    PROVE  /\ m.op \notin DataOps => SameStore(d, e)
           /\ m.op \in DataOps =>
                 SameStore([d EXCEPT !.kv_versions[m.key] = bump_hw(@, m.seq)], e)
<1>1. CASE m.op = "INIT"
  <2>1. e = [d EXCEPT !.init = "Initializing"]
    BY <1>1 DEF apply_pending, DataOps, SetOps, RegistryOps
  <2> QED BY <1>1, <2>1 DEF SameStore, Database, DataOps, SetOps
<1>2. CASE m.op \in RegistryOps
  <2>1. e = [d EXCEPT !.target_versions[m.key] = bump_hw(@, m.seq)]
    BY <1>2 DEF apply_pending, DataOps, SetOps, RegistryOps
  <2> QED BY <1>2, <2>1 DEF SameStore, Database, DataOps, SetOps, RegistryOps
<1>3. CASE m.op \in DataOps
  <2> DEFINE entry == [op |-> IF m.op = "DEL" THEN "Del" ELSE "Set", value |-> m.value]
  <2>1. e = [d EXCEPT !.pending[m.key] = Append(@, entry),
                      !.kv_versions[m.key] = bump_hw(@, m.seq)]
    BY <1>3 DEF apply_pending, DataOps, SetOps, RegistryOps
  <2> HIDE DEF entry
  <2> QED BY <1>3, <2>1 DEF SameStore, Database
<1>4. CASE m.op \in {"FINALIZE", "VERSION"}
  BY <1>4 DEF apply_pending, SameStore, DataOps, SetOps, RegistryOps
<1> QED BY <1>1, <1>2, <1>3, <1>4, MemoFields

-----------------------------------------------------------------------------
(* The refinement.  Registry steps need RegistryOK: that INIT finds no     *)
(* owner and a removal leaves one.                                         *)

\* What passed the gate: a writable database, and a sequence of the forward window.
LEMMA HonouredWindow ==
    ASSUME NEW d \in Database, NEW m \in Memo, NEW status \in Status, RegistryOK(d),
           classify(d, m, status) \in {"Applied", "Pending"}
    PROVE  /\ ~d.finalized
           /\ m.op = "INIT" => d.owners = {}
           /\ m.op # "INIT" => d.owners # {}
           /\ m.op \in DataOps =>
                 /\ m.key \in Keys /\ m.seq \in d.kv_versions[m.key]..(d.kv_versions[m.key] + VersionWindow)
                 /\ bump_hw(d.kv_versions[m.key], m.seq) = m.seq + 1
<1>1. decide(d, m, status) \in {"Applied", "Pending"} /\ seq_in_window(d, m)
  BY DEF classify
<1>2. ~d.finalized
  BY <1>1 DEF decide
<1>3. /\ m.op = "INIT" => d.init = "Uninitialized"
      /\ m.op # "INIT" => d.init = "Initialized"
  BY HonouredGate
<1>4. ASSUME m.op \in DataOps
      PROVE  /\ m.key \in Keys
             /\ m.seq \in d.kv_versions[m.key]..(d.kv_versions[m.key] + VersionWindow)
             /\ bump_hw(d.kv_versions[m.key], m.seq) = m.seq + 1
  <2>1. m.key \in Keys /\ m.seq \in Nat /\ VersionWindow \in Nat
    BY <1>4, MemoFields, WindowAssumption
  <2>2. d.kv_versions[m.key] \in Nat
    BY <2>1 DEF Database
  <2>3. /\ d.kv_versions[m.key] =< m.seq
        /\ m.seq =< d.kv_versions[m.key] + VersionWindow
    BY <1>1, <1>4 DEF seq_in_window, is_versioned, high_water
  <2> QED BY <2>1, <2>2, <2>3 DEF bump_hw
<1> QED BY <1>2, <1>3, <1>4 DEF RegistryOK

\* The store that a database stands for may step from d to e as ZkvStore allows.
StoreStep(d, e) ==
    \/ SameStore(d, e)
    \/ d.owners = {} /\ ~d.finalized /\ SameStore([d EXCEPT !.owners = {Root}], e)
    \/ /\ d.owners # {} /\ ~d.finalized
       /\ \/ \E n \in 0..(d.version + 1) : \E b \in SUBSET BlockCap :
                 SameStore([d EXCEPT !.version = n, !.blocks = b], e)
          \/ SameStore([d EXCEPT !.finalized = TRUE], e)
          \/ \E k \in Keys : \E seq \in d.kv_versions[k]..(d.kv_versions[k] + VersionWindow) :
                 \/ SameStore([d EXCEPT !.kv_versions[k] = seq + 1], e)
                 \/ \E v \in Values \cup {NoValue} :
                        SameStore([d EXCEPT !.kv[k] = v, !.kv_versions[k] = seq + 1], e)
          \/ \E p \in Pubkeys : \E o \in {d.owners \cup {p}, d.owners \ {p}} \ {{}} :
                 SameStore([d EXCEPT !.owners = o], e)

\* Folding any row is a step of the store.
LEMMA FoldIsStoreStep ==
    ASSUME NEW d \in Database, NEW m \in Memo, NEW status \in Status, RegistryOK(d)
    PROVE  StoreStep(d, Fold(d, m, status))
<1> DEFINE e == Fold(d, m, status)
<1>1. CASE classify(d, m, status) \notin {"Applied", "Pending"}
  BY <1>1 DEF Fold, StoreStep, SameStore
<1>2. CASE classify(d, m, status) = "Pending"
  <2>1. e = apply_pending(d, m)
    BY <1>2 DEF Fold
  <2> HIDE DEF e
  <2>2. CASE m.op \notin DataOps
    <3>1. SameStore(d, e)
      BY <2>1, <2>2, PendingEffects
    <3> QED BY <3>1 DEF StoreStep, e
  <2>3. CASE m.op \in DataOps
    <3>1. /\ ~d.finalized /\ d.owners # {} /\ m.key \in Keys
          /\ m.seq \in d.kv_versions[m.key]..(d.kv_versions[m.key] + VersionWindow)
          /\ bump_hw(d.kv_versions[m.key], m.seq) = m.seq + 1
      BY <1>2, <2>3, HonouredWindow DEF DataOps, SetOps
    <3>2. SameStore([d EXCEPT !.kv_versions[m.key] = bump_hw(@, m.seq)], e)
      BY <2>1, <2>3, PendingEffects
    <3>3. SameStore([d EXCEPT !.kv_versions[m.key] = m.seq + 1], e)
      BY <3>1, <3>2 DEF Database
    <3> QED BY <3>1, <3>3 DEF StoreStep, e
  <2> QED BY <2>2, <2>3
<1>3. CASE classify(d, m, status) = "Applied"
  <2>1. e = apply_confirmed(d, m)
    BY <1>3 DEF Fold
  <2> HIDE DEF e
  <2>g. ~d.finalized /\ (m.op = "INIT" => d.owners = {}) /\ (m.op # "INIT" => d.owners # {})
    BY <1>3, HonouredWindow
  <2>2. CASE m.op = "INIT"
    <3>1. SameStore([d EXCEPT !.owners = @ \cup {Root}], e)
      BY <2>1, <2>2, ConfirmedEffects
    <3>2. SameStore([d EXCEPT !.owners = {Root}], e)
      BY <3>1, <2>g, <2>2
    <3> QED BY <2>g, <2>2, <3>2 DEF StoreStep, e
  <2>3. CASE m.op \in RegistryOps
    <3> DEFINE o == apply_management(d, m).owners
    <3>0. m.op # "INIT" /\ d.init = "Initialized"
      BY <1>3, <2>3, HonouredGate DEF RegistryOps
    <3>1. o # {}
      BY <2>3, <3>0, ManagementKeepsRegistry
    <3>2. o = d.owners \/ \E p \in Pubkeys : o = d.owners \cup {p} \/ o = d.owners \ {p}
      BY <2>3, ManagementOwners
    <3>3. SameStore([d EXCEPT !.owners = o], e)
      BY <2>1, <2>3, ConfirmedEffects
    <3> HIDE DEF o
    <3>4. CASE o = d.owners
      <4>1. SameStore(d, e)
        BY <3>3, <3>4 DEF SameStore, Database
      <4> QED BY <4>1 DEF StoreStep, e
    <3>5. CASE \E p \in Pubkeys : o = d.owners \cup {p} \/ o = d.owners \ {p}
      <4>1. PICK p \in Pubkeys : o \in {d.owners \cup {p}, d.owners \ {p}} \ {{}}
        BY <3>1, <3>5
      <4> QED BY <2>g, <3>0, <3>3, <4>1 DEF StoreStep, e
    <3> QED BY <3>2, <3>4, <3>5
  <2>4. CASE m.op = "VERSION"
    <3>0. m.op # "INIT"
      BY <2>4
    <3>1. SameStore(apply_version(d, m), e)
      BY <2>1, <2>4, ConfirmedEffects
    <3>2. CASE version_verdict(d, m) # "Applied"
      <4>1. SameStore(d, e)
        BY <3>1, <3>2 DEF apply_version
      <4> QED BY <4>1 DEF StoreStep, e
    <3>3. CASE version_verdict(d, m) = "Applied"
      <4>0. /\ m.key \in Nat \cup {NotNumeric}
            /\ m.value \in (SUBSET BlockCap) \cup {NoValue} /\ d.version \in Nat
        BY <2>4, MemoFields DEF Database
      <4>1. m.key # NotNumeric /\ m.value # NoValue
        BY <3>3 DEF version_verdict
      <4>2. m.key \in Nat /\ m.value \in SUBSET BlockCap
        BY <4>0, <4>1
      <4>3. ~(m.key > d.version + 1)
        BY <3>3, <4>0, <4>1, <4>2 DEF version_verdict, NotNumeric
      <4>4. m.key \in 0..(d.version + 1)
        BY <4>0, <4>2, <4>3
      <4>5. SameStore([d EXCEPT !.version = m.key, !.blocks = m.value], e)
        BY <3>1, <3>3 DEF apply_version
      <4> QED BY <2>g, <3>0, <4>2, <4>4, <4>5 DEF StoreStep, e
    <3> QED BY <3>2, <3>3
  <2>5. CASE m.op \in DataOps
    <3>0. m.op # "INIT" /\ m.value \in Values \cup {NoValue}
      BY <2>5, MemoFields DEF DataOps, SetOps
    <3>1. /\ m.key \in Keys
          /\ m.seq \in d.kv_versions[m.key]..(d.kv_versions[m.key] + VersionWindow)
          /\ bump_hw(d.kv_versions[m.key], m.seq) = m.seq + 1
      BY <1>3, <2>5, HonouredWindow
    <3>2. SameStore([d EXCEPT !.kv[m.key] = m.value,
                              !.kv_versions[m.key] = bump_hw(@, m.seq)], e)
      BY <2>1, <2>5, ConfirmedEffects
    <3>3. SameStore([d EXCEPT !.kv[m.key] = m.value, !.kv_versions[m.key] = m.seq + 1], e)
      BY <3>1, <3>2 DEF Database
    <3> QED BY <2>g, <3>0, <3>1, <3>3 DEF StoreStep, e
  <2>6. CASE m.op = "FINALIZE"
    <3>1. SameStore([d EXCEPT !.finalized = TRUE], e)
      BY <2>1, <2>6, ConfirmedEffects
    <3> QED BY <2>g, <2>6, <3>1 DEF StoreStep, e
  <2> QED BY <2>2, <2>3, <2>4, <2>5, <2>6, MemoFields
<1> QED BY <1>1, <1>2, <1>3

\* A step of StoreStep is a step of ZkvStore under the refinement mapping.
LEMMA StoreStepRefines ==
    ASSUME db \in Database, StoreStep(db, db')
    PROVE  [Store!Next]_(Store!vars)
<1>1. CASE SameStore(db, db')
  BY <1>1 DEF SameStore, Store!vars
<1>2. CASE db.owners = {} /\ ~db.finalized /\ SameStore([db EXCEPT !.owners = {Root}], db')
  <2>1. Store!Open
    BY <1>2 DEF SameStore, Store!Open, Database
  <2> QED BY <2>1 DEF Store!Next
<1>3. ASSUME db.owners # {}, ~db.finalized,
             NEW n \in 0..(db.version + 1), NEW b \in SUBSET BlockCap,
             SameStore([db EXCEPT !.version = n, !.blocks = b], db')
      PROVE  Store!Next
  <2>1. Store!Announce
    BY <1>3 DEF SameStore, Store!Announce, Store!Writable, Database
  <2> QED BY <2>1 DEF Store!Next
<1>4. ASSUME db.owners # {}, ~db.finalized, SameStore([db EXCEPT !.finalized = TRUE], db')
      PROVE  Store!Next
  <2>1. Store!Seal
    BY <1>4 DEF SameStore, Store!Seal, Store!Writable, Database
  <2> QED BY <2>1 DEF Store!Next
<1>5. ASSUME db.owners # {}, ~db.finalized, NEW k \in Keys,
             NEW seq \in db.kv_versions[k]..(db.kv_versions[k] + VersionWindow),
             SameStore([db EXCEPT !.kv_versions[k] = seq + 1], db')
      PROVE  Store!Next
  <2>1. db'.kv_versions = [db.kv_versions EXCEPT ![k] = seq + 1]
    BY <1>5 DEF SameStore, Database
  <2>2. Store!Reserve(k)
    BY <1>5, <2>1 DEF SameStore, Store!Reserve, Store!Consume, Store!Writable, Database
  <2> QED BY <2>2 DEF Store!Next
<1>6. ASSUME db.owners # {}, ~db.finalized, NEW k \in Keys, NEW v \in Values \cup {NoValue},
             NEW seq \in db.kv_versions[k]..(db.kv_versions[k] + VersionWindow),
             SameStore([db EXCEPT !.kv[k] = v, !.kv_versions[k] = seq + 1], db')
      PROVE  Store!Next
  <2>1. /\ db'.kv_versions = [db.kv_versions EXCEPT ![k] = seq + 1]
        /\ db'.kv = [db.kv EXCEPT ![k] = v]
    BY <1>6 DEF SameStore, Database
  <2>2. Store!Write(k)
    BY <1>6, <2>1 DEF SameStore, Store!Write, Store!Consume, Store!Writable, Database
  <2> QED BY <2>2 DEF Store!Next
<1>7. ASSUME db.owners # {}, ~db.finalized, NEW p \in Pubkeys,
             NEW o \in {db.owners \cup {p}, db.owners \ {p}} \ {{}},
             SameStore([db EXCEPT !.owners = o], db')
      PROVE  Store!Next
  <2>1. Store!Govern(p)
    BY <1>7 DEF SameStore, Store!Govern, Store!Writable, Database
  <2> QED BY <2>1 DEF Store!Next
<1> QED BY <1>1, <1>2, <1>3, <1>4, <1>5, <1>6, <1>7 DEF StoreStep

\* Replay implements the store a client is promised, whatever anybody puts on the chain.
THEOREM ReplayImplementsStore == Spec => ImplementsStore
<1>1. Init => Store!Init
  BY DEF Init, EmptyDatabase, Store!Init
<1>2. ReplayInv /\ RegistryOK(db) /\ [Next]_vars => [Store!Next]_(Store!vars)
  <2> SUFFICES ASSUME ReplayInv, RegistryOK(db), [Next]_vars
               PROVE  [Store!Next]_(Store!vars)
    OBVIOUS
  <2>d. db \in Database
    BY DEF ReplayInv, TypeOK
  <2>1. ASSUME NEW m \in Signed, FoldConfirmed(m) \/ FoldConfirming(m)
        PROVE  StoreStep(db, db')
    <3>1. m \in Memo
      BY SignedAssumption
    <3>2. \E status \in Status : db' = Fold(db, m, status)
      BY <2>1 DEF FoldConfirmed, FoldConfirming, Status
    <3> QED BY <2>d, <3>1, <3>2, FoldIsStoreStep
  <2>2. ASSUME Finish PROVE StoreStep(db, db')
    <3>1. db' \in Database /\ [db' EXCEPT !.pending = db.pending] = db
      BY <2>2, <2>d, PruneFacts DEF Finish
    <3>2. SameStore(db, db')
      BY <3>1, <2>d DEF SameStore, Database
    <3> QED BY <3>2 DEF StoreStep
  <2>3. ASSUME UNCHANGED vars PROVE StoreStep(db, db')
    BY <2>3 DEF vars, StoreStep, SameStore
  <2>4. StoreStep(db, db')
    BY <2>1, <2>2, <2>3 DEF Next
  <2> QED BY <2>d, <2>4, StoreStepRefines
<1> QED BY <1>1, <1>2, ReplayInvariant, RegistryInvariant, PTL
        DEF Spec, ImplementsStore, Store!Spec

-----------------------------------------------------------------------------
(* Compare-and-swap.  LatestSequenceWins is inductive together with        *)
(* HonouredBelowHighWater: a row is only honoured at or above the key's    *)
(* high-water, which is past every write honoured before.                  *)

DataWrites(S, k) == {m \in S : m.op \in DataOps /\ m.key = k}

\* What LatestSequenceWins says of one key.
LatestWins(S, d, k) ==
    /\ \A m, n \in DataWrites(S, k) : m.seq = n.seq => m = n
    /\ DataWrites(S, k) = {} => d.kv[k] = NoValue
    /\ \A m \in DataWrites(S, k) :
           (\A n \in DataWrites(S, k) : n.seq =< m.seq) => d.kv[k] = m.value

\* A row that is not applied to a key leaves what LatestSequenceWins says of it.
LEMMA OtherRowKeepsLatest ==
    ASSUME NEW S, NEW T, NEW d, NEW e, NEW k \in Keys, LatestWins(S, d, k),
           DataWrites(T, k) = DataWrites(S, k), e.kv[k] = d.kv[k]
    PROVE  LatestWins(T, e, k)
BY DEF LatestWins

\* A confirmed write is past every earlier one and takes the key over.
LEMMA WriteTakesOver ==
    ASSUME NEW S, S \subseteq Memo, NEW d \in Database, NEW m \in Memo, m.op \in DataOps,
           \A x \in DataWrites(S, m.key) : x.seq < d.kv_versions[m.key],
           d.kv_versions[m.key] =< m.seq,
           NEW e, e.kv[m.key] = m.value, LatestWins(S, d, m.key)
    PROVE  LatestWins(S \cup {m}, e, m.key)
<1> DEFINE W == DataWrites(S, m.key)
           X == DataWrites(S \cup {m}, m.key)
<1>1. X = W \cup {m}
  BY DEF DataWrites
<1>2. m.key \in Keys /\ m.seq \in Nat /\ d.kv_versions[m.key] \in Nat
  BY MemoFields DEF Database
<1>3. \A x \in W : x.seq \in Nat /\ x.seq < m.seq
  <2> SUFFICES ASSUME NEW x \in W PROVE x.seq \in Nat /\ x.seq < m.seq
    OBVIOUS
  <2>1. x \in Memo
    BY DEF DataWrites
  <2>2. x.seq \in Nat
    BY <2>1, MemoFields
  <2> QED BY <1>2, <2>2
<1>4. \A a, b \in W : a.seq = b.seq => a = b
  BY DEF LatestWins
<1> HIDE DEF W, X
<1>5. \A a, b \in X : a.seq = b.seq => a = b
  BY <1>1, <1>2, <1>3, <1>4
<1>6. ASSUME NEW a \in X, \A n \in X : n.seq =< a.seq PROVE e.kv[m.key] = a.value
  <2>1. m \in X
    BY <1>1
  <2>2. a = m
    BY <1>1, <1>2, <1>3, <1>6, <2>1
  <2> QED BY <2>2
<1> QED BY <1>1, <1>5, <1>6 DEF LatestWins, X

\* The confirmed value of a key is that of its highest honoured sequence, and no
\* two honoured writes of a key share one, for any stream of memos of any signers.
THEOREM HighestSequenceWins == Spec => []LatestSequenceWins
<1> DEFINE I == \A k \in Keys : LatestWins(applied, db, k)
<1>1. Init => I
  BY DEF Init, EmptyDatabase, LatestWins, DataWrites
<1>2. ReplayInv /\ I /\ [Next]_vars => I'
  <2> SUFFICES ASSUME ReplayInv, I, [Next]_vars, NEW k \in Keys
               PROVE  LatestWins(applied', db', k)
    OBVIOUS
  <2>d. db \in Database /\ applied \subseteq Memo
    BY SignedAssumption DEF ReplayInv, TypeOK
  <2>i. LatestWins(applied, db, k)
    OBVIOUS
  <2> HIDE DEF I
  <2>1. ASSUME NEW m \in Signed, FoldConfirmed(m) PROVE LatestWins(applied', db', k)
    <3>1. m \in Memo /\ "Confirmed" \in Status
      BY SignedAssumption DEF Status
    <3>2. CASE classify(db, m, "Confirmed") # "Applied"
      <4>1. applied' = applied
        BY <2>1, <3>2 DEF FoldConfirmed
      <4>2. classify(db, m, "Confirmed") # "Pending"
        BY <3>1, HonouredGate, <2>d, <3>2
      <4>3. db' = db
        BY <2>1, <3>2, <4>2 DEF FoldConfirmed, Fold
      <4> QED BY <2>i, <4>1, <4>3
    <3>3. CASE classify(db, m, "Confirmed") = "Applied"
      <4>1. applied' = applied \cup {m} /\ db' = apply_confirmed(db, m)
        BY <2>1, <3>3 DEF FoldConfirmed, Fold
      <4>2. CASE m.op \in DataOps /\ m.key = k
        <5>1. SameStore([db EXCEPT !.kv[m.key] = m.value,
                                   !.kv_versions[m.key] = bump_hw(@, m.seq)], db')
          BY <2>d, <3>1, <4>1, <4>2, ConfirmedEffects
        <5>2. db'.kv[m.key] = m.value
          BY <2>d, <4>2, <5>1 DEF SameStore, Database
        <5>3. \A x \in DataWrites(applied, m.key) : x.seq < db.kv_versions[m.key]
          BY DEF DataWrites, ReplayInv, HonouredBelowHighWater, Honoured, is_versioned, high_water
        <5>4. db.kv_versions[m.key] =< m.seq
          BY <3>3, <4>2 DEF classify, seq_in_window, is_versioned, high_water
        <5> QED BY <2>d, <2>i, <3>1, <4>1, <4>2, <5>2, <5>3, <5>4, WriteTakesOver
      <4>3. CASE ~(m.op \in DataOps /\ m.key = k)
        <5>1. DataWrites(applied', k) = DataWrites(applied, k)
          BY <4>1, <4>3 DEF DataWrites
        <5>2. db'.kv[k] = db.kv[k]
          <6>1. CASE m.op \in DataOps
            <7>1. SameStore([db EXCEPT !.kv[m.key] = m.value,
                                       !.kv_versions[m.key] = bump_hw(@, m.seq)], db')
              BY <2>d, <3>1, <4>1, <6>1, ConfirmedEffects
            <7> QED BY <2>d, <4>3, <6>1, <7>1 DEF SameStore, Database
          <6>2. CASE m.op = "INIT"
            <7>1. SameStore([db EXCEPT !.owners = @ \cup {Root}], db')
              BY <2>d, <3>1, <4>1, <6>2, ConfirmedEffects
            <7> QED BY <2>d, <7>1 DEF SameStore, Database
          <6>3. CASE m.op \in RegistryOps
            <7>1. SameStore([db EXCEPT !.owners = apply_management(db, m).owners], db')
              BY <2>d, <3>1, <4>1, <6>3, ConfirmedEffects
            <7> QED BY <2>d, <7>1 DEF SameStore, Database
          <6>4. CASE m.op = "VERSION"
            <7>1. SameStore(apply_version(db, m), db')
              BY <2>d, <3>1, <4>1, <6>4, ConfirmedEffects
            <7> QED BY <2>d, <7>1 DEF SameStore, Database, apply_version
          <6>5. CASE m.op = "FINALIZE"
            <7>1. SameStore([db EXCEPT !.finalized = TRUE], db')
              BY <2>d, <3>1, <4>1, <6>5, ConfirmedEffects
            <7> QED BY <2>d, <7>1 DEF SameStore, Database
          <6> QED BY <3>1, <6>1, <6>2, <6>3, <6>4, <6>5, MemoFields
        <5> QED BY <2>i, <5>1, <5>2, OtherRowKeepsLatest
      <4> QED BY <4>2, <4>3
    <3> QED BY <3>2, <3>3
  <2>2. ASSUME NEW m \in Signed, FoldConfirming(m) PROVE LatestWins(applied', db', k)
    <3>1. m \in Memo /\ "Confirming" \in Status
      BY SignedAssumption DEF Status
    <3>2. applied' = applied /\ db' = Fold(db, m, "Confirming")
      BY <2>2 DEF FoldConfirming
    <3>3. classify(db, m, "Confirming") # "Applied"
      BY <2>d, <3>1, HonouredGate
    <3>4. db' = db \/ db' = apply_pending(db, m)
      BY <3>2, <3>3 DEF Fold
    <3>5. \/ db' = db \/ SameStore(db, db')
          \/ SameStore([db EXCEPT !.kv_versions[m.key] = bump_hw(@, m.seq)], db')
      BY <2>d, <3>1, <3>4, PendingEffects
    <3>6. db'.kv[k] = db.kv[k]
      BY <2>d, <3>5 DEF SameStore, Database
    <3> QED BY <2>i, <3>2, <3>6, OtherRowKeepsLatest
  <2>3. CASE Finish
    <3>1. db' \in Database /\ [db' EXCEPT !.pending = db.pending] = db /\ applied' = applied
      BY <2>3, <2>d, PruneFacts DEF Finish
    <3>2. db'.kv = db.kv
      BY <3>1, <2>d DEF Database
    <3> QED BY <2>i, <3>1, <3>2, OtherRowKeepsLatest
  <2>4. CASE UNCHANGED vars
    BY <2>i, <2>4 DEF vars
  <2> QED BY <2>1, <2>2, <2>3, <2>4 DEF Next
<1>3. I => LatestSequenceWins
  BY DEF LatestWins, DataWrites, LatestSequenceWins
<1> QED BY <1>1, <1>2, <1>3, ReplayInvariant, PTL DEF Spec

\* Nobody can lock the owners out of an unsealed database, whatever was folded before.
THEOREM OwnersNeverLockedOut == Spec => []OwnersCanAlwaysWrite
<1>1. ReplayInv /\ RegistryOK(db) => OwnersCanAlwaysWrite
  <2> SUFFICES ASSUME ReplayInv, db.init = "Initialized", ~db.finalized,
                      NEW o \in db.owners, NEW k \in Keys, NEW v \in Values,
                      NEW ahead \in 0..VersionWindow
               PROVE  classify(db, [op |-> "SET", key |-> k, value |-> v,
                                    seq |-> db.kv_versions[k] + ahead, signer |-> o],
                               "Confirmed") = "Applied"
    BY DEF OwnersCanAlwaysWrite
  <2> DEFINE m == [op |-> "SET", key |-> k, value |-> v,
                   seq |-> db.kv_versions[k] + ahead, signer |-> o]
  <2>d. db \in Database
    BY DEF ReplayInv, TypeOK
  <2>1. m.op = "SET" /\ m.key = k /\ m.seq = db.kv_versions[k] + ahead /\ m.signer = o
    OBVIOUS
  <2> HIDE DEF m
  <2>2. o \in Pubkeys /\ o # NoSigner /\ db.kv_versions[k] \in Nat
    BY <2>d, NotAPubkeyAssumption DEF Database
  <2>3. seq_in_window(db, m)
    BY <2>1, <2>2, WindowAssumption DEF seq_in_window, high_water, is_versioned, DataOps, SetOps
  <2>4. authorize(db, m.signer, m.op, db.kv[m.key] # NoValue) = "Ok"
    BY <2>1 DEF authorize
  <2>5. decide(db, m, "Confirmed") = "Applied"
    BY <2>1, <2>4 DEF decide, decide_unsealed, OwnerOnlyOps, RegistryOps
  <2>6. classify(db, m, "Confirmed") = "Applied"
    BY <2>1, <2>2, <2>3, <2>5 DEF classify
  <2> QED BY <2>6 DEF m
<1> QED BY <1>1, ReplayInvariant, RegistryInvariant, PTL

-----------------------------------------------------------------------------
(* Provenance.  AuthorityHasProvenance is inductive as it stands: a signer *)
(* is trusted because of a role, and a role comes from INIT or a grant.    *)

HasRole(d, p) == p \in d.owners \/ is_writer(d, p)

\* Who passes the gate holds a role or is the root.
LEMMA HonouredSigner ==
    ASSUME NEW d \in Database, NEW m \in Memo, NEW status \in Status,
           classify(d, m, status) \in {"Applied", "Pending"}
    PROVE  m.signer \in Pubkeys /\ (m.signer = Root \/ HasRole(d, m.signer))
<1>1. decide(d, m, status) \in {"Applied", "Pending"} /\ m.signer # NoSigner
  BY DEF classify
<1>2. m.signer \in Pubkeys
  BY <1>1, MemoFields
<1>3. authorize(d, m.signer, m.op, d.kv[m.key] # NoValue) = "Ok" => HasRole(d, m.signer)
  BY DEF authorize, HasRole
<1>4. authorize(d, m.signer, m.op, d.kv[m.key] # NoValue) \in {"Ok", "NoWriteAuthority", "OutOfScope"}
  BY DEF authorize
<1>5. m.signer = Root \/ HasRole(d, m.signer)
  BY <1>1, <1>3, <1>4 DEF decide, decide_unsealed, HasRole
<1> QED BY <1>2, <1>5

\* A registry op gives a role to nobody but the target of a grant.
LEMMA ManagementRoles ==
    ASSUME NEW d \in Database, NEW m \in Memo, m.op \in RegistryOps, NEW p \in Pubkeys,
           HasRole(apply_management(d, m), p)
    PROVE  HasRole(d, p) \/ (m.op \in {"OWNERADD", "WRITERADD"} /\ Canonical[m.key] = p)
<1> DEFINE a == apply_management(d, m)
           target == Canonical[m.key]
<1>1. CASE management_verdict(d, m) # "Applied"
  BY <1>1 DEF apply_management
<1>2. CASE management_verdict(d, m) = "Applied"
  <2>0. m.key \in Targets /\ target \in Pubkeys \cup {NotAPubkey}
    BY MemoFields, CanonicalAssumption
  <2>t. target \in Pubkeys
    BY <1>2, <2>0 DEF management_verdict
  <2>h. HasRole(a, p)
    OBVIOUS
  <2> HIDE DEF a, target
  <2>1. CASE m.op = "OWNERADD"
    <3>1. a = [d EXCEPT !.owners = @ \cup {target}, !.writers[target] = {}]
      BY <1>2, <2>1 DEF a, target, apply_management, insert_owner, Database
    <3>2. a.owners = d.owners \cup {target} /\ a.writers = [d.writers EXCEPT ![target] = {}]
      BY <3>1 DEF Database
    <3> QED BY <2>1, <2>t, <2>h, <3>2 DEF HasRole, is_writer, target, Database
  <2>2. CASE m.op = "OWNERDEL"
    <3>1. a.owners = d.owners \ {target} /\ a.writers = d.writers
      BY <1>2, <2>2 DEF a, target, apply_management, Database
    <3> QED BY <2>h, <3>1 DEF HasRole, is_writer
  <2>3. CASE m.op = "WRITERADD"
    <3>1. a.owners = d.owners /\ a.writers = [d.writers EXCEPT ![target] = m.value]
      BY <1>2, <2>3 DEF a, target, apply_management, Database
    <3> QED BY <2>3, <2>h, <3>1 DEF HasRole, is_writer, target, Database
  <2>4. CASE m.op = "WRITERDEL"
    <3>1. a.owners = d.owners /\ a.writers = [d.writers EXCEPT ![target] = {}]
      BY <1>2, <2>4 DEF a, target, apply_management, Database
    <3> QED BY <2>t, <2>h, <3>1 DEF HasRole, is_writer, Database
  <2> QED BY <2>1, <2>2, <2>3, <2>4 DEF RegistryOps
<1> QED BY <1>1, <1>2

\* Folding a row gives a role to nobody but the root and the target of an applied grant.
LEMMA FoldRoles ==
    ASSUME NEW d \in Database, NEW m \in Memo, NEW status \in Status, NEW p \in Pubkeys,
           HasRole(Fold(d, m, status), p)
    PROVE  \/ HasRole(d, p) \/ p = Root
           \/ /\ classify(d, m, status) = "Applied"
              /\ m.op \in {"OWNERADD", "WRITERADD"} /\ Canonical[m.key] = p
<1> DEFINE e == Fold(d, m, status)
<1>h. HasRole(e, p)
  OBVIOUS
<1>1. CASE classify(d, m, status) \notin {"Applied", "Pending"}
  BY <1>1 DEF Fold
<1>2. CASE classify(d, m, status) = "Pending"
  <2>1. e = apply_pending(d, m) /\ seq_in_window(d, m)
    BY <1>2 DEF Fold, classify
  <2>2. e.owners = d.owners /\ e.writers = d.writers
    BY <2>1, PendingStep
  <2> HIDE DEF e
  <2> QED BY <1>h, <2>2 DEF HasRole, is_writer
<1>3. CASE classify(d, m, status) = "Applied"
  <2>1. e = apply_confirmed(d, m)
    BY <1>3 DEF Fold
  <2> HIDE DEF e
  <2>2. CASE m.op = "INIT"
    <3>1. e = [d EXCEPT !.owners = @ \cup {Root}, !.writers[Root] = {}, !.init = "Initialized"]
      BY <2>1, <2>2 DEF apply_confirmed, insert_owner, Database, DataOps, SetOps, RegistryOps
    <3>2. e.owners = d.owners \cup {Root} /\ e.writers = [d.writers EXCEPT ![Root] = {}]
      BY <3>1 DEF Database
    <3> QED BY <1>h, <3>2 DEF HasRole, is_writer, Database
  <2>3. CASE m.op \in RegistryOps
    <3> DEFINE a == apply_management(d, m)
    <3>1. a \in Database
      BY <2>3, ManagementTyped
    <3>2. e = [a EXCEPT !.target_versions[m.key] = bump_hw(@, m.seq)]
      BY <2>1, <2>3 DEF apply_confirmed, DataOps, SetOps, RegistryOps
    <3> HIDE DEF a
    <3>3. e.owners = a.owners /\ e.writers = a.writers
      BY <3>1, <3>2 DEF Database
    <3>4. HasRole(a, p)
      BY <1>h, <3>3 DEF HasRole, is_writer
    <3> QED BY <1>3, <2>3, <3>4, ManagementRoles DEF a
  <2>4. CASE m.op = "VERSION"
    <3>1. e.owners = d.owners /\ e.writers = d.writers
      BY <2>1, <2>4 DEF apply_confirmed, apply_version, DataOps, SetOps, RegistryOps, Database
    <3> QED BY <1>h, <3>1 DEF HasRole, is_writer
  <2>5. CASE m.op \in DataOps
    <3>1. e.owners = d.owners /\ e.writers = d.writers
      BY <2>1, <2>5 DEF apply_confirmed, DataOps, SetOps, RegistryOps, Database
    <3> QED BY <1>h, <3>1 DEF HasRole, is_writer
  <2>6. CASE m.op = "FINALIZE"
    <3>1. e.owners = d.owners /\ e.writers = d.writers
      BY <2>1, <2>6 DEF apply_confirmed, DataOps, SetOps, RegistryOps, Database
    <3> QED BY <1>h, <3>1 DEF HasRole, is_writer
  <2> QED BY <2>2, <2>3, <2>4, <2>5, <2>6, MemoFields
<1> QED BY <1>1, <1>2, <1>3

\* The epoch moves only by an applied announcement, at most one up.
LEMMA FoldEpoch ==
    ASSUME NEW d \in Database, NEW m \in Memo, NEW status \in Status, NEW e,
           e = Fold(d, m, status)
    PROVE  \/ e.version = d.version /\ e.blocks = d.blocks
           \/ /\ classify(d, m, status) = "Applied" /\ m.op = "VERSION"
              /\ m.key \in 0..(d.version + 1) /\ m.value # NoValue
              /\ e.version = m.key /\ e.blocks = m.value
<1>1. CASE classify(d, m, status) \notin {"Applied", "Pending"}
  BY <1>1 DEF Fold
<1>2. CASE classify(d, m, status) = "Pending"
  <2>1. e = apply_pending(d, m)
    BY <1>2 DEF Fold
  <2>2. SameStore(d, e) \/ SameStore([d EXCEPT !.kv_versions[m.key] = bump_hw(@, m.seq)], e)
    BY <2>1, PendingEffects
  <2> QED BY <2>2 DEF SameStore, Database
<1>3. CASE classify(d, m, status) = "Applied"
  <2>1. e = apply_confirmed(d, m)
    BY <1>3 DEF Fold
  <2>2. CASE m.op # "VERSION"
    <3>1. \/ SameStore([d EXCEPT !.owners = @ \cup {Root}], e)
          \/ SameStore([d EXCEPT !.owners = apply_management(d, m).owners], e)
          \/ SameStore([d EXCEPT !.kv[m.key] = m.value,
                                 !.kv_versions[m.key] = bump_hw(@, m.seq)], e)
          \/ SameStore([d EXCEPT !.finalized = TRUE], e)
      BY <2>1, <2>2, ConfirmedEffects, MemoFields
    <3> QED BY <3>1 DEF SameStore, Database
  <2>3. CASE m.op = "VERSION"
    <3>1. SameStore(apply_version(d, m), e)
      BY <2>1, <2>3, ConfirmedEffects
    <3>2. CASE version_verdict(d, m) # "Applied"
      BY <3>1, <3>2 DEF apply_version, SameStore
    <3>3. CASE version_verdict(d, m) = "Applied"
      <4>0. m.key \in Nat \cup {NotNumeric} /\ d.version \in Nat
        BY <2>3, MemoFields DEF Database
      <4>1. m.key # NotNumeric /\ m.value # NoValue
        BY <3>3 DEF version_verdict
      <4>2. ~(m.key > d.version + 1) /\ m.key \in Nat
        BY <3>3, <4>0, <4>1 DEF version_verdict, NotNumeric
      <4>3. m.key \in 0..(d.version + 1)
        BY <4>0, <4>2
      <4>4. e.version = m.key /\ e.blocks = m.value
        BY <3>1, <3>3 DEF apply_version, SameStore, Database
      <4> QED BY <1>3, <2>3, <4>1, <4>3, <4>4
    <3> QED BY <3>2, <3>3
  <2> QED BY <2>2, <2>3
<1> QED BY <1>1, <1>2, <1>3

\* A row of either status, with what it adds to the histories.
LEMMA RowStep ==
    ASSUME db \in Database, NEW m \in Memo, FoldConfirmed(m) \/ FoldConfirming(m)
    PROVE  \E status \in Status :
               /\ db' = Fold(db, m, status)
               /\ applied \subseteq applied'
               /\ classify(db, m, status) = "Applied" => m \in applied'
               /\ \A x \in Honoured' :
                      x \in Honoured \/ (x = m /\ classify(db, m, status) \in {"Applied", "Pending"})
<1>1. CASE FoldConfirmed(m)
  <2>1. /\ "Confirmed" \in Status
        /\ db' = Fold(db, m, "Confirmed")
        /\ applied' = applied \cup {x \in {m} : classify(db, x, "Confirmed") = "Applied"}
        /\ pended' = pended
    BY <1>1 DEF FoldConfirmed, Status
  <2> QED BY <2>1 DEF Honoured
<1>2. CASE FoldConfirming(m)
  <2>1. /\ "Confirming" \in Status
        /\ db' = Fold(db, m, "Confirming")
        /\ pended' = pended \cup {x \in {m} : classify(db, x, "Confirming") = "Pending"}
        /\ applied' = applied
    BY <1>2 DEF FoldConfirming, Status
  <2>2. classify(db, m, "Confirming") # "Applied"
    BY <2>1, HonouredGate
  <2> QED BY <2>1, <2>2 DEF Honoured
<1> QED BY <1>1, <1>2

\* Every role, every honoured signature and every epoch goes back to the root through
\* grants and announcements that were honoured, for any stream of memos.
THEOREM AuthorityIsGranted == Spec => []AuthorityHasProvenance
<1>1. Init => AuthorityHasProvenance
  BY DEF Init, EmptyDatabase, AuthorityHasProvenance, Honoured, is_writer
<1>2. ReplayInv /\ AuthorityHasProvenance /\ [Next]_vars => AuthorityHasProvenance'
  <2> SUFFICES ASSUME ReplayInv, AuthorityHasProvenance, [Next]_vars
               PROVE  AuthorityHasProvenance'
    OBVIOUS
  <2>d. db \in Database
    BY DEF ReplayInv, TypeOK
  <2>1. ASSUME NEW m \in Signed, FoldConfirmed(m) \/ FoldConfirming(m)
        PROVE  AuthorityHasProvenance'
    <3>1. m \in Memo
      BY SignedAssumption
    <3>2. PICK status \in Status :
               /\ db' = Fold(db, m, status)
               /\ applied \subseteq applied'
               /\ classify(db, m, status) = "Applied" => m \in applied'
               /\ \A x \in Honoured' :
                      x \in Honoured \/ (x = m /\ classify(db, m, status) \in {"Applied", "Pending"})
      BY <2>d, <3>1, <2>1, RowStep
    <3>3. \A p : Granted(p) => Granted(p)'
      BY <3>2 DEF Granted
    <3>4. \A p \in Pubkeys : HasRole(db, p) => Granted(p)
      BY DEF AuthorityHasProvenance, HasRole
    <3>5. ASSUME NEW p \in Pubkeys, HasRole(db', p) PROVE Granted(p)'
      <4>1. \/ HasRole(db, p) \/ p = Root
            \/ /\ classify(db, m, status) = "Applied"
               /\ m.op \in {"OWNERADD", "WRITERADD"} /\ Canonical[m.key] = p
        BY <2>d, <3>1, <3>2, <3>5, FoldRoles
      <4>2. CASE HasRole(db, p)
        BY <3>3, <3>4, <4>2
      <4>3. CASE p = Root
        BY <4>3 DEF Granted
      <4>4. CASE /\ classify(db, m, status) = "Applied"
                 /\ m.op \in {"OWNERADD", "WRITERADD"} /\ Canonical[m.key] = p
        <5>1. m \in applied'
          BY <3>2, <4>4
        <5> QED BY <4>4, <5>1 DEF Granted
      <4> QED BY <4>1, <4>2, <4>3, <4>4
    <3>6. ASSUME NEW x \in Honoured' PROVE Granted(x.signer)'
      <4>1. CASE x \in Honoured
        BY <3>3, <4>1 DEF AuthorityHasProvenance
      <4>2. CASE x = m /\ classify(db, m, status) \in {"Applied", "Pending"}
        <5>1. m.signer \in Pubkeys /\ (m.signer = Root \/ HasRole(db, m.signer))
          BY <2>d, <3>1, <4>2, HonouredSigner
        <5>2. m.signer = Root \/ Granted(m.signer)
          BY <3>4, <5>1
        <5>3. Granted(m.signer)
          BY <5>2 DEF Granted
        <5> QED BY <3>3, <4>2, <5>3
      <4> QED BY <3>2, <4>1, <4>2
    <3>7. \A n : Announced(n) \subseteq Announced(n)'
      BY <3>2 DEF Announced
    <3>8. /\ \A n \in 1..db'.version : Announced(n)' # {}
          /\ db'.version > 0 => \E a \in Announced(db.version)' : a.value = db'.blocks
      <4>0. /\ \A n \in 1..db.version : Announced(n) # {}
            /\ db.version > 0 => \E a \in Announced(db.version) : a.value = db.blocks
            /\ db.version \in Nat
        BY <2>d DEF AuthorityHasProvenance, Database
      <4>1. \/ db'.version = db.version /\ db'.blocks = db.blocks
            \/ /\ classify(db, m, status) = "Applied" /\ m.op = "VERSION"
               /\ m.key \in 0..(db.version + 1) /\ m.value # NoValue
               /\ db'.version = m.key /\ db'.blocks = m.value
        BY <2>d, <3>1, <3>2, FoldEpoch
      <4>2. CASE db'.version = db.version /\ db'.blocks = db.blocks
        BY <3>2, <4>0, <4>2 DEF Announced
      <4>3. CASE /\ classify(db, m, status) = "Applied" /\ m.op = "VERSION"
                 /\ m.key \in 0..(db.version + 1) /\ m.value # NoValue
                 /\ db'.version = m.key /\ db'.blocks = m.value
        <5>1. m \in Announced(m.key)'
          BY <3>2, <4>3 DEF Announced
        <5>2. ASSUME NEW n \in 1..db'.version PROVE Announced(n)' # {}
          <6>1. n = m.key \/ n \in 1..db.version
            BY <4>0, <4>3
          <6>2. CASE n = m.key
            BY <5>1, <6>2 DEF Announced
          <6>3. CASE n \in 1..db.version
            BY <3>7, <4>0, <6>3
          <6> QED BY <6>1, <6>2, <6>3
        <5>3. m \in Announced(db.version)'
          BY <4>3, <5>1 DEF Announced
        <5> QED BY <4>3, <5>2, <5>3
      <4> QED BY <4>1, <4>2, <4>3
    <3> QED BY <3>5, <3>6, <3>8 DEF AuthorityHasProvenance, HasRole
  <2>2. CASE Finish
    <3>1. /\ db' \in Database /\ [db' EXCEPT !.pending = db.pending] = db
          /\ applied' = applied /\ pended' = pended
      BY <2>2, <2>d, PruneFacts DEF Finish
    <3>2. /\ db'.owners = db.owners /\ db'.writers = db.writers
          /\ db'.version = db.version /\ db'.blocks = db.blocks
      BY <3>1, <2>d DEF Database
    <3> QED BY <3>1, <3>2 DEF AuthorityHasProvenance, Granted, Announced, Honoured, is_writer
  <2>3. CASE UNCHANGED vars
    BY <2>3 DEF vars, AuthorityHasProvenance, Granted, Announced, Honoured, is_writer
  <2> QED BY <2>1, <2>2, <2>3 DEF Next
<1> QED BY <1>1, <1>2, ReplayInvariant, PTL DEF Spec

-----------------------------------------------------------------------------
(* The history's list.  Its parts are sequences whatever they hold, and    *)
(* that is all its pages depend on.                                        *)

ASequence(s) == \E S : s \in Seq(S)

\* A function on an initial segment of the numbers is a sequence.
LEMMA TableIsSequence ==
    ASSUME NEW n \in Nat, NEW f, DOMAIN f = 1..n, f = [i \in 1..n |-> f[i]]
    PROVE  f \in Seq({f[i] : i \in 1..n}) /\ Len(f) = n
<1> DEFINE S == {f[i] : i \in 1..n}
<1>1. \A i \in 1..n : f[i] \in S
  OBVIOUS
<1> HIDE DEF S
<1>2. f \in [1..n -> S]
  BY <1>1
<1>3. f \in Seq(S) /\ Len(f) = n
  BY <1>2
<1> QED BY <1>3 DEF S

\* The pass over a sequence that keeps its wanted members.
KeepsFrom(f, S, s, wanted) ==
    /\ Kept(s, wanted) = f[Len(s)]
    /\ f[0] = << >>
    /\ \A i \in 0..Len(s) : f[i] \in Seq(S \cap wanted)
    /\ \A i \in 1..Len(s) : f[i] = IF s[i] \in wanted THEN Append(f[i - 1], s[i]) ELSE f[i - 1]

LEMMA KeptPass ==
    ASSUME NEW S, NEW s \in Seq(S), NEW wanted
    PROVE  \E f : KeepsFrom(f, S, s, wanted)
<1> DEFINE n == Len(s)
           D == Seq(S \cap wanted)
           One(x, i) == IF s[i] \in wanted THEN Append(x, s[i]) ELSE x
           step == [z \in (1..n) \X D |-> One(z[2], z[1])]
           Loop(f) == f = [i \in 0..n |-> IF i = 0 THEN << >> ELSE One(f[i - 1], i)]
<1>n. n \in Nat /\ << >> \in D
  OBVIOUS
<1>1. ASSUME NEW i \in 1..n, NEW x \in D PROVE One(x, i) \in D
  <2>1. s[i] \in S
    OBVIOUS
  <2>2. CASE s[i] \in wanted
    <3>1. s[i] \in S \cap wanted
      BY <2>1, <2>2
    <3> DEFINE T == S \cap wanted
    <3>2. x \in Seq(T) /\ s[i] \in T
      BY <3>1
    <3> HIDE DEF T
    <3>3. Append(x, s[i]) \in Seq(T)
      BY <3>2
    <3> QED BY <2>2, <3>3 DEF T
  <2> QED BY <2>2
<1> HIDE DEF n, D, One
<1>2. step \in [(1..n) \X D -> D]
  BY <1>1
<1> HIDE DEF step
<1>3. PICK g : Iterates(g, n, D, << >>, step)
  BY <1>n, <1>2, RecursionExists, Zenon
<1>4. ASSUME NEW i \in 1..n
      PROVE  g[i] = One(g[i - 1], i)
  <2>1. g[i] = step[<<i, g[i - 1]>>] /\ g[i - 1] \in D
    BY <1>3, <1>n DEF Iterates
  <2>2. step[<<i, g[i - 1]>>] = One(g[i - 1], i)
    BY <2>1 DEF step
  <2> QED BY <2>1, <2>2
<1>5. Loop(g)
  BY <1>3, <1>4, <1>n DEF Iterates
<1> DEFINE f == CHOOSE x : Loop(x)
<1>6. Kept(s, wanted) = f[n]
  BY Zenon DEF Kept, n, One
<1>7. Loop(f)
  <2> HIDE DEF Loop
  <2> QED BY <1>5, Zenon
<1> HIDE DEF f
<1>8. f[0] = << >> /\ \A i \in 1..n : f[i] = One(f[i - 1], i)
  BY <1>7, <1>n
<1> DEFINE P == {k \in Nat : k <= n => f[k] \in D}
<1>9. 0 \in P
  BY <1>8, <1>n
<1>10. ASSUME NEW k \in Nat, k \in P PROVE k + 1 \in P
  <2> SUFFICES ASSUME k + 1 <= n PROVE f[k + 1] \in D
    OBVIOUS
  <2>1. f[k] \in D /\ k + 1 \in 1..n /\ (k + 1) - 1 = k
    BY <1>n, <1>10
  <2> HIDE DEF P
  <2> QED BY <1>1, <1>8, <2>1
<1> HIDE DEF P
<1>11. \A k \in Nat : k \in P
  BY <1>9, <1>10, NatSetInduction
<1>12. \A i \in 0..n : f[i] \in D
  BY <1>11, <1>n DEF P
<1>13. \A i \in 1..n : f[i] = IF s[i] \in wanted THEN Append(f[i - 1], s[i]) ELSE f[i - 1]
  BY <1>8 DEF One
<1>14. KeepsFrom(f, S, s, wanted)
  BY <1>6, <1>8, <1>12, <1>13 DEF KeepsFrom, n, D
<1> QED BY <1>14

\* What is kept of a sequence is a sequence of its wanted members.
LEMMA KeptIsSequence ==
    ASSUME NEW S, NEW s \in Seq(S), NEW wanted
    PROVE  Kept(s, wanted) \in Seq(S \cap wanted)
<1>1. PICK f : KeepsFrom(f, S, s, wanted)
  BY KeptPass
<1>2. Len(s) \in 0..Len(s)
  OBVIOUS
<1> QED BY <1>1, <1>2 DEF KeepsFrom

LEMMA KeptOfAny ==
    ASSUME NEW s, ASequence(s), NEW wanted
    PROVE  ASequence(Kept(s, wanted))
<1>1. PICK S : s \in Seq(S)
  BY DEF ASequence
<1>2. Kept(s, wanted) \in Seq(S \cap wanted)
  BY <1>1, KeptIsSequence
<1> QED BY <1>2 DEF ASequence

LEMMA SequenceLength ==
    ASSUME NEW s, ASequence(s)
    PROVE  Len(s) \in Nat /\ DOMAIN s = 1..Len(s)
BY DEF ASequence

LEMMA SequencesJoin ==
    ASSUME NEW s, NEW t, ASequence(s), ASequence(t)
    PROVE  \E S : s \in Seq(S) /\ t \in Seq(S)
<1>1. PICK S : s \in Seq(S)
  BY DEF ASequence
<1>2. PICK T : t \in Seq(T)
  BY DEF ASequence
<1>3. s \in Seq(S \cup T)
  <2>1. Len(s) \in Nat /\ s \in [1..Len(s) -> S]
    BY <1>1
  <2>2. s \in [1..Len(s) -> S \cup T]
    BY <2>1
  <2> QED BY <2>1, <2>2
<1>4. t \in Seq(S \cup T)
  <2>1. Len(t) \in Nat /\ t \in [1..Len(t) -> T]
    BY <1>2
  <2>2. t \in [1..Len(t) -> S \cup T]
    BY <2>1
  <2> QED BY <2>1, <2>2
<1> QED BY <1>3, <1>4

LEMMA ConcatIsSequence ==
    ASSUME NEW s, NEW t, ASequence(s), ASequence(t)
    PROVE  ASequence(s \o t)
<1>1. PICK S : s \in Seq(S) /\ t \in Seq(S)
  BY SequencesJoin
<1>2. s \o t \in Seq(S)
  BY <1>1
<1> QED BY <1>2 DEF ASequence

\* The arithmetic of a slice and of a slice that runs over a seam.
LEMMA SliceLength ==
    ASSUME NEW len \in Nat, NEW off \in Nat, NEW count \in Nat
    PROVE  LET n   == LowerOf(count, Minus(len, off))
               top == LowerOf(off + count, len)
           IN  /\ n \in Nat /\ top \in Nat /\ top <= len
               /\ \A i \in 1..n : off + i \in 1..len
               /\ off + 1 <= top => n = top - off
               /\ ~(off + 1 <= top) => n = 0
<1>1. CASE off >= len
  BY <1>1 DEF LowerOf, Minus
<1>2. CASE ~(off >= len) /\ off + count <= len
  <2>1. Minus(len, off) = len - off /\ LowerOf(off + count, len) = off + count
    BY <1>2 DEF LowerOf, Minus
  <2>2. LowerOf(count, len - off) = count
    BY <1>2 DEF LowerOf
  <2> QED BY <1>2, <2>1, <2>2
<1>3. CASE ~(off >= len) /\ ~(off + count <= len)
  <2>1. Minus(len, off) = len - off /\ LowerOf(off + count, len) = len
    BY <1>3 DEF LowerOf, Minus
  <2>2. LowerOf(count, len - off) = len - off
    BY <1>3 DEF LowerOf
  <2> QED BY <1>3, <2>1, <2>2
<1> QED BY <1>1, <1>2, <1>3

SeamFits(la, lb, off, count) ==
    LET f == LowerOf(count, Minus(la, off))
        m == Minus(off, la)
        g == LowerOf(count - f, Minus(lb, m))
    IN  /\ f \in Nat /\ m \in Nat /\ g \in Nat /\ count - f \in Nat
        /\ f + g = LowerOf(count, Minus(la + lb, off))
        /\ f # 0 => off + f <= la
        /\ g # 0 => off + f = la + m

LEMMA SeamLength ==
    ASSUME NEW la \in Nat, NEW lb \in Nat, NEW off \in Nat, NEW count \in Nat
    PROVE  SeamFits(la, lb, off, count)
<1>1. CASE off >= la
  <2>1. Minus(la, off) = 0 /\ LowerOf(count, 0) = 0 /\ Minus(off, la) = off - la
    BY <1>1 DEF LowerOf, Minus
  <2>2. count - 0 = count /\ Minus(lb, off - la) = Minus(la + lb, off) /\ Minus(la + lb, off) \in Nat
    BY <1>1 DEF Minus
  <2>3. LowerOf(count, Minus(la + lb, off)) \in Nat
    BY <2>2 DEF LowerOf
  <2> QED BY <1>1, <2>1, <2>2, <2>3 DEF SeamFits
<1>2. CASE ~(off >= la)
  <2>1. Minus(la, off) = la - off /\ Minus(off, la) = 0 /\ Minus(lb, 0) = lb
        /\ Minus(la + lb, off) = la + lb - off
    BY <1>2 DEF Minus
  <2>2. CASE count <= la - off
    <3>1. /\ LowerOf(count, la - off) = count /\ count - count = 0
          /\ LowerOf(0, lb) = 0 /\ LowerOf(count, la + lb - off) = count
      BY <1>2, <2>2 DEF LowerOf
    <3> QED BY <1>2, <2>1, <2>2, <3>1 DEF SeamFits
  <2>3. CASE ~(count <= la - off)
    <3>1. LowerOf(count, la - off) = la - off /\ count - (la - off) \in Nat
      BY <1>2, <2>3 DEF LowerOf
    <3>2. /\ LowerOf(count - (la - off), lb) \in Nat
          /\ (la - off) + LowerOf(count - (la - off), lb) = LowerOf(count, la + lb - off)
      BY <1>2, <2>3 DEF LowerOf
    <3> QED BY <1>2, <2>1, <2>3, <3>1, <3>2 DEF SeamFits
  <2> QED BY <2>2, <2>3
<1> QED BY <1>1, <1>2

\* skip and take: how long a slice is and what it holds.
LEMMA SliceFacts ==
    ASSUME NEW S, NEW s \in Seq(S), NEW off \in Nat, NEW count \in Nat
    PROVE  /\ Slice(s, off, count) \in Seq(S)
           /\ Len(Slice(s, off, count)) = LowerOf(count, Minus(Len(s), off))
           /\ \A i \in 1..LowerOf(count, Minus(Len(s), off)) : Slice(s, off, count)[i] = s[off + i]
<1> DEFINE top == LowerOf(off + count, Len(s))
           n == LowerOf(count, Minus(Len(s), off))
           sub == [i \in 1..n |-> s[off + i]]
<1>0. Len(s) \in Nat /\ s \in [1..Len(s) -> S]
  OBVIOUS
<1>1. n \in Nat /\ top \in Nat /\ top <= Len(s) /\ \A i \in 1..n : off + i \in 1..Len(s)
  BY <1>0, SliceLength
<1>2. (off + 1 <= top => n = top - off) /\ (~(off + 1 <= top) => n = 0)
  BY <1>0, SliceLength
<1>3. Slice(s, off, count) = SubSeq(s, off + 1, top)
  BY DEF Slice
<1> HIDE DEF top, n
<1>4. SubSeq(s, off + 1, top) = sub
  <2>1. CASE off + 1 <= top
    <3>1. off + 1 \in Int /\ top \in Int /\ \A i \in (off + 1)..top : s[i] \in S
      BY <1>0, <1>1
    <3> DEFINE x == SubSeq(s, off + 1, top)
    <3>2. x \in Seq(S) /\ Len(x) = top - (off + 1) + 1
          /\ \A i \in 1..(top - (off + 1) + 1) : x[i] = s[(off + 1) + i - 1]
      BY <2>1, <3>1
    <3>3. top - (off + 1) + 1 = n /\ \A i \in 1..n : (off + 1) + i - 1 = off + i
      BY <1>1, <1>2, <2>1
    <3> HIDE DEF x
    <3>4. x = [i \in 1..n |-> x[i]]
      BY <3>2, <3>3
    <3>5. \A i \in 1..n : x[i] = s[off + i]
      BY <3>2, <3>3
    <3>6. x = sub
      BY <3>4, <3>5
    <3> QED BY <3>6 DEF x
  <2>2. CASE ~(off + 1 <= top)
    <3>1. SubSeq(s, off + 1, top) = << >>
      BY <1>1, <2>2
    <3>2. n = 0
      BY <1>2, <2>2
    <3> QED BY <3>1, <3>2
  <2> QED BY <2>1, <2>2
<1>5. sub \in [1..n -> S]
  BY <1>0, <1>1
<1>6. sub \in Seq(S) /\ Len(sub) = n /\ \A i \in 1..n : sub[i] = s[off + i]
  BY <1>1, <1>5
<1> HIDE DEF sub
<1> QED BY <1>3, <1>4, <1>6 DEF n

LEMMA ReverseFacts ==
    ASSUME NEW S, NEW s \in Seq(S)
    PROVE  /\ Reverse(s) \in Seq(S) /\ Len(Reverse(s)) = Len(s)
           /\ \A i \in 1..Len(s) : Reverse(s)[i] = s[(Len(s) - i) + 1]
<1>1. Len(s) \in Nat /\ s \in [1..Len(s) -> S]
  OBVIOUS
<1> DEFINE n == Len(s)
           r == [i \in 1..n |-> s[(n - i) + 1]]
<1>2. r \in [1..n -> S]
  BY <1>1
<1>3. r \in Seq(S) /\ Len(r) = n /\ \A i \in 1..n : r[i] = s[(n - i) + 1]
  BY <1>1, <1>2
<1>4. Reverse(s) = r
  BY DEF Reverse
<1> HIDE DEF r
<1> QED BY <1>3, <1>4

\* A slice of two sequences in a row: a slice of the first and, as far as it is too short,
\* one of the second.
LEMMA SliceAcrossSeam ==
    ASSUME NEW S, NEW a \in Seq(S), NEW b \in Seq(S), NEW off \in Nat, NEW count \in Nat
    PROVE  LET first == Slice(a, off, count)
           IN  first \o Slice(b, Minus(off, Len(a)), count - Len(first)) = Slice(a \o b, off, count)
<1> DEFINE first == Slice(a, off, count)
           m == Minus(off, Len(a))
           rest == count - Len(first)
           second == Slice(b, m, rest)
           whole == Slice(a \o b, off, count)
<1>0. Len(a) \in Nat /\ Len(b) \in Nat /\ m \in Nat
  BY DEF Minus
<1>1. /\ first \in Seq(S) /\ Len(first) = LowerOf(count, Minus(Len(a), off))
      /\ \A i \in 1..LowerOf(count, Minus(Len(a), off)) : first[i] = a[off + i]
  BY SliceFacts
<1>2. rest \in Nat
  BY <1>0, <1>1 DEF LowerOf, Minus
<1>3. /\ second \in Seq(S) /\ Len(second) = LowerOf(rest, Minus(Len(b), m))
      /\ \A i \in 1..LowerOf(rest, Minus(Len(b), m)) : second[i] = b[m + i]
  <2>1. m \in Nat /\ rest \in Nat
    BY <1>0, <1>2
  <2> HIDE DEF m, rest
  <2>2. /\ Slice(b, m, rest) \in Seq(S)
        /\ Len(Slice(b, m, rest)) = LowerOf(rest, Minus(Len(b), m))
        /\ \A i \in 1..LowerOf(rest, Minus(Len(b), m)) : Slice(b, m, rest)[i] = b[m + i]
    BY <2>1, SliceFacts
  <2> QED BY <2>2, Zenon DEF second
<1>4. /\ a \o b \in Seq(S) /\ Len(a \o b) = Len(a) + Len(b)
      /\ \A i \in 1..(Len(a) + Len(b)) :
             (a \o b)[i] = IF i <= Len(a) THEN a[i] ELSE b[i - Len(a)]
  BY <1>0
<1> DEFINE ab == a \o b
           k == LowerOf(count, Minus(Len(a) + Len(b), off))
<1>5. /\ whole \in Seq(S) /\ Len(whole) = k
      /\ \A i \in 1..k : whole[i] = ab[off + i]
  <2>1. ab \in Seq(S) /\ Len(ab) = Len(a) + Len(b)
    BY <1>4
  <2> HIDE DEF ab
  <2>2. /\ Slice(ab, off, count) \in Seq(S)
        /\ Len(Slice(ab, off, count)) = LowerOf(count, Minus(Len(ab), off))
        /\ \A i \in 1..LowerOf(count, Minus(Len(ab), off)) : Slice(ab, off, count)[i] = ab[off + i]
    BY <2>1, SliceFacts
  <2> QED BY <2>1, <2>2 DEF ab
<1>6. first \o second \in Seq(S) /\ Len(first \o second) = Len(first) + Len(second)
      /\ \A i \in 1..(Len(first) + Len(second)) :
             (first \o second)[i] = IF i <= Len(first) THEN first[i] ELSE second[i - Len(first)]
  <2> HIDE DEF first, second
  <2> QED BY <1>1, <1>3
<1> HIDE DEF first, second, whole, ab
<1>s. /\ Len(first) \in Nat /\ m \in Nat /\ Len(second) \in Nat
      /\ Len(first) + Len(second) = k
      /\ Len(first) # 0 => off + Len(first) <= Len(a)
      /\ Len(second) # 0 => off + Len(first) = Len(a) + m
  <2>1. SeamFits(Len(a), Len(b), off, count)
    BY <1>0, SeamLength
  <2>2. Len(first) = LowerOf(count, Minus(Len(a), off))
        /\ Len(second) = LowerOf(count - LowerOf(count, Minus(Len(a), off)), Minus(Len(b), m))
    BY <1>1, <1>3, Zenon DEF rest
  <2> QED BY <2>1, <2>2, Zenon DEF SeamFits
<1>7. Len(first) + Len(second) = k
  BY <1>s
<1>8. ASSUME NEW i \in 1..k
      PROVE  (first \o second)[i] = whole[i]
  <2>1. i \in Nat /\ off + i \in 1..(Len(a) + Len(b)) /\ k \in Nat
    BY <1>0 DEF LowerOf, Minus
  <2>2. whole[i] = IF off + i <= Len(a) THEN a[off + i] ELSE b[off + i - Len(a)]
    BY <1>4, <1>5, <2>1 DEF ab
  <2>3. CASE i <= Len(first)
    <3>1. i \in 1..Len(first) /\ off + i <= Len(a)
      BY <1>0, <1>s, <2>1, <2>3
    <3> QED BY <1>1, <1>6, <1>7, <2>2, <2>3, <3>1
  <2>4. CASE ~(i <= Len(first))
    <3> DEFINE j == i - Len(first)
    <3>0. k = Len(first) + Len(second) /\ i \in 1..k
      BY <1>s
    <3> HIDE DEF k, m
    <3>1. /\ ~(off + i <= Len(a)) /\ off + i - Len(a) = m + j
          /\ j \in 1..Len(second)
      BY <1>0, <1>s, <2>1, <2>4, <3>0
    <3> HIDE DEF j, m, rest
    <3>2. second[j] = b[m + j] /\ whole[i] = b[m + j]
      BY <1>3, <2>2, <3>1
    <3>3. (first \o second)[i] = second[j]
      BY <1>6, <1>7, <2>4 DEF j
    <3> QED BY <3>2, <3>3
  <2> QED BY <2>3, <2>4
<1>9. first \o second = whole
  <2> DEFINE fs == first \o second
  <2>1. fs \in Seq(S) /\ Len(fs) = k /\ \A i \in 1..k : fs[i] = whole[i]
    BY <1>6, <1>7, <1>8
  <2> HIDE DEF fs, k
  <2>2. fs = whole
    BY <1>5, <2>1
  <2> QED BY <2>2 DEF fs
<1> QED BY <1>9, Zenon DEF first, second, whole, m, rest

Joined(x, S, a, b) ==
    /\ x \in Seq(S) /\ Len(x) = Len(a) + Len(b)
    /\ \A i \in 1..(Len(a) + Len(b)) : x[i] = IF i <= Len(a) THEN a[i] ELSE b[i - Len(a)]

LEMMA ConcatFacts ==
    ASSUME NEW S, NEW a \in Seq(S), NEW b \in Seq(S)
    PROVE  Joined(a \o b, S, a, b)
BY DEF Joined

\* The reverse of two sequences in a row.
LEMMA ReverseConcat ==
    ASSUME NEW S, NEW a \in Seq(S), NEW b \in Seq(S)
    PROVE  Reverse(a \o Reverse(b)) = b \o Reverse(a)
<1> DEFINE ra == Reverse(a)
           rb == Reverse(b)
           ab == a \o rb
           ba == b \o ra
           rev == Reverse(ab)
<1>0. Len(a) \in Nat /\ Len(b) \in Nat
  OBVIOUS
<1>1. ra \in Seq(S) /\ Len(ra) = Len(a) /\ \A i \in 1..Len(a) : ra[i] = a[(Len(a) - i) + 1]
  BY ReverseFacts
<1>2. rb \in Seq(S) /\ Len(rb) = Len(b) /\ \A i \in 1..Len(b) : rb[i] = b[(Len(b) - i) + 1]
  BY ReverseFacts
<1> HIDE DEF ra, rb
<1>3. /\ ab \in Seq(S) /\ Len(ab) = Len(a) + Len(b)
      /\ \A i \in 1..(Len(a) + Len(b)) : ab[i] = IF i <= Len(a) THEN a[i] ELSE rb[i - Len(a)]
  <2>1. Joined(ab, S, a, rb)
    BY <1>2, ConcatFacts, Zenon
  <2> HIDE DEF ab
  <2> QED BY <1>0, <1>2, <2>1 DEF Joined
<1>4. /\ ba \in Seq(S) /\ Len(ba) = Len(a) + Len(b)
      /\ \A i \in 1..(Len(a) + Len(b)) : ba[i] = IF i <= Len(b) THEN b[i] ELSE ra[i - Len(b)]
  <2>1. Joined(ba, S, b, ra)
    BY <1>1, ConcatFacts, Zenon
  <2>2. Len(b) + Len(ra) = Len(a) + Len(b)
    BY <1>0, <1>1
  <2> HIDE DEF ba
  <2> QED BY <2>1, <2>2 DEF Joined
<1> HIDE DEF ab, ba
<1>5. /\ rev \in Seq(S) /\ Len(rev) = Len(ab)
      /\ \A i \in 1..Len(ab) : rev[i] = ab[(Len(ab) - i) + 1]
  BY <1>3, ReverseFacts
<1> HIDE DEF rev
<1>6. ASSUME NEW i \in 1..(Len(a) + Len(b))
      PROVE  rev[i] = ba[i]
  <2> DEFINE j == (Len(ab) - i) + 1
  <2>1. i \in Nat /\ j \in 1..(Len(a) + Len(b)) /\ j = Len(a) + Len(b) - i + 1
    BY <1>0, <1>3
  <2>2. rev[i] = ab[j]
    BY <1>3, <1>5
  <2> HIDE DEF j
  <2>3. CASE i <= Len(b)
    <3>1. ~(j <= Len(a)) /\ j - Len(a) \in 1..Len(b) /\ (Len(b) - (j - Len(a))) + 1 = i
      BY <1>0, <2>1, <2>3
    <3>2. ab[j] = rb[j - Len(a)]
      BY <1>3, <2>1, <3>1
    <3>3. rb[j - Len(a)] = b[i]
      BY <1>2, <3>1
    <3>4. ba[i] = b[i]
      BY <1>4, <2>3
    <3> QED BY <2>2, <3>2, <3>3, <3>4
  <2>4. CASE ~(i <= Len(b))
    <3>1. j <= Len(a) /\ i - Len(b) \in 1..Len(a) /\ (Len(a) - (i - Len(b))) + 1 = j
      BY <1>0, <2>1, <2>4
    <3>2. ab[j] = a[j]
      BY <1>3, <2>1, <3>1
    <3>3. ra[i - Len(b)] = a[j]
      BY <1>1, <3>1
    <3>4. ba[i] = ra[i - Len(b)]
      BY <1>4, <2>4
    <3> QED BY <2>2, <3>2, <3>3, <3>4
  <2> QED BY <2>3, <2>4
<1>7. rev = ba
  BY <1>0, <1>3, <1>4, <1>5, <1>6
<1> QED BY <1>7 DEF rev, ba, ab, ra, rb

\* The snapshot's half of the list is a sequence.
LEMMA DeepIsSequence ==
    ASSUME NEW hist, ASequence(hist), NEW q
    PROVE  ASequence(DeepRows(hist, q))
<1> DEFINE w == {u \in Range(hist) : /\ Matches(MemoAt(u).key, q.filter)
                                     /\ OpShown(MemoAt(u).op, q.ops)}
           kept == Kept(hist, w)
           deep == [n \in DOMAIN kept |-> [at |-> kept[n], out |-> kept[n][3],
                                           status |-> "Confirmed", ok |-> TRUE]]
<1>1. DeepRows(hist, q) = deep
  BY DEF DeepRows
<1> HIDE DEF w
<1>2. Len(kept) \in Nat /\ DOMAIN kept = 1..Len(kept)
  BY KeptOfAny, SequenceLength
<1> HIDE DEF kept
<1>3. DOMAIN deep = 1..Len(kept) /\ deep = [i \in 1..Len(kept) |-> deep[i]]
  BY <1>2
<1> HIDE DEF deep
<1>4. deep \in Seq({deep[i] : i \in 1..Len(kept)})
  BY <1>2, <1>3, TableIsSequence
<1> QED BY <1>1, <1>4 DEF ASequence

CutRight(whole, q, off, total, entries) ==
    /\ total = Len(whole)
    /\ entries = Slice(IF q.order = "Desc" THEN whole ELSE Reverse(whole), off, q.limit)

\* The page is the slice of the whole list, whichever half its rows come from.
LEMMA PageEntriesAreSlice ==
    ASSUME NEW live, ASequence(live), NEW hist, ASequence(hist), NEW q \in Query, NEW off \in Nat
    PROVE  CutRight(live \o Reverse(DeepRows(hist, q)), q, off,
                    Len(live) + history_count(hist, q), PageEntries(live, hist, q, off))
<1> DEFINE deep == DeepRows(hist, q)
           back == Reverse(deep)
           whole == live \o back
           up == Reverse(live)
           count == Len(deep)
           old == LowerOf(q.limit, Minus(count, off))
<1>q. q.limit \in Nat /\ q.order \in {"Desc", "Asc"}
  BY DEF Query
<1>1. ASequence(deep)
  BY DeepIsSequence
<1> HIDE DEF deep
<1>2. PICK S : live \in Seq(S) /\ deep \in Seq(S)
  BY <1>1, SequencesJoin
<1>3. back \in Seq(S) /\ Len(back) = count /\ count \in Nat /\ Len(live) \in Nat
  BY <1>2, ReverseFacts
<1>4. up \in Seq(S) /\ Len(up) = Len(live)
  BY <1>2, ReverseFacts
<1>5. Reverse(whole) = deep \o up
  BY <1>2, ReverseConcat
<1> HIDE DEF back, up
<1>6. Len(whole) = Len(live) + count
  BY <1>2, <1>3
<1>c. history_count(hist, q) = count
  BY DEF history_count, deep
<1>7. CASE q.order = "Desc"
  <2> DEFINE shown == Slice(live, off, q.limit)
  <2>1. PageEntries(live, hist, q, off)
            = shown \o Slice(back, Minus(off, Len(live)), q.limit - Len(shown))
    BY <1>7, Zenon DEF PageEntries, history_page, deep, back
  <2>2. shown \o Slice(back, Minus(off, Len(live)), q.limit - Len(shown))
            = Slice(whole, off, q.limit)
    <3>1. live \in Seq(S) /\ back \in Seq(S) /\ q.limit \in Nat
      BY <1>q, <1>2, <1>3
    <3> QED BY <3>1, SliceAcrossSeam, Zenon
  <2> HIDE DEF whole, shown
  <2>3. PageEntries(live, hist, q, off)
            = Slice(IF q.order = "Desc" THEN whole ELSE Reverse(whole), off, q.limit)
    BY <1>7, <2>1, <2>2, Zenon
  <2> QED BY <1>6, <1>c, <2>3, Zenon DEF CutRight, whole, back, deep
<1>8. CASE q.order # "Desc"
  <2> DEFINE shown == Slice(deep, off, q.limit)
             cut == Slice(deep, LowerOf(off, count), old)
  <2>1. PageEntries(live, hist, q, off)
            = cut \o Slice(up, Minus(off, count), q.limit - old)
    BY <1>8, <1>c, Zenon DEF PageEntries, history_page, deep, up
  <2>2. shown \o Slice(up, Minus(off, count), q.limit - Len(shown))
            = Slice(deep \o up, off, q.limit)
    BY <1>q, <1>2, <1>4, SliceAcrossSeam
  <2>3. Len(shown) = old
    BY <1>q, <1>2, SliceFacts
  <2>4. cut = shown
    <3>1. CASE off <= count
      <4>1. LowerOf(off, count) = off /\ LowerOf(off + old, count) = LowerOf(off + q.limit, count)
        BY <1>q, <1>3, <3>1 DEF LowerOf, Minus
      <4> HIDE DEF old, count
      <4>2. LowerOf(off + old, Len(deep)) = LowerOf(off + q.limit, Len(deep))
        BY <4>1 DEF count
      <4> QED BY <4>1, <4>2, Zenon DEF Slice
    <3>2. CASE ~(off <= count)
      <4>1. LowerOf(off, count) = count /\ old = 0 /\ LowerOf(off + q.limit, count) = count
        BY <1>q, <1>3, <3>2 DEF LowerOf, Minus
      <4>2. LowerOf(count + 0, count) = count
        BY <1>3 DEF LowerOf
      <4>3. SubSeq(deep, count + 1, count) = << >> /\ SubSeq(deep, off + 1, count) = << >>
        BY <1>3, <3>2
      <4>4. cut = SubSeq(deep, count + 1, count)
        BY <4>1, <4>2, Zenon DEF Slice
      <4>5. shown = SubSeq(deep, off + 1, count)
        BY <4>1, Zenon DEF Slice
      <4> QED BY <4>3, <4>4, <4>5
    <3> QED BY <3>1, <3>2
  <2> HIDE DEF whole, shown, cut, old
  <2>5. PageEntries(live, hist, q, off)
            = Slice(IF q.order = "Desc" THEN whole ELSE Reverse(whole), off, q.limit)
    BY <1>5, <1>8, <2>1, <2>2, <2>3, <2>4, Zenon
  <2> QED BY <1>6, <1>c, <2>5, Zenon DEF CutRight, whole, back, deep
<1> QED BY <1>7, <1>8

LEMMA MinOfNats ==
    ASSUME NEW T, T \subseteq Nat, T # {}
    PROVE  Min(T) \in T
<1>1. \E n \in T : \A m \in T : n =< m
  BY LeastNat
<1> QED BY <1>1, Zenon DEF Min

\* The rank of the located transaction in the whole list, -1 when it is not there.
LocatedRank(live, hist, q) ==
    LET hits == {n \in DOMAIN live : live[n].at[2] = q.locate}
        deep == history_locate(hist, q)
    IN  IF hits # {} THEN Min(hits) - 1 ELSE IF deep = -1 THEN -1 ELSE Len(live) + deep

RankRight(rank, whole, t) ==
    /\ rank \in Nat \cup {-1}
    /\ rank = -1 => \A n \in DOMAIN whole : whole[n].at[2] # t
    /\ rank # -1 => rank + 1 \in 1..Len(whole) /\ whole[rank + 1].at[2] = t

LEMMA RankFacts ==
    ASSUME NEW live, ASequence(live), NEW hist, ASequence(hist), NEW q \in Query
    PROVE  RankRight(LocatedRank(live, hist, q),
                     live \o Reverse(DeepRows(hist, [q EXCEPT !.ops = {}])), q.locate)
<1> DEFINE hits == {n \in DOMAIN live : live[n].at[2] = q.locate}
           deep == history_locate(hist, q)
           rank == IF hits # {} THEN Min(hits) - 1 ELSE IF deep = -1 THEN -1 ELSE Len(live) + deep
           rows == DeepRows(hist, [q EXCEPT !.ops = {}])
           back == Reverse(rows)
           found == {n \in DOMAIN back : back[n].at[2] = q.locate}
           whole == live \o back
<1>1. ASequence(rows)
  BY DeepIsSequence
<1> HIDE DEF rows
<1>2. PICK S : live \in Seq(S) /\ rows \in Seq(S)
  BY <1>1, SequencesJoin
<1>3. back \in Seq(S)
  BY <1>2, ReverseFacts
<1>4. deep = IF found = {} THEN -1 ELSE Min(found) - 1
  BY Zenon DEF history_locate, rows
<1> HIDE DEF back
<1>5. Joined(whole, S, live, back)
  BY <1>2, <1>3, ConcatFacts, Zenon
<1> HIDE DEF whole, deep
<1>6. /\ Len(live) \in Nat /\ DOMAIN live = 1..Len(live)
      /\ Len(back) \in Nat /\ DOMAIN back = 1..Len(back)
      /\ DOMAIN whole = 1..Len(whole) /\ Len(whole) = Len(live) + Len(back)
  BY <1>2, <1>3, <1>5 DEF Joined
<1>7. \A n \in 1..(Len(live) + Len(back)) :
          whole[n] = IF n <= Len(live) THEN live[n] ELSE back[n - Len(live)]
  BY <1>5 DEF Joined
<1>8. CASE hits # {}
  <2>1. Min(hits) \in hits
    <3>1. hits \subseteq Nat
      BY <1>6
    <3> HIDE DEF hits
    <3> QED BY <1>8, <3>1, MinOfNats
  <2> DEFINE m == Min(hits)
  <2>2. rank = m - 1
    BY <1>8
  <2>3. m \in 1..Len(live) /\ live[m].at[2] = q.locate
    BY <1>6, <2>1
  <2> HIDE DEF m, rank
  <2>4. rank \in Nat /\ rank + 1 = m /\ m \in 1..(Len(live) + Len(back)) /\ m <= Len(live)
    BY <1>6, <2>2, <2>3
  <2>5. whole[m] = live[m]
    BY <1>7, <2>4
  <2>6. rank \in Nat \cup {-1} /\ rank # -1 /\ rank + 1 \in 1..Len(whole)
        /\ whole[rank + 1].at[2] = q.locate
    BY <1>6, <2>3, <2>4, <2>5
  <2> QED BY <2>6, Zenon DEF RankRight, LocatedRank, rank, deep, whole, back, rows
<1>9. CASE hits = {} /\ found # {}
  <2>1. Min(found) \in found
    <3>1. found \subseteq Nat
      BY <1>6
    <3> HIDE DEF found
    <3> QED BY <1>9, <3>1, MinOfNats
  <2> DEFINE m == Min(found)
  <2>2. deep = m - 1
    BY <1>4, <1>9
  <2>3. m \in 1..Len(back) /\ back[m].at[2] = q.locate
    BY <1>6, <2>1
  <2> HIDE DEF m
  <2>4. rank = Len(live) + deep
    <3>1. deep # -1
      BY <2>2, <2>3
    <3> QED BY <1>9, <3>1
  <2> HIDE DEF rank
  <2>5. /\ rank \in Nat /\ rank + 1 \in 1..(Len(live) + Len(back))
        /\ ~(rank + 1 <= Len(live)) /\ rank + 1 - Len(live) = m
    BY <1>6, <2>2, <2>3, <2>4
  <2>6. whole[rank + 1] = back[m]
    BY <1>7, <2>5
  <2>7. rank \in Nat \cup {-1} /\ rank # -1 /\ rank + 1 \in 1..Len(whole)
        /\ whole[rank + 1].at[2] = q.locate
    BY <1>6, <2>3, <2>5, <2>6
  <2> QED BY <2>7, Zenon DEF RankRight, LocatedRank, rank, deep, whole, back, rows
<1>10. CASE hits = {} /\ found = {}
  <2>1. rank = -1
    BY <1>4, <1>10
  <2>2. ASSUME NEW n \in DOMAIN whole PROVE whole[n].at[2] # q.locate
    <3>1. CASE n <= Len(live)
      BY <1>6, <1>7, <1>10, <3>1
    <3>2. CASE ~(n <= Len(live))
      <4>1. n - Len(live) \in DOMAIN back /\ whole[n] = back[n - Len(live)]
        BY <1>6, <1>7, <3>2
      <4> QED BY <1>10, <4>1
    <3> QED BY <3>1, <3>2
  <2> HIDE DEF rank
  <2>3. rank \in Nat \cup {-1}
    BY <2>1
  <2> QED BY <2>1, <2>2, <2>3, Zenon DEF RankRight, LocatedRank, rank, deep, whole, back, rows
<1> QED BY <1>8, <1>9, <1>10

\* The page of a rank holds it.
LEMMA PageOfRank ==
    ASSUME NEW rank \in Nat, NEW limit \in Nat, limit # 0
    PROVE  LET off == (rank \div limit) * limit
           IN  off \in Nat /\ off <= rank /\ rank < off + limit
OBVIOUS

\* The offset of a page is a natural number, and a page that should hold a transaction
\* shows it or the list does not have it.
CutLocates(whole, cut, q) ==
    q.locate # 0 /\ q.limit # 0 /\ q.order = "Desc" /\ q.ops = {} =>
        \/ \E n \in DOMAIN cut : cut[n].at[2] = q.locate
        \/ \A n \in DOMAIN whole : whole[n].at[2] # q.locate

LEMMA OffsetLocates ==
    ASSUME NEW live, ASequence(live), NEW hist, ASequence(hist), NEW q \in Query
    PROVE  /\ PageOffset(live, hist, q) \in Nat
           /\ CutLocates(live \o Reverse(DeepRows(hist, q)),
                         Slice(live \o Reverse(DeepRows(hist, q)), PageOffset(live, hist, q),
                               q.limit), q)
<1> DEFINE rank == LocatedRank(live, hist, q)
           all == live \o Reverse(DeepRows(hist, [q EXCEPT !.ops = {}]))
           off == PageOffset(live, hist, q)
           whole == live \o Reverse(DeepRows(hist, q))
           cut == Slice(whole, off, q.limit)
<1>1. /\ rank \in Nat \cup {-1}
      /\ rank = -1 => \A n \in DOMAIN all : all[n].at[2] # q.locate
      /\ rank # -1 => rank + 1 \in 1..Len(all) /\ all[rank + 1].at[2] = q.locate
  BY RankFacts, Zenon DEF RankRight
<1>2. off = IF q.locate = 0 \/ q.order = "Asc" \/ q.limit = 0 \/ rank = -1 THEN q.offset
            ELSE (rank \div q.limit) * q.limit
  BY Zenon DEF PageOffset, LocatedRank
<1>3. q.limit \in Nat /\ q.offset \in Nat
  BY DEF Query
<1>4. ASequence(whole)
  <2>1. ASequence(DeepRows(hist, q))
    BY DeepIsSequence
  <2>2. PICK S : live \in Seq(S) /\ DeepRows(hist, q) \in Seq(S)
    BY <2>1, SequencesJoin
  <2>3. Reverse(DeepRows(hist, q)) \in Seq(S)
    BY <2>2, ReverseFacts
  <2> QED BY <2>2, <2>3 DEF ASequence
<1>5. q.ops = {} => all = whole
  <2> SUFFICES ASSUME q.ops = {} PROVE [q EXCEPT !.ops = {}] = q
    OBVIOUS
  <2> QED BY DEF Query
<1> HIDE DEF rank, all, whole, off
<1>6. off \in Nat
  <2>1. CASE rank \in Nat /\ q.limit # 0
    <3>1. (rank \div q.limit) * q.limit \in Nat
      BY <1>3, <2>1, PageOfRank
    <3> QED BY <1>2, <1>3, <3>1
  <2>2. CASE ~(rank \in Nat /\ q.limit # 0)
    BY <1>1, <1>2, <1>3, <2>2
  <2> QED BY <2>1, <2>2
<1>7. ASSUME q.locate # 0, q.limit # 0, q.order = "Desc", q.ops = {}
      PROVE  \/ \E n \in DOMAIN cut : cut[n].at[2] = q.locate
             \/ \A n \in DOMAIN whole : whole[n].at[2] # q.locate
  <2>1. CASE rank = -1
    BY <1>1, <1>5, <1>7, <2>1
  <2>2. CASE rank # -1
    <3>1. rank \in Nat /\ off = (rank \div q.limit) * q.limit
      BY <1>1, <1>2, <1>7, <2>2
    <3>2. off <= rank /\ rank < off + q.limit
      BY <1>3, <1>7, <3>1, PageOfRank
    <3>3. rank + 1 \in 1..Len(whole) /\ whole[rank + 1].at[2] = q.locate
      BY <1>1, <1>5, <1>7, <2>2
    <3>4. PICK S : whole \in Seq(S)
      BY <1>4 DEF ASequence
    <3> DEFINE n == LowerOf(q.limit, Minus(Len(whole), off))
               i == rank + 1 - off
    <3>5. /\ cut \in Seq(S) /\ Len(cut) = n
          /\ \A k \in 1..n : cut[k] = whole[off + k]
      BY <1>3, <1>6, <3>4, SliceFacts
    <3> HIDE DEF cut
    <3>6. Len(whole) \in Nat
      BY <3>4
    <3>7. i \in 1..n /\ off + i = rank + 1
      <4>1. Minus(Len(whole), off) = Len(whole) - off /\ i \in Nat \ {0}
            /\ i <= q.limit /\ i <= Len(whole) - off
        BY <1>3, <1>6, <3>1, <3>2, <3>3, <3>6 DEF Minus
      <4>2. i <= n /\ n \in Nat
        BY <1>3, <1>6, <3>6, <4>1 DEF LowerOf
      <4> HIDE DEF n
      <4> QED BY <1>6, <3>1, <4>1, <4>2
    <3> HIDE DEF n, i
    <3>8. i \in DOMAIN cut /\ cut[i] = whole[rank + 1]
      BY <3>5, <3>7
    <3> QED BY <3>3, <3>8
  <2> QED BY <2>1, <2>2
<1> HIDE DEF cut
<1>8. CutLocates(whole, cut, q)
  BY <1>7 DEF CutLocates
<1> QED BY <1>6, <1>8, Zenon DEF off, whole, cut

-----------------------------------------------------------------------------
(* The rows of the wallet are finitely many, so that every list the page   *)
(* is made of is a sequence.                                               *)

LEMMA ImageFinite ==
    ASSUME NEW S, IsFiniteSet(S), NEW f, DOMAIN f = S, f = [x \in S |-> f[x]]
    PROVE  IsFiniteSet({f[x] : x \in S})
<1> DEFINE T == {f[x] : x \in S}
<1>1. f \in Surjection(S, T)
  BY DEF Surjection
<1> HIDE DEF T
<1>2. IsFiniteSet(T)
  BY <1>1, FS_Surjection
<1> QED BY <1>2 DEF T

LEMMA OutputsFinite ==
    ASSUME NEW h, NEW txs, txs \subseteq Tx
    PROVE  IsFiniteSet(OutputsOf(h, txs))
<1> DEFINE outs(t) == {<<h, t, i>> : i \in DOMAIN MemosOf[t]}
           family == {outs(t) : t \in txs}
<1>1. IsFiniteSet(txs)
  BY HistoryTxAssumption, FS_Subset
<1>2. ASSUME NEW t \in txs PROVE IsFiniteSet(outs(t))
  <2>1. MemosOf[t] \in Seq(Memo)
    BY HistoryMemosAssumption
  <2> DEFINE n == Len(MemosOf[t])
             f == [i \in 1..n |-> <<h, t, i>>]
  <2>2. n \in Nat /\ DOMAIN MemosOf[t] = 1..n
    BY <2>1
  <2> HIDE DEF n
  <2>3. IsFiniteSet(1..n)
    BY <2>2, FS_Interval
  <2>4. DOMAIN f = 1..n /\ f = [i \in 1..n |-> f[i]] /\ outs(t) = {f[i] : i \in 1..n}
    BY <2>2
  <2> HIDE DEF f
  <2>5. IsFiniteSet({f[i] : i \in 1..n})
    BY <2>3, <2>4, ImageFinite
  <2> HIDE DEF outs
  <2> QED BY <2>4, <2>5
<1> DEFINE g == [t \in txs |-> outs(t)]
<1>3. DOMAIN g = txs /\ g = [t \in txs |-> g[t]] /\ family = {g[t] : t \in txs}
  OBVIOUS
<1>4. IsFiniteSet(family)
  <2> HIDE DEF g, family
  <2> QED BY <1>1, <1>3, ImageFinite
<1>5. \A T \in family : IsFiniteSet(T)
  <2> HIDE DEF outs
  <2> QED BY <1>2
<1>6. OutputsOf(h, txs) = UNION family
  BY Zenon DEF OutputsOf
<1> HIDE DEF family
<1> QED BY <1>4, <1>5, <1>6, FS_UNION

\* The wallet's tables: what every list of the history is computed from.
WalletTyped ==
    /\ chain \in Seq(SUBSET Tx) /\ tip \in 0..Len(chain)
    /\ unmined \subseteq Tx /\ recorded \subseteq Own

LEMMA MinedFinite ==
    ASSUME WalletTyped, NEW top \in 0..Len(chain)
    PROVE  IsFiniteSet(MinedRows(top))
<1> DEFINE g == [h \in 1..top |-> OutputsOf(h, chain[h])]
           family == {OutputsOf(h, chain[h]) : h \in 1..top}
<1>1. top \in Nat /\ Len(chain) \in Nat
  BY DEF WalletTyped
<1>2. IsFiniteSet(1..top)
  BY <1>1, FS_Interval
<1>3. DOMAIN g = 1..top /\ g = [h \in 1..top |-> g[h]] /\ family = {g[h] : h \in 1..top}
  OBVIOUS
<1>4. IsFiniteSet(family)
  <2> HIDE DEF g, family
  <2> QED BY <1>2, <1>3, ImageFinite
<1>5. ASSUME NEW h \in 1..top PROVE IsFiniteSet(OutputsOf(h, chain[h]))
  <2>1. chain[h] \subseteq Tx
    BY <1>1 DEF WalletTyped
  <2> QED BY <2>1, OutputsFinite
<1>6. \A T \in family : IsFiniteSet(T)
  BY <1>5
<1>7. MinedRows(top) = UNION family
  BY Zenon DEF MinedRows
<1> HIDE DEF family
<1> QED BY <1>4, <1>6, <1>7, FS_UNION

LEMMA OrderedIsSequence ==
    ASSUME NEW rows, IsFiniteSet(rows)
    PROVE  ASequence(Ordered(rows))
<1> DEFINE n == Cardinality(rows)
           s == Ordered(rows)
<1>1. n \in Nat
  BY FS_CardinalityType
<1>2. DOMAIN s = 1..n /\ s = [i \in 1..n |-> s[i]]
  BY DEF Ordered
<1> HIDE DEF n, s
<1>3. s \in Seq({s[i] : i \in 1..n})
  BY <1>1, <1>2, TableIsSequence
<1> QED BY <1>3 DEF ASequence, s

LEMMA RowsAreSequence ==
    ASSUME WalletTyped, NEW wm
    PROVE  ASequence(RowsPast(wm))
<1> DEFINE rows == MinedRows(tip) \cup OutputsOf(0, unmined)
           wanted == {u \in rows : u[1] = 0 \/ wm = <<0, 0, 0>> \/ Before(wm, u)}
<1>1. IsFiniteSet(rows)
  <2>1. IsFiniteSet(MinedRows(tip))
    BY MinedFinite DEF WalletTyped
  <2>2. IsFiniteSet(OutputsOf(0, unmined))
    BY OutputsFinite DEF WalletTyped
  <2> QED BY <2>1, <2>2, FS_Union
<1>2. RowsPast(wm) = Kept(Ordered(rows), wanted)
  BY Zenon DEF RowsPast
<1> HIDE DEF rows, wanted
<1> QED BY <1>1, <1>2, OrderedIsSequence, KeptOfAny

LEMMA FoldedIsSequence ==
    ASSUME NEW seed, NEW rows, ASequence(rows), NEW at
    PROVE  ASequence(FoldHistory(seed, rows, at).list)
<1>1. Len(rows) \in Nat
  BY SequenceLength
<1>2. \E e, w : /\ DOMAIN e = 1..Len(rows) /\ e = [n \in 1..Len(rows) |-> e[n]]
                /\ FoldHistory(seed, rows, at).list = Kept(e, w)
  BY Zenon DEF FoldHistory
<1>3. PICK e, w : /\ DOMAIN e = 1..Len(rows) /\ e = [n \in 1..Len(rows) |-> e[n]]
                  /\ FoldHistory(seed, rows, at).list = Kept(e, w)
  BY <1>2, Zenon
<1>4. ASequence(e)
  BY <1>1, <1>3, TableIsSequence, Zenon DEF ASequence
<1> QED BY <1>3, <1>4, KeptOfAny, Zenon

LEMMA MergedIsSequence ==
    ASSUME WalletTyped, NEW list, ASequence(list), NEW filter
    PROVE  ASequence(MergePending(list, filter))
<1> DEFINE wanted == {e \in Range(list) : \/ MinConfs = 0 \/ e.status # "Pending"
                                          \/ e.at[2] \in recorded}
           own == Kept(list, wanted)
           seen == {own[n].at[2] : n \in DOMAIN own}
           outs == OutputsOf(0, recorded \ seen)
           listed == {u \in outs : /\ MemoAt(u).op \in {"SET", "DEL", "INIT"}
                                   /\ Matches(MemoAt(u).key, filter)}
           N == Cardinality(listed)
           entry(n) == [at |-> Ordered(listed)[n], out |-> 0, status |-> "Pending",
                        ok |-> MemoAt(Ordered(listed)[n]).signer = Root]
           rest == [n \in 1..N |-> entry(n)]
<1>1. MergePending(list, filter) = own \o rest
  BY Zenon DEF MergePending
<1>2. ASequence(own)
  <2> HIDE DEF wanted
  <2> QED BY KeptOfAny
<1> HIDE DEF own, seen
<1>3. recorded \ seen \subseteq Tx
  BY HistoryTxAssumption DEF WalletTyped
<1>4. IsFiniteSet(outs)
  BY <1>3, OutputsFinite
<1> HIDE DEF outs
<1>5. IsFiniteSet(listed)
  BY <1>4, FS_Subset
<1> HIDE DEF listed
<1>6. N \in Nat
  BY <1>5, FS_CardinalityType
<1> HIDE DEF N, entry
<1>7. DOMAIN rest = 1..N /\ rest = [n \in 1..N |-> rest[n]]
  OBVIOUS
<1> HIDE DEF rest
<1>8. ASequence(rest)
  BY <1>6, <1>7, TableIsSequence DEF ASequence
<1> QED BY <1>1, <1>2, <1>8, ConcatIsSequence

LEMMA SortedIsSequence ==
    ASSUME NEW list, ASequence(list)
    PROVE  ASequence(SortLive(list))
<1> DEFINE s == SortLive(list)
<1>1. Len(list) \in Nat /\ DOMAIN list = 1..Len(list)
  BY SequenceLength
<1>2. DOMAIN s = DOMAIN list /\ s = [n \in DOMAIN list |-> s[n]]
  BY DEF SortLive
<1> HIDE DEF s
<1>3. s \in Seq({s[i] : i \in 1..Len(list)})
  BY <1>1, <1>2, TableIsSequence
<1> QED BY <1>3 DEF ASequence, s

LEMMA LiveIsSequence ==
    ASSUME WalletTyped, NEW seed, NEW wm, NEW at, NEW q
    PROVE  ASequence(LiveList(seed, RowsPast(wm), at, q))
<1> DEFINE folded == FoldHistory(seed, RowsPast(wm), at).list
           w1 == {e \in Range(folded) : Matches(MemoAt(e.at).key, q.filter)}
           listed == Kept(folded, w1)
           sorted == SortLive(MergePending(listed, q.filter))
           w2 == {e \in Range(sorted) : OpShown(MemoAt(e.at).op, q.ops)}
<1>1. LiveList(seed, RowsPast(wm), at, q) = Kept(sorted, w2)
  BY Zenon DEF LiveList
<1>2. ASequence(folded)
  BY RowsAreSequence, FoldedIsSequence
<1> HIDE DEF folded, w1
<1>3. ASequence(listed)
  BY <1>2, KeptOfAny
<1> HIDE DEF listed
<1>4. ASequence(sorted)
  BY <1>3, MergedIsSequence, SortedIsSequence
<1> HIDE DEF sorted, w2
<1> QED BY <1>1, <1>4, KeptOfAny

-----------------------------------------------------------------------------
(* A page that is being put together.                                      *)

PageShaped ==
    page = [pc |-> page.pc, q |-> page.q, tip |-> page.tip, wm |-> page.wm, seed |-> page.seed,
            live |-> page.live, entries |-> page.entries, total |-> page.total,
            offset |-> page.offset]

\* Nothing else runs while a page is put together, so what was read first still holds.
PageCurrent ==
    /\ page.pc \in {"idle", "open", "seed", "live", "done"}
    /\ page.pc # "idle" =>
           /\ page.q \in Query /\ page.tip = tip /\ page.wm = snap.wm
           /\ page.q.locate # 0 => page.q.order = "Desc" /\ page.q.ops = {}
    /\ page.pc \in {"seed", "live", "done"} => page.seed = clear_pending(snap.db)
    /\ page.pc \in {"live", "done"} =>
           page.live = LiveList(page.seed, RowsPast(page.wm), page.tip, page.q)

PageCut ==
    page.pc = "done" =>
        /\ page.offset = PageOffset(page.live, snap.hist, page.q)
        /\ page.entries = PageEntries(page.live, snap.hist, page.q, page.offset)
        /\ page.total = Len(page.live) + history_count(snap.hist, page.q)

\* The strengthening of PagesRight that every step preserves.
PageInvariant ==
    WalletTyped /\ ASequence(snap.hist) /\ PageShaped /\ PageCurrent /\ PageCut

\* What the live part is computed from stays put: so does the live part.
LEMMA SameLive ==
    ASSUME chain' = chain, tip' = tip, unmined' = unmined, recorded' = recorded,
           NEW seed, NEW wm, NEW at, NEW q
    PROVE  LiveList(seed, RowsPast(wm), at, q)' = LiveList(seed, RowsPast(wm), at, q)
<1>1. MinedRows(tip)' = MinedRows(tip)
  BY DEF MinedRows
<1>2. RowsPast(wm)' = RowsPast(wm)
  BY <1>1 DEF RowsPast
<1>3. ASSUME NEW list, NEW filter
      PROVE  MergePending(list, filter)' = MergePending(list, filter)
  BY DEF MergePending
<1> QED BY <1>2, <1>3 DEF LiveList

LEMMA PageInvariantHolds ==
    ASSUME PageInvariant
    PROVE  PagesRight
<1> SUFFICES ASSUME page.pc = "done" PROVE PagesRight
  BY DEF PagesRight, PageIsSlice, LocateFinds
<1> DEFINE whole == page.live \o Reverse(DeepRows(snap.hist, page.q))
<1>1. /\ WalletTyped /\ ASequence(snap.hist) /\ page.q \in Query
      /\ page.q.locate # 0 => page.q.order = "Desc" /\ page.q.ops = {}
      /\ page.live = LiveList(clear_pending(snap.db), RowsPast(snap.wm), tip, page.q)
  BY DEF PageInvariant, PageCurrent
<1>2. ASequence(page.live)
  BY <1>1, LiveIsSequence
<1>3. /\ page.offset = PageOffset(page.live, snap.hist, page.q)
      /\ page.entries = PageEntries(page.live, snap.hist, page.q, page.offset)
      /\ page.total = Len(page.live) + history_count(snap.hist, page.q)
  BY DEF PageInvariant, PageCut
<1>4. WholeList(page.q) = whole
  BY <1>1, Zenon DEF WholeList
<1>5. page.offset \in Nat /\ CutLocates(whole, Slice(whole, page.offset, page.q.limit), page.q)
  BY <1>1, <1>2, <1>3, OffsetLocates, Zenon
<1>6. CutRight(whole, page.q, page.offset, page.total, page.entries)
  BY <1>1, <1>2, <1>3, <1>5, PageEntriesAreSlice, Zenon
<1> HIDE DEF whole
<1>7. PageIsSlice
  BY <1>4, <1>6, Zenon DEF PageIsSlice, CutRight
<1>8. LocateFinds
  <2> SUFFICES ASSUME page.q.locate # 0, page.q.limit # 0
               PROVE  \/ \E n \in DOMAIN page.entries : page.entries[n].at[2] = page.q.locate
                      \/ \A n \in DOMAIN whole : whole[n].at[2] # page.q.locate
    BY <1>4, Zenon DEF LocateFinds
  <2>1. page.q.order = "Desc" /\ page.q.ops = {}
    BY <1>1
  <2>2. page.entries = Slice(whole, page.offset, page.q.limit)
    BY <1>6, <2>1 DEF CutRight
  <2> QED BY <1>5, <2>1, <2>2, Zenon DEF CutLocates
<1> QED BY <1>7, <1>8 DEF PagesRight

LEMMA PageStart == HistoryInit => PageInvariant
<1> SUFFICES ASSUME HistoryInit PROVE PageInvariant
  OBVIOUS
<1>1. WalletTyped
  <2>1. chain = << >> /\ tip = 0 /\ unmined = {} /\ recorded = {}
    BY DEF HistoryInit
  <2>2. << >> \in Seq(SUBSET Tx) /\ Len(<< >>) = 0
    OBVIOUS
  <2> QED BY <2>1, <2>2 DEF WalletTyped
<1>2. ASequence(snap.hist)
  <2>1. snap.hist = << >>
    BY DEF HistoryInit, FreshSnapshot
  <2>2. << >> \in Seq({})
    OBVIOUS
  <2> QED BY <2>1, <2>2 DEF ASequence
<1>3. PageShaped /\ page.pc = "idle"
  BY DEF HistoryInit, NoPage, PageShaped
<1> QED BY <1>1, <1>2, <1>3 DEF PageInvariant, PageCurrent, PageCut

\* The steps of the wallet and of its readers, with no page open.
LEMMA QuietStep ==
    ASSUME PageInvariant, Quiet, UNCHANGED page, WalletTyped', ASequence(snap'.hist)
    PROVE  PageInvariant'
<1>1. PageShaped' /\ page'.pc = "idle"
  BY DEF PageInvariant, PageShaped, Quiet
<1> QED BY <1>1 DEF PageInvariant, PageCurrent, PageCut

LEMMA PromotedSequence ==
    ASSUME NEW s, ASequence(s.hist), NEW rows, ASequence(rows)
    PROVE  ASequence(Promoted(s, rows).hist)
<1>1. CASE Promoted(s, rows) = s
  BY <1>1
<1>2. CASE Promoted(s, rows) # s
  <2>1. \E w : Promoted(s, rows).hist = s.hist \o Kept(rows, w)
    BY <1>2 DEF Promoted
  <2>2. PICK w : Promoted(s, rows).hist = s.hist \o Kept(rows, w)
    BY <2>1
  <2>3. ASequence(Kept(rows, w))
    BY KeptOfAny
  <2> QED BY <2>2, <2>3, ConcatIsSequence
<1> QED BY <1>1, <1>2

LEMMA FreshSequence ==
    ASSUME NEW s, ASequence(s.hist)
    PROVE  ASequence(FreshEnough(s).hist)
<1>1. ASequence(FreshSnapshot.hist)
  <2>1. << >> \in Seq({}) /\ FreshSnapshot.hist = << >>
    BY DEF FreshSnapshot
  <2> QED BY <2>1 DEF ASequence
<1> QED BY <1>1 DEF FreshEnough

LEMMA LoadedSequence ==
    ASSUME PageInvariant
    PROVE  ASequence(LoadedState.hist)
<1> DEFINE s == FreshEnough(snap)
           rows == RowsPast(s.wm)
           deep == {u \in Range(rows) : u[1] \in 1..Minus(tip, SafeDepth)}
<1>1. ASequence(s.hist)
  BY FreshSequence DEF PageInvariant
<1>2. ASequence(rows)
  BY RowsAreSequence DEF PageInvariant
<1>3. LoadedState = Promoted(s, Kept(rows, deep))
  BY Zenon DEF LoadedState
<1> HIDE DEF s, rows, deep
<1>4. ASequence(Kept(rows, deep))
  BY <1>2, KeptOfAny
<1> QED BY <1>1, <1>3, <1>4, PromotedSequence

\* The wallet and its readers: broadcasts, the mempool, blocks, syncs, rewinds and loads.
LEMMA WalletSteps ==
    ASSUME PageInvariant, ~Concurrent,
           \/ \E t \in Tx : Broadcast(t, TRUE) \/ Broadcast(t, FALSE) \/ SeeMempool(t)
           \/ \E txs \in SUBSET Tx : Mine(txs)
           \/ Sync
           \/ \E n \in 1..MaxHeight : Rewind(n)
           \/ ReadState
    PROVE  PageInvariant'
<1>0. WalletTyped /\ ASequence(snap.hist) /\ Own \subseteq Tx
  BY HistoryTxAssumption DEF PageInvariant
<1>1. ASSUME NEW t \in Tx, NEW stored \in BOOLEAN, Broadcast(t, stored)
      PROVE  PageInvariant'
  <2>1. Quiet /\ UNCHANGED <<chain, tip, snap, page>> /\ t \in Own
        /\ recorded' = recorded \cup {t} /\ unmined' \subseteq unmined \cup {t}
    BY <1>1 DEF Broadcast
  <2>2. WalletTyped'
    BY <1>0, <2>1 DEF WalletTyped
  <2> QED BY <1>0, <2>1, <2>2, QuietStep
<1>2. ASSUME NEW t \in Tx, SeeMempool(t)
      PROVE  PageInvariant'
  <2>1. Quiet /\ UNCHANGED <<chain, tip, snap, page, recorded>> /\ unmined' = unmined \cup {t}
    BY <1>2 DEF SeeMempool
  <2>2. WalletTyped'
    BY <1>0, <2>1 DEF WalletTyped
  <2> QED BY <1>0, <2>1, <2>2, QuietStep
<1>3. ASSUME NEW txs \in SUBSET Tx, Mine(txs)
      PROVE  PageInvariant'
  <2>1. Quiet /\ UNCHANGED <<tip, unmined, recorded, snap, page>> /\ chain' = Append(chain, txs)
    BY <1>3 DEF Mine
  <2>2. /\ chain' \in Seq(SUBSET Tx) /\ Len(chain') = Len(chain) + 1 /\ Len(chain) \in Nat
    <3> DEFINE T == SUBSET Tx
    <3>1. chain \in Seq(T) /\ txs \in T
      BY <1>0 DEF WalletTyped
    <3> HIDE DEF T
    <3>2. Append(chain, txs) \in Seq(T) /\ Len(Append(chain, txs)) = Len(chain) + 1
          /\ Len(chain) \in Nat
      BY <3>1
    <3> QED BY <2>1, <3>2 DEF T
  <2>3. WalletTyped'
    BY <1>0, <2>1, <2>2 DEF WalletTyped
  <2> QED BY <1>0, <2>1, <2>3, QuietStep
<1>4. CASE Sync
  <2>1. Quiet /\ UNCHANGED <<chain, snap, page>> /\ tip' = Len(chain)
        /\ unmined' \subseteq unmined /\ recorded' \subseteq recorded
    BY <1>4 DEF Sync
  <2>2. Len(chain) \in Nat
    BY <1>0 DEF WalletTyped
  <2>3. WalletTyped'
    BY <1>0, <2>1, <2>2 DEF WalletTyped
  <2> QED BY <1>0, <2>1, <2>3, QuietStep
<1>5. ASSUME NEW n \in 1..MaxHeight, Rewind(n)
      PROVE  PageInvariant'
  <2>1. Quiet /\ UNCHANGED <<chain, unmined, recorded, snap, page>> /\ tip' = n /\ n \in 1..(tip - 1)
    BY <1>5 DEF Rewind
  <2>2. Len(chain) \in Nat /\ tip \in 0..Len(chain)
    BY <1>0 DEF WalletTyped
  <2>3. tip' \in 0..Len(chain)
    BY <2>1, <2>2
  <2>4. WalletTyped'
    BY <1>0, <2>1, <2>3 DEF WalletTyped
  <2> QED BY <1>0, <2>1, <2>4, QuietStep
<1>6. CASE ReadState
  <2>1. Quiet /\ UNCHANGED <<chain, tip, unmined, recorded, page>> /\ snap' = LoadedState
    BY <1>6 DEF ReadState
  <2>2. WalletTyped'
    BY <1>0, <2>1 DEF WalletTyped
  <2>3. ASequence(snap'.hist)
    BY <2>1, LoadedSequence
  <2> QED BY <2>1, <2>2, <2>3, QuietStep
<1> QED BY <1>1, <1>2, <1>3, <1>4, <1>5, <1>6

\* A page is opened on the snapshot that is there, or on the one a load leaves.
LEMMA OpenStep ==
    ASSUME PageInvariant, NEW s, ASequence(s.hist), NEW q \in Query,
           q.locate # 0 => q.order = "Desc" /\ q.ops = {},
           OpenPage(s, q)
    PROVE  PageInvariant'
<1>1. /\ snap' = FreshEnough(s) /\ UNCHANGED <<chain, tip, unmined, recorded>>
      /\ page' = [NoPage EXCEPT !.pc = "open", !.tip = tip, !.wm = FreshEnough(s).wm, !.q = q]
  BY DEF OpenPage
<1>2. WalletTyped'
  BY <1>1 DEF PageInvariant, WalletTyped
<1>3. ASequence(snap'.hist)
  BY <1>1, FreshSequence
<1>4. page' = [pc |-> "open", q |-> q, tip |-> tip, wm |-> FreshEnough(s).wm,
               seed |-> EmptyDatabase, live |-> << >>, entries |-> << >>, total |-> 0, offset |-> 0]
  BY <1>1 DEF NoPage
<1>5. PageShaped'
  BY <1>4 DEF PageShaped
<1>6. page'.pc = "open" /\ page'.q = q /\ page'.tip = tip' /\ page'.wm = snap'.wm
  BY <1>1, <1>4
<1>7. PageCurrent' /\ PageCut'
  BY <1>6 DEF PageCurrent, PageCut
<1> QED BY <1>2, <1>3, <1>5, <1>7 DEF PageInvariant

LEMMA OpenSteps ==
    ASSUME PageInvariant, NEW q \in Queries, OpenHistory(q) \/ OpenAtTxid(q) \/ OpenCli(q)
    PROVE  PageInvariant'
<1>1. q \in Query /\ ASequence(snap.hist)
  BY QueriesAssumption DEF PageInvariant
<1>2. CASE OpenHistory(q)
  BY <1>1, <1>2, OpenStep DEF OpenHistory
<1>3. CASE OpenAtTxid(q)
  BY <1>1, <1>3, OpenStep DEF OpenAtTxid
<1>4. CASE OpenCli(q)
  <2> DEFINE n == [q EXCEPT !.ops = normalize_ops(@)]
  <2>1. n \in Query /\ n.locate = 0
    <3>1. normalize_ops(q.ops) \in SUBSET OpToken
      BY <1>1 DEF normalize_ops, Query, OpToken
    <3> QED BY <1>1, <1>4, <3>1 DEF OpenCli, Query
  <2>2. OpenPage(LoadedState, n)
    BY <1>4 DEF OpenCli
  <2> HIDE DEF n
  <2>3. ASequence(LoadedState.hist)
    BY LoadedSequence
  <2> QED BY <2>1, <2>2, <2>3, OpenStep
<1> QED BY <1>2, <1>3, <1>4

\* The steps of the page itself.
LEMMA PageSteps ==
    ASSUME PageInvariant, LoadSeed \/ ScanTail \/ CutPage \/ Return \/ UNCHANGED historyVars
    PROVE  PageInvariant'
<1>1. UNCHANGED <<chain, tip, unmined, recorded, snap>>
  BY DEF LoadSeed, ScanTail, CutPage, Return, historyVars
<1>2. WalletTyped' /\ ASequence(snap'.hist)
  BY <1>1 DEF PageInvariant, WalletTyped
<1>3. \A seed, wm, at, q : LiveList(seed, RowsPast(wm), at, q)' = LiveList(seed, RowsPast(wm), at, q)
  BY <1>1, SameLive
<1>4. PageShaped /\ PageCurrent /\ PageCut
  BY DEF PageInvariant
<1>5. CASE LoadSeed
  <2>1. page.pc = "open" /\ page' = [page EXCEPT !.pc = "seed", !.seed = clear_pending(snap.db)]
    BY <1>5 DEF LoadSeed
  <2>2. page' = [pc |-> "seed", q |-> page.q, tip |-> page.tip, wm |-> page.wm,
                 seed |-> clear_pending(snap.db), live |-> page.live, entries |-> page.entries,
                 total |-> page.total, offset |-> page.offset]
    BY <1>4, <2>1 DEF PageShaped
  <2>3. PageShaped'
    BY <2>2 DEF PageShaped
  <2>4. /\ page'.pc = "seed" /\ page'.q = page.q /\ page'.tip = page.tip /\ page'.wm = page.wm
        /\ page'.seed = clear_pending(snap.db)
    BY <2>2
  <2>5. PageCurrent' /\ PageCut'
    BY <1>1, <1>4, <2>1, <2>4 DEF PageCurrent, PageCut
  <2> QED BY <1>2, <2>3, <2>5 DEF PageInvariant
<1>6. CASE ScanTail
  <2> DEFINE list == LiveList(page.seed, RowsPast(page.wm), page.tip, page.q)
  <2>1. page.pc = "seed" /\ page' = [page EXCEPT !.pc = "live", !.live = list]
    BY <1>6 DEF ScanTail
  <2>2. page' = [pc |-> "live", q |-> page.q, tip |-> page.tip, wm |-> page.wm,
                 seed |-> page.seed, live |-> list, entries |-> page.entries,
                 total |-> page.total, offset |-> page.offset]
    <3> HIDE DEF list
    <3> QED BY <1>4, <2>1 DEF PageShaped
  <2>3. PageShaped'
    <3> HIDE DEF list
    <3> QED BY <2>2 DEF PageShaped
  <2>4. /\ page'.pc = "live" /\ page'.q = page.q /\ page'.tip = page.tip /\ page'.wm = page.wm
        /\ page'.seed = page.seed /\ page'.live = list
    <3> HIDE DEF list
    <3> QED BY <2>2
  <2>5. page'.live = LiveList(page.seed, RowsPast(page.wm), page.tip, page.q)
    BY <2>4
  <2>6. PageCurrent' /\ PageCut'
    BY <1>1, <1>3, <1>4, <2>1, <2>4, <2>5 DEF PageCurrent, PageCut
  <2> QED BY <1>2, <2>3, <2>6 DEF PageInvariant
<1>7. CASE CutPage
  <2> DEFINE off == PageOffset(page.live, snap.hist, page.q)
             cut == PageEntries(page.live, snap.hist, page.q, off)
             sum == Len(page.live) + history_count(snap.hist, page.q)
  <2>1. /\ page.pc = "live"
        /\ page' = [page EXCEPT !.pc = "done", !.offset = off, !.entries = cut, !.total = sum]
    BY <1>7, Zenon DEF CutPage
  <2> HIDE DEF off, cut, sum
  <2>2. page' = [pc |-> "done", q |-> page.q, tip |-> page.tip, wm |-> page.wm,
                 seed |-> page.seed, live |-> page.live, entries |-> cut,
                 total |-> sum, offset |-> off]
    BY <1>4, <2>1 DEF PageShaped
  <2>3. PageShaped'
    BY <2>2 DEF PageShaped
  <2>4. /\ page'.pc = "done" /\ page'.q = page.q /\ page'.tip = page.tip /\ page'.wm = page.wm
        /\ page'.seed = page.seed /\ page'.live = page.live
        /\ page'.offset = off /\ page'.entries = cut /\ page'.total = sum
    BY <2>2
  <2>5. PageCurrent'
    BY <1>1, <1>3, <1>4, <2>1, <2>4 DEF PageCurrent
  <2>6. PageCut'
    BY <1>1, <2>4, Zenon DEF PageCut, off, cut, sum
  <2> QED BY <1>2, <2>3, <2>5, <2>6 DEF PageInvariant
<1>8. CASE Return
  <2>1. page' = NoPage
    BY <1>8 DEF Return
  <2>2. PageShaped' /\ page'.pc = "idle"
    BY <2>1 DEF NoPage, PageShaped
  <2> QED BY <1>2, <2>2 DEF PageInvariant, PageCurrent, PageCut
<1>9. CASE UNCHANGED historyVars
  <2>1. UNCHANGED <<page, snap, tip>>
    BY <1>9 DEF historyVars
  <2>2. PageShaped' /\ PageCut'
    BY <1>4, <2>1 DEF PageShaped, PageCut
  <2>3. PageCurrent'
    BY <1>3, <1>4, <2>1 DEF PageCurrent
  <2> QED BY <1>2, <2>2, <2>3 DEF PageInvariant
<1> QED BY <1>5, <1>6, <1>7, <1>8, <1>9

\* A page of the history is the slice of the whole list that its offset and limit name, in
\* either direction and wherever the seam between the wallet's rows and kv_history falls,
\* and a jump to a transaction lands on a page that shows it if the list has it: for every
\* chain, set of memos, query and depth, as long as no other read promotes rows while the
\* page is put together.
THEOREM PagesAreSlices == ASSUME ~Concurrent PROVE HistorySpec => []PagesRight
<1>1. HistoryInit => PageInvariant
  BY PageStart
<1>2. PageInvariant /\ [HistoryNext]_historyVars => PageInvariant'
  <2> SUFFICES ASSUME PageInvariant, [HistoryNext]_historyVars PROVE PageInvariant'
    OBVIOUS
  <2> QED BY WalletSteps, OpenSteps, PageSteps DEF HistoryNext
<1>3. PageInvariant => PagesRight
  BY PageInvariantHolds
<1> QED BY <1>1, <1>2, <1>3, PTL DEF HistorySpec

-----------------------------------------------------------------------------
(* The list is right.  Sorted lists of sets of rows: whatever puts the rows *)
(* of a set in chain order gives the same sequence.                        *)

\* s holds the members of S, each once, in the order of the relation R.
Sorts(s, S, R) ==
    /\ s \in Seq(S) /\ Len(s) \in Nat /\ DOMAIN s = 1..Len(s)
    /\ \A u \in S : \E i \in DOMAIN s : s[i] = u
    /\ \A i, j \in DOMAIN s : i < j => <<s[i], s[j]>> \in R

Total(S, R) ==
    /\ \A u, w \in S : /\ u # w => <<u, w>> \in R \/ <<w, u>> \in R
                       /\ ~(<<u, w>> \in R /\ <<w, u>> \in R)
    /\ \A u, w, x \in S : <<u, w>> \in R /\ <<w, x>> \in R => <<u, x>> \in R

Under(S, R, u) == {w \in S : <<w, u>> \in R}

\* Every number below the cardinality of an ordered set is the rank of one member.
LEMMA UnderCovers ==
    ASSUME NEW S, IsFiniteSet(S), NEW R, Total(S, R)
    PROVE  /\ Cardinality(S) \in Nat
           /\ \A u \in S : Cardinality(Under(S, R, u)) \in 0..(Cardinality(S) - 1)
           /\ \A u, w \in S : <<u, w>> \in R =>
                  Cardinality(Under(S, R, u)) < Cardinality(Under(S, R, w))
           /\ \A k \in 0..(Cardinality(S) - 1) : \E u \in S : Cardinality(Under(S, R, u)) = k
<1> DEFINE n == Cardinality(S)
           T == 0..(n - 1)
           rank(u) == Cardinality(Under(S, R, u))
           f == [u \in S |-> rank(u)]
<1>1. n \in Nat
  BY FS_CardinalityType
<1>2. IsFiniteSet(T) /\ Cardinality(T) = n
  BY <1>1, FS_Interval
<1>3. ASSUME NEW u \in S
      PROVE  /\ IsFiniteSet(Under(S, R, u)) /\ u \notin Under(S, R, u)
             /\ IsFiniteSet(Under(S, R, u) \cup {u})
             /\ Cardinality(Under(S, R, u) \cup {u}) = rank(u) + 1
             /\ rank(u) \in Nat
  <2>1. IsFiniteSet(Under(S, R, u)) /\ u \notin Under(S, R, u)
    BY FS_Subset DEF Under, Total
  <2> QED BY <2>1, FS_AddElement, FS_CardinalityType
<1>4. ASSUME NEW u \in S PROVE rank(u) \in T
  <2>1. Under(S, R, u) \cup {u} \subseteq S
    BY DEF Under
  <2>2. Cardinality(Under(S, R, u) \cup {u}) <= n
    BY <2>1, FS_Subset
  <2>3. rank(u) \in Nat /\ rank(u) + 1 <= n
    BY <1>3, <2>2
  <2> HIDE DEF rank, n
  <2> QED BY <1>1, <2>3
<1>5. ASSUME NEW u \in S, NEW w \in S, <<u, w>> \in R PROVE rank(u) < rank(w)
  <2>1. Under(S, R, u) \cup {u} \subseteq Under(S, R, w)
    BY <1>5 DEF Under, Total
  <2>2. Cardinality(Under(S, R, u) \cup {u}) <= rank(w)
    BY <1>3, <2>1, FS_Subset
  <2>3. rank(u) \in Nat /\ rank(w) \in Nat /\ rank(u) + 1 <= rank(w)
    BY <1>3, <2>2
  <2> HIDE DEF rank
  <2> QED BY <2>3
<1>6. ASSUME NEW u \in S, NEW w \in S, u # w PROVE rank(u) # rank(w)
  <2>1. <<u, w>> \in R \/ <<w, u>> \in R
    BY <1>6 DEF Total
  <2>2. rank(u) < rank(w) \/ rank(w) < rank(u)
    BY <2>1, <1>5
  <2>3. rank(u) \in Nat /\ rank(w) \in Nat
    BY <1>3
  <2> HIDE DEF rank
  <2> QED BY <2>2, <2>3
<1>7. f \in Injection(S, T)
  <2> HIDE DEF rank, T
  <2> QED BY <1>4, <1>6 DEF Injection, IsInjective
<1>8. f \in Surjection(S, T)
  <2> HIDE DEF f, T, n
  <2>1. IsFiniteSet(S) /\ Cardinality(S) = Cardinality(T)
    BY <1>2 DEF n
  <2> QED BY <1>2, <1>7, <2>1, FS_Injection
<1>9. ASSUME NEW k \in T PROVE \E u \in S : rank(u) = k
  <2>1. \E u \in S : f[u] = k
    <3> HIDE DEF f, T
    <3> QED BY <1>8 DEF Surjection
  <2> QED BY <2>1
<1> HIDE DEF rank
<1>10. \A u, w \in S : <<u, w>> \in R => rank(u) < rank(w)
  BY <1>5
<1> QED BY <1>1, <1>4, <1>9, <1>10 DEF rank

LEMMA FunctionIsSequence ==
    ASSUME NEW S, NEW n \in Nat, NEW s \in [1..n -> S]
    PROVE  s \in Seq(S) /\ Len(s) = n
OBVIOUS

\* Taking the member of each rank in turn sorts a finite set.
LEMMA RanksSort ==
    ASSUME NEW S, IsFiniteSet(S), NEW R, Total(S, R), NEW s,
           s = [i \in 1..Cardinality(S) |-> CHOOSE u \in S : Cardinality(Under(S, R, u)) = i - 1]
    PROVE  Sorts(s, S, R)
<1> DEFINE rank(u) == Cardinality(Under(S, R, u))
<1>1. PICK n \in Nat : n = Cardinality(S)
  BY FS_CardinalityType
<1>2. /\ \A u \in S : rank(u) \in 0..(n - 1)
      /\ \A u, w \in S : <<u, w>> \in R => rank(u) < rank(w)
      /\ \A k \in 0..(n - 1) : \E u \in S : rank(u) = k
  <2>1. /\ \A u \in S : Cardinality(Under(S, R, u)) \in 0..(Cardinality(S) - 1)
        /\ \A u, w \in S : <<u, w>> \in R =>
               Cardinality(Under(S, R, u)) < Cardinality(Under(S, R, w))
        /\ \A k \in 0..(Cardinality(S) - 1) : \E u \in S : Cardinality(Under(S, R, u)) = k
    BY UnderCovers
  <2> QED BY <2>1, <1>1
<1> HIDE DEF rank
<1>3. s = [i \in 1..n |-> CHOOSE u \in S : rank(u) = i - 1]
  BY <1>1 DEF rank
<1>4. ASSUME NEW i \in 1..n PROVE s[i] \in S /\ rank(s[i]) = i - 1
  <2>1. i - 1 \in 0..(n - 1)
    OBVIOUS
  <2>2. \E u \in S : rank(u) = i - 1
    BY <2>1, <1>2
  <2>3. s[i] = CHOOSE u \in S : rank(u) = i - 1
    BY <1>3
  <2> QED BY <2>2, <2>3
<1>5. s \in [1..n -> S] /\ DOMAIN s = 1..n
  BY <1>3, <1>4
<1>6. s \in Seq(S) /\ Len(s) = n
  BY <1>5, FunctionIsSequence
<1>7. ASSUME NEW u \in S, NEW w \in S, rank(u) = rank(w) PROVE u = w
  <2>1. rank(u) \in Int /\ rank(w) \in Int
    BY <1>2
  <2>2. ~(rank(u) < rank(w)) /\ ~(rank(w) < rank(u))
    BY <1>7, <2>1
  <2>3. <<u, w>> \notin R /\ <<w, u>> \notin R
    BY <1>2, <2>2
  <2> QED BY <2>3 DEF Total
<1>8. ASSUME NEW u \in S PROVE \E i \in 1..n : s[i] = u
  <2>1. rank(u) \in 0..(n - 1)
    BY <1>2
  <2>2. rank(u) + 1 \in 1..n /\ (rank(u) + 1) - 1 = rank(u)
    BY <2>1
  <2>3. s[rank(u) + 1] = u
    BY <1>4, <1>7, <2>2
  <2> QED BY <2>2, <2>3
<1>9. ASSUME NEW i \in 1..n, NEW j \in 1..n, i < j PROVE <<s[i], s[j]>> \in R
  <2>1. s[i] \in S /\ s[j] \in S /\ rank(s[i]) = i - 1 /\ rank(s[j]) = j - 1
    BY <1>4
  <2>2. ~(rank(s[j]) < rank(s[i])) /\ s[i] # s[j]
    BY <1>9, <2>1
  <2> QED BY <1>2, <2>1, <2>2 DEF Total
<1> QED BY <1>5, <1>6, <1>8, <1>9 DEF Sorts

\* There is one way to sort a set.
LEMMA SortsUnique ==
    ASSUME NEW S, NEW R, Total(S, R), NEW s, NEW t, Sorts(s, S, R), Sorts(t, S, R)
    PROVE  s = t
<1> DEFINE Bad == {i \in Nat : i \in DOMAIN s /\ (i \notin DOMAIN t \/ t[i] # s[i])}
<1>0. /\ \A i \in DOMAIN s : i \in Nat /\ s[i] \in S
      /\ \A i \in DOMAIN t : i \in Nat /\ t[i] \in S
  BY DEF Sorts
<1>1. ASSUME Bad # {} PROVE FALSE
  <2>1. PICK i \in Bad : \A m \in Bad : i <= m
    BY <1>1, LeastNat
  <2> HIDE DEF Bad
  <2>2. i \in DOMAIN s /\ i \in Nat /\ (i \notin DOMAIN t \/ t[i] # s[i])
    BY <2>1 DEF Bad
  <2>3. \A j \in DOMAIN s : j < i => j \in DOMAIN t /\ t[j] = s[j]
    BY <1>0, <2>1, <2>2 DEF Bad
  <2>4. PICK j \in DOMAIN t : t[j] = s[i]
    BY <1>0, <2>2 DEF Sorts
  <2>5. ~(j < i)
    <3> SUFFICES ASSUME j < i PROVE FALSE
      OBVIOUS
    <3>1. j \in DOMAIN s
      BY <1>0, <2>2, <2>4 DEF Sorts
    <3>2. s[j] = s[i] /\ <<s[j], s[i]>> \in R
      BY <2>2, <2>3, <2>4, <3>1 DEF Sorts
    <3> QED BY <1>0, <2>2, <3>2 DEF Total
  <2>6. j # i
    BY <2>2, <2>4
  <2>7. i < j /\ i \in DOMAIN t
    <3>1. i < j
      BY <1>0, <2>2, <2>4, <2>5, <2>6
    <3> QED BY <1>0, <2>2, <2>4, <3>1 DEF Sorts
  <2>8. <<t[i], s[i]>> \in R /\ t[i] \in S
    BY <1>0, <2>4, <2>7 DEF Sorts
  <2>9. PICK l \in DOMAIN s : s[l] = t[i]
    BY <2>8 DEF Sorts
  <2>10. l < i
    <3>1. l # i
      BY <2>2, <2>7, <2>9
    <3>2. ~(i < l)
      <4> SUFFICES ASSUME i < l PROVE FALSE
        OBVIOUS
      <4>1. <<s[i], t[i]>> \in R
        BY <2>2, <2>9 DEF Sorts
      <4> QED BY <1>0, <2>2, <2>8, <4>1 DEF Total
    <3> QED BY <1>0, <2>2, <2>9, <3>1, <3>2
  <2>11. l \in DOMAIN t /\ t[l] = t[i] /\ <<t[l], t[i]>> \in R
    BY <2>3, <2>7, <2>9, <2>10 DEF Sorts
  <2> QED BY <2>8, <2>11 DEF Total
<1>2. \A i \in DOMAIN s : i \in DOMAIN t /\ t[i] = s[i]
  BY <1>0, <1>1 DEF Bad
<1>3. DOMAIN t \subseteq DOMAIN s
  <2> SUFFICES ASSUME NEW j \in DOMAIN t PROVE j \in DOMAIN s
    OBVIOUS
  <2>1. PICK i \in DOMAIN s : s[i] = t[j]
    BY <1>0 DEF Sorts
  <2>2. i \in DOMAIN t /\ t[i] = t[j]
    BY <1>2, <2>1
  <2>3. i = j
    <3>1. ~(i < j) /\ ~(j < i)
      BY <1>0, <2>2 DEF Sorts, Total
    <3> QED BY <1>0, <2>2, <3>1
  <2> QED BY <2>1, <2>3
<1>4. DOMAIN s = DOMAIN t
  BY <1>2, <1>3
<1>5. Len(s) = Len(t)
  <2>1. ASSUME NEW m \in Nat, NEW n \in Nat, 1..m = 1..n, m < n PROVE FALSE
    <3>1. n \in 1..n /\ n \notin 1..m
      BY <2>1
    <3> QED BY <2>1, <3>1
  <2>2. PICK m \in Nat : m = Len(s) /\ DOMAIN s = 1..m
    BY DEF Sorts
  <2>3. PICK n \in Nat : n = Len(t) /\ DOMAIN t = 1..n
    BY DEF Sorts
  <2>4. 1..m = 1..n
    BY <1>4, <2>2, <2>3
  <2>5. ~(m < n) /\ ~(n < m)
    BY <2>1, <2>4
  <2> QED BY <2>2, <2>3, <2>5
<1>6. s \in [1..Len(s) -> S] /\ t \in [1..Len(s) -> S]
  BY <1>5 DEF Sorts
<1> QED BY <1>2, <1>4, <1>6

-----------------------------------------------------------------------------
(* Pairs of a list: what is kept, joined, reversed or cut keeps its order. *)

Pairwise(s, R) == \A i, j \in DOMAIN s : i < j => <<s[i], s[j]>> \in R

\* t is s with only its wanted members, at the places g.
Embeds(g, t, s, k, wanted) ==
    /\ \A j \in 1..Len(t) : g[j] \in 1..k /\ s[g[j]] = t[j] /\ s[g[j]] \in wanted
    /\ \A i, j \in 1..Len(t) : i < j => g[i] < g[j]
    /\ \A i \in 1..k : s[i] \in wanted => \E j \in 1..Len(t) : g[j] = i

LEMMA AppendFacts ==
    ASSUME NEW S, NEW s \in Seq(S), NEW x \in S
    PROVE  /\ Append(s, x) \in Seq(S) /\ Len(s) \in Nat /\ Len(Append(s, x)) = Len(s) + 1
           /\ \A i \in 1..Len(s) : Append(s, x)[i] = s[i]
           /\ Append(s, x)[Len(s) + 1] = x
OBVIOUS

LEMMA EmbedNext ==
    ASSUME NEW S, NEW s \in Seq(S), NEW wanted, NEW k \in Nat, k + 1 <= Len(s),
           NEW t \in Seq(S), NEW g, Embeds(g, t, s, k, wanted), NEW u,
           u = IF s[k + 1] \in wanted THEN Append(t, s[k + 1]) ELSE t
    PROVE  \E h : Embeds(h, u, s, k + 1, wanted)
<1>0. k + 1 \in 1..Len(s) /\ s[k + 1] \in S
  OBVIOUS
<1>1. CASE s[k + 1] \notin wanted
  <2>1. u = t
    BY <1>1
  <2>2. Embeds(g, u, s, k + 1, wanted)
    <3>1. \A i \in 1..(k + 1) : i \in 1..k \/ i = k + 1
      OBVIOUS
    <3>2. \A i \in 1..k : i \in 1..(k + 1)
      OBVIOUS
    <3> QED BY <1>1, <2>1, <3>1, <3>2 DEF Embeds
  <2> QED BY <2>2
<1>2. CASE s[k + 1] \in wanted
  <2>1. PICK n \in Nat : n = Len(t)
    OBVIOUS
  <2> DEFINE h == [j \in 1..(n + 1) |-> IF j = n + 1 THEN k + 1 ELSE g[j]]
  <2>2. Len(u) = n + 1 /\ u[n + 1] = s[k + 1] /\ \A j \in 1..n : u[j] = t[j]
    BY <1>0, <1>2, <2>1, AppendFacts
  <2>3. \A j \in 1..n : h[j] = g[j] /\ g[j] \in 1..k /\ s[g[j]] = t[j] /\ s[g[j]] \in wanted
    BY <2>1 DEF Embeds
  <2>4. h[n + 1] = k + 1
    OBVIOUS
  <2>5. \A i, j \in 1..n : i < j => g[i] < g[j]
    BY <2>1 DEF Embeds
  <2>6. \A i \in 1..k : s[i] \in wanted => \E j \in 1..n : g[j] = i
    BY <2>1 DEF Embeds
  <2> HIDE DEF h
  <2>7. \A j \in 1..(n + 1) : h[j] \in 1..(k + 1) /\ s[h[j]] = u[j] /\ s[h[j]] \in wanted
    <3> TAKE j \in 1..(n + 1)
    <3>1. CASE j = n + 1
      BY <1>2, <2>2, <2>4, <3>1
    <3>2. CASE j # n + 1
      <4>1. j \in 1..n
        BY <3>2
      <4>2. h[j] = g[j] /\ g[j] \in 1..k /\ s[g[j]] = t[j] /\ s[g[j]] \in wanted /\ u[j] = t[j]
        BY <2>2, <2>3, <4>1
      <4>3. h[j] \in 1..(k + 1)
        BY <4>2
      <4>4. s[h[j]] = u[j] /\ s[h[j]] \in wanted
        BY ONLY <4>2
      <4> QED BY <4>3, <4>4
    <3> QED BY <3>1, <3>2
  <2>8. \A i, j \in 1..(n + 1) : i < j => h[i] < h[j]
    <3> TAKE i, j \in 1..(n + 1)
    <3> SUFFICES ASSUME i < j PROVE h[i] < h[j]
      OBVIOUS
    <3>1. i \in 1..n
      OBVIOUS
    <3>2. h[i] = g[i] /\ g[i] \in 1..k
      BY <2>3, <3>1
    <3>3. CASE j = n + 1
      BY <2>4, <3>2, <3>3
    <3>4. CASE j # n + 1
      <4>1. j \in 1..n
        BY <3>4
      <4> QED BY <2>3, <2>5, <3>1, <4>1
    <3> QED BY <3>3, <3>4
  <2>9. \A i \in 1..(k + 1) : s[i] \in wanted => \E j \in 1..(n + 1) : h[j] = i
    <3> TAKE i \in 1..(k + 1)
    <3> SUFFICES ASSUME s[i] \in wanted PROVE \E j \in 1..(n + 1) : h[j] = i
      OBVIOUS
    <3>1. CASE i = k + 1
      <4>1. n + 1 \in 1..(n + 1)
        OBVIOUS
      <4> QED BY <2>4, <3>1, <4>1
    <3>2. CASE i # k + 1
      <4>1. i \in 1..k
        BY <3>2
      <4>2. PICK j \in 1..n : g[j] = i
        BY <2>6, <4>1
      <4>3. j \in 1..(n + 1)
        OBVIOUS
      <4> QED BY <2>3, <4>2, <4>3
    <3> QED BY <3>1, <3>2
  <2>10. Embeds(h, u, s, k + 1, wanted)
    BY <2>2, <2>7, <2>8, <2>9 DEF Embeds
  <2> QED BY <2>10
<1> QED BY <1>1, <1>2

LEMMA KeptEmbeds ==
    ASSUME NEW S, NEW s \in Seq(S), NEW wanted
    PROVE  \E g : Embeds(g, Kept(s, wanted), s, Len(s), wanted)
<1>1. PICK f : KeepsFrom(f, S, s, wanted)
  BY KeptPass
<1>2. PICK n \in Nat : n = Len(s)
  OBVIOUS
<1> DEFINE Good(k) == \E g : Embeds(g, f[k], s, k, wanted)
           P == {k \in Nat : k <= n => Good(k)}
<1>3. 0 \in P
  <2>1. f[0] = << >>
    BY <1>1 DEF KeepsFrom
  <2>2. Embeds(<< >>, << >>, s, 0, wanted)
    <3>1. 1..Len(<< >>) = {} /\ 1..0 = {}
      OBVIOUS
    <3> QED BY <3>1 DEF Embeds
  <2> QED BY <2>1, <2>2
<1>4. ASSUME NEW k \in Nat, k \in P PROVE k + 1 \in P
  <2> SUFFICES ASSUME k + 1 <= n PROVE Good(k + 1)
    OBVIOUS
  <2>1. Good(k) /\ k \in 0..n /\ k + 1 \in 1..n /\ (k + 1) - 1 = k
    BY <1>4
  <2>2. PICK g : Embeds(g, f[k], s, k, wanted)
    BY <2>1
  <2> HIDE DEF Good
  <2>3. f[k + 1] = IF s[k + 1] \in wanted THEN Append(f[k], s[k + 1]) ELSE f[k]
    BY <1>1, <1>2, <2>1 DEF KeepsFrom
  <2>4. f[k] \in Seq(S)
    <3>1. f[k] \in Seq(S \cap wanted)
      BY <1>1, <1>2, <2>1 DEF KeepsFrom
    <3> QED BY <3>1
  <2> DEFINE t == f[k]
             u == f[k + 1]
  <2> HIDE DEF t, u
  <2>5. \E h : Embeds(h, u, s, k + 1, wanted)
    <3>1. t \in Seq(S) /\ Embeds(g, t, s, k, wanted)
          /\ u = IF s[k + 1] \in wanted THEN Append(t, s[k + 1]) ELSE t
      BY <2>2, <2>3, <2>4 DEF t, u
    <3> QED BY <1>2, <3>1, EmbedNext
  <2> QED BY <2>5 DEF u, Good
<1> HIDE DEF P
<1>5. \A k \in Nat : k \in P
  BY <1>3, <1>4, NatSetInduction
<1>6. Good(n)
  BY <1>5 DEF P
<1>7. Kept(s, wanted) = f[n]
  BY <1>1, <1>2 DEF KeepsFrom
<1> QED BY <1>2, <1>6, <1>7

\* What is kept: the members that are wanted, in the same order.
LEMMA KeptFacts ==
    ASSUME NEW S, NEW s \in Seq(S), NEW wanted
    PROVE  /\ Kept(s, wanted) \in Seq(S)
           /\ \A e : (\E i \in DOMAIN Kept(s, wanted) : Kept(s, wanted)[i] = e)
                         <=> (\E i \in DOMAIN s : s[i] = e) /\ e \in wanted
           /\ \A R : Pairwise(s, R) => Pairwise(Kept(s, wanted), R)
<1>1. PICK t : t = Kept(s, wanted)
  OBVIOUS
<1>2. t \in Seq(S)
  <2>1. t \in Seq(S \cap wanted)
    BY <1>1, KeptIsSequence
  <2> QED BY <2>1
<1>3. PICK g : Embeds(g, t, s, Len(s), wanted)
  BY <1>1, KeptEmbeds
<1>4. DOMAIN t = 1..Len(t) /\ DOMAIN s = 1..Len(s) /\ Len(s) \in Nat /\ Len(t) \in Nat
  BY <1>2
<1>5. ASSUME NEW e
      PROVE  (\E i \in DOMAIN t : t[i] = e) <=> (\E i \in DOMAIN s : s[i] = e) /\ e \in wanted
  BY <1>3, <1>4 DEF Embeds
<1>6. ASSUME NEW R, Pairwise(s, R) PROVE Pairwise(t, R)
  BY <1>3, <1>4, <1>6 DEF Pairwise, Embeds
<1> QED BY <1>1, <1>2, <1>5, <1>6

LEMMA SequenceOfMore ==
    ASSUME NEW S, NEW T, S \subseteq T, NEW s \in Seq(S)
    PROVE  s \in Seq(T)
<1>1. Len(s) \in Nat /\ s \in [1..Len(s) -> S]
  OBVIOUS
<1>2. s \in [1..Len(s) -> T]
  BY <1>1
<1> QED BY <1>1, <1>2

LEMMA SortsKept ==
    ASSUME NEW S, NEW R, NEW s, Sorts(s, S, R), NEW wanted
    PROVE  Sorts(Kept(s, wanted), S \cap wanted, R)
<1>1. s \in Seq(S) /\ Pairwise(s, R)
  BY DEF Sorts, Pairwise
<1>2. PICK t : t = Kept(s, wanted)
  OBVIOUS
<1>3. /\ \A e : (\E i \in DOMAIN t : t[i] = e) <=> (\E i \in DOMAIN s : s[i] = e) /\ e \in wanted
      /\ Pairwise(t, R)
  BY <1>1, <1>2, KeptFacts
<1>4. t \in Seq(S \cap wanted)
  BY <1>1, <1>2, KeptIsSequence
<1>5. Len(t) \in Nat /\ DOMAIN t = 1..Len(t)
  BY <1>4
<1>6. \A u \in S \cap wanted : \E i \in DOMAIN t : t[i] = u
  BY <1>3 DEF Sorts
<1>7. Sorts(t, S \cap wanted, R)
  BY <1>3, <1>4, <1>5, <1>6 DEF Sorts, Pairwise
<1> QED BY <1>2, <1>7

\* What two sequences in a row hold, and where.
LEMMA JoinedMembers ==
    ASSUME NEW S, NEW s \in Seq(S), NEW t \in Seq(S)
    PROVE  /\ s \o t \in Seq(S) /\ Len(s \o t) = Len(s) + Len(t)
           /\ \A i \in DOMAIN s : i \in DOMAIN (s \o t) /\ (s \o t)[i] = s[i]
           /\ \A i \in DOMAIN t : Len(s) + i \in DOMAIN (s \o t) /\ (s \o t)[Len(s) + i] = t[i]
           /\ \A i \in DOMAIN (s \o t) : i \in DOMAIN s \/ i - Len(s) \in DOMAIN t
<1>1. Joined(s \o t, S, s, t)
  BY ConcatFacts
<1>2. PICK x : x = s \o t
  OBVIOUS
<1>3. PICK m \in Nat, n \in Nat : m = Len(s) /\ n = Len(t)
  OBVIOUS
<1>4. DOMAIN s = 1..m /\ DOMAIN t = 1..n
  BY <1>3
<1>5. /\ x \in Seq(S) /\ Len(x) = m + n
      /\ \A i \in 1..(m + n) : x[i] = IF i <= m THEN s[i] ELSE t[i - m]
  BY <1>1, <1>2, <1>3 DEF Joined
<1>6. DOMAIN x = 1..(m + n)
  BY <1>5
<1>7. \A i \in 1..m : i \in 1..(m + n) /\ x[i] = s[i]
  BY <1>5
<1>8. ASSUME NEW i \in 1..n PROVE m + i \in 1..(m + n) /\ x[m + i] = t[i]
  <2>1. m + i \in 1..(m + n) /\ ~(m + i <= m) /\ (m + i) - m = i
    OBVIOUS
  <2> QED BY <1>5, <2>1
<1>9. \A i \in 1..(m + n) : i \in 1..m \/ i - m \in 1..n
  OBVIOUS
<1> QED BY <1>2, <1>3, <1>4, <1>5, <1>6, <1>7, <1>8, <1>9

LEMMA JoinedPairwise ==
    ASSUME NEW S, NEW s \in Seq(S), NEW t \in Seq(S), NEW R, Pairwise(s, R), Pairwise(t, R),
           \A i \in DOMAIN s : \A j \in DOMAIN t : <<s[i], t[j]>> \in R
    PROVE  Pairwise(s \o t, R)
<1>1. PICK x : x = s \o t
  OBVIOUS
<1>2. PICK m \in Nat : m = Len(s)
  OBVIOUS
<1>3. /\ x \in Seq(S)
      /\ \A i \in DOMAIN s : x[i] = s[i]
      /\ \A i \in DOMAIN t : x[m + i] = t[i]
      /\ \A i \in DOMAIN x : i \in DOMAIN s \/ i - m \in DOMAIN t
  BY <1>1, <1>2, JoinedMembers
<1>4. DOMAIN s = 1..m /\ \A i \in DOMAIN x : i \in Nat
  BY <1>2, <1>3
<1>5. \A i \in DOMAIN t : i \in Nat /\ i >= 1
  OBVIOUS
<1> SUFFICES ASSUME NEW i \in DOMAIN x, NEW j \in DOMAIN x, i < j PROVE <<x[i], x[j]>> \in R
  BY <1>1 DEF Pairwise
<1>6. CASE i \in DOMAIN s /\ j \in DOMAIN s
  BY <1>3, <1>6 DEF Pairwise
<1>7. CASE i \in DOMAIN s /\ j \notin DOMAIN s
  <2>1. j - m \in DOMAIN t /\ m + (j - m) = j
    BY <1>3, <1>4, <1>7
  <2>2. x[j] = t[j - m]
    BY <1>3, <2>1
  <2> QED BY <1>3, <1>7, <2>1, <2>2
<1>8. CASE i \notin DOMAIN s
  <2>1. i - m \in DOMAIN t /\ m + (i - m) = i
    BY <1>3, <1>4, <1>8
  <2>2. j \notin DOMAIN s
    BY <1>4, <1>8, <2>1, <1>5
  <2>3. j - m \in DOMAIN t /\ m + (j - m) = j
    BY <1>3, <1>4, <2>2
  <2>4. x[i] = t[i - m] /\ x[j] = t[j - m]
    BY <1>3, <2>1, <2>3
  <2>5. i - m < j - m
    BY <1>4
  <2> QED BY <2>1, <2>3, <2>4, <2>5 DEF Pairwise
<1> QED BY <1>6, <1>7, <1>8

LEMMA SortsJoined ==
    ASSUME NEW A, NEW B, NEW R, NEW s, NEW t, Sorts(s, A, R), Sorts(t, B, R),
           \A u \in A, w \in B : <<u, w>> \in R
    PROVE  Sorts(s \o t, A \cup B, R)
<1>1. s \in Seq(A) /\ t \in Seq(B) /\ Pairwise(s, R) /\ Pairwise(t, R)
  BY DEF Sorts, Pairwise
<1>2. s \in Seq(A \cup B) /\ t \in Seq(A \cup B)
  <2>1. A \subseteq A \cup B /\ B \subseteq A \cup B
    OBVIOUS
  <2> QED BY <1>1, <2>1, SequenceOfMore
<1>3. \A i \in DOMAIN s : s[i] \in A
  BY <1>1
<1>4. \A j \in DOMAIN t : t[j] \in B
  BY <1>1
<1>5. PICK x : x = s \o t
  OBVIOUS
<1>6. Pairwise(x, R)
  BY <1>1, <1>2, <1>3, <1>4, <1>5, JoinedPairwise
<1>7. /\ x \in Seq(A \cup B)
      /\ \A i \in DOMAIN s : i \in DOMAIN x /\ x[i] = s[i]
      /\ \A i \in DOMAIN t : Len(s) + i \in DOMAIN x /\ x[Len(s) + i] = t[i]
  BY <1>2, <1>5, JoinedMembers
<1>8. Len(x) \in Nat /\ DOMAIN x = 1..Len(x)
  BY <1>7
<1>9. \A u \in A \cup B : \E i \in DOMAIN x : x[i] = u
  BY <1>7 DEF Sorts
<1>10. Sorts(x, A \cup B, R)
  BY <1>6, <1>7, <1>8, <1>9 DEF Sorts, Pairwise
<1> QED BY <1>5, <1>10

LEMMA SortsNothing ==
    ASSUME NEW R
    PROVE  Sorts(<< >>, {}, R)
<1>1. << >> \in Seq({}) /\ Len(<< >>) = 0 /\ DOMAIN << >> = 1..0
  OBVIOUS
<1> QED BY <1>1 DEF Sorts

LEMMA SortsOfNothing ==
    ASSUME NEW R, NEW s, Sorts(s, {}, R)
    PROVE  s = << >>
<1>1. s \in Seq({}) /\ Len(s) \in Nat /\ DOMAIN s = 1..Len(s)
  BY DEF Sorts
<1>2. ASSUME Len(s) # 0 PROVE FALSE
  <2>1. 1 \in DOMAIN s
    BY <1>1, <1>2
  <2> QED BY <1>1, <2>1
<1> QED BY <1>1, <1>2

-----------------------------------------------------------------------------
(* The wallet's rows, in chain order.                                      *)

RowSet == (0..MaxHeight) \X Tx \X (Nat \ {0})

InOrder == {p \in RowSet \X RowSet : Before(p[1], p[2])}

PlaceOf(u) == IF u[1] = 0 THEN MaxHeight + 1 ELSE u[1]

LEMMA BeforePlaces ==
    ASSUME NEW u, NEW w
    PROVE  Before(u, w) <=> \/ PlaceOf(u) < PlaceOf(w)
                            \/ PlaceOf(u) = PlaceOf(w) /\ u[2] < w[2]
                            \/ PlaceOf(u) = PlaceOf(w) /\ u[2] = w[2] /\ u[3] < w[3]
BY DEF Before, PlaceOf

LEMMA RowFields ==
    ASSUME NEW u \in RowSet
    PROVE  /\ u = <<u[1], u[2], u[3]>> /\ u[1] \in 0..MaxHeight /\ u[2] \in Tx /\ u[2] \in Nat
           /\ u[3] \in Nat /\ u[3] # 0 /\ MaxHeight \in Nat
           /\ PlaceOf(u) \in 1..(MaxHeight + 1)
           /\ PlaceOf(u) = MaxHeight + 1 <=> u[1] = 0
           /\ u[1] # 0 => PlaceOf(u) = u[1]
<1>m. MaxHeight \in Nat
  BY HistoryBoundsAssumption
<1>t. Tx \subseteq Nat
  BY HistoryTxAssumption
<1>0. /\ u = <<u[1], u[2], u[3]>> /\ u[1] \in 0..MaxHeight /\ u[2] \in Tx
      /\ u[3] \in Nat \ {0}
  BY DEF RowSet
<1>1. /\ u = <<u[1], u[2], u[3]>> /\ u[1] \in 0..MaxHeight /\ u[2] \in Tx /\ u[2] \in Nat
      /\ u[3] \in Nat /\ u[3] # 0 /\ MaxHeight \in Nat
  BY <1>0, <1>m, <1>t
<1>2. PICK h \in 0..MaxHeight : h = u[1]
  BY <1>1
<1>3. PlaceOf(u) = IF h = 0 THEN MaxHeight + 1 ELSE h
  BY <1>2 DEF PlaceOf
<1>4. /\ PlaceOf(u) \in 1..(MaxHeight + 1)
      /\ PlaceOf(u) = MaxHeight + 1 <=> h = 0
      /\ h # 0 => PlaceOf(u) = h
  BY ONLY <1>m, <1>3, h \in 0..MaxHeight
<1> QED BY <1>1, <1>2, <1>4

LEMMA RowsTotal ==
    ASSUME NEW S, S \subseteq RowSet
    PROVE  Total(S, InOrder)
<1>1. ASSUME NEW u \in RowSet, NEW w \in RowSet
      PROVE  /\ <<u, w>> \in InOrder <=> Before(u, w)
             /\ u # w => Before(u, w) \/ Before(w, u)
             /\ ~(Before(u, w) /\ Before(w, u))
             /\ ~Before(u, u)
  <2>1. <<u, w>> \in InOrder <=> Before(u, w)
    BY DEF InOrder
  <2>2. PICK a, b : a = PlaceOf(u) /\ b = PlaceOf(w)
    OBVIOUS
  <2>3. a \in Nat /\ b \in Nat
    BY <2>2, RowFields
  <2>4. u[2] \in Nat /\ u[3] \in Nat /\ w[2] \in Nat /\ w[3] \in Nat
    BY RowFields
  <2>5. u # w => a # b \/ u[2] # w[2] \/ u[3] # w[3]
    <3>1. a = b => u[1] = w[1]
      BY <2>2, RowFields
    <3> QED BY <3>1, RowFields
  <2> QED BY <2>1, <2>2, <2>3, <2>4, <2>5, BeforePlaces
<1>2. ASSUME NEW u \in RowSet, NEW w \in RowSet, NEW x \in RowSet, Before(u, w), Before(w, x)
      PROVE  Before(u, x)
  <2>1. PICK a, b, c : a = PlaceOf(u) /\ b = PlaceOf(w) /\ c = PlaceOf(x)
    OBVIOUS
  <2>2. a \in Nat /\ b \in Nat /\ c \in Nat
    BY <2>1, RowFields
  <2>3. /\ u[2] \in Nat /\ u[3] \in Nat /\ w[2] \in Nat /\ w[3] \in Nat
        /\ x[2] \in Nat /\ x[3] \in Nat
    BY RowFields
  <2> QED BY <1>2, <2>1, <2>2, <2>3, BeforePlaces
<1> QED BY <1>1, <1>2 DEF Total

LEMMA OrderedSorts ==
    ASSUME NEW rows, IsFiniteSet(rows), rows \subseteq RowSet
    PROVE  Sorts(Ordered(rows), rows, InOrder)
<1>1. ASSUME NEW u \in rows
      PROVE  Under(rows, InOrder, u) = {w \in rows : Before(w, u)}
  <2>1. \A w \in rows : <<w, u>> \in InOrder <=> Before(w, u)
    BY DEF InOrder
  <2> QED BY <2>1 DEF Under
<1> DEFINE ranked(i) == CHOOSE u \in rows : Cardinality({w \in rows : Before(w, u)}) = i - 1
           under(i) == CHOOSE u \in rows : Cardinality(Under(rows, InOrder, u)) = i - 1
<1>2. \A i : ranked(i) = under(i)
  BY <1>1
<1>3. Ordered(rows) = [i \in 1..Cardinality(rows) |-> under(i)]
  <2>1. Ordered(rows) = [i \in 1..Cardinality(rows) |-> ranked(i)]
    BY DEF Ordered
  <2> HIDE DEF ranked, under
  <2> QED BY <1>2, <2>1
<1>4. Total(rows, InOrder)
  BY RowsTotal
<1> QED BY <1>3, <1>4, RanksSort

-----------------------------------------------------------------------------
(* Which rows the wallet holds.                                            *)

LEMMA OutputFacts ==
    ASSUME NEW h, NEW txs, txs \subseteq Tx, NEW u
    PROVE  u \in OutputsOf(h, txs) <=>
               /\ u = <<h, u[2], u[3]>> /\ u[2] \in txs /\ u[3] \in DOMAIN MemosOf[u[2]]
<1>1. u \in OutputsOf(h, txs) <=> \E t \in txs : \E i \in DOMAIN MemosOf[t] : u = <<h, t, i>>
  BY DEF OutputsOf
<1> QED BY <1>1

LEMMA MemoFacts ==
    ASSUME NEW t \in Tx, NEW i \in DOMAIN MemosOf[t]
    PROVE  i \in Nat /\ i # 0 /\ MemosOf[t][i] \in Memo
<1>1. MemosOf[t] \in Seq(Memo)
  BY HistoryMemosAssumption
<1> QED BY <1>1

LEMMA MinedRowFacts ==
    ASSUME WalletTyped, Len(chain) =< MaxHeight, NEW top \in 0..Len(chain)
    PROVE  /\ MinedRows(top) \subseteq RowSet
           /\ \A u : u \in MinedRows(top) <=>
                  /\ u = <<u[1], u[2], u[3]>> /\ u[1] \in 1..top
                  /\ u[2] \in chain[u[1]] /\ u[3] \in DOMAIN MemosOf[u[2]]
           /\ \A u \in MinedRows(top) : u[2] \in Mined(top) /\ MemoAt(u) \in Memo
<1>1. top \in Nat /\ Len(chain) \in Nat /\ MaxHeight \in Nat
  BY HistoryBoundsAssumption DEF WalletTyped
<1>2. ASSUME NEW h \in 1..top PROVE chain[h] \subseteq Tx
  BY <1>1 DEF WalletTyped
<1>3. ASSUME NEW u
      PROVE  u \in MinedRows(top) <=>
                  /\ u = <<u[1], u[2], u[3]>> /\ u[1] \in 1..top
                  /\ u[2] \in chain[u[1]] /\ u[3] \in DOMAIN MemosOf[u[2]]
  <2>1. u \in MinedRows(top) <=> \E h \in 1..top : u \in OutputsOf(h, chain[h])
    BY DEF MinedRows
  <2>2. ASSUME NEW h \in 1..top
        PROVE  u \in OutputsOf(h, chain[h]) <=>
               u = <<h, u[2], u[3]>> /\ u[2] \in chain[h] /\ u[3] \in DOMAIN MemosOf[u[2]]
    BY <1>2, OutputFacts
  <2>3. \A h : u = <<h, u[2], u[3]>> => h = u[1]
    OBVIOUS
  <2> QED BY <2>1, <2>2, <2>3
<1>4. ASSUME NEW u \in MinedRows(top)
      PROVE  u \in RowSet /\ u[2] \in Mined(top) /\ MemoAt(u) \in Memo
  <2>1. /\ u = <<u[1], u[2], u[3]>> /\ u[1] \in 1..top
        /\ u[2] \in chain[u[1]] /\ u[3] \in DOMAIN MemosOf[u[2]]
    BY <1>3
  <2>2. u[2] \in Tx
    BY <1>2, <2>1
  <2>3. u[3] \in Nat \ {0} /\ MemosOf[u[2]][u[3]] \in Memo
    BY <2>1, <2>2, MemoFacts
  <2>4. u[1] \in 0..MaxHeight
    BY <1>1, <2>1
  <2>5. u[2] \in Mined(top)
    BY <2>1 DEF Mined
  <2> QED BY <2>1, <2>2, <2>3, <2>4, <2>5 DEF RowSet, MemoAt
<1> QED BY <1>3, <1>4

LEMMA LooseRowFacts ==
    ASSUME NEW txs, txs \subseteq Tx
    PROVE  /\ OutputsOf(0, txs) \subseteq RowSet
           /\ \A u \in OutputsOf(0, txs) : u[1] = 0 /\ u[2] \in txs /\ MemoAt(u) \in Memo
<1>1. MaxHeight \in Nat
  BY HistoryBoundsAssumption
<1> SUFFICES ASSUME NEW u \in OutputsOf(0, txs)
             PROVE  u \in RowSet /\ u[1] = 0 /\ u[2] \in txs /\ MemoAt(u) \in Memo
  OBVIOUS
<1>2. u = <<0, u[2], u[3]>> /\ u[2] \in txs /\ u[3] \in DOMAIN MemosOf[u[2]]
  BY OutputFacts
<1>3. u[3] \in Nat \ {0} /\ MemosOf[u[2]][u[3]] \in Memo /\ u[1] = 0 /\ 0 \in 0..MaxHeight
  BY <1>1, <1>2, MemoFacts
<1> QED BY <1>2, <1>3 DEF RowSet, MemoAt

AllRows == MinedRows(tip) \cup OutputsOf(0, unmined)

\* The rows above block k: those of later blocks and those no block holds.
RowsAbove(k) == {u \in AllRows : u[1] = 0 \/ u[1] > k}

\* The watermark is the last row of its block, or stands before every row.
WatermarkRight(wm) ==
    \/ wm = Start
    \/ wm \in MinedRows(Len(chain)) /\ \A u \in MinedRows(wm[1]) : ~Before(wm, u)

WalletHolds == WalletTyped /\ Len(chain) =< MaxHeight

LEMMA AllRowsFacts ==
    ASSUME WalletHolds
    PROVE  /\ AllRows \subseteq RowSet /\ IsFiniteSet(AllRows)
           /\ \A u \in AllRows : MemoAt(u) \in Memo
           /\ tip \in 0..Len(chain) /\ Len(chain) \in Nat /\ unmined \subseteq Tx
<1>1. WalletTyped /\ Len(chain) =< MaxHeight
  BY DEF WalletHolds
<1>2. tip \in 0..Len(chain) /\ Len(chain) \in Nat /\ unmined \subseteq Tx
  BY <1>1 DEF WalletTyped
<1>3. MinedRows(tip) \subseteq RowSet /\ \A u \in MinedRows(tip) : MemoAt(u) \in Memo
  BY <1>1, <1>2, MinedRowFacts
<1>4. OutputsOf(0, unmined) \subseteq RowSet /\ \A u \in OutputsOf(0, unmined) : MemoAt(u) \in Memo
  BY <1>2, LooseRowFacts
<1>5. IsFiniteSet(MinedRows(tip)) /\ IsFiniteSet(OutputsOf(0, unmined))
  BY <1>1, <1>2, MinedFinite, OutputsFinite
<1>6. IsFiniteSet(AllRows)
  BY <1>5, FS_Union DEF AllRows
<1> QED BY <1>2, <1>3, <1>4, <1>6 DEF AllRows

LEMMA PastWatermark ==
    ASSUME WalletHolds, NEW wm, WatermarkRight(wm), NEW u \in AllRows
    PROVE  (u[1] = 0 \/ wm = <<0, 0, 0>> \/ Before(wm, u)) <=> (u[1] = 0 \/ u[1] > wm[1])
<1>1. u \in RowSet
  BY AllRowsFacts
<1>2. PICK h \in 0..MaxHeight : h = u[1]
  BY <1>1, RowFields
<1>m. MaxHeight \in Nat
  BY <1>1, RowFields
<1>3. CASE wm = Start
  <2>1. wm[1] = 0
    BY <1>3 DEF Start
  <2> QED BY <1>2, <1>3, <2>1 DEF Start
<1>4. CASE wm # Start /\ h # 0
  <2>1. wm \in MinedRows(Len(chain)) /\ \A w \in MinedRows(wm[1]) : ~Before(wm, w)
    BY <1>4 DEF WatermarkRight
  <2>2. WalletTyped /\ Len(chain) =< MaxHeight /\ Len(chain) \in Nat /\ tip \in 0..Len(chain)
    BY AllRowsFacts DEF WalletHolds
  <2>3. Len(chain) \in 0..Len(chain)
    BY <2>2
  <2>4. wm \in RowSet /\ wm[1] \in 1..Len(chain)
    BY <2>1, <2>2, <2>3, MinedRowFacts
  <2>5. PICK k \in 1..Len(chain) : k = wm[1]
    BY <2>4
  <2>6. wm # <<0, 0, 0>>
    BY <2>4
  <2>7. PlaceOf(u) = h /\ PlaceOf(wm) = k
    BY <1>1, <1>2, <1>4, <2>2, <2>4, <2>5, RowFields
  <2>8. u \in MinedRows(tip)
    <3>1. u \notin OutputsOf(0, unmined)
      BY <1>2, <1>4, AllRowsFacts, LooseRowFacts
    <3> QED BY <3>1 DEF AllRows
  <2>9. CASE h > k
    <3>1. Before(wm, u)
      BY <2>7, <2>9, BeforePlaces
    <3> QED BY <1>2, <2>5, <2>9, <3>1
  <2>10. CASE ~(h > k)
    <3>1. /\ u = <<u[1], u[2], u[3]>> /\ u[1] \in 1..tip
          /\ u[2] \in chain[u[1]] /\ u[3] \in DOMAIN MemosOf[u[2]]
      BY <2>2, <2>8, MinedRowFacts
    <3>2. u[1] \in 1..k
      BY <1>2, <2>2, <2>10, <3>1
    <3>3. k \in 0..Len(chain)
      OBVIOUS
    <3>4. u \in MinedRows(k)
      BY <2>2, <3>1, <3>2, <3>3, MinedRowFacts
    <3>5. ~Before(wm, u)
      BY <2>1, <2>5, <3>4
    <3> QED BY <1>2, <1>4, <2>5, <2>6, <2>10, <3>5
  <2> QED BY <2>9, <2>10
<1>5. CASE h = 0
  BY <1>2, <1>5
<1> QED BY <1>3, <1>4, <1>5

LEMMA RowsPastSorts ==
    ASSUME WalletHolds, NEW wm, WatermarkRight(wm)
    PROVE  Sorts(RowsPast(wm), RowsAbove(wm[1]), InOrder)
<1> DEFINE wanted == {u \in AllRows : u[1] = 0 \/ wm = <<0, 0, 0>> \/ Before(wm, u)}
<1>1. RowsPast(wm) = Kept(Ordered(AllRows), wanted)
  BY Zenon DEF RowsPast, AllRows
<1>2. wanted = AllRows \cap RowsAbove(wm[1])
  BY PastWatermark DEF RowsAbove
<1>3. AllRows \cap RowsAbove(wm[1]) = RowsAbove(wm[1]) /\ AllRows \cap wanted = RowsAbove(wm[1])
  BY <1>2 DEF RowsAbove
<1> HIDE DEF wanted
<1>4. Sorts(Ordered(AllRows), AllRows, InOrder)
  BY AllRowsFacts, OrderedSorts
<1>5. Sorts(Kept(Ordered(AllRows), wanted), AllRows \cap wanted, InOrder)
  BY <1>4, SortsKept
<1> QED BY <1>1, <1>3, <1>5

\* The rows up to block k and the rows above it are all the rows of the wallet, in this order.
LEMMA RowsUpTo ==
    ASSUME WalletHolds, NEW k \in 0..tip
    PROVE  /\ \A u : u \in MinedRows(k) <=> u \in MinedRows(tip) /\ u[1] \in 1..k
           /\ \A u \in AllRows : /\ u \in RowSet /\ u[1] \in Nat
                                 /\ u[1] # 0 <=> u \in MinedRows(tip)
           /\ MinedRows(k) \cup RowsAbove(k) = AllRows
<1>1. WalletTyped /\ Len(chain) =< MaxHeight /\ Len(chain) \in Nat /\ tip \in 0..Len(chain)
      /\ unmined \subseteq Tx
  BY AllRowsFacts DEF WalletHolds
<1>2. k \in 0..Len(chain) /\ k \in Nat
  BY <1>1
<1>5. ASSUME NEW u
      PROVE  u \in MinedRows(k) <=> u \in MinedRows(tip) /\ u[1] \in 1..k
  <2>1. /\ u \in MinedRows(k) <=> /\ u = <<u[1], u[2], u[3]>> /\ u[1] \in 1..k
                                  /\ u[2] \in chain[u[1]] /\ u[3] \in DOMAIN MemosOf[u[2]]
        /\ u \in MinedRows(tip) <=> /\ u = <<u[1], u[2], u[3]>> /\ u[1] \in 1..tip
                                    /\ u[2] \in chain[u[1]] /\ u[3] \in DOMAIN MemosOf[u[2]]
    BY <1>1, <1>2, MinedRowFacts
  <2>2. u[1] \in 1..k => u[1] \in 1..tip
    BY <1>1
  <2> QED BY <2>1, <2>2
<1>6. ASSUME NEW u \in AllRows
      PROVE  /\ u \in RowSet /\ u[1] \in Nat
             /\ u[1] # 0 <=> u \in MinedRows(tip)
  <2>1. u \in RowSet
    BY AllRowsFacts
  <2>2. u \in MinedRows(tip) => u[1] \in 1..tip
    BY <1>1, MinedRowFacts
  <2>3. u \in OutputsOf(0, unmined) => u[1] = 0
    BY <1>1, LooseRowFacts
  <2>4. u[1] \in Nat
    BY <2>1, RowFields
  <2> QED BY <2>1, <2>2, <2>3, <2>4 DEF AllRows
<1>8. MinedRows(k) \cup RowsAbove(k) = AllRows
  <2>1. MinedRows(k) \subseteq AllRows
    BY <1>5 DEF AllRows
  <2>2. ASSUME NEW u \in AllRows PROVE u \in MinedRows(k) \/ u \in RowsAbove(k)
    <3>1. PICK h \in Nat : h = u[1]
      BY <1>6
    <3>2. h = 0 \/ h > k \/ h \in 1..k
      BY <1>2
    <3> QED BY <1>5, <1>6, <3>1, <3>2 DEF RowsAbove
  <2> QED BY <2>1, <2>2 DEF RowsAbove
<1> QED BY <1>5, <1>6, <1>8

LEMMA SeamInOrder ==
    ASSUME WalletHolds, NEW k \in 0..tip, NEW u \in MinedRows(k), NEW w \in RowsAbove(k)
    PROVE  <<u, w>> \in InOrder
<1>1. tip \in Nat
  BY AllRowsFacts
<1>2. u \in AllRows /\ w \in AllRows /\ u[1] \in 1..k /\ (w[1] = 0 \/ w[1] > k)
  BY RowsUpTo DEF RowsAbove
<1>3. u \in RowSet /\ w \in RowSet /\ w[1] \in Nat
  BY <1>2, RowsUpTo
<1>4. PICK a \in 1..k : a = u[1]
  BY <1>2
<1>5. PICK b \in Nat : b = w[1]
  BY <1>3
<1>6. PlaceOf(u) = a /\ MaxHeight \in Nat /\ a \in 0..MaxHeight
  BY <1>3, <1>4, RowFields
<1>7. b = 0 => PlaceOf(w) = MaxHeight + 1
  BY <1>3, <1>5, RowFields
<1>8. b # 0 => PlaceOf(w) = b
  BY <1>3, <1>5, RowFields
<1>9. b = 0 \/ b > k
  BY <1>2, <1>5
<1>10. PlaceOf(u) < PlaceOf(w)
  BY <1>1, <1>4, <1>6, <1>7, <1>8, <1>9
<1>11. Before(u, w)
  BY <1>10, BeforePlaces
<1> QED BY <1>3, <1>11 DEF InOrder

LEMMA RowsSplit ==
    ASSUME WalletHolds, NEW wm, WatermarkRight(wm), NEW k, k = wm[1], k \in 0..tip,
           NEW d, Sorts(d, MinedRows(k), InOrder)
    PROVE  RowsPast(Start) = d \o RowsPast(wm)
<1>1. WatermarkRight(Start) /\ Start[1] = 0
  BY DEF WatermarkRight, Start
<1>2. Sorts(RowsPast(wm), RowsAbove(k), InOrder) /\ Sorts(RowsPast(Start), RowsAbove(0), InOrder)
  BY <1>1, RowsPastSorts
<1>3. RowsAbove(0) = AllRows
  <2>1. \A u \in AllRows : u[1] \in Nat
    BY RowsUpTo
  <2>2. \A u \in AllRows : u[1] = 0 \/ u[1] > 0
    BY <2>1
  <2> QED BY <2>2 DEF RowsAbove
<1>4. MinedRows(k) \cup RowsAbove(k) = AllRows
  BY RowsUpTo
<1>5. Sorts(d \o RowsPast(wm), MinedRows(k) \cup RowsAbove(k), InOrder)
  BY <1>2, SeamInOrder, SortsJoined
<1>6. Total(AllRows, InOrder)
  BY AllRowsFacts, RowsTotal
<1> QED BY <1>2, <1>3, <1>4, <1>5, <1>6, SortsUnique

-----------------------------------------------------------------------------
(* Folding rows.                                                           *)

MemoRow == {u \in RowSet : MemoAt(u) \in Memo}

\* What a row makes of the state before it, and whether it is a write that takes effect.
StepTo(p, u, at) ==
    IF StatusOf(u, at) = "Dropped" THEN p
    ELSE Fold(p, MemoAt(u), WriteStatus(StatusOf(u, at)))

Takes(p, u, at) == StatusOf(u, at) = "Confirmed" /\ PromotedWrite(p, MemoAt(u))

\* f holds the states of a fold: f[i] after the first i rows.
Trace(f, seed, s, at) ==
    /\ f \in [0..Len(s) -> Database]
    /\ f[0] = seed
    /\ \A i \in 1..Len(s) : f[i] = StepTo(f[i - 1], s[i], at)

TakenOf(f, s, at) == {s[i] : i \in {j \in 1..Len(s) : Takes(f[j - 1], s[j], at)}}

\* The rows of s lead from seed to out, and X are the writes among them that take effect.
Folds(seed, s, at, out, X) ==
    \E f : Trace(f, seed, s, at) /\ out = f[Len(s)] /\ X = TakenOf(f, s, at)

LEMMA StepTyped ==
    ASSUME NEW p \in Database, NEW u \in MemoRow, NEW at
    PROVE  StepTo(p, u, at) \in Database
<1>1. MemoAt(u) \in Memo
  BY DEF MemoRow
<1>2. WriteStatus(StatusOf(u, at)) \in Status
  BY DEF WriteStatus, Status
<1>3. Fold(p, MemoAt(u), WriteStatus(StatusOf(u, at))) \in Database
  BY <1>1, <1>2, FoldFacts DEF FoldStep
<1> QED BY <1>3 DEF StepTo

LEMMA TraceExists ==
    ASSUME NEW seed \in Database, NEW s \in Seq(MemoRow), NEW at
    PROVE  \E f : Trace(f, seed, s, at)
<1>1. PICK n \in Nat : n = Len(s)
  OBVIOUS
<1> DEFINE step == [z \in (1..n) \X Database |-> StepTo(z[2], s[z[1]], at)]
<1>2. ASSUME NEW i \in 1..n, NEW p \in Database
      PROVE  StepTo(p, s[i], at) \in Database
  <2>1. s[i] \in MemoRow
    BY <1>1
  <2> QED BY <2>1, StepTyped
<1>3. step \in [(1..n) \X Database -> Database]
  BY <1>2
<1>4. \A i \in 1..n : \A p \in Database : step[<<i, p>>] = StepTo(p, s[i], at)
  OBVIOUS
<1> HIDE DEF step
<1>5. PICK g : Iterates(g, n, Database, seed, step)
  BY <1>3, RecursionExists, Zenon
<1>6. ASSUME NEW i \in 1..n PROVE g[i] = StepTo(g[i - 1], s[i], at)
  <2>1. g[i] = step[<<i, g[i - 1]>>] /\ g[i - 1] \in Database
    BY <1>5 DEF Iterates
  <2> QED BY <1>4, <2>1
<1>7. Trace(g, seed, s, at)
  BY <1>1, <1>5, <1>6 DEF Trace, Iterates
<1> QED BY <1>7

LEMMA TraceUnique ==
    ASSUME NEW seed, NEW s, Len(s) \in Nat, NEW at,
           NEW f, Trace(f, seed, s, at), NEW g, Trace(g, seed, s, at)
    PROVE  f = g
<1>1. PICK n \in Nat : n = Len(s)
  OBVIOUS
<1> DEFINE P == {i \in Nat : i <= n => f[i] = g[i]}
<1>2. 0 \in P
  BY DEF Trace
<1>3. ASSUME NEW i \in Nat, i \in P PROVE i + 1 \in P
  <2> SUFFICES ASSUME i + 1 <= n PROVE f[i + 1] = g[i + 1]
    OBVIOUS
  <2>1. f[i] = g[i] /\ i + 1 \in 1..n /\ (i + 1) - 1 = i
    BY <1>3
  <2> HIDE DEF P
  <2>2. f[i + 1] = StepTo(f[i], s[i + 1], at)
    BY <1>1, <2>1 DEF Trace
  <2>3. g[i + 1] = StepTo(g[i], s[i + 1], at)
    BY <1>1, <2>1 DEF Trace
  <2> QED BY <2>1, <2>2, <2>3
<1> HIDE DEF P
<1>4. \A i \in Nat : i \in P
  BY <1>2, <1>3, NatSetInduction
<1>5. \A i \in 0..n : f[i] = g[i]
  BY <1>4 DEF P
<1>6. f \in [0..n -> Database] /\ g \in [0..n -> Database]
  BY <1>1 DEF Trace
<1> QED BY <1>5, <1>6

LEMMA FoldsUnique ==
    ASSUME NEW seed, NEW s, Len(s) \in Nat, NEW at, NEW a, NEW X, Folds(seed, s, at, a, X),
           NEW b, NEW Y, Folds(seed, s, at, b, Y)
    PROVE  a = b /\ X = Y
<1>1. PICK f : Trace(f, seed, s, at) /\ a = f[Len(s)] /\ X = TakenOf(f, s, at)
  BY DEF Folds
<1>2. PICK g : Trace(g, seed, s, at) /\ b = g[Len(s)] /\ Y = TakenOf(g, s, at)
  BY DEF Folds
<1>3. f = g
  BY <1>1, <1>2, TraceUnique
<1> QED BY <1>1, <1>2, <1>3

LEMMA FoldsNothing ==
    ASSUME NEW seed \in Database, NEW at
    PROVE  Folds(seed, << >>, at, seed, {})
<1> DEFINE f == [i \in 0..0 |-> seed]
<1>1. Len(<< >>) = 0 /\ 1..0 = {}
  OBVIOUS
<1>2. Trace(f, seed, << >>, at)
  BY <1>1 DEF Trace
<1>3. f[Len(<< >>)] = seed
  BY <1>1
<1>4. TakenOf(f, << >>, at) = {}
  BY <1>1 DEF TakenOf
<1> QED BY <1>2, <1>3, <1>4 DEF Folds

LEMMA FoldsJoined ==
    ASSUME NEW S, NEW s \in Seq(S), NEW t \in Seq(S), NEW at, NEW a, NEW b, NEW c, NEW X, NEW Y,
           Folds(a, s, at, b, X), Folds(b, t, at, c, Y)
    PROVE  Folds(a, s \o t, at, c, X \cup Y)
<1>1. PICK f : Trace(f, a, s, at) /\ b = f[Len(s)] /\ X = TakenOf(f, s, at)
  BY DEF Folds
<1>2. PICK g : Trace(g, b, t, at) /\ c = g[Len(t)] /\ Y = TakenOf(g, t, at)
  BY DEF Folds
<1>3. PICK m \in Nat, n \in Nat : m = Len(s) /\ n = Len(t)
  OBVIOUS
<1>4. PICK x : x = s \o t
  OBVIOUS
<1>5. /\ Len(x) = m + n
      /\ \A i \in 1..m : x[i] = s[i]
      /\ \A i \in 1..n : x[m + i] = t[i]
  <2>1. DOMAIN s = 1..m /\ DOMAIN t = 1..n
    BY <1>3
  <2> QED BY <1>3, <1>4, <2>1, JoinedMembers
<1>6. /\ f \in [0..m -> Database] /\ f[0] = a /\ f[m] = b
      /\ \A i \in 1..m : f[i] = StepTo(f[i - 1], s[i], at)
  BY <1>1, <1>3 DEF Trace
<1>7. /\ g \in [0..n -> Database] /\ g[0] = b /\ g[n] = c
      /\ \A i \in 1..n : g[i] = StepTo(g[i - 1], t[i], at)
  BY <1>2, <1>3 DEF Trace
<1> DEFINE h == [i \in 0..(m + n) |-> IF i <= m THEN f[i] ELSE g[i - m]]
<1>8. h \in [0..(m + n) -> Database]
  <2>1. \A i \in 0..(m + n) : (i <= m => i \in 0..m) /\ (~(i <= m) => i - m \in 0..n)
    OBVIOUS
  <2> QED BY <1>6, <1>7, <2>1
<1>9. \A i \in 0..m : h[i] = f[i]
  OBVIOUS
<1>10. ASSUME NEW i \in 0..n PROVE h[m + i] = g[i]
  <2>1. m + i \in 0..(m + n) /\ (m + i <= m <=> i = 0) /\ (m + i) - m = i
    OBVIOUS
  <2>2. CASE i = 0
    BY <1>6, <1>7, <2>1, <2>2
  <2>3. CASE i # 0
    BY <2>1, <2>3
  <2> QED BY <2>2, <2>3
<1> HIDE DEF h
<1>11. ASSUME NEW i \in 1..m
       PROVE  h[i] = f[i] /\ h[i - 1] = f[i - 1] /\ x[i] = s[i]
  <2>1. i \in 0..m /\ i - 1 \in 0..m
    OBVIOUS
  <2> QED BY <1>5, <1>9, <2>1
<1>12. ASSUME NEW i \in 1..n
       PROVE  h[m + i] = g[i] /\ h[(m + i) - 1] = g[i - 1] /\ x[m + i] = t[i]
  <2>1. i \in 0..n /\ i - 1 \in 0..n /\ (m + i) - 1 = m + (i - 1)
    OBVIOUS
  <2>2. h[m + (i - 1)] = g[i - 1]
    BY <1>10, <2>1
  <2> QED BY <1>5, <1>10, <2>1, <2>2
<1>13. ASSUME NEW j \in 1..(m + n)
       PROVE  j \in 1..m \/ (j - m \in 1..n /\ m + (j - m) = j)
  OBVIOUS
<1>14. ASSUME NEW j \in 1..(m + n)
       PROVE  h[j] = StepTo(h[j - 1], x[j], at)
  <2>1. CASE j \in 1..m
    BY <1>6, <1>11, <2>1
  <2>2. CASE j - m \in 1..n /\ m + (j - m) = j
    BY <1>7, <1>12, <2>2
  <2> QED BY <1>13, <2>1, <2>2
<1>15. Trace(h, a, x, at)
  <2>1. h[0] = a
    <3>1. 0 \in 0..m
      OBVIOUS
    <3> QED BY <1>6, <1>9, <3>1
  <2> QED BY <1>5, <1>8, <1>14, <2>1 DEF Trace
<1>16. h[m + n] = c
  <2>1. n \in 0..n
    OBVIOUS
  <2> QED BY <1>7, <1>10, <2>1
<1>17. TakenOf(h, x, at) = X \cup Y
  <2>1. X = {s[i] : i \in {j \in 1..m : Takes(f[j - 1], s[j], at)}}
    BY <1>1, <1>3 DEF TakenOf
  <2>2. Y = {t[i] : i \in {j \in 1..n : Takes(g[j - 1], t[j], at)}}
    BY <1>2, <1>3 DEF TakenOf
  <2>3. TakenOf(h, x, at) = {x[i] : i \in {j \in 1..(m + n) : Takes(h[j - 1], x[j], at)}}
    BY <1>5 DEF TakenOf
  <2>4. ASSUME NEW i \in 1..m, Takes(f[i - 1], s[i], at) PROVE s[i] \in TakenOf(h, x, at)
    <3>1. i \in 1..(m + n) /\ x[i] = s[i] /\ Takes(h[i - 1], x[i], at)
      BY <1>11, <2>4
    <3> QED BY <2>3, <3>1
  <2>5. ASSUME NEW i \in 1..n, Takes(g[i - 1], t[i], at) PROVE t[i] \in TakenOf(h, x, at)
    <3>1. m + i \in 1..(m + n)
      OBVIOUS
    <3>2. x[m + i] = t[i] /\ Takes(h[(m + i) - 1], x[m + i], at)
      BY <1>12, <2>5
    <3> QED BY <2>3, <3>1, <3>2
  <2>6. ASSUME NEW j \in 1..(m + n), Takes(h[j - 1], x[j], at) PROVE x[j] \in X \cup Y
    <3>1. CASE j \in 1..m
      <4>1. x[j] = s[j] /\ Takes(f[j - 1], s[j], at)
        BY <1>11, <2>6, <3>1
      <4> QED BY <2>1, <3>1, <4>1
    <3>2. CASE j - m \in 1..n /\ m + (j - m) = j
      <4>1. x[j] = t[j - m] /\ Takes(g[(j - m) - 1], t[j - m], at)
        BY <1>12, <2>6, <3>2
      <4> QED BY <2>2, <3>2, <4>1
    <3> QED BY <1>13, <3>1, <3>2
  <2> QED BY <2>1, <2>2, <2>3, <2>4, <2>5, <2>6
<1> QED BY <1>4, <1>5, <1>15, <1>16, <1>17 DEF Folds

AllConfirmed(s, at) == \A i \in 1..Len(s) : StatusOf(s[i], at) = "Confirmed"

\* Rows that are confirmed either way fold alike.
LEMMA FoldsAlike ==
    ASSUME NEW seed, NEW s, NEW a, NEW b, AllConfirmed(s, a), AllConfirmed(s, b),
           NEW out, NEW X, Folds(seed, s, a, out, X)
    PROVE  Folds(seed, s, b, out, X)
<1>1. PICK f : Trace(f, seed, s, a) /\ out = f[Len(s)] /\ X = TakenOf(f, s, a)
  BY DEF Folds
<1>2. \A i \in 1..Len(s) : \A p : /\ StepTo(p, s[i], a) = StepTo(p, s[i], b)
                                  /\ Takes(p, s[i], a) <=> Takes(p, s[i], b)
  BY DEF AllConfirmed, StepTo, Takes
<1>3. Trace(f, seed, s, b)
  BY <1>1, <1>2 DEF Trace
<1>4. TakenOf(f, s, b) = TakenOf(f, s, a)
  BY <1>2 DEF TakenOf
<1> QED BY <1>1, <1>3, <1>4 DEF Folds

LEMMA TraceKeepsShape ==
    ASSUME NEW seed \in Database, ConfirmedOnly(seed), NEW s \in Seq(MemoRow), NEW at,
           AllConfirmed(s, at), NEW f, Trace(f, seed, s, at)
    PROVE  f[Len(s)] \in Database /\ ConfirmedOnly(f[Len(s)])
<1>1. PICK n \in Nat : n = Len(s)
  OBVIOUS
<1> DEFINE P == {i \in Nat : i <= n => f[i] \in Database /\ ConfirmedOnly(f[i])}
<1>2. 0 \in P
  BY DEF Trace
<1>3. ASSUME NEW i \in Nat, i \in P PROVE i + 1 \in P
  <2> SUFFICES ASSUME i + 1 <= n PROVE f[i + 1] \in Database /\ ConfirmedOnly(f[i + 1])
    OBVIOUS
  <2>1. f[i] \in Database /\ ConfirmedOnly(f[i]) /\ i + 1 \in 1..n /\ (i + 1) - 1 = i
    BY <1>3
  <2> HIDE DEF P
  <2>2. f[i + 1] = StepTo(f[i], s[i + 1], at)
    BY <1>1, <2>1 DEF Trace
  <2>3. s[i + 1] \in MemoRow
    BY <1>1, <2>1
  <2>4. MemoAt(s[i + 1]) \in Memo
    BY <2>3 DEF MemoRow
  <2>5. StatusOf(s[i + 1], at) = "Confirmed"
    BY <1>1, <2>1 DEF AllConfirmed
  <2>6. f[i + 1] = Fold(f[i], MemoAt(s[i + 1]), "Confirmed")
    BY <2>2, <2>5 DEF StepTo, WriteStatus
  <2>7. ConfirmedOnly(f[i + 1])
    BY <2>1, <2>4, <2>6, ConfirmedFold
  <2>8. f[i + 1] \in Database
    BY <2>1, <2>2, <2>3, StepTyped
  <2> QED BY <2>7, <2>8
<1> HIDE DEF P
<1>4. \A i \in Nat : i \in P
  BY <1>2, <1>3, NatSetInduction
<1> QED BY <1>1, <1>4 DEF P

LEMMA FoldsKeepShape ==
    ASSUME NEW seed \in Database, ConfirmedOnly(seed), NEW s \in Seq(MemoRow), NEW at,
           AllConfirmed(s, at), NEW out, NEW X, Folds(seed, s, at, out, X)
    PROVE  out \in Database /\ ConfirmedOnly(out)
<1>1. PICK f : Trace(f, seed, s, at) /\ out = f[Len(s)] /\ X = TakenOf(f, s, at)
  BY DEF Folds
<1> QED BY <1>1, TraceKeepsShape

\* The writes that take effect are rows of the sequence.
LEMMA TakenMembers ==
    ASSUME NEW S, NEW R, NEW s, Sorts(s, S, R), NEW seed, NEW at, NEW out, NEW X,
           Folds(seed, s, at, out, X)
    PROVE  X \subseteq S
<1>1. PICK f : X = TakenOf(f, s, at)
  BY DEF Folds
<1>2. \A i \in 1..Len(s) : s[i] \in S
  BY DEF Sorts
<1> QED BY <1>1, <1>2 DEF TakenOf

\* Deep rows are confirmed, at the tip and in the end.
Settled == MaxHeight + MinConfs

LEMMA ConfirmedWhenDeep ==
    ASSUME NEW u \in RowSet, u[1] # 0, NEW at \in Nat,
           at >= u[1] + SafeDepth \/ at = Settled
    PROVE  StatusOf(u, at) = "Confirmed"
<1>1. PICK h \in 0..MaxHeight : h = u[1]
  BY RowFields
<1>2. h # 0 /\ MaxHeight \in Nat /\ MinConfs \in Nat /\ SafeDepth \in Nat /\ MinConfs =< SafeDepth + 1
  BY <1>1, HistoryDepthAssumption, HistoryBoundsAssumption
<1>3. at >= h /\ at - h + 1 >= MinConfs
  BY <1>1, <1>2 DEF Settled
<1>4. Confirmations(u, at) = at - h + 1
  BY <1>1, <1>2, <1>3 DEF Confirmations, Minus
<1>5. effective_min_confs(MemoAt(u)) \in Nat /\ effective_min_confs(MemoAt(u)) =< MinConfs
  BY <1>2 DEF effective_min_confs, LowerOf
<1>6. Confirmations(u, at) >= effective_min_confs(MemoAt(u))
  BY <1>1, <1>2, <1>3, <1>4, <1>5
<1> QED BY <1>6 DEF StatusOf

-----------------------------------------------------------------------------
(* The two folds of the model, by their traces.                            *)

\* The list of all the states so far, grown by one at each row.
PastOf(g, n) == [i \in 0..n |-> [j \in 1..(i + 1) |-> g[j - 1]]]

LEMMA PastOfFacts ==
    ASSUME NEW n \in Nat, NEW D, NEW g \in [0..n -> D]
    PROVE  /\ PastOf(g, n)[0] = <<g[0]>>
           /\ \A i \in 1..n : PastOf(g, n)[i] = Append(PastOf(g, n)[i - 1], g[i])
           /\ \A i \in 0..n : \A j \in 1..(i + 1) : PastOf(g, n)[i][j] = g[j - 1]
           /\ PastOf(g, n) = [i \in 0..n |-> PastOf(g, n)[i]]
<1> DEFINE row(i) == [j \in 1..(i + 1) |-> g[j - 1]]
           x == PastOf(g, n)
<1>1. x = [i \in 0..n |-> row(i)]
  BY DEF PastOf
<1> HIDE DEF x
<1>2. ASSUME NEW i \in 0..n
      PROVE  row(i) \in [1..(i + 1) -> D] /\ row(i) \in Seq(D) /\ Len(row(i)) = i + 1
  <2>1. \A j \in 1..(i + 1) : j - 1 \in 0..n
    OBVIOUS
  <2>2. row(i) \in [1..(i + 1) -> D] /\ i + 1 \in Nat
    BY <2>1
  <2> HIDE DEF row
  <2> QED BY <2>2, FunctionIsSequence
<1>3. x[0] = <<g[0]>>
  <2>1. row(0) \in Seq(D) /\ Len(row(0)) = 1 /\ row(0)[1] = g[0]
    BY <1>2
  <2> HIDE DEF row
  <2> QED BY <1>1, <2>1
<1>4. ASSUME NEW i \in 1..n PROVE x[i] = Append(x[i - 1], g[i])
  <2>1. i - 1 \in 0..n /\ i \in 0..n /\ (i - 1) + 1 = i /\ g[i] \in D
    OBVIOUS
  <2>2. /\ row(i) \in Seq(D) /\ Len(row(i)) = i + 1
        /\ row(i - 1) \in Seq(D) /\ Len(row(i - 1)) = i
    BY <1>2, <2>1
  <2>3. row(i)[i + 1] = g[i]
    OBVIOUS
  <2>4. \A j \in 1..i : row(i)[j] = row(i - 1)[j]
    BY <2>1
  <2> DEFINE r == row(i)
             q == row(i - 1)
  <2>5. x[i] = r /\ x[i - 1] = q
    BY <1>1, <2>1
  <2>6. /\ r \in Seq(D) /\ Len(r) = i + 1 /\ q \in Seq(D) /\ Len(q) = i
        /\ r[i + 1] = g[i] /\ \A j \in 1..i : r[j] = q[j]
    BY <2>2, <2>3, <2>4
  <2> HIDE DEF r, q, row
  <2>7. r = Append(q, g[i])
    <3>1. /\ Append(q, g[i]) \in Seq(D) /\ Len(Append(q, g[i])) = i + 1
          /\ \A j \in 1..i : Append(q, g[i])[j] = q[j]
          /\ Append(q, g[i])[i + 1] = g[i]
      BY <2>1, <2>6, AppendFacts
    <3>2. PICK a : a = Append(q, g[i])
      OBVIOUS
    <3>3. \A j \in 1..(i + 1) : j \in 1..i \/ j = i + 1
      OBVIOUS
    <3>4. \A j \in 1..(i + 1) : a[j] = r[j]
      BY <2>6, <3>1, <3>2, <3>3
    <3>5. a \in [1..(i + 1) -> D] /\ r \in [1..(i + 1) -> D]
      BY <2>6, <3>1, <3>2
    <3> QED BY <3>2, <3>4, <3>5
  <2> QED BY <2>5, <2>7
<1>5. \A i \in 0..n : \A j \in 1..(i + 1) : x[i][j] = g[j - 1]
  BY <1>1
<1>6. x = [i \in 0..n |-> x[i]]
  <2> HIDE DEF row
  <2> QED BY <1>1
<1> QED BY <1>3, <1>4, <1>5, <1>6 DEF x

LEMMA PastUnique ==
    ASSUME NEW n \in Nat, NEW g, NEW f, f[0] = PastOf(g, n)[0],
           \A i \in 1..n : f[i - 1] = PastOf(g, n)[i - 1] => f[i] = PastOf(g, n)[i]
    PROVE  f[n] = PastOf(g, n)[n]
<1> DEFINE x == PastOf(g, n)
           P == {i \in Nat : i <= n => f[i] = x[i]}
<1> HIDE DEF x
<1>1. 0 \in P
  BY DEF x
<1>2. ASSUME NEW i \in Nat, i \in P PROVE i + 1 \in P
  <2> SUFFICES ASSUME i + 1 <= n PROVE f[i + 1] = x[i + 1]
    OBVIOUS
  <2>1. f[i] = x[i] /\ i + 1 \in 1..n /\ (i + 1) - 1 = i
    BY <1>2
  <2> HIDE DEF P
  <2> QED BY <2>1 DEF x
<1> HIDE DEF P
<1>3. \A i \in Nat : i \in P
  BY <1>1, <1>2, NatSetInduction
<1> QED BY <1>3 DEF P, x

\* The writes of the rows, with the verdict of their own position.
Entries(g, rows, at) ==
    [n \in 1..Len(rows) |->
        [at |-> rows[n], out |-> rows[n][3], status |-> StatusOf(rows[n], at),
         ok |-> outcome(g[n - 1], MemoAt(rows[n]), WriteStatus(StatusOf(rows[n], at)))
                    \in {"Applied", "Pending"}]]

Listed(e) == {x \in Range(e) : x.status # "Dropped" /\ InWriteLog(MemoAt(x.at).op)}

LEMMA HistoryTrace ==
    ASSUME NEW seed \in Database, NEW rows \in Seq(MemoRow), NEW at, NEW g,
           Trace(g, seed, rows, at)
    PROVE  FoldHistory(seed, rows, at).list
               = Kept(Entries(g, rows, at), Listed(Entries(g, rows, at)))
<1> DEFINE n == Len(rows)
           status(i) == StatusOf(rows[i], at)
           Loop(x) ==
               x = [i \in 0..Len(rows) |->
                       IF i = 0 THEN <<seed>>
                       ELSE LET p == x[i - 1]
                            IN  Append(p, IF status(i) = "Dropped" THEN p[i]
                                          ELSE Fold(p[i], MemoAt(rows[i]), WriteStatus(status(i))))]
           f == CHOOSE x : Loop(x)
           last == f[Len(rows)]
           entries == [i \in 1..Len(rows) |->
                          [at |-> rows[i], out |-> rows[i][3], status |-> status(i),
                           ok |-> outcome(last[i], MemoAt(rows[i]), WriteStatus(status(i)))
                                      \in {"Applied", "Pending"}]]
<1>1. FoldHistory(seed, rows, at).list
          = Kept(entries, {e \in Range(entries) : e.status # "Dropped" /\ InWriteLog(MemoAt(e.at).op)})
  BY Zenon DEF FoldHistory
<1>n. n \in Nat
  OBVIOUS
<1> DEFINE Steps(x) == x = [i \in 0..n |-> IF i = 0 THEN <<seed>>
                                           ELSE Append(x[i - 1], StepTo(x[i - 1][i], rows[i], at))]
<1>2. ASSUME NEW x PROVE Loop(x) <=> Steps(x)
  BY DEF StepTo
<1> DEFINE past == PastOf(g, n)
<1>3. g \in [0..n -> Database] /\ g[0] = seed /\ \A i \in 1..n : g[i] = StepTo(g[i - 1], rows[i], at)
  BY DEF Trace
<1> HIDE DEF n, past
<1>4. /\ past[0] = <<g[0]>>
      /\ \A i \in 1..n : past[i] = Append(past[i - 1], g[i])
      /\ \A i \in 0..n : \A j \in 1..(i + 1) : past[i][j] = g[j - 1]
      /\ past = [i \in 0..n |-> past[i]]
  BY <1>n, <1>3, PastOfFacts DEF past
<1>5. ASSUME NEW i \in 1..n
      PROVE  past[i] = Append(past[i - 1], StepTo(past[i - 1][i], rows[i], at))
  <2>1. i - 1 \in 0..n /\ i \in 1..((i - 1) + 1)
    BY <1>n
  <2>2. past[i - 1][i] = g[i - 1]
    BY <1>4, <2>1
  <2> QED BY <1>3, <1>4, <2>2
<1>6. Loop(past)
  <2>1. ASSUME NEW i \in 0..n
        PROVE  past[i] = IF i = 0 THEN <<seed>> ELSE Append(past[i - 1], StepTo(past[i - 1][i], rows[i], at))
    <3>1. CASE i = 0
      BY <1>3, <1>4, <3>1
    <3>2. CASE i # 0
      <4>1. i \in 1..n
        BY <3>2
      <4> QED BY <1>5, <3>2, <4>1
    <3> QED BY <3>1, <3>2
  <2>2. Steps(past)
    BY <1>4, <2>1
  <2> HIDE DEF Loop, Steps
  <2> QED BY <1>2, <2>2
<1>7. Loop(f)
  <2> HIDE DEF Loop
  <2> QED BY <1>6, Zenon
<1>8. Steps(f)
  <2> HIDE DEF Loop, Steps, f
  <2> QED BY <1>2, <1>7
<1> HIDE DEF Loop, f
<1>9. last = past[n]
  <2>1. f[0] = past[0]
    BY <1>3, <1>4, <1>8, <1>n
  <2>2. ASSUME NEW i \in 1..n, f[i - 1] = past[i - 1] PROVE f[i] = past[i]
    <3>1. i \in 0..n /\ i # 0
      OBVIOUS
    <3>2. f[i] = Append(f[i - 1], StepTo(f[i - 1][i], rows[i], at))
      BY <1>8, <3>1
    <3> QED BY <1>5, <2>2, <3>2
  <2>3. f[n] = past[n]
    BY <1>n, <2>1, <2>2, PastUnique DEF past
  <2> QED BY <2>3 DEF n
<1>10. ASSUME NEW i \in 1..n PROVE last[i] = g[i - 1]
  <2>1. n \in 0..n /\ i \in 1..(n + 1)
    BY <1>n
  <2> QED BY <1>4, <1>9, <2>1
<1> HIDE DEF last
<1>11. entries = Entries(g, rows, at)
  BY <1>10 DEF Entries, n
<1> HIDE DEF entries
<1> QED BY <1>1, <1>11 DEF Listed

LEMMA PromotedTrace ==
    ASSUME NEW s, s.db \in Database, NEW rows \in Seq(MemoRow), NEW at, AllConfirmed(rows, at),
           NEW g, Trace(g, s.db, rows, at)
    PROVE  Promoted(s, rows) =
               IF rows = << >> \/ g[Len(rows)].init = "Uninitialized" THEN s
               ELSE [wm |-> rows[Len(rows)], db |-> g[Len(rows)],
                     hist |-> s.hist \o Kept(rows, TakenOf(g, rows, at))]
<1> DEFINE n == Len(rows)
           Loop(x) ==
               x = [i \in 0..Len(rows) |->
                       IF i = 0 THEN <<s.db>>
                       ELSE LET p == x[i - 1]
                            IN  Append(p, Fold(p[i], MemoAt(rows[i]), "Confirmed"))]
           f == CHOOSE x : Loop(x)
           last == f[Len(rows)]
           promoted == {i \in 1..Len(rows) : PromotedWrite(last[i], MemoAt(rows[i]))}
<1>1. Promoted(s, rows) =
          IF rows = << >> \/ last[Len(rows) + 1].init = "Uninitialized" THEN s
          ELSE [wm |-> rows[Len(rows)], db |-> last[Len(rows) + 1],
                hist |-> s.hist \o Kept(rows, {rows[i] : i \in promoted})]
  BY Zenon DEF Promoted
<1>n. n \in Nat
  OBVIOUS
<1> DEFINE Steps(x) == x = [i \in 0..n |-> IF i = 0 THEN <<s.db>>
                                           ELSE Append(x[i - 1], StepTo(x[i - 1][i], rows[i], at))]
<1>s. ASSUME NEW i \in 1..n, NEW p
      PROVE  StepTo(p, rows[i], at) = Fold(p, MemoAt(rows[i]), "Confirmed")
  BY DEF StepTo, AllConfirmed, WriteStatus
<1>2. ASSUME NEW x PROVE Loop(x) <=> Steps(x)
  <2> DEFINE A(i) == IF i = 0 THEN <<s.db>>
                     ELSE Append(x[i - 1], Fold(x[i - 1][i], MemoAt(rows[i]), "Confirmed"))
             B(i) == IF i = 0 THEN <<s.db>>
                     ELSE Append(x[i - 1], StepTo(x[i - 1][i], rows[i], at))
  <2>1. ASSUME NEW i \in 0..n PROVE A(i) = B(i)
    <3>1. i # 0 => i \in 1..n
      OBVIOUS
    <3> QED BY <1>s, <3>1
  <2>2. Loop(x) <=> x = [i \in 0..n |-> A(i)]
    OBVIOUS
  <2>3. Steps(x) <=> x = [i \in 0..n |-> B(i)]
    OBVIOUS
  <2> HIDE DEF A, B, Loop, Steps, n
  <2> QED BY <2>1, <2>2, <2>3
<1> DEFINE past == PastOf(g, n)
<1>3. g \in [0..n -> Database] /\ g[0] = s.db /\ \A i \in 1..n : g[i] = StepTo(g[i - 1], rows[i], at)
  BY DEF Trace
<1> HIDE DEF n, past
<1>4. /\ past[0] = <<g[0]>>
      /\ \A i \in 1..n : past[i] = Append(past[i - 1], g[i])
      /\ \A i \in 0..n : \A j \in 1..(i + 1) : past[i][j] = g[j - 1]
      /\ past = [i \in 0..n |-> past[i]]
  BY <1>n, <1>3, PastOfFacts DEF past
<1>5. ASSUME NEW i \in 1..n
      PROVE  past[i] = Append(past[i - 1], StepTo(past[i - 1][i], rows[i], at))
  <2>1. i - 1 \in 0..n /\ i \in 1..((i - 1) + 1)
    BY <1>n
  <2>2. past[i - 1][i] = g[i - 1]
    BY <1>4, <2>1
  <2> QED BY <1>3, <1>4, <2>2
<1>6. Loop(past)
  <2>1. ASSUME NEW i \in 0..n
        PROVE  past[i] = IF i = 0 THEN <<s.db>> ELSE Append(past[i - 1], StepTo(past[i - 1][i], rows[i], at))
    <3>1. CASE i = 0
      BY <1>3, <1>4, <3>1
    <3>2. CASE i # 0
      <4>1. i \in 1..n
        BY <3>2
      <4> QED BY <1>5, <3>2, <4>1
    <3> QED BY <3>1, <3>2
  <2>2. Steps(past)
    BY <1>4, <2>1
  <2> HIDE DEF Loop, Steps
  <2> QED BY <1>2, <2>2
<1>7. Loop(f)
  <2> HIDE DEF Loop
  <2> QED BY <1>6, Zenon
<1>8. Steps(f)
  <2> HIDE DEF Loop, Steps, f
  <2> QED BY <1>2, <1>7
<1> HIDE DEF Loop, f
<1>9. last = past[n]
  <2>1. f[0] = past[0]
    BY <1>3, <1>4, <1>8, <1>n
  <2>2. ASSUME NEW i \in 1..n, f[i - 1] = past[i - 1] PROVE f[i] = past[i]
    <3>1. i \in 0..n /\ i # 0
      OBVIOUS
    <3>2. f[i] = Append(f[i - 1], StepTo(f[i - 1][i], rows[i], at))
      BY <1>8, <3>1
    <3> QED BY <1>5, <2>2, <3>2
  <2>3. f[n] = past[n]
    BY <1>n, <2>1, <2>2, PastUnique DEF past
  <2> QED BY <2>3 DEF n
<1>10. ASSUME NEW i \in 1..(n + 1) PROVE last[i] = g[i - 1]
  <2>1. n \in 0..n
    BY <1>n
  <2> QED BY <1>4, <1>9, <2>1
<1> HIDE DEF last
<1>11. last[Len(rows) + 1] = g[Len(rows)]
  <2>1. n + 1 \in 1..(n + 1) /\ (n + 1) - 1 = n
    BY <1>n
  <2>2. last[n + 1] = g[n]
    BY <1>10, <2>1
  <2> QED BY <2>2 DEF n
<1>12. {rows[i] : i \in promoted} = TakenOf(g, rows, at)
  <2>1. ASSUME NEW i \in 1..n PROVE PromotedWrite(last[i], MemoAt(rows[i])) <=> Takes(g[i - 1], rows[i], at)
    <3>1. i \in 1..(n + 1)
      BY <1>n
    <3>2. StatusOf(rows[i], at) = "Confirmed"
      BY DEF AllConfirmed, n
    <3> QED BY <1>10, <3>1, <3>2 DEF Takes
  <2>2. promoted = {j \in 1..Len(rows) : Takes(g[j - 1], rows[j], at)}
    BY <2>1 DEF n
  <2> HIDE DEF promoted
  <2> QED BY <2>2 DEF TakenOf
<1> HIDE DEF promoted
<1> QED BY <1>1, <1>11, <1>12

-----------------------------------------------------------------------------
(* The snapshot holds what replay makes of the rows up to its watermark.   *)

\* d lists the rows up to the watermark, X are the writes among them that take effect.
SnapHolds(s, d, X) ==
    /\ Sorts(d, MinedRows(s.wm[1]), InOrder)
    /\ Folds(EmptyDatabase, d, Settled, s.db, X)
    /\ Sorts(s.hist, X, InOrder)

SnapRight(s) ==
    /\ WatermarkRight(s.wm) /\ s.wm[1] \in 0..Len(chain)
    /\ s.db \in Database /\ ConfirmedOnly(s.db)
    /\ \E d, X : SnapHolds(s, d, X)

LEMMA FreshIsRight ==
    ASSUME WalletHolds
    PROVE  SnapRight(FreshSnapshot)
<1> DEFINE s == FreshSnapshot
<1>1. s.wm = Start /\ s.wm[1] = 0 /\ s.db = EmptyDatabase /\ s.hist = << >>
  BY DEF FreshSnapshot, Start
<1> HIDE DEF s
<1>2. Len(chain) \in Nat
  BY AllRowsFacts
<1>3. MinedRows(0) = {}
  <2>1. 1..0 = {}
    OBVIOUS
  <2> QED BY <2>1 DEF MinedRows
<1>4. Sorts(<< >>, MinedRows(0), InOrder) /\ Sorts(<< >>, {}, InOrder)
  BY <1>3, SortsNothing
<1>5. Folds(EmptyDatabase, << >>, Settled, EmptyDatabase, {})
  BY EmptyIsDatabase, FoldsNothing
<1>6. SnapHolds(s, << >>, {})
  BY <1>1, <1>4, <1>5 DEF SnapHolds
<1>7. WatermarkRight(s.wm)
  BY <1>1 DEF WatermarkRight
<1> QED BY <1>1, <1>2, <1>6, <1>7, EmptyIsDatabase DEF SnapRight, s

LEMMA FreshEnoughIsRight ==
    ASSUME WalletHolds, NEW s, SnapRight(s), tip = 0 => s.wm = Start
    PROVE  /\ SnapRight(FreshEnough(s)) /\ FreshEnough(s).wm[1] \in 0..tip
           /\ tip = 0 => FreshEnough(s).wm = Start
<1>1. tip \in Nat /\ s.wm[1] \in Nat
  BY AllRowsFacts DEF SnapRight
<1>2. FreshSnapshot.wm = Start /\ Start[1] = 0
  BY DEF FreshSnapshot, Start
<1>3. CASE tip # 0 /\ tip < s.wm[1]
  <2>1. FreshEnough(s) = FreshSnapshot
    BY <1>3 DEF FreshEnough
  <2> QED BY <1>1, <1>2, <2>1, FreshIsRight
<1>4. CASE ~(tip # 0 /\ tip < s.wm[1])
  <2>1. FreshEnough(s) = s
    BY <1>4 DEF FreshEnough
  <2>2. s.wm[1] \in 0..tip
    BY <1>1, <1>2, <1>4
  <2> QED BY <2>1, <2>2
<1> QED BY <1>3, <1>4

\* The rows a load promotes: those of the blocks above k that are deep enough.
LEMMA PromotedRows ==
    ASSUME WalletHolds, NEW k \in 0..tip, NEW rows, Sorts(rows, RowsAbove(k), InOrder),
           NEW top, top \in 0..tip, NEW kept, NEW B,
           kept = Kept(rows, {u \in Range(rows) : u[1] \in 1..top}),
           B = {u \in RowsAbove(k) : u[1] \in 1..top}
    PROVE  /\ Sorts(kept, B, InOrder) /\ kept \in Seq(MemoRow)
           /\ \A u \in B : /\ u \in MinedRows(tip) /\ u \in RowSet
                           /\ u[1] \in 1..top /\ u[1] > k
           /\ AllConfirmed(kept, Settled)
<1>1. Range(rows) = RowsAbove(k)
  <2>1. \A u \in RowsAbove(k) : \E i \in DOMAIN rows : rows[i] = u
    BY DEF Sorts
  <2>2. \A i \in DOMAIN rows : rows[i] \in RowsAbove(k)
    BY DEF Sorts
  <2> QED BY <2>1, <2>2 DEF Range
<1>2. kept = Kept(rows, B) /\ RowsAbove(k) \cap B = B
  BY <1>1
<1>3. Sorts(kept, B, InOrder)
  BY <1>2, SortsKept
<1>4. ASSUME NEW u \in B
      PROVE  /\ u \in MinedRows(tip) /\ u \in RowSet /\ u \in MemoRow
             /\ u[1] \in 1..top /\ u[1] > k /\ u[1] # 0
  <2>1. u \in AllRows /\ u[1] \in 1..top /\ (u[1] = 0 \/ u[1] > k)
    BY DEF RowsAbove
  <2>2. u \in RowSet /\ u \in MinedRows(tip) /\ u[1] > k /\ u[1] # 0
    BY <2>1, RowsUpTo
  <2>3. MemoAt(u) \in Memo
    BY <2>1, AllRowsFacts
  <2> QED BY <2>1, <2>2, <2>3 DEF MemoRow
<1>5. kept \in Seq(MemoRow)
  <2>1. kept \in Seq(B)
    BY <1>3 DEF Sorts
  <2>2. B \subseteq MemoRow
    BY <1>4
  <2> QED BY <2>1, <2>2, SequenceOfMore
<1>6. AllConfirmed(kept, Settled)
  <2> SUFFICES ASSUME NEW i \in 1..Len(kept) PROVE StatusOf(kept[i], Settled) = "Confirmed"
    BY DEF AllConfirmed
  <2>1. kept[i] \in B
    BY <1>3 DEF Sorts
  <2>2. PICK u : u = kept[i]
    OBVIOUS
  <2>3. u \in RowSet /\ u[1] # 0
    BY <1>4, <2>1, <2>2
  <2>4. Settled \in Nat
    BY HistoryDepthAssumption, HistoryBoundsAssumption DEF Settled
  <2> QED BY <2>2, <2>3, <2>4, ConfirmedWhenDeep
<1> QED BY <1>3, <1>4, <1>5, <1>6

\* Promoting completes blocks: up to the new watermark, the rows are those below the old one
\* and those just promoted.
LEMMA PromotedBlocks ==
    ASSUME WalletHolds, NEW k \in 0..tip, NEW top \in 0..tip, NEW kept, NEW B,
           B = {u \in RowsAbove(k) : u[1] \in 1..top}, Sorts(kept, B, InOrder), kept # << >>,
           \A u \in B : /\ u \in MinedRows(tip) /\ u \in RowSet
                        /\ u[1] \in 1..top /\ u[1] > k,
           NEW w, w = kept[Len(kept)]
    PROVE  /\ w \in B /\ w[1] \in 1..top
           /\ WatermarkRight(w) /\ MinedRows(w[1]) = MinedRows(k) \cup B
<1>0. WalletTyped /\ Len(chain) =< MaxHeight /\ Len(chain) \in Nat /\ tip \in 0..Len(chain)
  BY AllRowsFacts DEF WalletHolds
<1>1. PICK n \in Nat : n = Len(kept) /\ DOMAIN kept = 1..n /\ kept \in Seq(B)
  BY DEF Sorts
<1>2. n # 0
  BY <1>1
<1>3. w \in B /\ n \in 1..n
  BY <1>1, <1>2
<1>4. PICK m \in 1..top : m = w[1]
  BY <1>3
<1>5. w \in RowSet /\ m > k /\ w \in MinedRows(tip)
  BY <1>3, <1>4
<1>6. m \in 0..tip /\ m \in 0..Len(chain) /\ m # 0 /\ top =< tip
  BY <1>0, <1>4
<1>7. PlaceOf(w) = m /\ MaxHeight \in Nat
  BY <1>4, <1>5, <1>6, RowFields
<1>8. ASSUME NEW u \in B PROVE ~Before(w, u) /\ u[1] \in 1..m
  <2>1. PICK i \in 1..n : kept[i] = u
    BY <1>1 DEF Sorts
  <2>2. u = w \/ <<u, w>> \in InOrder
    <3>1. CASE i = n
      BY <1>1, <2>1, <3>1
    <3>2. CASE i # n
      <4>1. i < n
        BY <3>2
      <4> QED BY <1>1, <1>3, <2>1, <4>1 DEF Sorts
    <3> QED BY <3>1, <3>2
  <2>3. B \subseteq RowSet /\ Total(B, InOrder)
    BY RowsTotal
  <2>4. <<w, u>> \notin InOrder
    BY <1>3, <2>2, <2>3 DEF Total
  <2>5. ~Before(w, u)
    BY <1>3, <2>3, <2>4 DEF InOrder
  <2>6. PICK h \in 1..top : h = u[1]
    OBVIOUS
  <2>7. u \in RowSet
    OBVIOUS
  <2>8. PlaceOf(u) = h
    BY <1>0, <2>6, <2>7, RowFields
  <2>9. ~(m < h)
    BY <1>7, <2>5, <2>8, BeforePlaces
  <2> QED BY <2>5, <2>6, <2>9
<1>9. ASSUME NEW u
      PROVE  u \in MinedRows(m) <=> u \in MinedRows(k) \/ u \in B
  <2>1. u \in MinedRows(m) <=> u \in MinedRows(tip) /\ u[1] \in 1..m
    BY <1>6, RowsUpTo
  <2>2. u \in MinedRows(k) <=> u \in MinedRows(tip) /\ u[1] \in 1..k
    BY RowsUpTo
  <2>3. u[1] \in 1..m => u[1] \in 1..k \/ (u[1] > k /\ u[1] \in 1..top)
    BY <1>4
  <2>4. u[1] \in 1..k => u[1] \in 1..m
    BY <1>5
  <2>5. u \in MinedRows(tip) => u \in AllRows
    BY DEF AllRows
  <2>6. u \in MinedRows(m) => u \in MinedRows(k) \/ u \in B
    BY <2>1, <2>2, <2>3, <2>5 DEF RowsAbove
  <2>7. u \in B => u \in MinedRows(m)
    BY <1>8, <2>1
  <2> QED BY <2>1, <2>2, <2>4, <2>6, <2>7
<1>10. MinedRows(m) = MinedRows(k) \cup B
  BY <1>9
<1>11. ASSUME NEW u \in MinedRows(m) PROVE ~Before(w, u)
  <2>1. CASE u \in B
    BY <1>8, <2>1
  <2>2. CASE u \in MinedRows(k)
    <3>1. w \in RowsAbove(k)
      BY <1>3
    <3>2. <<u, w>> \in InOrder
      BY <2>2, <3>1, SeamInOrder
    <3>3. u \in RowSet /\ w \in RowSet /\ Before(u, w)
      BY <3>2 DEF InOrder
    <3>4. Total({u, w}, InOrder)
      BY <3>3, RowsTotal
    <3>5. <<w, u>> \notin InOrder
      BY <3>2, <3>4 DEF Total
    <3> QED BY <3>3, <3>5 DEF InOrder
  <2> QED BY <1>9, <2>1, <2>2
<1>12. w \in MinedRows(Len(chain))
  <2>1. /\ w = <<w[1], w[2], w[3]>> /\ w[1] \in 1..tip
        /\ w[2] \in chain[w[1]] /\ w[3] \in DOMAIN MemosOf[w[2]]
    BY <1>0, <1>5, MinedRowFacts
  <2>2. w[1] \in 1..Len(chain) /\ Len(chain) \in 0..Len(chain)
    BY <1>0, <2>1
  <2> QED BY <1>0, <2>1, <2>2, MinedRowFacts
<1>13. WatermarkRight(w)
  BY <1>4, <1>11, <1>12 DEF WatermarkRight
<1> QED BY <1>3, <1>4, <1>10, <1>13

LEMMA MinedAreMemoRows ==
    ASSUME WalletHolds, NEW top \in 0..Len(chain), NEW d, Sorts(d, MinedRows(top), InOrder)
    PROVE  d \in Seq(MemoRow) /\ AllConfirmed(d, Settled)
<1>1. WalletTyped /\ Len(chain) =< MaxHeight /\ Len(chain) \in Nat
  BY AllRowsFacts DEF WalletHolds
<1>2. ASSUME NEW u \in MinedRows(top)
      PROVE  u \in RowSet /\ u \in MemoRow /\ u[1] # 0
  <2>1. u \in RowSet /\ MemoAt(u) \in Memo /\ u[1] \in 1..top
    BY <1>1, MinedRowFacts
  <2> QED BY <2>1 DEF MemoRow
<1>3. d \in Seq(MemoRow)
  <2>1. d \in Seq(MinedRows(top)) /\ MinedRows(top) \subseteq MemoRow
    BY <1>2 DEF Sorts
  <2> QED BY <2>1, SequenceOfMore
<1>4. AllConfirmed(d, Settled)
  <2> SUFFICES ASSUME NEW i \in 1..Len(d) PROVE StatusOf(d[i], Settled) = "Confirmed"
    BY DEF AllConfirmed
  <2>1. PICK u : u = d[i]
    OBVIOUS
  <2>2. u \in MinedRows(top)
    BY <2>1 DEF Sorts
  <2>3. Settled \in Nat
    BY HistoryDepthAssumption, HistoryBoundsAssumption DEF Settled
  <2> QED BY <1>2, <2>1, <2>2, <2>3, ConfirmedWhenDeep
<1> QED BY <1>3, <1>4

\* The rows just promoted continue the rows the snapshot stands for.
LEMMA PromotedHolds ==
    ASSUME WalletHolds, NEW s, SnapRight(s), NEW k \in 0..tip, k = s.wm[1],
           NEW kept, NEW B, B \subseteq RowsAbove(k), Sorts(kept, B, InOrder), kept \in Seq(MemoRow),
           AllConfirmed(kept, Settled), NEW w, MinedRows(w[1]) = MinedRows(k) \cup B,
           WatermarkRight(w), w[1] \in 0..Len(chain),
           NEW g, Trace(g, s.db, kept, Settled), NEW t,
           t = [wm |-> w, db |-> g[Len(kept)], hist |-> s.hist \o Kept(kept, TakenOf(g, kept, Settled))]
    PROVE  SnapRight(t)
<1>1. PICK d, X : SnapHolds(s, d, X)
  BY DEF SnapRight
<1>2. /\ Sorts(d, MinedRows(k), InOrder)
      /\ Folds(EmptyDatabase, d, Settled, s.db, X)
      /\ Sorts(s.hist, X, InOrder)
  BY <1>1 DEF SnapHolds
<1>3. PICK Y : Y = TakenOf(g, kept, Settled)
  OBVIOUS
<1>4. Folds(s.db, kept, Settled, g[Len(kept)], Y)
  BY <1>3 DEF Folds
<1>5. Y \subseteq B /\ X \subseteq MinedRows(k)
  BY <1>2, <1>4, TakenMembers
<1>6. t.wm = w /\ t.db = g[Len(kept)] /\ t.hist = s.hist \o Kept(kept, Y)
  BY <1>3
<1>7. \A u \in MinedRows(k), v \in B : <<u, v>> \in InOrder
  BY SeamInOrder
<1>8. Sorts(d \o kept, MinedRows(w[1]), InOrder)
  <2>1. Sorts(d \o kept, MinedRows(k) \cup B, InOrder)
    BY <1>2, <1>7, SortsJoined
  <2> QED BY <2>1
<1>9. k \in 0..Len(chain)
  <2>1. tip \in 0..Len(chain) /\ Len(chain) \in Nat
    BY AllRowsFacts
  <2> QED BY <2>1
<1>10. d \in Seq(MemoRow)
  BY <1>2, <1>9, MinedAreMemoRows
<1>11. Folds(EmptyDatabase, d \o kept, Settled, t.db, X \cup Y)
  BY <1>2, <1>4, <1>6, <1>10, FoldsJoined
<1>12. Sorts(Kept(kept, Y), Y, InOrder)
  <2>1. B \cap Y = Y
    BY <1>5
  <2> QED BY <2>1, SortsKept
<1>13. \A u \in X, v \in Y : <<u, v>> \in InOrder
  BY <1>5, <1>7
<1>14. Sorts(t.hist, X \cup Y, InOrder)
  BY <1>2, <1>6, <1>12, <1>13, SortsJoined
<1>15. SnapHolds(t, d \o kept, X \cup Y)
  BY <1>6, <1>8, <1>11, <1>14 DEF SnapHolds
<1>16. s.db \in Database /\ ConfirmedOnly(s.db)
  BY DEF SnapRight
<1>17. t.db \in Database /\ ConfirmedOnly(t.db)
  BY <1>6, <1>16, TraceKeepsShape
<1> QED BY <1>6, <1>15, <1>17 DEF SnapRight

LEMMA LoadedIsRight ==
    ASSUME WalletHolds, SnapRight(snap), tip = 0 => snap.wm = Start
    PROVE  /\ SnapRight(LoadedState)
           /\ tip = 0 => LoadedState.wm = Start
<1>1. PICK s : s = FreshEnough(snap)
  OBVIOUS
<1>2. SnapRight(s) /\ s.wm[1] \in 0..tip /\ (tip = 0 => s.wm = Start)
  BY <1>1, FreshEnoughIsRight
<1>3. PICK k \in 0..tip : k = s.wm[1]
  BY <1>2
<1>4. PICK top : top = Minus(tip, SafeDepth)
  OBVIOUS
<1>5. top \in 0..tip /\ tip \in Nat /\ tip =< Len(chain) /\ Len(chain) \in Nat
  BY <1>4, AllRowsFacts, HistoryDepthAssumption DEF Minus
<1>6. PICK rows : rows = RowsPast(s.wm)
  OBVIOUS
<1>7. Sorts(rows, RowsAbove(k), InOrder)
  BY <1>2, <1>3, <1>6, RowsPastSorts DEF SnapRight
<1>8. PICK kept : kept = Kept(rows, {u \in Range(rows) : u[1] \in 1..top})
  OBVIOUS
<1>9. PICK B : B = {u \in RowsAbove(k) : u[1] \in 1..top}
  OBVIOUS
<1>10. /\ Sorts(kept, B, InOrder) /\ kept \in Seq(MemoRow)
       /\ \A u \in B : /\ u \in MinedRows(tip) /\ u \in RowSet
                       /\ u[1] \in 1..top /\ u[1] > k
       /\ AllConfirmed(kept, Settled)
  BY <1>5, <1>7, <1>8, <1>9, PromotedRows
<1>11. LoadedState = Promoted(s, kept)
  BY <1>1, <1>4, <1>6, <1>8, Zenon DEF LoadedState
<1>12. s.db \in Database
  BY <1>2 DEF SnapRight
<1>13. PICK g : Trace(g, s.db, kept, Settled)
  BY <1>10, <1>12, TraceExists
<1>14. LoadedState =
           IF kept = << >> \/ g[Len(kept)].init = "Uninitialized" THEN s
           ELSE [wm |-> kept[Len(kept)], db |-> g[Len(kept)],
                 hist |-> s.hist \o Kept(kept, TakenOf(g, kept, Settled))]
  BY <1>10, <1>11, <1>12, <1>13, PromotedTrace
<1>15. CASE LoadedState = s
  BY <1>2, <1>15
<1>16. CASE LoadedState # s
  <2>1. kept # << >>
    BY <1>14, <1>16
  <2>2. PICK w : w = kept[Len(kept)]
    OBVIOUS
  <2>3. LoadedState = [wm |-> w, db |-> g[Len(kept)],
                       hist |-> s.hist \o Kept(kept, TakenOf(g, kept, Settled))]
    BY <1>14, <1>16, <2>2
  <2>4. w \in B /\ w[1] \in 1..top /\ WatermarkRight(w) /\ MinedRows(w[1]) = MinedRows(k) \cup B
    <3>1. top \in 0..tip
      BY <1>5
    <3>2. \A u \in B : /\ u \in MinedRows(tip) /\ u \in RowSet
                        /\ u[1] \in 1..top /\ u[1] > k
      BY <1>10
    <3>3. Sorts(kept, B, InOrder)
      BY <1>10
    <3> QED BY <1>9, <2>1, <2>2, <3>1, <3>2, <3>3, PromotedBlocks
  <2>5. w[1] \in 0..Len(chain) /\ tip # 0
    BY <1>5, <2>4
  <2>6. B \subseteq RowsAbove(k)
    BY <1>9
  <2>7. SnapRight(LoadedState)
    BY <1>2, <1>3, <1>10, <1>13, <2>3, <2>4, <2>5, <2>6, PromotedHolds
  <2> QED BY <2>5, <2>7
<1> QED BY <1>15, <1>16

-----------------------------------------------------------------------------
(* The wallet and its snapshot, step by step.                              *)

\* No transaction is in two blocks.
BlocksApart == \A h, k \in 1..Len(chain) : h # k => chain[h] \cap chain[k] = {}

\* What is in flight is in no block of the wallet.
InFlightApart == unmined \cap Mined(tip) = {} /\ recorded \cap Mined(tip) = {}

WalletRight ==
    /\ Len(chain) =< MaxHeight /\ rewinds \in 0..MaxRewinds
    /\ BlocksApart /\ InFlightApart
    /\ SnapRight(snap) /\ (tip = 0 => snap.wm = Start)

\* The strengthening of HistoryAgrees that every step preserves.
HistoryInvariant ==
    /\ PageInvariant /\ WalletRight
    /\ page.pc # "idle" => snap.wm[1] =< tip

LEMMA HistoryHolds ==
    ASSUME HistoryInvariant
    PROVE  WalletHolds /\ chain \in Seq(SUBSET Tx) /\ tip \in 0..Len(chain) /\ Len(chain) \in Nat
BY DEF HistoryInvariant, PageInvariant, WalletRight, WalletHolds, WalletTyped

LEMMA MinedStays ==
    ASSUME chain' = chain
    PROVE  /\ \A k : MinedRows(k)' = MinedRows(k) /\ Mined(k)' = Mined(k)
           /\ BlocksApart => BlocksApart'
BY DEF MinedRows, Mined, BlocksApart

LEMMA SnapStays ==
    ASSUME chain' = chain, NEW s, SnapRight(s), snap' = s
    PROVE  SnapRight(snap)'
<1>1. \A k : MinedRows(k)' = MinedRows(k)
  BY MinedStays
<1>2. WatermarkRight(s.wm) /\ s.wm[1] \in 0..Len(chain)
      /\ s.db \in Database /\ ConfirmedOnly(s.db)
  BY DEF SnapRight
<1>3. PICK d, X : SnapHolds(s, d, X)
  BY DEF SnapRight
<1>4. WatermarkRight(snap.wm)'
  BY <1>1, <1>2 DEF WatermarkRight
<1>5. SnapHolds(snap, d, X)'
  BY <1>1, <1>3 DEF SnapHolds
<1> QED BY <1>2, <1>4, <1>5 DEF SnapRight

LEMMA MinedGrows ==
    ASSUME chain \in Seq(SUBSET Tx), NEW txs \in SUBSET Tx, chain' = Append(chain, txs)
    PROVE  /\ Len(chain') = Len(chain) + 1 /\ chain'[Len(chain) + 1] = txs
           /\ \A h \in 1..Len(chain) : chain'[h] = chain[h]
           /\ \A k \in 0..Len(chain) : MinedRows(k)' = MinedRows(k) /\ Mined(k)' = Mined(k)
<1> DEFINE T == SUBSET Tx
<1>1. chain \in Seq(T) /\ txs \in T
  OBVIOUS
<1> HIDE DEF T
<1>2. /\ Len(chain') = Len(chain) + 1 /\ chain'[Len(chain) + 1] = txs
      /\ Len(chain) \in Nat
      /\ \A h \in 1..Len(chain) : chain'[h] = chain[h]
  BY <1>1, AppendFacts
<1>3. ASSUME NEW k \in 0..Len(chain)
      PROVE  MinedRows(k)' = MinedRows(k) /\ Mined(k)' = Mined(k)
  <2>1. \A h \in 1..k : chain'[h] = chain[h]
    BY <1>2
  <2> QED BY <2>1 DEF MinedRows, Mined
<1> QED BY <1>2, <1>3

LEMMA SnapStaysWhenMined ==
    ASSUME chain \in Seq(SUBSET Tx), NEW txs \in SUBSET Tx, chain' = Append(chain, txs),
           SnapRight(snap), snap' = snap, WalletHolds, Len(chain') =< MaxHeight, WalletTyped'
    PROVE  SnapRight(snap)'
<1>1. /\ Len(chain') = Len(chain) + 1
      /\ \A h \in 1..Len(chain) : chain'[h] = chain[h]
      /\ \A k \in 0..Len(chain) : MinedRows(k)' = MinedRows(k)
      /\ Len(chain) \in Nat
  BY MinedGrows
<1>2. PICK s : s = snap
  OBVIOUS
<1>3. WatermarkRight(s.wm) /\ s.wm[1] \in 0..Len(chain)
      /\ s.db \in Database /\ ConfirmedOnly(s.db)
  BY <1>2 DEF SnapRight
<1>4. PICK d, X : SnapHolds(s, d, X)
  BY <1>2 DEF SnapRight
<1>5. MinedRows(s.wm[1])' = MinedRows(s.wm[1])
  BY <1>1, <1>3
<1>6. SnapHolds(snap, d, X)'
  BY <1>2, <1>4, <1>5 DEF SnapHolds
<1>7. ASSUME NEW u \in MinedRows(Len(chain)) PROVE u \in MinedRows(Len(chain))'
  <2>1. Len(chain) \in 0..Len(chain) /\ WalletTyped /\ Len(chain) =< MaxHeight
    BY <1>1 DEF WalletHolds
  <2>2. /\ u = <<u[1], u[2], u[3]>> /\ u[1] \in 1..Len(chain)
        /\ u[2] \in chain[u[1]] /\ u[3] \in DOMAIN MemosOf[u[2]]
    BY <2>1, MinedRowFacts
  <2>3. u[1] \in 1..Len(chain') /\ u[2] \in chain'[u[1]]
    BY <1>1, <2>2
  <2>4. u \in OutputsOf(u[1], chain'[u[1]])
    BY <2>2, <2>3 DEF OutputsOf
  <2> QED BY <2>3, <2>4 DEF MinedRows
<1>8. WatermarkRight(snap.wm)'
  BY <1>2, <1>3, <1>5, <1>7 DEF WatermarkRight
<1>9. s.wm[1] \in 0..Len(chain')
  BY <1>1, <1>3
<1> QED BY <1>2, <1>3, <1>6, <1>8, <1>9 DEF SnapRight

LEMMA HistoryStart == HistoryInit => HistoryInvariant
<1> SUFFICES ASSUME HistoryInit PROVE HistoryInvariant
  OBVIOUS
<1>1. PageInvariant
  BY PageStart
<1>2. chain = << >> /\ tip = 0 /\ unmined = {} /\ recorded = {} /\ rewinds = 0
      /\ snap = FreshSnapshot /\ page.pc = "idle"
  BY DEF HistoryInit, NoPage
<1>3. Len(chain) = 0 /\ 0 =< MaxHeight /\ rewinds \in 0..MaxRewinds
  BY <1>2, HistoryBoundsAssumption
<1>4. WalletHolds
  BY <1>1, <1>3 DEF WalletHolds, PageInvariant
<1>5. SnapRight(snap) /\ snap.wm = Start
  BY <1>2, <1>4, FreshIsRight DEF FreshSnapshot
<1>6. BlocksApart
  <2>1. 1..0 = {}
    OBVIOUS
  <2> QED BY <1>3, <2>1 DEF BlocksApart
<1> QED BY <1>1, <1>2, <1>3, <1>5, <1>6 DEF HistoryInvariant, WalletRight, InFlightApart

\* A step that leaves the blocks alone.
LEMMA BlocksKept ==
    ASSUME HistoryInvariant, chain' = chain, rewinds' \in 0..MaxRewinds, InFlightApart',
           NEW s, SnapRight(s), snap' = s, tip' = 0 => s.wm = Start
    PROVE  WalletRight'
<1>1. Len(chain') =< MaxHeight /\ BlocksApart
  BY DEF HistoryInvariant, WalletRight
<1>2. BlocksApart'
  BY <1>1, MinedStays
<1>3. SnapRight(snap)'
  BY SnapStays
<1> QED BY <1>1, <1>2, <1>3 DEF WalletRight

LEMMA WalletStaysRight ==
    ASSUME HistoryInvariant, WalletTyped',
           \/ \E t \in Tx : Broadcast(t, TRUE) \/ Broadcast(t, FALSE) \/ SeeMempool(t)
           \/ \E txs \in SUBSET Tx : Mine(txs)
           \/ Sync
           \/ \E n \in 1..MaxHeight : Rewind(n)
           \/ ReadState
    PROVE  WalletRight'
<1>0. /\ chain \in Seq(SUBSET Tx) /\ tip \in 0..Len(chain) /\ Len(chain) \in Nat /\ WalletHolds
      /\ Len(chain) =< MaxHeight /\ rewinds \in 0..MaxRewinds
      /\ BlocksApart /\ InFlightApart
      /\ SnapRight(snap) /\ (tip = 0 => snap.wm = Start)
  BY HistoryHolds DEF HistoryInvariant, WalletRight
<1>m. Mined(tip) \subseteq Mined(Len(chain))
  BY <1>0 DEF Mined
<1>p. chain' = chain => \A k : Mined(k)' = Mined(k)
  BY MinedStays
<1>1. ASSUME NEW t \in Tx, NEW stored \in BOOLEAN, Broadcast(t, stored)
      PROVE  WalletRight'
  <2>1. /\ UNCHANGED <<chain, tip, snap, rewinds>> /\ t \notin Mined(Len(chain))
        /\ recorded' = recorded \cup {t} /\ unmined' \subseteq unmined \cup {t}
    BY <1>1 DEF Broadcast
  <2>2. Mined(tip)' = Mined(tip)
    BY <1>p, <2>1 DEF Mined
  <2>3. InFlightApart'
    BY <1>0, <1>m, <2>1, <2>2 DEF InFlightApart
  <2> QED BY <1>0, <2>1, <2>3, BlocksKept
<1>2. ASSUME NEW t \in Tx, SeeMempool(t)
      PROVE  WalletRight'
  <2>1. /\ UNCHANGED <<chain, tip, snap, rewinds, recorded>> /\ t \notin Mined(tip)
        /\ unmined' = unmined \cup {t}
    BY <1>2 DEF SeeMempool
  <2>2. Mined(tip)' = Mined(tip)
    BY <2>1 DEF Mined
  <2>3. InFlightApart'
    BY <1>0, <2>1, <2>2 DEF InFlightApart
  <2> QED BY <1>0, <2>1, <2>3, BlocksKept
<1>3. ASSUME NEW txs \in SUBSET Tx, Mine(txs)
      PROVE  WalletRight'
  <2>1. /\ UNCHANGED <<tip, unmined, recorded, snap, rewinds>> /\ chain' = Append(chain, txs)
        /\ Len(chain) < MaxHeight /\ txs \cap Mined(Len(chain)) = {}
    BY <1>3 DEF Mine
  <2>2. /\ Len(chain') = Len(chain) + 1 /\ chain'[Len(chain) + 1] = txs
        /\ \A h \in 1..Len(chain) : chain'[h] = chain[h]
        /\ \A k \in 0..Len(chain) : Mined(k)' = Mined(k)
    BY <1>0, <2>1, MinedGrows
  <2>3. Len(chain') =< MaxHeight
    BY <1>0, <2>1, <2>2, HistoryBoundsAssumption
  <2>4. Mined(tip)' = Mined(tip)
    <3>1. Mined(tip)' = UNION {chain'[h] : h \in 1..tip}
      BY <2>1 DEF Mined
    <3>2. \A h \in 1..tip : chain'[h] = chain[h]
      BY <1>0, <2>2
    <3> QED BY <3>1, <3>2 DEF Mined
  <2>5. InFlightApart'
    BY <1>0, <2>1, <2>4 DEF InFlightApart
  <2>6. ASSUME NEW h \in 1..Len(chain'), NEW k \in 1..Len(chain'), h # k
        PROVE  chain'[h] \cap chain'[k] = {}
    <3>1. ASSUME NEW i \in 1..Len(chain) PROVE chain'[i] \cap txs = {}
      BY <2>1, <2>2 DEF Mined
    <3>2. (h \in 1..Len(chain) \/ h = Len(chain) + 1) /\ (k \in 1..Len(chain) \/ k = Len(chain) + 1)
      BY <1>0, <2>2
    <3>3. CASE h \in 1..Len(chain) /\ k \in 1..Len(chain)
      BY <1>0, <2>2, <2>6, <3>3 DEF BlocksApart
    <3>4. CASE h = Len(chain) + 1
      BY <2>2, <2>6, <3>1, <3>2, <3>4
    <3>5. CASE k = Len(chain) + 1
      BY <2>2, <2>6, <3>1, <3>2, <3>5
    <3> QED BY <3>2, <3>3, <3>4, <3>5
  <2>7. BlocksApart'
    BY <2>6 DEF BlocksApart
  <2>8. SnapRight(snap)'
    BY <1>0, <2>1, <2>3, SnapStaysWhenMined
  <2> QED BY <1>0, <2>1, <2>3, <2>5, <2>7, <2>8 DEF WalletRight
<1>4. CASE Sync
  <2>1. /\ UNCHANGED <<chain, snap, rewinds>> /\ tip' = Len(chain) /\ tip < Len(chain)
        /\ unmined' = unmined \ Mined(Len(chain)) /\ recorded' = recorded \ Mined(Len(chain))
    BY <1>4 DEF Sync
  <2>2. Mined(tip)' = Mined(Len(chain))
    BY <2>1 DEF Mined
  <2>3. InFlightApart'
    BY <2>1, <2>2 DEF InFlightApart
  <2>4. tip' # 0
    BY <1>0, <2>1
  <2> QED BY <1>0, <2>1, <2>3, <2>4, BlocksKept
<1>5. ASSUME NEW n \in 1..MaxHeight, Rewind(n)
      PROVE  WalletRight'
  <2>1. /\ UNCHANGED <<chain, unmined, recorded, snap>> /\ tip' = n /\ n \in 1..(tip - 1)
        /\ rewinds < MaxRewinds /\ rewinds' = rewinds + 1
    BY <1>5 DEF Rewind
  <2>2. Mined(tip)' \subseteq Mined(tip)
    <3>1. Mined(tip)' = UNION {chain[h] : h \in 1..n}
      BY <2>1 DEF Mined
    <3>2. \A h \in 1..n : h \in 1..tip
      BY <1>0, <2>1
    <3> QED BY <3>1, <3>2 DEF Mined
  <2>3. InFlightApart'
    BY <1>0, <2>1, <2>2 DEF InFlightApart
  <2>4. rewinds' \in 0..MaxRewinds /\ tip' # 0
    BY <1>0, <2>1, HistoryBoundsAssumption
  <2> QED BY <1>0, <2>1, <2>3, <2>4, BlocksKept
<1>6. CASE ReadState
  <2>1. UNCHANGED <<chain, tip, unmined, recorded, rewinds>> /\ snap' = LoadedState
    BY <1>6 DEF ReadState
  <2>2. Mined(tip)' = Mined(tip)
    BY <2>1 DEF Mined
  <2>3. InFlightApart'
    BY <1>0, <2>1, <2>2 DEF InFlightApart
  <2>4. PICK s : s = LoadedState
    OBVIOUS
  <2>5. SnapRight(s) /\ (tip' = 0 => s.wm = Start) /\ snap' = s
    BY <1>0, <2>1, <2>4, LoadedIsRight
  <2> QED BY <1>0, <2>1, <2>3, <2>5, BlocksKept
<1> QED BY <1>1, <1>2, <1>3, <1>4, <1>5, <1>6

LEMMA OpenStaysRight ==
    ASSUME HistoryInvariant, NEW s, SnapRight(s), tip = 0 => s.wm = Start, NEW q, OpenPage(s, q)
    PROVE  WalletRight' /\ snap'.wm[1] =< tip'
<1>0. WalletHolds /\ tip \in Nat /\ rewinds \in 0..MaxRewinds /\ InFlightApart
  BY HistoryHolds DEF HistoryInvariant, WalletRight
<1>1. snap' = FreshEnough(s) /\ UNCHANGED <<chain, tip, unmined, recorded, rewinds>>
  BY DEF OpenPage
<1>2. PICK v : v = FreshEnough(s)
  OBVIOUS
<1>3. SnapRight(v) /\ v.wm[1] \in 0..tip /\ (tip = 0 => v.wm = Start)
  BY <1>0, <1>2, FreshEnoughIsRight
<1>4. InFlightApart'
  BY <1>0, <1>1 DEF InFlightApart, Mined
<1>5. WalletRight'
  BY <1>0, <1>1, <1>2, <1>3, <1>4, BlocksKept
<1>6. snap'.wm[1] =< tip'
  BY <1>0, <1>1, <1>2, <1>3
<1> QED BY <1>5, <1>6

LEMMA HistoryStep ==
    ASSUME ~Concurrent, HistoryInvariant, [HistoryNext]_historyVars
    PROVE  HistoryInvariant'
<1>0. PageInvariant /\ WalletRight /\ (page.pc # "idle" => snap.wm[1] =< tip)
  BY DEF HistoryInvariant
<1>1. PageInvariant'
  BY <1>0, WalletSteps, OpenSteps, PageSteps DEF HistoryNext
<1>2. ASSUME \/ \E t \in Tx : Broadcast(t, TRUE) \/ Broadcast(t, FALSE) \/ SeeMempool(t)
             \/ \E txs \in SUBSET Tx : Mine(txs)
             \/ Sync
             \/ \E n \in 1..MaxHeight : Rewind(n)
             \/ ReadState
      PROVE  HistoryInvariant'
  <2>1. WalletTyped'
    BY <1>1 DEF PageInvariant
  <2>2. WalletRight'
    BY <1>2, <2>1, WalletStaysRight
  <2>3. page'.pc = "idle"
    BY <1>2 DEF Broadcast, SeeMempool, Mine, Sync, Rewind, ReadState, Quiet
  <2> QED BY <1>1, <2>2, <2>3 DEF HistoryInvariant
<1>3. ASSUME NEW q \in Queries, OpenHistory(q) \/ OpenAtTxid(q) \/ OpenCli(q)
      PROVE  HistoryInvariant'
  <2>1. SnapRight(snap) /\ (tip = 0 => snap.wm = Start) /\ WalletHolds
    BY <1>0, HistoryHolds DEF WalletRight
  <2>2. SnapRight(LoadedState) /\ (tip = 0 => LoadedState.wm = Start)
    BY <2>1, LoadedIsRight
  <2>3. \E s : \E n : SnapRight(s) /\ (tip = 0 => s.wm = Start) /\ OpenPage(s, n)
    <3>1. CASE OpenHistory(q) \/ OpenAtTxid(q)
      BY <2>1, <3>1 DEF OpenHistory, OpenAtTxid
    <3>2. CASE OpenCli(q)
      BY <2>2, <3>2 DEF OpenCli
    <3> QED BY <1>3, <3>1, <3>2
  <2>4. WalletRight' /\ snap'.wm[1] =< tip'
    BY <2>3, OpenStaysRight
  <2> QED BY <1>1, <2>4 DEF HistoryInvariant
<1>4. ASSUME LoadSeed \/ ScanTail \/ CutPage \/ Return \/ UNCHANGED historyVars
      PROVE  HistoryInvariant'
  <2>1. UNCHANGED <<chain, tip, unmined, recorded, snap, rewinds>>
    BY <1>4 DEF LoadSeed, ScanTail, CutPage, Return, historyVars
  <2>2. InFlightApart'
    BY <1>0, <2>1 DEF WalletRight, InFlightApart, Mined
  <2>3. PICK s : s = snap
    OBVIOUS
  <2>4. SnapRight(s) /\ snap' = s /\ (tip' = 0 => s.wm = Start) /\ rewinds' \in 0..MaxRewinds
    BY <1>0, <2>1, <2>3 DEF WalletRight
  <2>5. WalletRight'
    BY <2>1, <2>2, <2>4, BlocksKept
  <2>6. page'.pc # "idle" => page.pc # "idle"
    BY <1>4 DEF LoadSeed, ScanTail, CutPage, Return, historyVars, NoPage
  <2> QED BY <1>0, <1>1, <2>1, <2>5, <2>6 DEF HistoryInvariant
<1> QED BY <1>2, <1>3, <1>4 DEF HistoryNext

-----------------------------------------------------------------------------
(* The live part of the list.                                              *)

\* What the list holds: a write and its status, in flight exactly if no block has it.
LiveEntry ==
    {e \in [at : RowSet, out : Nat, status : {"Pending", "Confirming", "Confirmed"}, ok : BOOLEAN] :
        e.status = "Pending" <=> e.at[1] = 0}

\* A write that took effect, as the list shows it.
Done(u) == [at |-> u, out |-> u[3], status |-> "Confirmed", ok |-> TRUE]

\* The entry of a row.
EntryFor(u, st, b) == [at |-> u, out |-> u[3], status |-> st, ok |-> b]

LEMMA EntryFields ==
    ASSUME NEW u, NEW st, NEW b
    PROVE  /\ EntryFor(u, st, b).at = u /\ EntryFor(u, st, b).out = u[3]
           /\ EntryFor(u, st, b).status = st /\ EntryFor(u, st, b).ok = b
BY DEF EntryFor

LEMMA DoneFields ==
    ASSUME NEW u
    PROVE  /\ Done(u) = EntryFor(u, "Confirmed", TRUE)
           /\ Done(u).at = u /\ Done(u).out = u[3]
           /\ Done(u).status = "Confirmed" /\ Done(u).ok = TRUE
BY DEF EntryFor, Done

\* Two entries for different writes; two entries newest first.
Different ==
    {p \in LiveEntry \X LiveEntry : ~(p[1].at[2] = p[2].at[2] /\ p[1].at[3] = p[2].at[3])}

NewestPair ==
    {p \in LiveEntry \X LiveEntry :
        \/ inflight_rank(p[1].status) < inflight_rank(p[2].status)
        \/ p[1].status = p[2].status /\ p[1].at[1] >= p[2].at[1]}

\* A transaction is in one block or in flight, so a write has one row.
LEMMA OneRowEach ==
    ASSUME HistoryInvariant, NEW u \in AllRows, NEW w \in AllRows, u[2] = w[2], u[3] = w[3]
    PROVE  u = w
<1>0. WalletHolds /\ tip \in 0..Len(chain) /\ Len(chain) \in Nat /\ BlocksApart /\ InFlightApart
      /\ WalletTyped /\ Len(chain) =< MaxHeight /\ unmined \subseteq Tx
  BY HistoryHolds, AllRowsFacts DEF HistoryInvariant, WalletRight, WalletHolds
<1>1. u \in RowSet /\ w \in RowSet
  BY <1>0, AllRowsFacts
<1>2. u = <<u[1], u[2], u[3]>> /\ w = <<w[1], w[2], w[3]>>
  BY <1>1, RowFields
<1>3. \A x \in MinedRows(tip) : x[1] \in 1..tip /\ x[2] \in chain[x[1]] /\ x[2] \in Mined(tip)
  BY <1>0, MinedRowFacts
<1>4. \A x \in OutputsOf(0, unmined) : x[1] = 0 /\ x[2] \in unmined
  BY <1>0, LooseRowFacts
<1>5. u[1] = w[1]
  <2>1. CASE u \in MinedRows(tip) /\ w \in MinedRows(tip)
    <3>1. PICK h \in 1..tip : h = u[1]
      BY <1>3, <2>1
    <3>2. PICK k \in 1..tip : k = w[1]
      BY <1>3, <2>1
    <3>3. u[2] \in chain[h] /\ u[2] \in chain[k]
      BY <1>3, <2>1, <3>1, <3>2
    <3>4. h \in 1..Len(chain) /\ k \in 1..Len(chain)
      BY <1>0
    <3> QED BY <1>0, <3>1, <3>2, <3>3, <3>4 DEF BlocksApart
  <2>2. CASE u \in OutputsOf(0, unmined) /\ w \in OutputsOf(0, unmined)
    BY <1>4, <2>2
  <2>3. CASE u \in MinedRows(tip) /\ w \in OutputsOf(0, unmined)
    BY <1>0, <1>3, <1>4, <2>3 DEF InFlightApart
  <2>4. CASE u \in OutputsOf(0, unmined) /\ w \in MinedRows(tip)
    BY <1>0, <1>3, <1>4, <2>4 DEF InFlightApart
  <2> QED BY <2>1, <2>2, <2>3, <2>4 DEF AllRows
<1> QED BY <1>2, <1>5

LEMMA StatusFacts ==
    ASSUME NEW u, NEW at
    PROVE  /\ StatusOf(u, at) \in {"Pending", "Confirmed", "Confirming", "Dropped"}
           /\ StatusOf(u, at) = "Pending" <=> u[1] = 0
           /\ StatusOf(u, at) = "Dropped" => u[2] \notin Own
BY DEF StatusOf

\* A confirmed write is listed as verified exactly if it takes effect.
LEMMA ListedVerdict ==
    ASSUME NEW p, NEW m, InWriteLog(m.op)
    PROVE  outcome(p, m, "Confirmed") \in {"Applied", "Pending"} <=> PromotedWrite(p, m)
<1>1. m.op \notin RegistryOps /\ m.op # "VERSION"
  BY DEF InWriteLog, DataOps, SetOps, RegistryOps
<1>2. outcome(p, m, "Confirmed") = classify(p, m, "Confirmed")
  BY <1>1 DEF outcome
<1>3. classify(p, m, "Confirmed") # "Pending"
  <2>1. authorize(p, m.signer, m.op, p.kv[m.key] # NoValue)
            \in {"Ok", "NoWriteAuthority", "OutOfScope"}
    BY DEF authorize
  <2> QED BY <2>1 DEF classify, decide, decide_unsealed
<1> QED BY <1>2, <1>3 DEF PromotedWrite

\* The rows' writes: one entry for each that is shown, each once, with its verdict.
ListRight(list, k, at, X) ==
    /\ list \in Seq(LiveEntry)
    /\ Pairwise(list, Different)
    /\ \A i \in DOMAIN list : list[i].at \in RowsAbove(k) /\ list[i].status = StatusOf(list[i].at, at)
                              /\ InWriteLog(MemoAt(list[i].at).op)
    /\ \A i \in DOMAIN list :
           list[i].ok /\ list[i].status = "Confirmed" => \E u \in X : list[i] = Done(u)

Shows(list, k, at, X) ==
    /\ \A u \in RowsAbove(k) : InWriteLog(MemoAt(u).op) /\ StatusOf(u, at) # "Dropped" =>
           \E i \in DOMAIN list : list[i].at = u
    /\ \A u \in X : \E i \in DOMAIN list : list[i] = Done(u)

LEMMA EntriesRight ==
    ASSUME HistoryInvariant, NEW k \in Nat, NEW rows, Sorts(rows, RowsAbove(k), InOrder),
           rows \in Seq(MemoRow), NEW seed \in Database, NEW at, NEW g,
           Trace(g, seed, rows, at)
    PROVE  LET X == TakenOf(g, rows, at)
               list == FoldHistory(seed, rows, at).list
           IN  ListRight(list, k, at, X) /\ Shows(list, k, at, X)
<1> DEFINE X == TakenOf(g, rows, at)
           list == FoldHistory(seed, rows, at).list
           entries == Entries(g, rows, at)
           wanted == Listed(entries)
           Each == {entries[i] : i \in 1..Len(rows)}
<1>1. list = Kept(entries, wanted)
  BY HistoryTrace
<1>2. PICK n \in Nat : n = Len(rows) /\ DOMAIN rows = 1..n
  BY DEF Sorts
<1>w. WalletHolds
  BY HistoryHolds
<1>3. ASSUME NEW i \in 1..n
      PROVE  rows[i] \in RowsAbove(k) /\ rows[i] \in RowSet /\ rows[i] \in AllRows
  BY <1>2, <1>w, AllRowsFacts DEF Sorts, RowsAbove
<1>4. DOMAIN entries = 1..n /\ entries = [i \in 1..n |-> entries[i]]
  BY <1>2 DEF Entries
<1>5. ASSUME NEW i \in 1..n
      PROVE  \E b \in BOOLEAN :
                 /\ entries[i] = EntryFor(rows[i], StatusOf(rows[i], at), b)
                 /\ b <=> outcome(g[i - 1], MemoAt(rows[i]), WriteStatus(StatusOf(rows[i], at)))
                               \in {"Applied", "Pending"}
  <2> DEFINE b == outcome(g[i - 1], MemoAt(rows[i]), WriteStatus(StatusOf(rows[i], at)))
                      \in {"Applied", "Pending"}
  <2>1. b \in BOOLEAN
    OBVIOUS
  <2>2. i \in 1..Len(rows)
    BY <1>2
  <2>3. entries[i] = EntryFor(rows[i], StatusOf(rows[i], at), b)
    BY <2>2 DEF Entries, EntryFor
  <2> QED BY <2>1, <2>3
<1> HIDE DEF entries, wanted, Each
<1>5a. ASSUME NEW i \in 1..n
       PROVE  /\ entries[i].at = rows[i] /\ entries[i].status = StatusOf(rows[i], at)
              /\ entries[i].ok \in BOOLEAN
              /\ entries[i] = EntryFor(rows[i], StatusOf(rows[i], at), entries[i].ok)
              /\ entries[i].ok <=>
                     outcome(g[i - 1], MemoAt(rows[i]), WriteStatus(StatusOf(rows[i], at)))
                         \in {"Applied", "Pending"}
  <2>1. PICK b \in BOOLEAN :
            /\ entries[i] = EntryFor(rows[i], StatusOf(rows[i], at), b)
            /\ b <=> outcome(g[i - 1], MemoAt(rows[i]), WriteStatus(StatusOf(rows[i], at)))
                          \in {"Applied", "Pending"}
    BY <1>5
  <2>2. entries[i].ok = b /\ entries[i].at = rows[i] /\ entries[i].status = StatusOf(rows[i], at)
    BY <2>1, EntryFields
  <2> QED BY <2>1, <2>2
<1>6. entries \in Seq(Each) /\ Len(entries) = n
  BY <1>2, <1>4, TableIsSequence DEF Each
<1>7. ASSUME NEW i \in 1..n
      PROVE  entries[i] \in wanted <=> /\ StatusOf(rows[i], at) # "Dropped"
                                       /\ InWriteLog(MemoAt(rows[i]).op)
  <2>1. entries[i] \in Range(entries)
    BY <1>4 DEF Range
  <2> QED BY <1>5a, <2>1 DEF wanted, Listed
<1>8. ASSUME NEW i \in 1..n, entries[i] \in wanted
      PROVE  entries[i] \in LiveEntry
  <2>1. PICK u, st, b : u = rows[i] /\ st = StatusOf(u, at) /\ b = entries[i].ok
    OBVIOUS
  <2>2. u \in RowSet /\ u[3] \in Nat
    BY <1>3, <2>1, RowFields
  <2>3. st \in {"Pending", "Confirming", "Confirmed"} /\ (st = "Pending" <=> u[1] = 0)
    BY <1>7, <1>8, <2>1, StatusFacts
  <2>4. entries[i] = EntryFor(u, st, b) /\ b \in BOOLEAN
    BY <1>5a, <2>1
  <2>5. EntryFor(u, st, b) \in LiveEntry
    BY <2>2, <2>3, <2>4 DEF LiveEntry, EntryFor
  <2> QED BY <2>4, <2>5
<1>9. ASSUME NEW i \in 1..n, NEW j \in 1..n, i # j
      PROVE  ~(rows[i][2] = rows[j][2] /\ rows[i][3] = rows[j][3])
  <2>1. rows[i] \in AllRows /\ rows[j] \in AllRows /\ rows[i] # rows[j]
    <3>0. i < j \/ j < i
      BY <1>9
    <3>1. <<rows[i], rows[j]>> \in InOrder \/ <<rows[j], rows[i]>> \in InOrder
      BY <1>2, <3>0 DEF Sorts
    <3>2. AllRows \subseteq RowSet /\ Total(AllRows, InOrder)
      BY <1>w, AllRowsFacts, RowsTotal
    <3> QED BY <1>3, <3>1, <3>2 DEF Total
  <2> QED BY <2>1, OneRowEach
<1>10. ASSUME NEW i \in 1..n, entries[i] \in wanted
       PROVE  entries[i].ok /\ entries[i].status = "Confirmed" <=> Takes(g[i - 1], rows[i], at)
  <2>1. InWriteLog(MemoAt(rows[i]).op)
    BY <1>7, <1>10
  <2>2. CASE StatusOf(rows[i], at) = "Confirmed"
    <3>1. entries[i].ok <=> outcome(g[i - 1], MemoAt(rows[i]), "Confirmed") \in {"Applied", "Pending"}
      BY <1>5a, <2>2 DEF WriteStatus
    <3>2. outcome(g[i - 1], MemoAt(rows[i]), "Confirmed") \in {"Applied", "Pending"}
              <=> PromotedWrite(g[i - 1], MemoAt(rows[i]))
      BY <2>1, ListedVerdict
    <3> QED BY <1>5a, <2>2, <3>1, <3>2 DEF Takes
  <2>3. CASE StatusOf(rows[i], at) # "Confirmed"
    BY <1>5a, <2>3 DEF Takes
  <2> QED BY <2>2, <2>3
<1>11. ASSUME NEW i \in 1..n, Takes(g[i - 1], rows[i], at)
       PROVE  entries[i] \in wanted /\ entries[i] = Done(rows[i])
  <2>1. StatusOf(rows[i], at) = "Confirmed" /\ InWriteLog(MemoAt(rows[i]).op)
    BY <1>11 DEF Takes, PromotedWrite
  <2>2. entries[i] \in wanted
    BY <1>7, <2>1
  <2>3. entries[i].ok = TRUE
    BY <1>5a, <1>10, <1>11, <2>2
  <2>4. entries[i] = EntryFor(rows[i], "Confirmed", TRUE)
    BY <1>5a, <2>1, <2>3
  <2> QED BY <2>2, <2>4, DoneFields
<1>12. X = {rows[i] : i \in {j \in 1..n : Takes(g[j - 1], rows[j], at)}}
  BY <1>2 DEF TakenOf
<1> HIDE DEF X, list
<1>13. PICK h : Embeds(h, list, entries, n, wanted)
  BY <1>1, <1>6, KeptEmbeds
<1>14. list \in Seq(Each \cap wanted)
  BY <1>1, <1>6, KeptIsSequence
<1>15. Len(list) \in Nat /\ DOMAIN list = 1..Len(list)
  BY <1>14
<1>16. ASSUME NEW i \in 1..Len(list)
       PROVE  h[i] \in 1..n /\ list[i] = entries[h[i]] /\ entries[h[i]] \in wanted
  BY <1>13 DEF Embeds
<1>17. list \in Seq(LiveEntry)
  <2>1. \A i \in 1..Len(list) : list[i] \in LiveEntry
    BY <1>8, <1>16
  <2>2. list = [i \in 1..Len(list) |-> list[i]]
    BY <1>14
  <2>3. list \in [1..Len(list) -> LiveEntry]
    BY <2>1, <2>2
  <2> QED BY <1>15, <2>3, FunctionIsSequence
<1>18. Pairwise(list, Different)
  <2> SUFFICES ASSUME NEW i \in 1..Len(list), NEW j \in 1..Len(list), i < j
               PROVE  <<list[i], list[j]>> \in Different
    BY <1>15 DEF Pairwise
  <2>1. h[i] \in 1..n /\ h[j] \in 1..n /\ h[i] < h[j]
    BY <1>13, <1>16 DEF Embeds
  <2>2. list[i] = entries[h[i]] /\ list[j] = entries[h[j]]
        /\ list[i] \in LiveEntry /\ list[j] \in LiveEntry
    BY <1>8, <1>16
  <2>a. PICK a \in 1..n : a = h[i]
    BY <2>1
  <2>b. PICK b \in 1..n : b = h[j]
    BY <2>1
  <2>3. list[i].at = rows[h[i]] /\ list[j].at = rows[h[j]] /\ h[i] # h[j]
    BY <1>5a, <2>a, <2>b, <2>1, <2>2
  <2>4. ~(rows[h[i]][2] = rows[h[j]][2] /\ rows[h[i]][3] = rows[h[j]][3])
    BY <1>9, <2>1, <2>3
  <2> QED BY <2>2, <2>3, <2>4 DEF Different
<1>19. ASSUME NEW i \in 1..Len(list)
       PROVE  /\ list[i].at \in RowsAbove(k) /\ list[i].status = StatusOf(list[i].at, at)
              /\ InWriteLog(MemoAt(list[i].at).op)
              /\ list[i].ok /\ list[i].status = "Confirmed" => \E u \in X : list[i] = Done(u)
  <2>1. PICK j \in 1..n : j = h[i] /\ list[i] = entries[j] /\ entries[j] \in wanted
    BY <1>16
  <2>2. /\ list[i].at = rows[j] /\ rows[j] \in RowsAbove(k) /\ list[i].status = StatusOf(rows[j], at)
        /\ InWriteLog(MemoAt(rows[j]).op)
    BY <1>3, <1>5a, <1>7, <2>1
  <2>3. ASSUME list[i].ok /\ list[i].status = "Confirmed" PROVE \E u \in X : list[i] = Done(u)
    <3>1. Takes(g[j - 1], rows[j], at)
      BY <1>10, <2>1, <2>3
    <3>2. rows[j] \in X /\ list[i] = Done(rows[j])
      BY <1>11, <1>12, <2>1, <3>1
    <3> QED BY <3>2
  <2> QED BY <2>2, <2>3
<1>20. ASSUME NEW j \in 1..n, entries[j] \in wanted PROVE \E i \in 1..Len(list) : list[i] = entries[j]
  <2>1. PICK i \in 1..Len(list) : h[i] = j
    BY <1>13, <1>20 DEF Embeds
  <2> QED BY <1>16, <2>1
<1>21. ListRight(list, k, at, X)
  BY <1>15, <1>17, <1>18, <1>19 DEF ListRight
<1>22. Shows(list, k, at, X)
  <2>1. ASSUME NEW u \in RowsAbove(k), InWriteLog(MemoAt(u).op) /\ StatusOf(u, at) # "Dropped"
        PROVE  \E i \in 1..Len(list) : list[i].at = u
    <3>1. PICK j \in 1..n : rows[j] = u
      BY <1>2 DEF Sorts
    <3> QED BY <1>5a, <1>7, <1>20, <2>1, <3>1
  <2>2. ASSUME NEW u \in X PROVE \E i \in 1..Len(list) : list[i] = Done(u)
    <3>1. PICK j \in 1..n : Takes(g[j - 1], rows[j], at) /\ u = rows[j]
      BY <1>12
    <3>2. entries[j] \in wanted /\ entries[j] = Done(u)
      BY <1>11, <3>1
    <3> QED BY <1>20, <3>2
  <2> QED BY <1>15, <2>1, <2>2 DEF Shows
<1> QED BY <1>21, <1>22 DEF X, list

-----------------------------------------------------------------------------
(* From the writes of the rows to the whole list.                          *)

\* An entry of the live part: its write is a row of the set A, and a verified one is a
\* write of X that took effect.
Sound(A, X) ==
    {e \in LiveEntry : /\ e.at \in A
                       /\ e.ok /\ e.status = "Confirmed" => \E u \in X : e = Done(u)}

\* s has the entry e.
Has(s, e) == \E i \in DOMAIN s : s[i] = e

\* s has an entry for the write.
ShowsWrite(s, u) == \E i \in DOMAIN s : s[i].at[2] = u[2] /\ s[i].at[3] = u[3]

LEMMA DifferentIsSymmetric ==
    ASSUME NEW e, NEW f, <<e, f>> \in Different
    PROVE  <<f, e>> \in Different
BY DEF Different

\* What a list keeps under a filter that its entry passes.
LEMMA KeptHas ==
    ASSUME NEW S, NEW s \in Seq(S), NEW wanted, NEW e, Has(s, e), e \in wanted
    PROVE  Has(Kept(s, wanted), e)
BY KeptFacts DEF Has

LEMMA EntryRank ==
    ASSUME NEW e \in LiveEntry
    PROVE  /\ inflight_rank(e.status) \in Nat /\ PlaceOf(e.at) \in Nat /\ e.out \in Nat
           /\ e.at[1] \in Nat
           /\ PlaceOf(e.at) = MaxHeight + 1 <=> e.at[1] = 0
           /\ e.at[1] # 0 => PlaceOf(e.at) = e.at[1]
           /\ e.status = "Pending" <=> e.at[1] = 0
           /\ \A f \in LiveEntry : inflight_rank(e.status) = inflight_rank(f.status)
                                       => e.status = f.status
<1>1. e.at \in RowSet /\ e.out \in Nat /\ e.status \in {"Pending", "Confirming", "Confirmed"}
      /\ (e.status = "Pending" <=> e.at[1] = 0)
  BY DEF LiveEntry
<1>2. \A f \in LiveEntry : f.status \in {"Pending", "Confirming", "Confirmed"}
  BY DEF LiveEntry
<1>3. /\ inflight_rank("Pending") = 0 /\ inflight_rank("Confirming") = 1
      /\ inflight_rank("Confirmed") = 2
  BY DEF inflight_rank
<1>4. \A st \in {"Pending", "Confirming", "Confirmed"} : inflight_rank(st) \in Nat
  BY <1>3
<1>5. \A a, b \in {"Pending", "Confirming", "Confirmed"} :
          inflight_rank(a) = inflight_rank(b) => a = b
  BY <1>3
<1>6. e.at[1] \in 0..MaxHeight /\ PlaceOf(e.at) \in 1..(MaxHeight + 1) /\ MaxHeight \in Nat
      /\ (PlaceOf(e.at) = MaxHeight + 1 <=> e.at[1] = 0)
      /\ (e.at[1] # 0 => PlaceOf(e.at) = e.at[1])
  BY <1>1, RowFields
<1> QED BY <1>1, <1>2, <1>4, <1>5, <1>6

\* What goes first of the entries p and q of a list.
Earlier(list, p, q) ==
    LET a == list[p]
        b == list[q]
    IN  \/ inflight_rank(a.status) < inflight_rank(b.status)
        \/ /\ inflight_rank(a.status) = inflight_rank(b.status)
           /\ \/ PlaceOf(a.at) > PlaceOf(b.at)
              \/ PlaceOf(a.at) = PlaceOf(b.at) /\ a.out > b.out
              \/ PlaceOf(a.at) = PlaceOf(b.at) /\ a.out = b.out /\ p < q

Ranking(list) ==
    {p \in (DOMAIN list) \X (DOMAIN list) : Earlier(list, p[1], p[2])}

LEMMA RankingTotal ==
    ASSUME NEW list \in Seq(LiveEntry)
    PROVE  Total(DOMAIN list, Ranking(list))
<1> DEFINE D == DOMAIN list
           r(p) == inflight_rank(list[p].status)
           h(p) == PlaceOf(list[p].at)
           o(p) == list[p].out
<1>1. \A p, q : <<p, q>> \in Ranking(list) <=>
          /\ p \in D /\ q \in D
          /\ \/ r(p) < r(q)
             \/ /\ r(p) = r(q)
                /\ \/ h(p) > h(q)
                   \/ h(p) = h(q) /\ o(p) > o(q)
                   \/ h(p) = h(q) /\ o(p) = o(q) /\ p < q
  BY DEF Ranking, Earlier
<1>2. \A p \in D : p \in Nat /\ r(p) \in Nat /\ h(p) \in Nat /\ o(p) \in Nat
  <2>1. ASSUME NEW p \in D PROVE p \in Nat /\ list[p] \in LiveEntry
    OBVIOUS
  <2> QED BY <2>1, EntryRank
<1> HIDE DEF D, r, h, o
<1>3. ASSUME NEW p \in D, NEW q \in D
      PROVE  /\ p # q => <<p, q>> \in Ranking(list) \/ <<q, p>> \in Ranking(list)
             /\ ~(<<p, q>> \in Ranking(list) /\ <<q, p>> \in Ranking(list))
  BY <1>1, <1>2
<1>4. ASSUME NEW p \in D, NEW q \in D, NEW x \in D,
             <<p, q>> \in Ranking(list), <<q, x>> \in Ranking(list)
      PROVE  <<p, x>> \in Ranking(list)
  BY <1>1, <1>2, <1>4
<1>5. Total(D, Ranking(list))
  BY <1>3, <1>4 DEF Total
<1> QED BY <1>5 DEF D

\* Sorting reorders the list: in flight first, then newest first.
LEMMA SortLiveFacts ==
    ASSUME NEW G, G \subseteq LiveEntry, NEW list \in Seq(G), Pairwise(list, Different)
    PROVE  /\ SortLive(list) \in Seq(G)
           /\ \A e : Has(SortLive(list), e) <=> Has(list, e)
           /\ Pairwise(SortLive(list), Different) /\ Pairwise(SortLive(list), NewestPair)
<1> DEFINE n == Len(list)
           R == Ranking(list)
           D == DOMAIN list
           s == [i \in 1..Cardinality(D) |->
                    CHOOSE q \in D : Cardinality(Under(D, R, q)) = i - 1]
<1>1. list \in Seq(LiveEntry) /\ n \in Nat /\ D = 1..n /\ list \in [1..n -> G]
  BY SequenceOfMore
<1>2. IsFiniteSet(D) /\ Cardinality(D) = n
  BY <1>1, FS_Interval
<1>3. Total(D, R)
  BY <1>1, RankingTotal
<1>4. \A q \in D : {p \in D : Earlier(list, p, q)} = Under(D, R, q)
  BY DEF Under, Ranking
<1>5. SortLive(list) = [i \in D |-> list[CHOOSE q \in D : Cardinality({p \in D : Earlier(list, p, q)}) = i - 1]]
  BY DEF SortLive, Earlier, PlaceOf
<1> HIDE DEF R
<1>6. \A i \in D : (CHOOSE q \in D : Cardinality({p \in D : Earlier(list, p, q)}) = i - 1)
                     = CHOOSE q \in D : Cardinality(Under(D, R, q)) = i - 1
  BY <1>4
<1>7. Sorts(s, D, R)
  BY <1>2, <1>3, RanksSort
<1>8. SortLive(list) = [i \in 1..n |-> list[s[i]]]
  BY <1>1, <1>2, <1>5, <1>6
<1> HIDE DEF s
<1>9. DOMAIN s = 1..n
  <2>1. s \in Seq(D) /\ DOMAIN s = 1..Len(s) /\ Len(s) \in Nat
    BY <1>7 DEF Sorts
  <2>2. DOMAIN s = 1..n
    BY <1>2 DEF s
  <2> QED BY <2>2
<1>10. ASSUME NEW i \in 1..n PROVE s[i] \in 1..n /\ list[s[i]] \in G
  BY <1>1, <1>7, <1>9 DEF Sorts
<1> DEFINE t == SortLive(list)
<1> HIDE DEF t, D
<1>11. t = [i \in 1..n |-> list[s[i]]] /\ t \in [1..n -> G]
  BY <1>8, <1>10 DEF t
<1>12. t \in Seq(G) /\ DOMAIN t = 1..n
  BY <1>1, <1>11, FunctionIsSequence
<1>13. ASSUME NEW e PROVE Has(t, e) <=> Has(list, e)
  <2>1. ASSUME Has(t, e) PROVE Has(list, e)
    BY <1>1, <1>10, <1>11, <1>12, <2>1 DEF Has, D
  <2>2. ASSUME Has(list, e) PROVE Has(t, e)
    <3>1. PICK q \in 1..n : list[q] = e
      BY <1>1, <2>2 DEF Has, D
    <3>2. PICK i \in 1..n : s[i] = q
      BY <1>1, <1>7, <1>9 DEF Sorts
    <3> QED BY <1>11, <1>12, <3>1, <3>2 DEF Has
  <2> QED BY <2>1, <2>2
<1>14. ASSUME NEW i \in 1..n, NEW j \in 1..n, i < j
       PROVE  <<t[i], t[j]>> \in Different /\ <<t[i], t[j]>> \in NewestPair
  <2>1. PICK p \in 1..n : p = s[i]
    BY <1>10
  <2>2. PICK q \in 1..n : q = s[j]
    BY <1>10
  <2>3. <<p, q>> \in R
    BY <1>7, <1>9, <1>14, <2>1, <2>2 DEF Sorts
  <2>4. Earlier(list, p, q) /\ p # q
    <3>1. Earlier(list, p, q)
      BY <2>3 DEF R, Ranking
    <3>2. p # q
      BY <1>1, <1>3, <2>3 DEF Total
    <3> QED BY <3>1, <3>2
  <2>5. PICK a \in LiveEntry : a = list[p] /\ a = t[i]
    BY <1>1, <1>11, <2>1
  <2>6. PICK b \in LiveEntry : b = list[q] /\ b = t[j]
    BY <1>1, <1>11, <2>2
  <2>7. <<a, b>> \in Different
    <3>1. CASE p < q
      BY <1>1, <2>5, <2>6, <3>1 DEF Pairwise, D
    <3>2. CASE q < p
      <4>1. <<b, a>> \in Different
        BY <1>1, <2>5, <2>6, <3>2 DEF Pairwise, D
      <4> QED BY <4>1, DifferentIsSymmetric
    <3> QED BY <2>4, <3>1, <3>2
  <2>8. <<a, b>> \in NewestPair
    <3>1. \/ inflight_rank(a.status) < inflight_rank(b.status)
          \/ inflight_rank(a.status) = inflight_rank(b.status) /\ PlaceOf(a.at) >= PlaceOf(b.at)
      <4>1. PlaceOf(a.at) \in Nat /\ PlaceOf(b.at) \in Nat
        BY EntryRank
      <4> QED BY <2>4, <2>5, <2>6, <4>1 DEF Earlier
    <3>2. CASE inflight_rank(a.status) < inflight_rank(b.status)
      BY <3>2 DEF NewestPair
    <3>3. CASE inflight_rank(a.status) = inflight_rank(b.status) /\ PlaceOf(a.at) >= PlaceOf(b.at)
      <4>1. a.status = b.status
        BY <3>3, EntryRank
      <4>2. a.at[1] \in Nat /\ b.at[1] \in Nat
        BY EntryRank
      <4>3. CASE a.at[1] = 0
        <5>1. b.at[1] = 0
          BY <4>1, <4>3, EntryRank
        <5>2. a.at[1] >= b.at[1]
          BY <4>2, <4>3, <5>1
        <5> QED BY <4>1, <5>2 DEF NewestPair
      <4>4. CASE a.at[1] # 0
        <5>1. b.at[1] # 0
          BY <4>1, <4>4, EntryRank
        <5>2. PlaceOf(a.at) = a.at[1] /\ PlaceOf(b.at) = b.at[1]
          BY <4>4, <5>1, EntryRank
        <5>3. a.at[1] >= b.at[1]
          BY <3>3, <5>2
        <5> QED BY <4>1, <5>3 DEF NewestPair
      <4> QED BY <4>3, <4>4
    <3> QED BY <3>1, <3>2, <3>3
  <2> QED BY <2>5, <2>6, <2>7, <2>8
<1>15. Pairwise(t, Different) /\ Pairwise(t, NewestPair)
  BY <1>12, <1>14 DEF Pairwise
<1> QED BY <1>12, <1>13, <1>15 DEF t

\* A row of the wallet and a row of pending.toml that is none of its own.
LEMMA AboveFacts ==
    ASSUME HistoryInvariant, NEW k
    PROVE  /\ RowsAbove(k) \subseteq AllRows /\ AllRows \subseteq RowSet
           /\ recorded \subseteq Tx /\ OutputsOf(0, recorded) \subseteq RowSet
           /\ IsFiniteSet(OutputsOf(0, recorded))
           /\ \A u \in OutputsOf(0, recorded) : u = <<0, u[2], u[3]>> /\ u[1] = 0 /\ u[2] \in recorded
           /\ \A u \in AllRows : u[2] \in recorded => u[1] = 0 /\ u[2] \in unmined
           /\ \A u \in OutputsOf(0, recorded) : u[2] \in unmined => u \in AllRows
<1>1. WalletHolds /\ WalletTyped /\ InFlightApart /\ Len(chain) =< MaxHeight
      /\ tip \in 0..Len(chain) /\ unmined \subseteq Tx /\ AllRows \subseteq RowSet
  BY HistoryHolds, AllRowsFacts DEF HistoryInvariant, WalletRight, WalletHolds
<1>2. recorded \subseteq Tx
  BY <1>1, HistoryTxAssumption DEF WalletTyped
<1>3. OutputsOf(0, recorded) \subseteq RowSet /\ IsFiniteSet(OutputsOf(0, recorded))
  BY <1>2, LooseRowFacts, OutputsFinite
<1>4. \A u \in OutputsOf(0, recorded) :
          u = <<0, u[2], u[3]>> /\ u[2] \in recorded /\ u[3] \in DOMAIN MemosOf[u[2]]
  BY <1>2, OutputFacts
<1>5. \A u \in OutputsOf(0, recorded) : u[1] = 0
  BY <1>2, LooseRowFacts
<1>6. ASSUME NEW u \in AllRows, u[2] \in recorded PROVE u[1] = 0 /\ u[2] \in unmined
  <2>1. CASE u \in MinedRows(tip)
    <3>1. u[2] \in Mined(tip)
      BY <1>1, <2>1, MinedRowFacts
    <3> QED BY <1>1, <1>6, <3>1 DEF InFlightApart
  <2>2. CASE u \in OutputsOf(0, unmined)
    BY <1>1, <2>2, LooseRowFacts
  <2> QED BY <2>1, <2>2 DEF AllRows
<1>7. ASSUME NEW u \in OutputsOf(0, recorded), u[2] \in unmined PROVE u \in AllRows
  <2>1. u \in OutputsOf(0, unmined)
    BY <1>1, <1>4, <1>7, OutputFacts
  <2> QED BY <2>1 DEF AllRows
<1> QED BY <1>1, <1>2, <1>3, <1>4, <1>5, <1>6, <1>7 DEF RowsAbove

\* An entry pending.toml adds.
Recorded(u) == [at |-> u, out |-> 0, status |-> "Pending", ok |-> MemoAt(u).signer = Root]

LEMMA RecordedFacts ==
    ASSUME NEW u \in RowSet, u[1] = 0, NEW A, u \in A, NEW X
    PROVE  Recorded(u) \in Sound(A, X) /\ Recorded(u).at = u
<1> DEFINE b == MemoAt(u).signer = Root
<1>1. b \in BOOLEAN
  OBVIOUS
<1>2. Recorded(u) = [at |-> u, out |-> 0, status |-> "Pending", ok |-> b]
  BY DEF Recorded
<1> HIDE DEF b
<1>3. Recorded(u).at = u /\ Recorded(u).status = "Pending"
  BY <1>2
<1>4. Recorded(u) \in LiveEntry
  BY <1>1, <1>2 DEF LiveEntry
<1> QED BY <1>3, <1>4 DEF Sound

\* Merging keeps what is mined and what is recorded, and adds the recorded writes the
\* wallet does not know.
LEMMA MergeFacts ==
    ASSUME HistoryInvariant, NEW k, NEW X, NEW list \in Seq(Sound(RowsAbove(k), X)),
           Pairwise(list, Different), NEW filter, NEW A, A = RowsAbove(k) \cup OutputsOf(0, recorded),
           NEW m, m = MergePending(list, filter)
    PROVE  /\ m \in Seq(Sound(A, X)) /\ Pairwise(m, Different)
           /\ \A e : Has(list, e) /\ (e.status # "Pending" \/ e.at[2] \in recorded) => Has(m, e)
           /\ \A u \in OutputsOf(0, recorded) :
                  /\ u[2] \notin unmined /\ MemoAt(u).op \in {"SET", "DEL", "INIT"}
                  /\ Matches(MemoAt(u).key, filter)
                  => ShowsWrite(m, u)
<1> DEFINE wanted == {e \in Range(list) : \/ MinConfs = 0 \/ e.status # "Pending"
                                          \/ e.at[2] \in recorded}
           own == Kept(list, wanted)
           seen == {own[n].at[2] : n \in DOMAIN own}
           listed == {u \in OutputsOf(0, recorded \ seen) :
                          /\ MemoAt(u).op \in {"SET", "DEL", "INIT"}
                          /\ Matches(MemoAt(u).key, filter)}
           o == Ordered(listed)
           rest == [n \in 1..Cardinality(listed) |-> Recorded(o[n])]
           S == Sound(A, X)
<1>1. m = own \o rest
  BY DEF MergePending, Recorded
<1>f. /\ RowsAbove(k) \subseteq AllRows /\ AllRows \subseteq RowSet
      /\ recorded \subseteq Tx /\ OutputsOf(0, recorded) \subseteq RowSet
      /\ IsFiniteSet(OutputsOf(0, recorded))
      /\ \A u \in OutputsOf(0, recorded) : u = <<0, u[2], u[3]>> /\ u[1] = 0 /\ u[2] \in recorded
      /\ \A u \in AllRows : u[2] \in recorded => u[1] = 0 /\ u[2] \in unmined
  BY AboveFacts
<1>2. list \in Seq(S) /\ S \subseteq LiveEntry
  <2>1. Sound(RowsAbove(k), X) \subseteq S
    BY DEF Sound
  <2>2. S \subseteq LiveEntry
    BY DEF Sound
  <2> HIDE DEF S
  <2> QED BY <2>1, <2>2, SequenceOfMore
<1>3. own \in Seq(S) /\ Pairwise(own, Different)
      /\ \A e : Has(own, e) <=> Has(list, e) /\ e \in wanted
  <2> HIDE DEF wanted, S
  <2> QED BY <1>2, KeptFacts DEF Has
<1>4. \A n \in DOMAIN own : own[n] \in Sound(RowsAbove(k), X)
  <2> HIDE DEF wanted, S
  <2>1. own \in Seq(Sound(RowsAbove(k), X))
    BY KeptFacts
  <2> HIDE DEF own
  <2> QED BY <2>1
<1>5. /\ \A u \in OutputsOf(0, recorded \ seen) : u \in OutputsOf(0, recorded) /\ u[2] \notin seen
      /\ \A u \in OutputsOf(0, recorded) : u[2] \notin seen => u \in OutputsOf(0, recorded \ seen)
  <2> HIDE DEF seen
  <2>1. recorded \ seen \subseteq Tx
    BY <1>f
  <2>2. ASSUME NEW u PROVE /\ u \in OutputsOf(0, recorded \ seen) <=>
                                  /\ u = <<0, u[2], u[3]>> /\ u[2] \in recorded \ seen
                                  /\ u[3] \in DOMAIN MemosOf[u[2]]
                           /\ u \in OutputsOf(0, recorded) <=>
                                  /\ u = <<0, u[2], u[3]>> /\ u[2] \in recorded
                                  /\ u[3] \in DOMAIN MemosOf[u[2]]
    BY <2>1, <1>f, OutputFacts
  <2> QED BY <2>2
<1>6. listed \subseteq OutputsOf(0, recorded) /\ \A u \in listed : u[2] \notin seen
  BY <1>5
<1>7. ASSUME NEW u \in OutputsOf(0, recorded), u[2] \notin seen,
             MemoAt(u).op \in {"SET", "DEL", "INIT"}, Matches(MemoAt(u).key, filter)
      PROVE  u \in listed
  BY <1>5, <1>7
<1> HIDE DEF listed, S, wanted, own
<1>8. Sorts(o, listed, InOrder) /\ Cardinality(listed) \in Nat /\ Cardinality(listed) = Len(o)
  <2>1. IsFiniteSet(listed) /\ listed \subseteq RowSet
    BY <1>6, <1>f, FS_Subset
  <2>2. Sorts(o, listed, InOrder)
    BY <2>1, OrderedSorts
  <2>3. Cardinality(listed) \in Nat
    BY <2>1, FS_CardinalityType
  <2>4. DOMAIN o = 1..Cardinality(listed)
    BY DEF Ordered
  <2> HIDE DEF o
  <2>5. DOMAIN o = 1..Len(o) /\ Len(o) \in Nat
    BY <2>2 DEF Sorts
  <2> QED BY <2>2, <2>3, <2>4, <2>5
<1> HIDE DEF o
<1>9. PICK c \in Nat : c = Cardinality(listed) /\ DOMAIN o = 1..c
  BY <1>8 DEF Sorts
<1>10. ASSUME NEW n \in 1..c
       PROVE  o[n] \in listed /\ o[n] \in RowSet /\ o[n][1] = 0 /\ o[n] \in A
              /\ o[n][2] \notin seen /\ o[n] = <<0, o[n][2], o[n][3]>>
  <2>1. o[n] \in listed
    BY <1>8, <1>9 DEF Sorts
  <2> HIDE DEF seen
  <2> QED BY <1>6, <1>f, <2>1
<1>11. rest = [n \in 1..c |-> Recorded(o[n])]
  BY <1>9
<1> HIDE DEF rest
<1>12. ASSUME NEW n \in 1..c
       PROVE  rest[n] \in S /\ rest[n].at = o[n]
  <2>1. PICK u : u = o[n]
    OBVIOUS
  <2>2. Recorded(u) \in S /\ Recorded(u).at = u
    <3> HIDE DEF seen
    <3>1. u \in RowSet /\ u[1] = 0 /\ u \in A
      BY <1>10, <2>1
    <3> QED BY <3>1, RecordedFacts DEF S
  <2> QED BY <1>11, <2>1, <2>2
<1>13. rest \in Seq(S) /\ DOMAIN rest = 1..c
  <2>1. rest \in [1..c -> S]
    BY <1>11, <1>12
  <2> QED BY <2>1, <1>11, FunctionIsSequence
<1>14. Pairwise(rest, Different)
  <2> SUFFICES ASSUME NEW i \in 1..c, NEW j \in 1..c, i < j
               PROVE  <<rest[i], rest[j]>> \in Different
    BY <1>13 DEF Pairwise
  <2>1. <<o[i], o[j]>> \in InOrder
    BY <1>8, <1>9 DEF Sorts
  <2>2. o[i] # o[j]
    <3>1. Total(RowSet, InOrder) /\ o[i] \in RowSet /\ o[j] \in RowSet
      BY <1>10, RowsTotal
    <3> QED BY <2>1, <3>1 DEF Total
  <2>3. o[i] = <<0, o[i][2], o[i][3]>> /\ o[j] = <<0, o[j][2], o[j][3]>>
    BY <1>10
  <2>4. ~(o[i][2] = o[j][2] /\ o[i][3] = o[j][3])
    BY <2>2, <2>3
  <2>5. rest[i] \in LiveEntry /\ rest[j] \in LiveEntry /\ rest[i].at = o[i] /\ rest[j].at = o[j]
    BY <1>2, <1>12
  <2> QED BY <2>4, <2>5 DEF Different
<1>15. \A i \in DOMAIN own : \A j \in DOMAIN rest : <<own[i], rest[j]>> \in Different
  <2> SUFFICES ASSUME NEW i \in DOMAIN own, NEW j \in 1..c
               PROVE  <<own[i], rest[j]>> \in Different
    BY <1>13
  <2>1. own[i].at[2] \in seen
    OBVIOUS
  <2> HIDE DEF seen
  <2>2. rest[j].at[2] \notin seen
    BY <1>10, <1>12
  <2>3. own[i] \in LiveEntry /\ rest[j] \in LiveEntry
    BY <1>2, <1>3, <1>12
  <2> QED BY <2>1, <2>2, <2>3 DEF Different
<1>16. m \in Seq(S) /\ Pairwise(m, Different)
  BY <1>1, <1>3, <1>13, <1>14, <1>15, JoinedMembers, JoinedPairwise
<1>17. /\ \A i \in DOMAIN own : i \in DOMAIN m /\ m[i] = own[i]
       /\ \A i \in DOMAIN rest : Len(own) + i \in DOMAIN m /\ m[Len(own) + i] = rest[i]
  BY <1>1, <1>3, <1>13, JoinedMembers
<1>18. ASSUME NEW e, Has(list, e), e.status # "Pending" \/ e.at[2] \in recorded
       PROVE  Has(m, e)
  <2>1. e \in wanted
    <3>1. e \in Range(list)
      BY <1>18 DEF Has, Range
    <3> QED BY <1>18, <3>1 DEF wanted
  <2>2. Has(own, e)
    BY <1>3, <1>18, <2>1
  <2> QED BY <1>17, <2>2 DEF Has
<1>19. ASSUME NEW u \in OutputsOf(0, recorded), u[2] \notin unmined,
              MemoAt(u).op \in {"SET", "DEL", "INIT"}, Matches(MemoAt(u).key, filter)
       PROVE  ShowsWrite(m, u)
  <2>1. u[2] \notin seen
    <3> SUFFICES ASSUME NEW i \in DOMAIN own, own[i].at[2] = u[2] PROVE FALSE
      OBVIOUS
    <3>1. own[i].at \in RowsAbove(k)
      BY <1>4 DEF Sound
    <3> HIDE DEF seen
    <3>2. u[2] \in recorded
      BY <1>f
    <3> QED BY <1>f, <1>19, <3>1, <3>2
  <2>2. u \in listed
    BY <1>7, <1>19, <2>1
  <2>3. PICK n \in 1..c : o[n] = u
    BY <1>8, <1>9, <2>2 DEF Sorts
  <2>4. rest[n].at = u /\ n \in DOMAIN rest
    BY <1>12, <1>13, <2>3
  <2>5. m[Len(own) + n].at = u /\ Len(own) + n \in DOMAIN m
    BY <1>17, <2>4
  <2> QED BY <2>5 DEF ShowsWrite
<1> QED BY <1>16, <1>18, <1>19 DEF S

\* The unfiltered list holds every key/value write.
LEMMA MatchesAll ==
    ASSUME NEW m \in Memo, InWriteLog(m.op)
    PROVE  Matches(m.key, NoFilter)
BY DEF Memo, InWriteLog, DataOps, SetOps, RegistryOps, Matches, NoFilter

\* The live part is right: different writes, newest first, the verified ones as the fold
\* found them, and, unfiltered, none missing.
LEMMA LiveFacts ==
    ASSUME HistoryInvariant, NEW k \in Nat, NEW rows, Sorts(rows, RowsAbove(k), InOrder),
           rows \in Seq(MemoRow), NEW seed \in Database, NEW at, NEW g, Trace(g, seed, rows, at),
           NEW X, X = TakenOf(g, rows, at), NEW q \in Query,
           NEW live, live = LiveList(seed, rows, at, q),
           NEW A, A = RowsAbove(k) \cup OutputsOf(0, recorded)
    PROVE  /\ live \in Seq(Sound(A, X))
           /\ Pairwise(live, Different) /\ Pairwise(live, NewestPair)
           /\ q.filter = NoFilter /\ q.ops = {} =>
                  /\ \A u \in X : Has(live, Done(u))
                  /\ \A u \in RowsAbove(k) :
                         InWriteLog(MemoAt(u).op) /\ StatusOf(u, at) # "Dropped"
                             /\ (u[1] # 0 \/ u[2] \in recorded) => ShowsWrite(live, u)
                  /\ \A u \in OutputsOf(0, recorded) :
                         InWriteLog(MemoAt(u).op) /\ MemoAt(u).op # "SETL" => ShowsWrite(live, u)
<1> DEFINE folded == FoldHistory(seed, rows, at).list
           w1 == {e \in Range(folded) : Matches(MemoAt(e.at).key, q.filter)}
           listed == Kept(folded, w1)
           merged == MergePending(listed, q.filter)
           sorted == SortLive(merged)
           w2 == {e \in Range(sorted) : OpShown(MemoAt(e.at).op, q.ops)}
           S == Sound(A, X)
           T == Sound(RowsAbove(k), X)
<1>1. live = Kept(sorted, w2)
  BY DEF LiveList
<1>2. ListRight(folded, k, at, X) /\ Shows(folded, k, at, X)
  BY EntriesRight
<1> HIDE DEF folded
<1>f. /\ RowsAbove(k) \subseteq AllRows /\ recorded \subseteq Tx /\ AllRows \subseteq RowSet
      /\ \A u \in OutputsOf(0, recorded) : u[1] = 0 /\ u[2] \in recorded
      /\ \A u \in OutputsOf(0, recorded) : u[2] \in unmined => u \in AllRows
  BY AboveFacts
<1>g. /\ \A u \in AllRows : MemoAt(u) \in Memo
      /\ \A u \in OutputsOf(0, recorded) : MemoAt(u) \in Memo
  BY <1>f, HistoryHolds, AllRowsFacts, LooseRowFacts
<1>3. folded \in Seq(T) /\ Pairwise(folded, Different) /\ S \subseteq LiveEntry
  <2>1. folded \in Seq(LiveEntry) /\ Pairwise(folded, Different)
    BY <1>2 DEF ListRight
  <2>2. Len(folded) \in Nat /\ DOMAIN folded = 1..Len(folded)
        /\ folded = [i \in 1..Len(folded) |-> folded[i]]
    BY <2>1
  <2>3. \A i \in 1..Len(folded) : folded[i] \in T
    BY <1>2, <2>1, <2>2 DEF ListRight, Sound
  <2>4. S \subseteq LiveEntry
    BY DEF Sound
  <2> HIDE DEF T, S
  <2>5. folded \in [1..Len(folded) -> T]
    BY <2>2, <2>3
  <2> QED BY <2>1, <2>2, <2>4, <2>5, FunctionIsSequence
<1> HIDE DEF w1, w2, S, T
<1>4. listed \in Seq(T) /\ Pairwise(listed, Different)
      /\ \A e : Has(folded, e) /\ e \in w1 => Has(listed, e)
  BY <1>3, KeptFacts DEF Has
<1> HIDE DEF listed
<1>5. /\ merged \in Seq(S) /\ Pairwise(merged, Different)
      /\ \A e : Has(listed, e) /\ (e.status # "Pending" \/ e.at[2] \in recorded) => Has(merged, e)
      /\ \A u \in OutputsOf(0, recorded) :
             /\ u[2] \notin unmined /\ MemoAt(u).op \in {"SET", "DEL", "INIT"}
             /\ Matches(MemoAt(u).key, q.filter)
             => ShowsWrite(merged, u)
  BY <1>4, MergeFacts DEF S, T
<1> HIDE DEF merged
<1>6. /\ sorted \in Seq(S) /\ Pairwise(sorted, Different) /\ Pairwise(sorted, NewestPair)
      /\ \A e : Has(sorted, e) <=> Has(merged, e)
  BY <1>3, <1>5, SortLiveFacts
<1> HIDE DEF sorted
<1>7. /\ live \in Seq(S) /\ Pairwise(live, Different) /\ Pairwise(live, NewestPair)
      /\ \A e : Has(sorted, e) /\ e \in w2 => Has(live, e)
  BY <1>1, <1>6, KeptFacts DEF Has
<1>8. ASSUME q.filter = NoFilter, q.ops = {}
      PROVE  /\ \A u \in X : Has(live, Done(u))
             /\ \A u \in RowsAbove(k) :
                    InWriteLog(MemoAt(u).op) /\ StatusOf(u, at) # "Dropped"
                        /\ (u[1] # 0 \/ u[2] \in recorded) => ShowsWrite(live, u)
             /\ \A u \in OutputsOf(0, recorded) :
                    InWriteLog(MemoAt(u).op) /\ MemoAt(u).op # "SETL" => ShowsWrite(live, u)
  <2>1. \A e : Has(merged, e) => Has(live, e)
    <3> SUFFICES ASSUME NEW e, Has(sorted, e) PROVE e \in w2
      BY <1>6, <1>7
    <3>1. e \in Range(sorted)
      BY DEF Has, Range
    <3> QED BY <1>8, <3>1 DEF w2, OpShown
  <2>2. ASSUME NEW e, Has(folded, e), e.status # "Pending" \/ e.at[2] \in recorded
        PROVE  Has(live, e)
    <3>1. PICK i \in DOMAIN folded : folded[i] = e
      BY <2>2 DEF Has
    <3>2. e.at \in RowsAbove(k) /\ InWriteLog(MemoAt(e.at).op)
      BY <1>2, <3>1 DEF ListRight
    <3>3. Matches(MemoAt(e.at).key, q.filter)
      BY <1>8, <1>f, <1>g, <3>2, MatchesAll
    <3>4. e \in w1
      BY <3>1, <3>3 DEF w1, Range
    <3> QED BY <1>4, <1>5, <2>1, <2>2, <3>4
  <2>3. ASSUME NEW u \in X PROVE Has(live, Done(u))
    <3>1. Has(folded, Done(u))
      BY <1>2 DEF Shows, Has
    <3> QED BY <2>2, <3>1, DoneFields
  <2>4. ASSUME NEW u \in RowsAbove(k), InWriteLog(MemoAt(u).op), StatusOf(u, at) # "Dropped",
               u[1] # 0 \/ u[2] \in recorded
        PROVE  ShowsWrite(live, u)
    <3>1. PICK i \in DOMAIN folded : folded[i].at = u
      BY <1>2, <2>4 DEF Shows
    <3>2. PICK e : e = folded[i]
      OBVIOUS
    <3>3. e.at = u /\ Has(folded, e) /\ (e.status = "Pending" <=> u[1] = 0)
      <4>1. e.status = StatusOf(u, at)
        BY <1>2, <3>1, <3>2 DEF ListRight
      <4> QED BY <3>1, <3>2, <4>1, StatusFacts DEF Has
    <3>4. Has(live, e)
      BY <2>2, <2>4, <3>3
    <3> QED BY <3>3, <3>4 DEF Has, ShowsWrite
  <2>5. ASSUME NEW u \in OutputsOf(0, recorded), InWriteLog(MemoAt(u).op), MemoAt(u).op # "SETL"
        PROVE  ShowsWrite(live, u)
    <3>1. CASE u[2] \in unmined
      <4>1. u \in RowsAbove(k)
        BY <1>f, <3>1 DEF RowsAbove
      <4>2. StatusOf(u, at) = "Pending" /\ u[2] \in recorded
        BY <1>f, StatusFacts
      <4> QED BY <2>4, <2>5, <4>1, <4>2
    <3>2. CASE u[2] \notin unmined
      <4>1. MemoAt(u).op \in {"SET", "DEL", "INIT"}
        BY <2>5 DEF InWriteLog, DataOps, SetOps
      <4>2. Matches(MemoAt(u).key, q.filter)
        BY <1>8, <1>g, <2>5, MatchesAll
      <4>3. ShowsWrite(merged, u)
        BY <1>5, <3>2, <4>1, <4>2
      <4>4. PICK i \in DOMAIN merged : merged[i].at[2] = u[2] /\ merged[i].at[3] = u[3]
        BY <4>3 DEF ShowsWrite
      <4>5. PICK e : e = merged[i]
        OBVIOUS
      <4>6. Has(live, e) /\ e.at[2] = u[2] /\ e.at[3] = u[3]
        BY <2>1, <4>4, <4>5 DEF Has
      <4> QED BY <4>6 DEF Has, ShowsWrite
    <3> QED BY <3>1, <3>2
  <2> QED BY <2>3, <2>4, <2>5
<1> QED BY <1>7, <1>8 DEF S

\* What takes effect is a key/value write.
LEMMA TakenAreWrites ==
    ASSUME NEW seed, NEW s, NEW at, NEW out, NEW X, Folds(seed, s, at, out, X), NEW u \in X
    PROVE  InWriteLog(MemoAt(u).op)
BY DEF Folds, TakenOf, Takes, PromotedWrite

\* Two mined rows in chain order are, as entries, two writes newest first.
LEMMA DonePairs ==
    ASSUME HistoryInvariant, NEW u \in MinedRows(tip), NEW w \in MinedRows(tip), <<u, w>> \in InOrder
    PROVE  /\ Done(u) \in LiveEntry /\ Done(w) \in LiveEntry
           /\ <<Done(w), Done(u)>> \in Different /\ <<Done(w), Done(u)>> \in NewestPair
<1>1. WalletHolds /\ WalletTyped /\ Len(chain) =< MaxHeight /\ tip \in 0..Len(chain)
  BY HistoryHolds DEF WalletHolds
<1>2. u \in AllRows /\ w \in AllRows /\ u \in RowSet /\ w \in RowSet
      /\ u[1] \in 1..tip /\ w[1] \in 1..tip /\ tip \in Nat
  BY <1>1, MinedRowFacts, AllRowsFacts DEF AllRows
<1>3. ASSUME NEW x, x \in RowSet, x[1] \in 1..tip PROVE Done(x) \in LiveEntry
  <2>1. x[3] \in Nat /\ x[1] # 0
    BY <1>2, <1>3, RowFields
  <2> QED BY <1>3, <2>1 DEF Done, LiveEntry
<1>4. ~(u[2] = w[2] /\ u[3] = w[3])
  <2>1. u # w
    BY <1>2, RowsTotal DEF Total
  <2> QED BY <1>2, <2>1, OneRowEach
<1>5. w[1] >= u[1]
  <2>1. Before(u, w)
    BY DEF InOrder
  <2>2. PlaceOf(u) = u[1] /\ PlaceOf(w) = w[1]
    BY <1>2, RowFields
  <2> QED BY <1>2, <2>1, <2>2, BeforePlaces
<1>6. Done(u) \in LiveEntry /\ Done(w) \in LiveEntry
  BY <1>2, <1>3
<1> QED BY <1>4, <1>5, <1>6, DoneFields DEF Different, NewestPair

\* The snapshot's part, newest first: the writes that took effect, each once.
LEMMA DeepFacts ==
    ASSUME HistoryInvariant, NEW X, X \subseteq MinedRows(tip), NEW hist, Sorts(hist, X, InOrder),
           NEW q \in Query, NEW r, r = Reverse(DeepRows(hist, q))
    PROVE  /\ r \in Seq({Done(u) : u \in X}) /\ {Done(u) : u \in X} \subseteq LiveEntry
           /\ Pairwise(r, Different) /\ Pairwise(r, NewestPair)
           /\ q.filter = NoFilter /\ q.ops = {} =>
                  \A u \in X : InWriteLog(MemoAt(u).op) => Has(r, Done(u))
<1> DEFINE wanted == {u \in Range(hist) : /\ Matches(MemoAt(u).key, q.filter)
                                          /\ OpShown(MemoAt(u).op, q.ops)}
           kept == Kept(hist, wanted)
           d == DeepRows(hist, q)
           S == {Done(u) : u \in X}
<1>0. hist \in Seq(X) /\ Pairwise(hist, InOrder)
  BY DEF Sorts, Pairwise
<1>1. d = [n \in DOMAIN kept |-> Done(kept[n])]
  BY DEF DeepRows, Done
<1> HIDE DEF wanted
<1>2. kept \in Seq(X) /\ Pairwise(kept, InOrder)
      /\ \A e : Has(kept, e) <=> Has(hist, e) /\ e \in wanted
  BY <1>0, KeptFacts DEF Has
<1> HIDE DEF kept, d, S
<1>3. PICK n \in Nat : n = Len(kept) /\ DOMAIN kept = 1..n
  BY <1>2
<1>4. \A i \in 1..n : kept[i] \in X
  BY <1>2, <1>3
<1>5. d = [i \in 1..n |-> Done(kept[i])] /\ d \in [1..n -> S]
  BY <1>1, <1>3, <1>4 DEF S
<1>6. d \in Seq(S) /\ Len(d) = n
  BY <1>5, FunctionIsSequence
<1>7. r \in Seq(S) /\ Len(r) = n /\ \A i \in 1..n : r[i] = d[(n - i) + 1]
  BY <1>6, ReverseFacts DEF d
<1>8. DOMAIN r = 1..n
  BY <1>7
<1>9. WalletHolds /\ WalletTyped /\ Len(chain) =< MaxHeight /\ tip \in 0..Len(chain) /\ tip \in Nat
      /\ Len(chain) \in Nat
  BY HistoryHolds DEF WalletHolds
<1>10. S \subseteq LiveEntry
  <2> SUFFICES ASSUME NEW u \in X PROVE Done(u) \in LiveEntry
    BY DEF S
  <2>1. u \in RowSet /\ u[1] \in 1..tip
    BY <1>9, MinedRowFacts
  <2>2. u[3] \in Nat /\ u[1] # 0
    BY <1>9, <2>1, RowFields
  <2> QED BY <2>1, <2>2 DEF Done, LiveEntry
<1>11. ASSUME NEW i \in 1..n, NEW j \in 1..n, i < j
       PROVE  <<r[i], r[j]>> \in Different /\ <<r[i], r[j]>> \in NewestPair
  <2>1. PICK a \in 1..n : a = (n - i) + 1
    OBVIOUS
  <2>2. PICK b \in 1..n : b = (n - j) + 1
    OBVIOUS
  <2>3. b < a
    BY <1>11, <2>1, <2>2
  <2>4. r[i] = Done(kept[a]) /\ r[j] = Done(kept[b])
    BY <1>5, <1>7, <2>1, <2>2
  <2>5. <<kept[b], kept[a]>> \in InOrder
    BY <1>2, <1>3, <2>3 DEF Pairwise
  <2>6. kept[a] \in MinedRows(tip) /\ kept[b] \in MinedRows(tip)
    BY <1>4
  <2> QED BY <2>4, <2>5, <2>6, DonePairs
<1>12. Pairwise(r, Different) /\ Pairwise(r, NewestPair)
  BY <1>8, <1>11 DEF Pairwise
<1>13. ASSUME q.filter = NoFilter, q.ops = {}, NEW u \in X, InWriteLog(MemoAt(u).op)
       PROVE  Has(r, Done(u))
  <2>1. MemoAt(u) \in Memo
    BY <1>9, MinedRowFacts
  <2>2. PICK x \in DOMAIN hist : hist[x] = u
    BY DEF Sorts
  <2>3. Matches(MemoAt(u).key, q.filter)
    BY <1>13, <2>1, MatchesAll
  <2>4. u \in Range(hist)
    BY <2>2 DEF Range
  <2>5. u \in wanted
    BY <1>13, <2>3, <2>4 DEF wanted, OpShown
  <2>6. Has(hist, u)
    BY <2>2 DEF Has
  <2>7. PICK i \in 1..n : kept[i] = u
    BY <1>2, <1>3, <2>5, <2>6 DEF Has
  <2>8. PICK j \in 1..n : j = (n - i) + 1
    OBVIOUS
  <2>9. (n - j) + 1 = i
    BY <2>8
  <2>10. r[j] = Done(u)
    BY <1>5, <1>7, <2>7, <2>9
  <2> QED BY <1>8, <2>10 DEF Has
<1> QED BY <1>7, <1>10, <1>12, <1>13 DEF S

\* The list of a query: the live part, then the snapshot's.
LEMMA WholeFacts ==
    ASSUME HistoryInvariant, NEW k \in 0..tip, NEW X, NEW Y, Y \subseteq MinedRows(k),
           NEW live, live \in Seq(Sound(RowsAbove(k) \cup OutputsOf(0, recorded), X)),
           Pairwise(live, Different), Pairwise(live, NewestPair),
           NEW r, r \in Seq({Done(u) : u \in Y}), {Done(u) : u \in Y} \subseteq LiveEntry,
           Pairwise(r, Different), Pairwise(r, NewestPair)
    PROVE  /\ live \o r \in Seq(LiveEntry)
           /\ Pairwise(live \o r, Different) /\ Pairwise(live \o r, NewestPair)
           /\ \A i \in DOMAIN (live \o r) :
                  (live \o r)[i].ok /\ (live \o r)[i].status = "Confirmed" =>
                      \E u \in X \cup Y : (live \o r)[i] = Done(u)
           /\ \A e : Has(live, e) \/ Has(r, e) => Has(live \o r, e)
<1> DEFINE A == RowsAbove(k) \cup OutputsOf(0, recorded)
           S == Sound(A, X)
           D == {Done(u) : u \in Y}
           w == live \o r
<1>1. S \subseteq LiveEntry
  BY DEF Sound
<1>2. live \in Seq(LiveEntry) /\ r \in Seq(LiveEntry)
  <2> HIDE DEF S, D
  <2>1. live \in Seq(S) /\ r \in Seq(D) /\ D \subseteq LiveEntry
    BY DEF S, D
  <2> QED BY <1>1, <2>1, SequenceOfMore
<1>3. ASSUME NEW i \in DOMAIN live PROVE live[i] \in S
  <2> HIDE DEF S
  <2>1. live \in Seq(S)
    BY DEF S
  <2> QED BY <2>1
<1>4. ASSUME NEW j \in DOMAIN r PROVE \E u \in Y : r[j] = Done(u)
  <2>1. r[j] \in D
    <3> HIDE DEF D
    <3>1. r \in Seq(D)
      BY DEF D
    <3> QED BY <3>1
  <2> QED BY <2>1
<1>f. /\ RowsAbove(k) \subseteq AllRows /\ AllRows \subseteq RowSet
      /\ \A u \in OutputsOf(0, recorded) : u = <<0, u[2], u[3]>> /\ u[1] = 0 /\ u[2] \in recorded
      /\ \A u \in AllRows : u[2] \in recorded => u[1] = 0 /\ u[2] \in unmined
  BY AboveFacts
<1>g. WalletHolds /\ WalletTyped /\ Len(chain) =< MaxHeight /\ tip \in 0..Len(chain)
      /\ k \in 0..Len(chain) /\ k \in Nat
  BY HistoryHolds DEF WalletHolds
<1>5. ASSUME NEW i \in DOMAIN live, NEW j \in DOMAIN r
      PROVE  <<live[i], r[j]>> \in Different /\ <<live[i], r[j]>> \in NewestPair
  <2>1. PICK e \in S : e = live[i]
    BY <1>3
  <2>2. PICK u \in Y : r[j] = Done(u)
    BY <1>4
  <2>3. e \in LiveEntry /\ e.at \in A /\ e.at[1] \in Nat
    BY <2>1, EntryRank DEF Sound
  <2>4. u \in MinedRows(k) /\ u[1] \in 1..k /\ Done(u) \in LiveEntry
    BY <1>g, MinedRowFacts
  <2>5. u \in AllRows /\ u \in MinedRows(tip) /\ u[2] \in Mined(tip)
    BY <1>g, <2>4, RowsUpTo, MinedRowFacts DEF AllRows
  <2>6. e.at[1] = 0 \/ e.at[1] > k
    BY <1>f, <2>3 DEF RowsAbove
  <2>7. ~(e.at[2] = u[2] /\ e.at[3] = u[3])
    <3>1. CASE e.at \in RowsAbove(k)
      <4>1. e.at # u
        BY <1>g, <2>3, <2>4, <2>6
      <4>2. e.at \in AllRows
        BY <1>f, <3>1
      <4> QED BY <2>5, <4>1, <4>2, OneRowEach
    <3>2. CASE e.at \in OutputsOf(0, recorded)
      <4>1. e.at[2] \in recorded
        BY <1>f, <3>2
      <4>2. u[2] \notin recorded
        BY <1>f, <1>g, <2>4, <2>5
      <4> QED BY <4>1, <4>2
    <3> QED BY <2>3, <3>1, <3>2
  <2>8. <<e, Done(u)>> \in Different
    BY <2>3, <2>4, <2>7, DoneFields DEF Different
  <2>9. <<e, Done(u)>> \in NewestPair
    <3>1. e.status \in {"Pending", "Confirming", "Confirmed"} /\ (e.status = "Pending" <=> e.at[1] = 0)
      BY <2>3 DEF LiveEntry
    <3>2. CASE e.status = "Confirmed"
      <4>1. e.at[1] >= u[1]
        BY <1>g, <2>3, <2>4, <2>6, <3>1, <3>2
      <4> QED BY <2>3, <2>4, <3>2, <4>1, DoneFields DEF NewestPair
    <3>3. CASE e.status \in {"Pending", "Confirming"}
      <4>1. inflight_rank(e.status) < inflight_rank("Confirmed")
        BY <3>3 DEF inflight_rank
      <4> QED BY <2>3, <2>4, <4>1, DoneFields DEF NewestPair
    <3> QED BY <3>1, <3>2, <3>3
  <2> QED BY <2>1, <2>2, <2>8, <2>9
<1> HIDE DEF S, D, A
<1>6. w \in Seq(LiveEntry) /\ Pairwise(w, Different) /\ Pairwise(w, NewestPair)
  BY <1>2, <1>5, JoinedMembers, JoinedPairwise
<1>7. /\ \A i \in DOMAIN live : i \in DOMAIN w /\ w[i] = live[i]
      /\ \A i \in DOMAIN r : Len(live) + i \in DOMAIN w /\ w[Len(live) + i] = r[i]
      /\ \A i \in DOMAIN w : i \in DOMAIN live \/ i - Len(live) \in DOMAIN r
  BY <1>2, JoinedMembers
<1> HIDE DEF w
<1>8. ASSUME NEW i \in DOMAIN w, w[i].ok, w[i].status = "Confirmed"
      PROVE  \E u \in X \cup Y : w[i] = Done(u)
  <2>1. CASE i \in DOMAIN live
    <3>1. w[i] \in S
      BY <1>3, <1>7, <2>1
    <3> QED BY <1>8, <3>1 DEF S, Sound
  <2>2. CASE i - Len(live) \in DOMAIN r
    <3>1. PICK j \in DOMAIN r : j = i - Len(live)
      BY <2>2
    <3>2. i = Len(live) + j
      <4>1. i \in Int /\ Len(live) \in Int
        BY <1>2, <1>6
      <4> QED BY <3>1, <4>1
    <3>3. w[i] = r[j]
      BY <1>7, <3>2
    <3> QED BY <1>4, <3>3
  <2> QED BY <1>7, <2>1, <2>2
<1>9. \A e : Has(live, e) \/ Has(r, e) => Has(w, e)
  BY <1>7 DEF Has
<1> QED BY <1>6, <1>8, <1>9 DEF w

-----------------------------------------------------------------------------
(* The page.                                                               *)

\* The list of the rows above block k and of the writes Y below it; X are the writes
\* above that took effect.  If all is true, nothing is missing.
ListIs(w, all, k, Y, X) ==
    /\ w \in Seq(LiveEntry) /\ Pairwise(w, Different) /\ Pairwise(w, NewestPair)
    /\ \A i \in DOMAIN w : w[i].ok /\ w[i].status = "Confirmed" => \E u \in X \cup Y : w[i] = Done(u)
    /\ all =>
           /\ \A u \in X \cup Y : Has(w, Done(u))
           /\ \A u \in RowsAbove(k) :
                  InWriteLog(MemoAt(u).op) /\ StatusOf(u, tip) # "Dropped"
                      /\ (u[1] # 0 \/ u[2] \in recorded) => ShowsWrite(w, u)
           /\ \A u \in OutputsOf(0, recorded) :
                  InWriteLog(MemoAt(u).op) /\ MemoAt(u).op # "SETL" => ShowsWrite(w, u)

LEMMA HasShows ==
    ASSUME NEW s, NEW t, \A e : Has(s, e) => Has(t, e), NEW u, ShowsWrite(s, u)
    PROVE  ShowsWrite(t, u)
<1>1. PICK i \in DOMAIN s : s[i].at[2] = u[2] /\ s[i].at[3] = u[3]
  BY DEF ShowsWrite
<1>2. PICK e : e = s[i]
  OBVIOUS
<1>3. Has(t, e)
  BY <1>2 DEF Has
<1> QED BY <1>1, <1>2, <1>3 DEF Has, ShowsWrite

LEMMA RowsAreMemoRows ==
    ASSUME WalletHolds, NEW k, NEW rows, Sorts(rows, RowsAbove(k), InOrder)
    PROVE  rows \in Seq(MemoRow)
<1>1. RowsAbove(k) \subseteq MemoRow
  BY AllRowsFacts DEF RowsAbove, MemoRow
<1> QED BY <1>1, SequenceOfMore DEF Sorts

\* The parts of the list of the page that was asked for.
LEMMA ListIsRight ==
    ASSUME HistoryInvariant, page.pc = "done"
    PROVE  \E d, Y, out, X :
               /\ SnapHolds(snap, d, Y) /\ Folds(snap.db, RowsPast(snap.wm), tip, out, X)
               /\ ListIs(WholeList(page.q), page.q.filter = NoFilter /\ page.q.ops = {},
                         snap.wm[1], Y, X)
<1> DEFINE q == page.q
           rows == RowsPast(snap.wm)
           deep == Reverse(DeepRows(snap.hist, q))
           live == LiveList(snap.db, rows, tip, q)
<1>1. WalletHolds /\ tip \in 0..Len(chain) /\ Len(chain) \in Nat /\ snap.wm[1] =< tip
      /\ WatermarkRight(snap.wm) /\ snap.wm[1] \in 0..Len(chain)
      /\ snap.db \in Database /\ ConfirmedOnly(snap.db) /\ q \in Query
  BY HistoryHolds DEF HistoryInvariant, WalletRight, SnapRight, PageInvariant, PageCurrent
<1>2. PICK d, Y : SnapHolds(snap, d, Y)
  BY DEF HistoryInvariant, WalletRight, SnapRight
<1>3. PICK k \in 0..tip : k = snap.wm[1]
  BY <1>1
<1>4. k \in Nat /\ tip \in Nat
  BY <1>1
<1>5. Sorts(rows, RowsAbove(k), InOrder)
  BY <1>1, <1>3, RowsPastSorts
<1>6. rows \in Seq(MemoRow)
  BY <1>1, <1>5, RowsAreMemoRows
<1>7. PICK g : Trace(g, snap.db, rows, tip)
  BY <1>1, <1>6, TraceExists
<1>8. clear_pending(snap.db) = snap.db
  <2>1. snap.db.pending = [x \in Keys |-> << >>]
    BY <1>1 DEF ConfirmedOnly
  <2> QED BY <1>1, <2>1 DEF clear_pending, Database
<1>9. WholeList(q) = live \o deep
  BY <1>8 DEF WholeList
<1>10. Y \subseteq MinedRows(k) /\ \A u \in Y : InWriteLog(MemoAt(u).op)
  BY <1>2, <1>3, TakenMembers, TakenAreWrites DEF SnapHolds
<1>11. Y \subseteq MinedRows(tip) /\ Sorts(snap.hist, Y, InOrder)
  BY <1>1, <1>2, <1>10, RowsUpTo DEF SnapHolds
<1>12. PICK X : X = TakenOf(g, rows, tip)
  OBVIOUS
<1>13. Folds(snap.db, rows, tip, g[Len(rows)], X)
  BY <1>7, <1>12 DEF Folds
<1> HIDE DEF rows, live, deep, q
<1>14. PICK w : w = live \o deep
  OBVIOUS
<1>15. /\ live \in Seq(Sound(RowsAbove(k) \cup OutputsOf(0, recorded), X))
       /\ Pairwise(live, Different) /\ Pairwise(live, NewestPair)
       /\ q.filter = NoFilter /\ q.ops = {} =>
              /\ \A u \in X : Has(live, Done(u))
              /\ \A u \in RowsAbove(k) :
                     InWriteLog(MemoAt(u).op) /\ StatusOf(u, tip) # "Dropped"
                         /\ (u[1] # 0 \/ u[2] \in recorded) => ShowsWrite(live, u)
              /\ \A u \in OutputsOf(0, recorded) :
                     InWriteLog(MemoAt(u).op) /\ MemoAt(u).op # "SETL" => ShowsWrite(live, u)
  BY <1>1, <1>4, <1>5, <1>6, <1>7, <1>12, LiveFacts DEF live
<1>16. /\ deep \in Seq({Done(u) : u \in Y}) /\ {Done(u) : u \in Y} \subseteq LiveEntry
       /\ Pairwise(deep, Different) /\ Pairwise(deep, NewestPair)
       /\ q.filter = NoFilter /\ q.ops = {} =>
              \A u \in Y : InWriteLog(MemoAt(u).op) => Has(deep, Done(u))
  BY <1>1, <1>11, DeepFacts DEF deep
<1>17. /\ w \in Seq(LiveEntry)
       /\ Pairwise(w, Different) /\ Pairwise(w, NewestPair)
       /\ \A i \in DOMAIN w : w[i].ok /\ w[i].status = "Confirmed" => \E u \in X \cup Y : w[i] = Done(u)
       /\ \A e : Has(live, e) \/ Has(deep, e) => Has(w, e)
  <2>1. /\ live \o deep \in Seq(LiveEntry)
        /\ Pairwise(live \o deep, Different) /\ Pairwise(live \o deep, NewestPair)
        /\ \A i \in DOMAIN (live \o deep) :
               (live \o deep)[i].ok /\ (live \o deep)[i].status = "Confirmed" =>
                   \E u \in X \cup Y : (live \o deep)[i] = Done(u)
        /\ \A e : Has(live, e) \/ Has(deep, e) => Has(live \o deep, e)
    BY <1>10, <1>15, <1>16, WholeFacts, Zenon
  <2> QED BY <1>14, <2>1
<1>18. ASSUME q.filter = NoFilter, q.ops = {}
       PROVE  /\ \A u \in X \cup Y : Has(w, Done(u))
              /\ \A u \in RowsAbove(k) :
                     InWriteLog(MemoAt(u).op) /\ StatusOf(u, tip) # "Dropped"
                         /\ (u[1] # 0 \/ u[2] \in recorded) => ShowsWrite(w, u)
              /\ \A u \in OutputsOf(0, recorded) :
                     InWriteLog(MemoAt(u).op) /\ MemoAt(u).op # "SETL" => ShowsWrite(w, u)
  <2>1. \A u : ShowsWrite(live, u) => ShowsWrite(w, u)
    BY <1>17, HasShows
  <2> QED BY <1>10, <1>15, <1>16, <1>17, <1>18, <2>1
<1>19. ListIs(w, q.filter = NoFilter /\ q.ops = {}, k, Y, X)
  BY <1>17, <1>18 DEF ListIs
<1>20. ListIs(WholeList(q), q.filter = NoFilter /\ q.ops = {}, snap.wm[1], Y, X)
  BY <1>3, <1>9, <1>14, <1>19
<1> QED BY <1>2, <1>13, <1>20 DEF rows, q

\* The page is cut from the list, in either direction.
LEMMA PageIsCut ==
    ASSUME HistoryInvariant, page.pc = "done"
    PROVE  /\ page.offset \in Nat /\ page.q \in Query
           /\ page.total = Len(WholeList(page.q))
           /\ page.entries = Slice(IF page.q.order = "Desc" THEN WholeList(page.q)
                                   ELSE Reverse(WholeList(page.q)),
                                   page.offset, page.q.limit)
<1>1. PageInvariant
  BY DEF HistoryInvariant
<1>2. PageIsSlice
  BY <1>1, PageInvariantHolds DEF PagesRight
<1>3. /\ WalletTyped /\ ASequence(snap.hist) /\ page.q \in Query
      /\ page.live = LiveList(clear_pending(snap.db), RowsPast(snap.wm), tip, page.q)
      /\ page.offset = PageOffset(page.live, snap.hist, page.q)
  BY <1>1 DEF PageInvariant, PageCurrent, PageCut
<1>4. ASequence(page.live)
  BY <1>3, LiveIsSequence
<1>5. page.offset \in Nat
  BY <1>3, <1>4, OffsetLocates, Zenon
<1> QED BY <1>2, <1>3, <1>5 DEF PageIsSlice

\* What a page of a list holds: entries of the list, two of them in the list's order.
CutOf(S, w, desc, e) ==
    /\ Len(e) \in Nat /\ DOMAIN e = 1..Len(e)
    /\ \A i \in DOMAIN e : Has(w, e[i])
    /\ \A R, Q : /\ Pairwise(w, R)
                 /\ \A x, y \in S : <<x, y>> \in R => <<y, x>> \in Q
                 /\ R \subseteq Q
                 => Pairwise(e, Q)
    /\ desc => \A R : Pairwise(w, R) => Pairwise(e, R)
    /\ Len(e) = Len(w) => \A x : Has(w, x) => Has(e, x)

LEMMA CutFacts ==
    ASSUME NEW S, NEW w \in Seq(S), NEW desc \in BOOLEAN, NEW off \in Nat, NEW limit \in Nat,
           NEW e, e = Slice(IF desc THEN w ELSE Reverse(w), off, limit)
    PROVE  CutOf(S, w, desc, e)
<1> DEFINE r == Reverse(w)
           s == IF desc THEN w ELSE r
           n == LowerOf(limit, Minus(Len(w), off))
<1>1. PICK len \in Nat : len = Len(w) /\ DOMAIN w = 1..len
  OBVIOUS
<1>2. r \in Seq(S) /\ Len(r) = len /\ \A i \in 1..len : r[i] = w[(len - i) + 1]
  BY <1>1, ReverseFacts
<1> HIDE DEF r
<1>3. s \in Seq(S) /\ Len(s) = len
  BY <1>1, <1>2
<1>4. /\ e \in Seq(S) /\ Len(e) = n /\ \A i \in 1..n : e[i] = s[off + i]
  <2>1. e = Slice(s, off, limit)
    BY DEF r
  <2> HIDE DEF s
  <2>2. /\ Slice(s, off, limit) \in Seq(S)
        /\ Len(Slice(s, off, limit)) = LowerOf(limit, Minus(Len(s), off))
        /\ \A i \in 1..LowerOf(limit, Minus(Len(s), off)) : Slice(s, off, limit)[i] = s[off + i]
    BY <1>3, SliceFacts, Zenon
  <2>3. LowerOf(limit, Minus(Len(s), off)) = n
    BY <1>1, <1>3
  <2> HIDE DEF n
  <2> QED BY <2>1, <2>2, <2>3
<1>5. n \in Nat /\ \A i \in 1..n : off + i \in 1..len
  BY <1>1, SliceLength
<1>6. DOMAIN e = 1..n
  BY <1>4, <1>5
<1>7. ASSUME NEW i \in 1..len PROVE /\ (len - i) + 1 \in 1..len
                                    /\ s[i] = IF desc THEN w[i] ELSE w[(len - i) + 1]
  <2>1. (len - i) + 1 \in 1..len
    OBVIOUS
  <2> QED BY <1>2, <2>1
<1> HIDE DEF n, s
<1>8. ASSUME NEW i \in 1..n PROVE Has(w, e[i])
  <2>1. PICK j \in 1..len : j = off + i
    BY <1>5
  <2>2. e[i] = s[j]
    BY <1>4, <2>1
  <2>3. PICK c \in 1..len : s[j] = w[c]
    <3>1. CASE desc
      BY <1>7, <3>1
    <3>2. CASE ~desc
      BY <1>7, <3>2
    <3> QED BY <3>1, <3>2
  <2> QED BY <1>1, <2>2, <2>3 DEF Has
<1>9. ASSUME NEW R, NEW Q, Pairwise(w, R), \A x, y \in S : <<x, y>> \in R => <<y, x>> \in Q,
             R \subseteq Q
      PROVE  Pairwise(e, Q)
  <2> SUFFICES ASSUME NEW i \in 1..n, NEW j \in 1..n, i < j PROVE <<e[i], e[j]>> \in Q
    BY <1>6 DEF Pairwise
  <2>1. PICK a \in 1..len : a = off + i
    BY <1>5
  <2>2. PICK b \in 1..len : b = off + j
    BY <1>5
  <2>3. a < b /\ e[i] = s[a] /\ e[j] = s[b]
    BY <1>4, <1>5, <2>1, <2>2
  <2>4. CASE desc
    <3>1. <<w[a], w[b]>> \in R
      BY <1>1, <1>9, <2>3 DEF Pairwise
    <3> QED BY <1>7, <1>9, <2>3, <2>4, <3>1
  <2>5. CASE ~desc
    <3>1. PICK c \in 1..len : c = (len - a) + 1
      BY <1>7
    <3>2. PICK d \in 1..len : d = (len - b) + 1
      BY <1>7
    <3>3. d < c
      BY <2>3, <3>1, <3>2
    <3>4. <<w[d], w[c]>> \in R /\ w[d] \in S /\ w[c] \in S
      BY <1>1, <1>9, <3>3 DEF Pairwise
    <3> QED BY <1>7, <1>9, <2>3, <2>5, <3>1, <3>2, <3>4
  <2> QED BY <2>4, <2>5
<1>10. ASSUME desc, NEW R, Pairwise(w, R) PROVE Pairwise(e, R)
  <2> SUFFICES ASSUME NEW i \in 1..n, NEW j \in 1..n, i < j PROVE <<e[i], e[j]>> \in R
    BY <1>6 DEF Pairwise
  <2>1. PICK a \in 1..len : a = off + i
    BY <1>5
  <2>2. PICK b \in 1..len : b = off + j
    BY <1>5
  <2>3. a < b /\ e[i] = s[a] /\ e[j] = s[b]
    BY <1>4, <1>5, <2>1, <2>2
  <2> QED BY <1>1, <1>7, <1>10, <2>3 DEF Pairwise
<1>11. ASSUME Len(e) = Len(w), NEW x, Has(w, x) PROVE Has(e, x)
  <2>1. n = len
    BY <1>1, <1>4, <1>11
  <2>2. PICK i \in 1..len : w[i] = x
    BY <1>1, <1>11 DEF Has
  <2>3. off = 0
    <3>1. len \in 1..n /\ off + len \in 1..len
      BY <1>5, <2>1, <2>2
    <3> QED BY <3>1
  <2>4. PICK j \in 1..len : s[j] = x
    <3>1. CASE desc
      BY <1>7, <2>2, <3>1
    <3>2. CASE ~desc
      <4>1. PICK c \in 1..len : c = (len - i) + 1
        BY <1>7
      <4>2. (len - c) + 1 = i
        BY <4>1
      <4> QED BY <1>7, <2>2, <3>2, <4>2
    <3> QED BY <3>1, <3>2
  <2>5. off + j = j
    BY <2>3
  <2>6. e[j] = x
    BY <1>4, <2>1, <2>4, <2>5
  <2> QED BY <1>6, <2>1, <2>6 DEF Has
<1>12. Len(e) \in Nat /\ DOMAIN e = 1..Len(e)
  BY <1>4, <1>5, <1>6
<1> QED BY <1>6, <1>8, <1>9, <1>10, <1>11, <1>12 DEF CutOf

\* The writes that took effect, found in all the rows of the wallet.
LEMMA AppliedOfAll ==
    ASSUME HistoryInvariant, NEW at, NEW list,
           list = FoldHistory(EmptyDatabase, RowsPast(Start), at).list
    PROVE  \E out, Z : /\ Folds(EmptyDatabase, RowsPast(Start), at, out, Z)
                       /\ {e \in Range(list) : e.ok /\ e.status = "Confirmed"} = {Done(u) : u \in Z}
<1> DEFINE rows == RowsPast(Start)
<1>1. WalletHolds
  BY HistoryHolds
<1>2. Sorts(rows, RowsAbove(0), InOrder)
  <2>1. WatermarkRight(Start) /\ Start[1] = 0
    BY DEF WatermarkRight, Start
  <2> QED BY <1>1, <2>1, RowsPastSorts
<1>3. rows \in Seq(MemoRow)
  BY <1>1, <1>2, RowsAreMemoRows
<1>4. PICK g : Trace(g, EmptyDatabase, rows, at)
  BY <1>3, EmptyIsDatabase, TraceExists
<1>5. PICK Z : Z = TakenOf(g, rows, at)
  OBVIOUS
<1>6. Folds(EmptyDatabase, rows, at, g[Len(rows)], Z)
  BY <1>4, <1>5 DEF Folds
<1>7. ListRight(list, 0, at, Z) /\ Shows(list, 0, at, Z)
  <2>1. 0 \in Nat /\ EmptyDatabase \in Database
    BY EmptyIsDatabase
  <2> QED BY <1>2, <1>3, <1>4, <1>5, <2>1, EntriesRight
<1>8. \A e : e \in Range(list) <=> Has(list, e)
  BY DEF Has, Range
<1>9. ASSUME NEW e, Has(list, e), e.ok, e.status = "Confirmed" PROVE e \in {Done(u) : u \in Z}
  BY <1>7, <1>9 DEF Has, ListRight
<1>10. ASSUME NEW u \in Z PROVE Has(list, Done(u)) /\ Done(u).ok /\ Done(u).status = "Confirmed"
  BY <1>7, DoneFields DEF Has, Shows
<1>11. {e \in Range(list) : e.ok /\ e.status = "Confirmed"} = {Done(u) : u \in Z}
  BY <1>8, <1>9, <1>10
<1> QED BY <1>6, <1>11

\* The states of the audit's replay, h[i] after the first i rows; and whether the audit
\* applies a row as a write.
AuditTrace(h, s) ==
    /\ h \in [0..Len(s) -> Database]
    /\ h[0] = EmptyDatabase
    /\ \A i \in 1..Len(s) : h[i] = Fold(h[i - 1], MemoAt(s[i]), AuditStatus(s[i]))

AuditTakes(p, u) == AuditStatus(u) = "Confirmed" /\ PromotedWrite(p, MemoAt(u))

LEMMA AuditTraceExists ==
    ASSUME NEW s \in Seq(MemoRow)
    PROVE  \E h : AuditTrace(h, s)
<1>1. PICK n \in Nat : n = Len(s)
  OBVIOUS
<1> DEFINE fold(p, i) == Fold(p, MemoAt(s[i]), AuditStatus(s[i]))
           step == [z \in (1..n) \X Database |-> fold(z[2], z[1])]
<1>2. ASSUME NEW i \in 1..n, NEW p \in Database PROVE fold(p, i) \in Database
  <2>1. MemoAt(s[i]) \in Memo
    BY <1>1 DEF MemoRow
  <2>2. AuditStatus(s[i]) \in Status
    BY DEF AuditStatus, Status
  <2> QED BY <2>1, <2>2, FoldFacts DEF FoldStep
<1> HIDE DEF fold
<1>3. step \in [(1..n) \X Database -> Database]
  BY <1>2
<1>4. \A i \in 1..n : \A p \in Database : step[<<i, p>>] = fold(p, i)
  OBVIOUS
<1> HIDE DEF step
<1>5. PICK h : Iterates(h, n, Database, EmptyDatabase, step)
  BY <1>3, EmptyIsDatabase, RecursionExists, Zenon
<1>6. ASSUME NEW i \in 1..n PROVE h[i] = fold(h[i - 1], i)
  <2>1. h[i] = step[<<i, h[i - 1]>>] /\ h[i - 1] \in Database
    BY <1>5 DEF Iterates
  <2> QED BY <1>4, <2>1
<1>7. AuditTrace(h, s)
  BY <1>1, <1>5, <1>6 DEF AuditTrace, Iterates, fold
<1> QED BY <1>7

\* The model's fold of the audit, by its trace.
LEMMA AuditByTrace ==
    ASSUME NEW rows \in Seq(MemoRow), rows = RowsPast(Start), NEW h, AuditTrace(h, rows)
    PROVE  AuditApplied = {rows[i] : i \in {j \in 1..Len(rows) : AuditTakes(h[j - 1], rows[j])}}
<1> DEFINE n == Len(rows)
           fold(p, i) == Fold(p, MemoAt(rows[i]), AuditStatus(rows[i]))
           Loop(x) ==
               x = [i \in 0..Len(RowsPast(Start)) |->
                       IF i = 0 THEN <<EmptyDatabase>>
                       ELSE LET p == x[i - 1]
                            IN  Append(p, Fold(p[i], MemoAt(RowsPast(Start)[i]),
                                               AuditStatus(RowsPast(Start)[i])))]
           f == CHOOSE x : Loop(x)
           last == f[Len(RowsPast(Start))]
           verdict(i) == outcome(last[i], MemoAt(rows[i]), AuditStatus(rows[i]))
           writes(i) == /\ AuditStatus(rows[i]) = "Confirmed"
                         /\ InWriteLog(MemoAt(rows[i]).op)
                         /\ verdict(i) = "Applied"
<1>1. AuditApplied = {rows[i] : i \in {j \in 1..Len(rows) : writes(j)}}
  BY Zenon DEF AuditApplied
<1>n. n \in Nat
  OBVIOUS
<1> DEFINE Steps(x) == x = [i \in 0..n |-> IF i = 0 THEN <<EmptyDatabase>>
                                           ELSE Append(x[i - 1], fold(x[i - 1][i], i))]
<1>2. ASSUME NEW x PROVE Loop(x) <=> Steps(x)
  OBVIOUS
<1> DEFINE past == PastOf(h, n)
<1>3. /\ h \in [0..n -> Database] /\ h[0] = EmptyDatabase
      /\ \A i \in 1..n : h[i] = fold(h[i - 1], i)
  BY DEF AuditTrace
<1> HIDE DEF n, past
<1>4. /\ past[0] = <<h[0]>>
      /\ \A i \in 1..n : past[i] = Append(past[i - 1], h[i])
      /\ \A i \in 0..n : \A j \in 1..(i + 1) : past[i][j] = h[j - 1]
      /\ past = [i \in 0..n |-> past[i]]
  BY <1>n, <1>3, PastOfFacts DEF past
<1> HIDE DEF fold
<1>5. ASSUME NEW i \in 1..n
      PROVE  past[i] = Append(past[i - 1], fold(past[i - 1][i], i))
  <2>1. i - 1 \in 0..n /\ i \in 1..((i - 1) + 1)
    BY <1>n
  <2>2. past[i - 1][i] = h[i - 1]
    BY <1>4, <2>1
  <2> QED BY <1>3, <1>4, <2>2
<1>6. Loop(past)
  <2>1. ASSUME NEW i \in 0..n
        PROVE  past[i] = IF i = 0 THEN <<EmptyDatabase>> ELSE Append(past[i - 1], fold(past[i - 1][i], i))
    <3>1. CASE i = 0
      BY <1>3, <1>4, <3>1
    <3>2. CASE i # 0
      <4>1. i \in 1..n
        BY <3>2
      <4> QED BY <1>5, <3>2, <4>1
    <3> QED BY <3>1, <3>2
  <2>2. Steps(past)
    BY <1>4, <2>1
  <2> HIDE DEF Loop, Steps
  <2> QED BY <1>2, <2>2
<1>7. Loop(f)
  <2> HIDE DEF Loop
  <2> QED BY <1>6, Zenon
<1>8. Steps(f)
  <2> HIDE DEF Loop, Steps, f
  <2> QED BY <1>2, <1>7
<1> HIDE DEF Loop, f
<1>9. last = past[n]
  <2>1. f[0] = past[0]
    BY <1>3, <1>4, <1>8, <1>n
  <2>2. ASSUME NEW i \in 1..n, f[i - 1] = past[i - 1] PROVE f[i] = past[i]
    <3>1. i \in 0..n /\ i # 0
      OBVIOUS
    <3>2. f[i] = Append(f[i - 1], fold(f[i - 1][i], i))
      BY <1>8, <3>1
    <3> QED BY <1>5, <2>2, <3>2
  <2>3. f[n] = past[n]
    BY <1>n, <2>1, <2>2, PastUnique DEF past
  <2> QED BY <2>3 DEF n
<1>10. ASSUME NEW i \in 1..n PROVE last[i] = h[i - 1]
  <2>1. n \in 0..n /\ i \in 1..(n + 1)
    BY <1>n
  <2> QED BY <1>4, <1>9, <2>1
<1> HIDE DEF last
<1>11. ASSUME NEW i \in 1..n PROVE writes(i) <=> AuditTakes(h[i - 1], rows[i])
  <2>1. AuditTakes(h[i - 1], rows[i]) <=>
            /\ AuditStatus(rows[i]) = "Confirmed" /\ InWriteLog(MemoAt(rows[i]).op)
            /\ classify(h[i - 1], MemoAt(rows[i]), "Confirmed") = "Applied"
    BY DEF AuditTakes, PromotedWrite
  <2>2. ASSUME InWriteLog(MemoAt(rows[i]).op)
        PROVE  outcome(h[i - 1], MemoAt(rows[i]), "Confirmed")
                   = classify(h[i - 1], MemoAt(rows[i]), "Confirmed")
    <3>1. MemoAt(rows[i]).op \notin RegistryOps /\ MemoAt(rows[i]).op # "VERSION"
      BY <2>2 DEF InWriteLog, DataOps, SetOps, RegistryOps
    <3> QED BY <3>1 DEF outcome
  <2> QED BY <1>10, <2>1, <2>2
<1> HIDE DEF writes
<1> QED BY <1>1, <1>11 DEF n

\* The rows the audit confirms come first, and the history confirms them too.
LEMMA AuditStatusDown ==
    ASSUME tip \in Nat, NEW u \in RowSet, AuditStatus(u) = "Confirmed"
    PROVE  /\ StatusOf(u, tip) = "Confirmed"
           /\ \A w \in RowSet : Before(w, u) => AuditStatus(w) = "Confirmed"
<1>1. u[1] # 0 /\ Confirmations(u, tip) >= MinConfs
  BY DEF AuditStatus
<1>2. PICK h \in 0..MaxHeight : h = u[1]
  BY RowFields
<1>3. h # 0 /\ MaxHeight \in Nat /\ MinConfs \in Nat
  BY <1>1, <1>2, HistoryDepthAssumption, HistoryBoundsAssumption
<1>4. Confirmations(u, tip) = (IF tip >= h THEN tip - h ELSE 0) + 1
  BY <1>1, <1>2 DEF Confirmations, Minus
<1>5. effective_min_confs(MemoAt(u)) \in Nat /\ effective_min_confs(MemoAt(u)) =< MinConfs
  BY <1>3 DEF effective_min_confs, LowerOf
<1>6. Confirmations(u, tip) >= effective_min_confs(MemoAt(u))
  BY <1>1, <1>3, <1>4, <1>5
<1>7. StatusOf(u, tip) = "Confirmed"
  BY <1>1, <1>6 DEF StatusOf
<1>8. ASSUME NEW w \in RowSet, Before(w, u) PROVE AuditStatus(w) = "Confirmed"
  <2>1. PICK a \in 0..MaxHeight : a = w[1]
    BY RowFields
  <2>2. PlaceOf(w) = (IF a = 0 THEN MaxHeight + 1 ELSE a) /\ PlaceOf(u) = h
    BY <1>2, <1>3, <2>1 DEF PlaceOf
  <2>3. PlaceOf(w) =< PlaceOf(u)
    <3>1. PlaceOf(w) \in Nat /\ PlaceOf(u) \in Nat
      BY RowFields
    <3> QED BY <1>8, <3>1, BeforePlaces
  <2>4. a # 0 /\ a =< h
    BY <1>3, <2>1, <2>2, <2>3
  <2>5. Confirmations(w, tip) = (IF tip >= a THEN tip - a ELSE 0) + 1
    BY <2>1, <2>4 DEF Confirmations, Minus
  <2>6. Confirmations(w, tip) >= MinConfs
    BY <1>1, <1>3, <1>4, <2>4, <2>5
  <2> QED BY <2>1, <2>4, <2>6 DEF AuditStatus
<1> QED BY <1>1, <1>6, <1>7, <1>8

\* Of the writes the history takes, the audit applies those that are deep enough for any
\* operation: the two replays are the same up to the last of them.
LEMMA AuditIsFold ==
    ASSUME HistoryInvariant, NEW last, NEW Z,
           Folds(EmptyDatabase, RowsPast(Start), tip, last, Z)
    PROVE  AuditApplied = {u \in Z : AuditStatus(u) = "Confirmed"}
<1> DEFINE rows == RowsPast(Start)
<1>1. WalletHolds /\ tip \in Nat
  BY HistoryHolds
<1>2. Sorts(rows, RowsAbove(0), InOrder)
  <2>1. WatermarkRight(Start) /\ Start[1] = 0
    BY DEF WatermarkRight, Start
  <2> QED BY <1>1, <2>1, RowsPastSorts
<1>3. rows \in Seq(MemoRow)
  BY <1>1, <1>2, RowsAreMemoRows
<1>4. PICK n \in Nat : n = Len(rows)
  BY <1>3
<1>5. PICK g : Trace(g, EmptyDatabase, rows, tip) /\ Z = TakenOf(g, rows, tip)
  BY DEF Folds
<1>6. PICK h : AuditTrace(h, rows)
  BY <1>3, AuditTraceExists
<1>7. AuditApplied = {rows[i] : i \in {j \in 1..n : AuditTakes(h[j - 1], rows[j])}}
  BY <1>3, <1>4, <1>6, AuditByTrace
<1>8. \A i \in 1..n : rows[i] \in RowSet
  BY <1>3, <1>4 DEF MemoRow
<1>9. \A i, j \in 1..n : i < j => Before(rows[i], rows[j])
  BY <1>2, <1>4 DEF Sorts, InOrder
<1> HIDE DEF rows
<1> DEFINE deep(i) == AuditStatus(rows[i]) = "Confirmed"
<1>10. \A i, j \in 1..n : i < j /\ deep(j) => deep(i)
  BY <1>1, <1>8, <1>9, AuditStatusDown
<1> DEFINE P == {i \in Nat : i <= n /\ (\A j \in 1..i : deep(j)) => g[i] = h[i]}
<1>11. 0 \in P
  BY <1>5, <1>6 DEF Trace, AuditTrace
<1>12. ASSUME NEW i \in Nat, i \in P PROVE i + 1 \in P
  <2> SUFFICES ASSUME i + 1 <= n, \A j \in 1..(i + 1) : deep(j) PROVE g[i + 1] = h[i + 1]
    OBVIOUS
  <2>1. g[i] = h[i] /\ i + 1 \in 1..n /\ (i + 1) - 1 = i /\ deep(i + 1)
    BY <1>12
  <2> HIDE DEF P
  <2>2. StatusOf(rows[i + 1], tip) = "Confirmed" /\ AuditStatus(rows[i + 1]) = "Confirmed"
    BY <1>1, <1>8, <2>1, AuditStatusDown
  <2>3. g[i + 1] = StepTo(g[i], rows[i + 1], tip)
    BY <1>4, <1>5, <2>1 DEF Trace
  <2>4. h[i + 1] = Fold(h[i], MemoAt(rows[i + 1]), AuditStatus(rows[i + 1]))
    BY <1>4, <1>6, <2>1 DEF AuditTrace
  <2> QED BY <2>1, <2>2, <2>3, <2>4 DEF StepTo, WriteStatus
<1> HIDE DEF P
<1>13. \A i \in Nat : i \in P
  BY <1>11, <1>12, NatSetInduction
<1>14. ASSUME NEW i \in 1..n, deep(i)
       PROVE  AuditTakes(h[i - 1], rows[i]) <=> Takes(g[i - 1], rows[i], tip)
  <2>1. i - 1 \in P /\ i - 1 \in Nat /\ i - 1 <= n /\ \A j \in 1..(i - 1) : j \in 1..n /\ j < i
    BY <1>13
  <2>2. \A j \in 1..(i - 1) : deep(j)
    BY <1>10, <1>14, <2>1
  <2>3. g[i - 1] = h[i - 1]
    BY <2>1, <2>2 DEF P
  <2>4. StatusOf(rows[i], tip) = "Confirmed"
    BY <1>1, <1>8, <1>14, AuditStatusDown
  <2> QED BY <1>14, <2>3, <2>4 DEF AuditTakes, Takes
<1>15. Z = {rows[i] : i \in {j \in 1..n : Takes(g[j - 1], rows[j], tip)}}
  BY <1>4, <1>5 DEF TakenOf
<1>16. \A i \in 1..n : AuditTakes(h[i - 1], rows[i]) => deep(i)
  BY DEF AuditTakes
<1> QED BY <1>7, <1>14, <1>15, <1>16

\* A write the history takes is deep enough for the audit, unless it is the INIT.
LEMMA TakenWriteIsDeep ==
    ASSUME NEW seed, NEW s, NEW out, NEW Z, Folds(seed, s, tip, out, Z),
           NEW u \in Z, MemoAt(u).op # "INIT"
    PROVE  AuditStatus(u) = "Confirmed"
<1>1. StatusOf(u, tip) = "Confirmed"
  BY DEF Folds, TakenOf, Takes
<1>2. effective_min_confs(MemoAt(u)) = MinConfs
  BY DEF effective_min_confs
<1> QED BY <1>1, <1>2 DEF StatusOf, AuditStatus

\* They are those of the snapshot and those of the rows above it, as long as the rows of
\* the snapshot are confirmed.
LEMMA AppliedSplit ==
    ASSUME HistoryInvariant, snap.wm[1] =< tip, NEW d, NEW Y, SnapHolds(snap, d, Y),
           NEW at \in Nat, at = Settled \/ at >= snap.wm[1] + SafeDepth,
           NEW out, NEW X, Folds(snap.db, RowsPast(snap.wm), at, out, X),
           NEW last, NEW Z, Folds(EmptyDatabase, RowsPast(Start), at, last, Z)
    PROVE  Z = Y \cup X
<1>1. WalletHolds /\ WalletTyped /\ Len(chain) =< MaxHeight /\ tip \in 0..Len(chain)
      /\ Len(chain) \in Nat
      /\ WatermarkRight(snap.wm) /\ snap.wm[1] \in 0..Len(chain)
  BY HistoryHolds DEF HistoryInvariant, WalletRight, SnapRight, WalletHolds
<1>2. PICK k \in 0..tip : k = snap.wm[1]
  BY <1>1
<1>3. k \in 0..Len(chain) /\ k \in Nat /\ SafeDepth \in Nat
  BY <1>1, HistoryDepthAssumption
<1>4. Sorts(d, MinedRows(k), InOrder) /\ Folds(EmptyDatabase, d, Settled, snap.db, Y)
  BY <1>2 DEF SnapHolds
<1>5. d \in Seq(MemoRow) /\ AllConfirmed(d, Settled)
  BY <1>1, <1>3, <1>4, MinedAreMemoRows
<1>6. AllConfirmed(d, at)
  <2> SUFFICES ASSUME NEW i \in 1..Len(d) PROVE StatusOf(d[i], at) = "Confirmed"
    BY DEF AllConfirmed
  <2>1. PICK u \in MinedRows(k) : u = d[i]
    BY <1>4 DEF Sorts
  <2>2. u \in RowSet /\ u[1] \in 1..k
    BY <1>1, <1>3, MinedRowFacts
  <2>3. PICK h \in 1..k : h = u[1]
    BY <2>2
  <2>4. at >= h + SafeDepth \/ at = Settled
    BY <1>2, <1>3, <2>3
  <2>5. u[1] # 0
    BY <2>3
  <2> QED BY <2>1, <2>2, <2>3, <2>4, <2>5, ConfirmedWhenDeep
<1>7. Folds(EmptyDatabase, d, at, snap.db, Y)
  BY <1>4, <1>5, <1>6, FoldsAlike
<1>8. RowsPast(Start) = d \o RowsPast(snap.wm)
  BY <1>1, <1>2, <1>4, RowsSplit
<1>9. RowsPast(snap.wm) \in Seq(MemoRow)
  <2>1. Sorts(RowsPast(snap.wm), RowsAbove(k), InOrder)
    BY <1>1, <1>2, RowsPastSorts
  <2> QED BY <1>1, <2>1, RowsAreMemoRows
<1>10. Folds(EmptyDatabase, RowsPast(Start), at, out, Y \cup X)
  BY <1>5, <1>7, <1>8, <1>9, FoldsJoined
<1>11. Len(RowsPast(Start)) \in Nat
  <2>1. d \o RowsPast(snap.wm) \in Seq(MemoRow)
    BY <1>5, <1>9
  <2>2. RowsPast(Start) \in Seq(MemoRow)
    BY <1>8, <2>1
  <2> QED BY <2>2
<1> QED BY <1>10, <1>11, FoldsUnique

\* What the invariant says of a page that is done.
LEMMA PageHolds ==
    ASSUME HistoryInvariant, page.pc = "done", NEW d, NEW Y, NEW X,
           ListIs(WholeList(page.q), page.q.filter = NoFilter /\ page.q.ops = {}, snap.wm[1], Y, X)
    PROVE  /\ Pairwise(page.entries, Different) /\ DOMAIN page.entries = 1..Len(page.entries)
           /\ Len(page.entries) \in Nat
           /\ page.q.order = "Desc" => Pairwise(page.entries, NewestPair)
           /\ \A e : Has(page.entries, e) /\ e.ok /\ e.status = "Confirmed" =>
                         \E u \in X \cup Y : e = Done(u)
           /\ ShowsAll => \A e : Has(WholeList(page.q), e) => Has(page.entries, e)
<1>1. PICK w : w = WholeList(page.q)
  OBVIOUS
<1>2. PICK desc \in BOOLEAN : desc <=> page.q.order = "Desc"
  OBVIOUS
<1>3. /\ w \in Seq(LiveEntry) /\ Pairwise(w, Different) /\ Pairwise(w, NewestPair)
      /\ \A i \in DOMAIN w : w[i].ok /\ w[i].status = "Confirmed" => \E u \in X \cup Y : w[i] = Done(u)
  BY <1>1 DEF ListIs
<1>4. PICK e : e = page.entries
  OBVIOUS
<1>5. /\ page.offset \in Nat /\ page.q.limit \in Nat /\ page.total = Len(w)
      /\ e = Slice(IF desc THEN w ELSE Reverse(w), page.offset, page.q.limit)
  <2>1. page.offset \in Nat /\ page.q \in Query /\ page.total = Len(w)
        /\ e = Slice(IF page.q.order = "Desc" THEN w ELSE Reverse(w), page.offset, page.q.limit)
    BY <1>1, <1>4, PageIsCut
  <2>2. page.q.limit \in Nat
    BY <2>1 DEF Query
  <2> QED BY <1>2, <2>1, <2>2
<1>6. /\ Len(e) \in Nat /\ DOMAIN e = 1..Len(e)
      /\ \A i \in DOMAIN e : Has(w, e[i])
      /\ \A R, Q : /\ Pairwise(w, R)
                   /\ (\A x, y \in LiveEntry : <<x, y>> \in R => <<y, x>> \in Q)
                   /\ R \subseteq Q
                   => Pairwise(e, Q)
      /\ desc => \A R : Pairwise(w, R) => Pairwise(e, R)
      /\ Len(e) = Len(w) => \A x : Has(w, x) => Has(e, x)
  <2>1. PICK off \in Nat : off = page.offset
    BY <1>5
  <2>2. PICK limit \in Nat : limit = page.q.limit
    BY <1>5
  <2>3. e = Slice(IF desc THEN w ELSE Reverse(w), off, limit)
    BY <1>5, <2>1, <2>2
  <2>4. CutOf(LiveEntry, w, desc, e)
    BY <1>3, <2>3, CutFacts
  <2> QED BY <2>4 DEF CutOf
<1>7. Pairwise(e, Different)
  BY <1>3, <1>6, DifferentIsSymmetric
<1>8. desc => Pairwise(e, NewestPair)
  BY <1>3, <1>6
<1>9. ASSUME NEW x, Has(e, x), x.ok, x.status = "Confirmed" PROVE \E u \in X \cup Y : x = Done(u)
  <2>1. Has(w, x)
    BY <1>6, <1>9 DEF Has
  <2> QED BY <1>3, <1>9, <2>1 DEF Has
<1>10. ShowsAll => \A x : Has(w, x) => Has(e, x)
  BY <1>4, <1>5, <1>6 DEF ShowsAll
<1> QED BY <1>1, <1>2, <1>4, <1>6, <1>7, <1>8, <1>9, <1>10

LEMMA HistoryInvariantHolds ==
    ASSUME HistoryInvariant
    PROVE  HistoryAgrees
<1>1. HistoryTypeOK
  <2>1. /\ WalletTyped /\ Len(chain) =< MaxHeight /\ rewinds \in 0..MaxRewinds
        /\ snap.db \in Database /\ ConfirmedOnly(snap.db)
        /\ page.pc \in {"idle", "open", "seed", "live", "done"}
    BY DEF HistoryInvariant, WalletRight, SnapRight, PageInvariant, PageCurrent
  <2>2. snap.db.pending = EmptyDatabase.pending
    BY <2>1, EmptyIsDatabase DEF ConfirmedOnly
  <2> QED BY <2>1, <2>2 DEF HistoryTypeOK, WalletTyped
<1>2. CASE page.pc # "done"
  BY <1>1, <1>2 DEF HistoryAgrees, VerdictsAgree, ListedOnce, NewestFirst, ShowsAll
<1>3. CASE page.pc = "done"
  <2>1. PICK d, Y, out, X :
            /\ SnapHolds(snap, d, Y) /\ Folds(snap.db, RowsPast(snap.wm), tip, out, X)
            /\ ListIs(WholeList(page.q), page.q.filter = NoFilter /\ page.q.ops = {},
                      snap.wm[1], Y, X)
    BY <1>3, ListIsRight
  <2>2. PICK e : e = page.entries
    OBVIOUS
  <2>3. /\ Pairwise(e, Different) /\ DOMAIN e = 1..Len(e) /\ Len(e) \in Nat
        /\ page.q.order = "Desc" => Pairwise(e, NewestPair)
        /\ \A x : Has(e, x) /\ x.ok /\ x.status = "Confirmed" => \E u \in X \cup Y : x = Done(u)
        /\ ShowsAll => \A x : Has(WholeList(page.q), x) => Has(e, x)
    BY <1>3, <2>1, <2>2, PageHolds
  <2>4. ListedOnce
    <3> SUFFICES ASSUME NEW m \in 1..Len(e), NEW n \in 1..Len(e), m # n
                 PROVE  ~(e[m].at[2] = e[n].at[2] /\ e[m].at[3] = e[n].at[3])
      BY <2>2, <2>3 DEF ListedOnce
    <3>1. m < n \/ n < m
      OBVIOUS
    <3>2. <<e[m], e[n]>> \in Different \/ <<e[n], e[m]>> \in Different
      BY <2>3, <3>1 DEF Pairwise
    <3> QED BY <3>2 DEF Different
  <2>5. NewestFirst
    <3> SUFFICES ASSUME page.q.order = "Desc", NEW m \in DOMAIN e, NEW n \in DOMAIN e, m < n
                 PROVE  \/ inflight_rank(e[m].status) < inflight_rank(e[n].status)
                        \/ e[m].status = e[n].status /\ e[m].at[1] >= e[n].at[1]
      BY <2>2 DEF NewestFirst
    <3>1. <<e[m], e[n]>> \in NewestPair
      BY <2>3 DEF Pairwise
    <3> QED BY <3>1 DEF NewestPair
  <2>6. VerdictsAgree
    <3> DEFINE shown == {x.at : x \in {y \in Range(e) : y.ok /\ y.status = "Confirmed"}}
    <3> SUFFICES ASSUME ShowsAll, tip >= snap.wm[1] + SafeDepth
                 PROVE  {u \in shown : MemoAt(u).op # "INIT" \/ AuditStatus(u) = "Confirmed"}
                            = AuditApplied
      BY <2>2 DEF VerdictsAgree
    <3>1. PICK list : list = FoldHistory(EmptyDatabase, RowsPast(Start), tip).list
      OBVIOUS
    <3>2. PICK last, Z : /\ Folds(EmptyDatabase, RowsPast(Start), tip, last, Z)
                         /\ {x \in Range(list) : x.ok /\ x.status = "Confirmed"} = {Done(u) : u \in Z}
      BY <3>1, AppliedOfAll
    <3>3. AuditApplied = {u \in Z : AuditStatus(u) = "Confirmed"}
      BY <3>2, AuditIsFold
    <3>4. snap.wm[1] =< tip /\ tip \in Nat
      BY <1>3, HistoryHolds DEF HistoryInvariant
    <3>5. Z = X \cup Y
      <4>1. Z = Y \cup X
        BY <2>1, <3>2, <3>4, AppliedSplit
      <4> QED BY <4>1
    <3>6. ASSUME NEW u \in X \cup Y PROVE Has(e, Done(u))
      <4>1. Has(WholeList(page.q), Done(u))
        BY <2>1 DEF ListIs, ShowsAll
      <4> QED BY <2>3, <4>1
    <3>7. \A x : x \in Range(e) <=> Has(e, x)
      BY DEF Has, Range
    <3>8. ASSUME NEW x, x \in Range(e), x.ok, x.status = "Confirmed"
          PROVE  \E u \in X \cup Y : x = Done(u)
      BY <2>3, <3>7, <3>8
    <3>9. \A u \in X \cup Y : Done(u).ok /\ Done(u).status = "Confirmed" /\ Done(u).at = u
      BY DoneFields
    <3>10. shown = X \cup Y
      BY <3>6, <3>7, <3>8, <3>9
    <3>11. ASSUME NEW u \in Z, MemoAt(u).op # "INIT" PROVE AuditStatus(u) = "Confirmed"
      BY <3>2, <3>4, <3>11, TakenWriteIsDeep
    <3> HIDE DEF shown
    <3> QED BY <3>3, <3>5, <3>10, <3>11
  <2> QED BY <1>1, <2>4, <2>5, <2>6 DEF HistoryAgrees
<1> QED BY <1>2, <1>3

\* Every page of the history is right, whatever is mined, rewound, promoted and recorded,
\* when nothing else reads the database while it is put together: unfiltered and complete it
\* shows as verified exactly the writes that took effect, no page lists a write twice, and
\* newest-first pages are in order (load_history_page).
THEOREM HistoryIsRight == ASSUME ~Concurrent PROVE HistorySpec => []HistoryAgrees
<1>1. HistoryInit => HistoryInvariant
  BY HistoryStart
<1>2. HistoryInvariant /\ [HistoryNext]_historyVars => HistoryInvariant'
  BY HistoryStep
<1>3. HistoryInvariant => HistoryAgrees
  BY HistoryInvariantHolds
<1> QED BY <1>1, <1>2, <1>3, PTL DEF HistorySpec

\* No write of this client carries a long value: the merge with pending.toml does not list
\* those.
OwnValuesShort == \A t \in Own : \A i \in DOMAIN MemosOf[t] : MemosOf[t][i].op # "SETL"

\* A row below the watermark that takes effect in the end is one of the snapshot's.
LEMMA SettledBelow ==
    ASSUME HistoryInvariant, snap.wm[1] =< tip, NEW d, NEW Y, SnapHolds(snap, d, Y),
           NEW u \in AppliedInTheEnd
    PROVE  u \in Y \/ u \in RowsAbove(snap.wm[1])
<1>1. WalletHolds /\ WatermarkRight(snap.wm) /\ snap.db \in Database
  BY HistoryHolds DEF HistoryInvariant, WalletRight, SnapRight
<1>2. Settled \in Nat
  BY HistoryBoundsAssumption, HistoryDepthAssumption DEF Settled
<1>3. PICK list : list = FoldHistory(EmptyDatabase, RowsPast(Start), Settled).list
  OBVIOUS
<1>4. PICK last, Z : /\ Folds(EmptyDatabase, RowsPast(Start), Settled, last, Z)
                     /\ {e \in Range(list) : e.ok /\ e.status = "Confirmed"} = {Done(x) : x \in Z}
  BY <1>3, AppliedOfAll
<1>5. AppliedInTheEnd = {e.at : e \in {f \in Range(list) : f.ok /\ f.status = "Confirmed"}}
  BY <1>3 DEF AppliedInTheEnd, Settled
<1>6. u \in Z
  <2>1. PICK x \in Z : u = Done(x).at
    BY <1>4, <1>5
  <2> QED BY <2>1, DoneFields
<1>7. Sorts(RowsPast(snap.wm), RowsAbove(snap.wm[1]), InOrder)
  BY <1>1, RowsPastSorts
<1>8. RowsPast(snap.wm) \in Seq(MemoRow)
  BY <1>1, <1>7, RowsAreMemoRows
<1>9. PICK g : Trace(g, snap.db, RowsPast(snap.wm), Settled)
  BY <1>1, <1>8, TraceExists
<1>10. PICK out, X : Folds(snap.db, RowsPast(snap.wm), Settled, out, X)
  BY <1>9 DEF Folds
<1>11. X \subseteq RowsAbove(snap.wm[1])
  BY <1>7, <1>10, TakenMembers
<1>12. Z = Y \cup X
  BY <1>2, <1>4, <1>10, AppliedSplit
<1> QED BY <1>6, <1>11, <1>12

LEMMA OwnWritesHold ==
    ASSUME HistoryInvariant, OwnValuesShort
    PROVE  OwnWritesStay
<1> SUFFICES ASSUME ShowsAll,
                    NEW v \in OutputsOf(0, recorded \cup (Own \cap Mined(tip))),
                    InWriteLog(MemoAt(v).op)
             PROVE  \/ ShowsWrite(page.entries, v)
                    \/ \E h \in 1..snap.wm[1] :
                          v[2] \in chain[h] /\ <<h, v[2], v[3]>> \notin AppliedInTheEnd
  BY DEF OwnWritesStay, ShowsWrite
<1>1. page.pc = "done" /\ page.q.filter = NoFilter /\ page.q.ops = {}
  BY DEF ShowsAll
<1>2. PICK d, Y, out, X :
          /\ SnapHolds(snap, d, Y) /\ Folds(snap.db, RowsPast(snap.wm), tip, out, X)
          /\ ListIs(WholeList(page.q), page.q.filter = NoFilter /\ page.q.ops = {},
                    snap.wm[1], Y, X)
  BY <1>1, ListIsRight
<1>3. \A e : Has(WholeList(page.q), e) => Has(page.entries, e)
  BY <1>1, <1>2, PageHolds
<1>4. \A u : ShowsWrite(WholeList(page.q), u) => ShowsWrite(page.entries, u)
  BY <1>3, HasShows
<1>5. /\ \A u \in X \cup Y : Has(WholeList(page.q), Done(u))
      /\ \A u \in RowsAbove(snap.wm[1]) :
             InWriteLog(MemoAt(u).op) /\ StatusOf(u, tip) # "Dropped"
                 /\ (u[1] # 0 \/ u[2] \in recorded) => ShowsWrite(WholeList(page.q), u)
      /\ \A u \in OutputsOf(0, recorded) :
             InWriteLog(MemoAt(u).op) /\ MemoAt(u).op # "SETL" => ShowsWrite(WholeList(page.q), u)
  BY <1>1, <1>2 DEF ListIs
<1>6. WalletHolds /\ WalletTyped /\ Len(chain) =< MaxHeight /\ tip \in 0..Len(chain)
      /\ Len(chain) \in Nat /\ tip \in Nat /\ recorded \subseteq Own /\ Own \subseteq Tx
      /\ snap.wm[1] =< tip /\ snap.wm[1] \in 0..Len(chain)
  BY <1>1, HistoryHolds, HistoryTxAssumption
     DEF HistoryInvariant, WalletRight, SnapRight, WalletHolds, WalletTyped
<1>7. v = <<0, v[2], v[3]>> /\ v[2] \in recorded \cup (Own \cap Mined(tip))
      /\ v[3] \in DOMAIN MemosOf[v[2]]
  <2>1. recorded \cup (Own \cap Mined(tip)) \subseteq Tx
    BY <1>6
  <2> QED BY <2>1, OutputFacts
<1>8. CASE v[2] \in recorded
  <2>1. v \in OutputsOf(0, recorded)
    <3>1. recorded \subseteq Tx
      BY <1>6
    <3> QED BY <1>7, <1>8, <3>1, OutputFacts
  <2>2. MemoAt(v).op # "SETL"
    BY <1>6, <1>7, <1>8 DEF OwnValuesShort, MemoAt
  <2> QED BY <1>4, <1>5, <2>1, <2>2
<1>9. CASE v[2] \in Own \cap Mined(tip)
  <2>1. PICK h \in 1..tip : v[2] \in chain[h]
    BY <1>9 DEF Mined
  <2>2. PICK u : u = <<h, v[2], v[3]>>
    OBVIOUS
  <2>3. u[1] = h /\ u[2] = v[2] /\ u[3] = v[3] /\ u = <<u[1], u[2], u[3]>>
    BY <2>2
  <2>4. MemoAt(u) = MemoAt(v)
    BY <2>3 DEF MemoAt
  <2>5. u \in MinedRows(tip) /\ u \in AllRows
    <3>1. u[1] \in 1..tip /\ u[2] \in chain[u[1]] /\ u[3] \in DOMAIN MemosOf[u[2]]
      BY <1>7, <2>1, <2>3
    <3>2. u \in MinedRows(tip)
      BY <1>6, <2>3, <3>1, MinedRowFacts
    <3> QED BY <3>2 DEF AllRows
  <2>6. \A s : ShowsWrite(s, u) => ShowsWrite(s, v)
    BY <2>3 DEF ShowsWrite
  <2>7. CASE h > snap.wm[1]
    <3>1. u \in RowsAbove(snap.wm[1])
      BY <2>3, <2>5, <2>7 DEF RowsAbove
    <3>2. StatusOf(u, tip) # "Dropped" /\ u[1] # 0
      BY <1>9, <2>1, <2>3, StatusFacts
    <3> QED BY <1>4, <1>5, <2>4, <2>6, <3>1, <3>2
  <2>8. CASE ~(h > snap.wm[1])
    <3>1. PICK k \in 0..Len(chain) : k = snap.wm[1]
      BY <1>6
    <3>2. h \in 1..k
      BY <2>1, <2>8, <3>1
    <3>3. CASE u \notin AppliedInTheEnd
      BY <2>1, <2>2, <3>1, <3>2, <3>3
    <3>4. CASE u \in AppliedInTheEnd
      <4>1. u \notin RowsAbove(k)
        BY <2>3, <3>2 DEF RowsAbove
      <4>2. u \in Y
        BY <1>2, <1>6, <3>1, <3>4, <4>1, SettledBelow
      <4>3. Has(page.entries, Done(u))
        BY <1>3, <1>5, <4>2
      <4>4. ShowsWrite(page.entries, u)
        BY <4>3, DoneFields DEF Has, ShowsWrite
      <4> QED BY <2>6, <4>4
    <3> QED BY <3>3, <3>4
  <2> QED BY <2>7, <2>8
<1> QED BY <1>7, <1>8, <1>9

\* A write of this client stays in its history from the moment it is sent: in flight, mined,
\* pruned from pending.toml and promoted, unless replay refused it and promotion passed it,
\* as long as its values are short (load_history_page's merge leaves out a recorded SETL).
THEOREM OwnWritesListed ==
    ASSUME ~Concurrent, OwnValuesShort PROVE HistorySpec => []OwnWritesStay
<1>1. HistoryInit => HistoryInvariant
  BY HistoryStart
<1>2. HistoryInvariant /\ [HistoryNext]_historyVars => HistoryInvariant'
  BY HistoryStep
<1>3. HistoryInvariant => OwnWritesStay
  BY OwnWritesHold
<1> QED BY <1>1, <1>2, <1>3, PTL DEF HistorySpec
=============================================================================
