------------------------------ MODULE ZkvReplay ------------------------------
(***************************************************************************)
(* One replay pass over the memo stream (replay_with_seed, replay_audit):  *)
(* the rows arrive in chain order, confirmed ones first, then the          *)
(* self-sent and mempool rows that are still confirming.  Anyone may put   *)
(* any signed memo on chain, any number of times, so the stream is an      *)
(* arbitrary sequence over Signed: a verbatim re-broadcast is the same     *)
(* memo folded again.                                                      *)
(***************************************************************************)
EXTENDS ZkvProtocol

CONSTANTS Signed,       \* the memos that exist, signed by whoever signed them
          MaxPending    \* bound on the confirming rows of one pass

ASSUME SignedAssumption == Signed \subseteq Memo
ASSUME MaxPendingAssumption == MaxPending \in Nat

VARIABLES
    db,         \* the ReplayResult being folded
    phase,      \* "confirmed" rows, then the "tail" of confirming rows, then "done"
    applied,    \* history: the memos classify honoured as Applied
    pended      \* history: the memos honoured as Pending

vars == <<db, phase, applied, pended>>

Init ==
    /\ db = EmptyDatabase
    /\ phase = "confirmed"
    /\ applied = {}
    /\ pended = {}

\* A row mined deep enough for the read.  INIT confirms at one block
\* (effective_min_confs), so it alone can be Confirmed after a Confirming row.
FoldConfirmed(m) ==
    /\ phase = "confirmed" \/ (phase = "tail" /\ m.op = "INIT")
    /\ db' = Fold(db, m, "Confirmed")
    /\ applied' = applied \cup {x \in {m} : classify(db, x, "Confirmed") = "Applied"}
    /\ UNCHANGED <<phase, pended>>

\* A self-sent row below the threshold, or a mempool row.
FoldConfirming(m) ==
    /\ phase \in {"confirmed", "tail"}
    /\ Cardinality(pended) < MaxPending
    /\ db' = Fold(db, m, "Confirming")
    /\ phase' = "tail"
    /\ pended' = pended \cup {x \in {m} : classify(db, x, "Confirming") = "Pending"}
    /\ UNCHANGED applied

\* The pass returns its pruned result.
Finish ==
    /\ phase # "done"
    /\ db' = prune(db)
    /\ phase' = "done"
    /\ UNCHANGED <<applied, pended>>

Next ==
    \/ \E m \in Signed : FoldConfirmed(m)
    \/ \E m \in Signed : FoldConfirming(m)
    \/ Finish

Spec == Init /\ [][Next]_vars

\* `zkv verify`: the verdict on a memo as if it were a confirmed write at the head of
\* the state a read returned.
verify_memo(m) == classify(db, m, "Confirmed")

-----------------------------------------------------------------------------
(* Properties.                                                             *)

\* Every memo the pass has honoured, confirmed or confirming.
Honoured == applied \cup pended

\* The replayed state and the histories are well formed.
TypeOK ==
    /\ db \in Database
    /\ phase \in {"confirmed", "tail", "done"}
    /\ applied \subseteq Signed
    /\ pended \subseteq Signed

\* Replay protection: a versioned memo that was honoured once is inert for
\* ever.  Folding a verbatim re-broadcast, whatever happened in between
\* (deletes, revocations, re-grants, refused owner removals, tail rows),
\* changes nothing.
ReplayedMemoIsInert ==
    \A m \in Honoured : is_versioned(m.op) =>
        \A status \in Status : Fold(db, m, status) = db

\* Why: the entity's high-water has passed the sequence of every memo honoured
\* on it, so the window check drops the copy before any policy is consulted.
HonouredBelowHighWater ==
    \A m \in Honoured : is_versioned(m.op) => m.seq < high_water(db, m)

\* Compare-and-swap: two honoured confirmed writes to one key never carry the
\* same sequence, and the confirmed value is the one of the highest sequence.
LatestSequenceWins ==
    \A k \in Keys :
        LET writes == {m \in applied : m.op \in DataOps /\ m.key = k}
        IN  /\ \A m, n \in writes : m.seq = n.seq => m = n
            /\ writes = {} => db.kv[k] = NoValue
            /\ \A m \in writes :
                   (\A n \in writes : n.seq =< m.seq) => db.kv[k] = m.value

\* The registry always has an owner once INIT confirmed, and no key is both an
\* owner and a scoped writer (last-owner protection, insert_owner's clearing,
\* WriterTargetIsOwner).
RegistryManageable ==
    /\ db.init = "Initialized" <=> db.owners # {}
    /\ \A p \in db.owners : ~is_writer(db, p)

Granted(p) ==
    p = Root \/ \E g \in applied : g.op \in {"OWNERADD", "WRITERADD"} /\ Canonical[g.key] = p

\* The announcements of epoch n that took effect, or were refused as a jump or a no-op.
Announced(n) == {m \in applied : m.op = "VERSION" /\ m.key = n /\ m.value # NoValue}

\* Authority has provenance: whoever holds a role, and whoever signed a memo
\* that was honoured, is the root or was named by an honoured grant; and the
\* database stands at epoch n only after every epoch up to n was announced, with
\* the blocked capabilities of an announcement of n itself (transition_allowed).
AuthorityHasProvenance ==
    /\ \A p \in Pubkeys : p \in db.owners \/ is_writer(db, p) => Granted(p)
    /\ \A m \in Honoured : Granted(m.signer)
    /\ \A n \in 1..db.version : Announced(n) # {}
    /\ db.version > 0 => \E m \in Announced(db.version) : m.value = db.blocks

\* Nobody can lock the owners out: while the database is not sealed, every
\* owner's next in-order SET of any key, and every sequence of the forward
\* window, is honoured whatever was folded before.
OwnersCanAlwaysWrite ==
    db.init = "Initialized" /\ ~db.finalized =>
        \A o \in db.owners, k \in Keys, v \in Values, ahead \in 0..VersionWindow :
            classify(db, [op |-> "SET", key |-> k, value |-> v,
                          seq |-> db.kv_versions[k] + ahead, signer |-> o],
                     "Confirmed") = "Applied"

\* Management sequences are counted per identity: two honoured registry memos
\* about the same pubkey never carry the same sequence (ReplayResult's
\* target_versions is documented as keyed by the canonical target).
SequencePerIdentity ==
    \A m, n \in applied :
        (/\ m.op \in RegistryOps /\ n.op \in RegistryOps
         /\ Canonical[m.key] = Canonical[n.key] /\ Canonical[m.key] # NotAPubkey
         /\ m.seq = n.seq) => m = n

\* "Applied means the memo would be honored as a confirmed write": a memo that verifies
\* against a finished read is applied by the replay it is confirmed in next.
VerifyPredicts ==
    phase = "done" => \A m \in Signed :
        verify_memo(m) = "Applied" => outcome(db, m, "Confirmed") = "Applied"

\* A sealed database keeps everything but queue entries.
StaysSealed == db.finalized => [db' EXCEPT !.pending = db.pending] = db

\* The FINALIZE latch: once a confirmed FINALIZE sealed the database, no row
\* of anybody, owner included, changes it; only the final prune may still drop
\* queue entries.
SealedForever == [][StaysSealed]_vars

\* One row moves a high-water at most one window plus one, never backwards.
HighWaterMoves ==
    /\ \A k \in Keys : /\ db.kv_versions[k] =< db'.kv_versions[k]
                       /\ db'.kv_versions[k] =< db.kv_versions[k] + VersionWindow + 1
    /\ \A t \in Targets : /\ db.target_versions[t] =< db'.target_versions[t]
                          /\ db'.target_versions[t] =< db.target_versions[t] + VersionWindow + 1

\* No freeze by jump, and no rewind: every row respects HighWaterMoves.
HighWaterStep == [][HighWaterMoves]_vars

Store ==
    INSTANCE ZkvStore WITH
        Window <- VersionWindow, owners <- db.owners, epoch <- db.version,
        value <- db.kv, next <- db.kv_versions, sealed <- db.finalized

\* Replay implements the store a client is promised: whatever rows are folded, each one
\* writes, reserves, governs, announces or seals as ZkvStore allows, or changes nothing.
ImplementsStore == Store!Spec

=============================================================================
