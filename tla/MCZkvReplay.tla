---------------------------- MODULE MCZkvReplay ----------------------------
(***************************************************************************)
(* A small instance of ZkvReplay and ZkvRoles.  Folding every memo of the  *)
(* instance in one stream is out of reach, so a behaviour keeps to the     *)
(* memos of one topic: data writes, the registry, epochs, or an audit of   *)
(* longer histories of grants and removals.                                *)
(***************************************************************************)
EXTENDS ZkvRoles

CONSTANTS Topics, MaxAuditSeq,            \* the topics of the run; bound on audited sequences
          root, alice, eve,               \* identities; eve is never granted anything
          root_id, alice_id, alice_hex, eve_id, junk_id,   \* wire spellings of a target
          k1, v1, v2

VARIABLE topic

MCPubkeys == {root, alice, eve}
MCTargets == {root_id, alice_id, alice_hex, eve_id, junk_id}
MCCanonical == [t \in MCTargets |->
    CASE t = root_id -> root [] t \in {alice_id, alice_hex} -> alice
      [] t = eve_id -> eve [] OTHER -> NotAPubkey]

memo(op, key, value, seq, signer) ==
    [op |-> op, key |-> key, value |-> value, seq |-> seq, signer |-> signer]

Lifecycle(signers) ==
    {memo(op, NoValue, NoValue, 0, s) : op \in {"INIT", "FINALIZE"}, s \in signers}

\* Data writes by everybody under one writer grant, replays and races included.
DataMemos ==
    {memo("INIT", NoValue, NoValue, 0, root), memo("FINALIZE", NoValue, NoValue, 0, root),
     memo("WRITERADD", alice_id, {"CREATE"}, 0, root),
     memo("WRITERADD", alice_id, {"UPDATE", "DESTROY"}, 1, root),
     memo("SET", k1, v1, 0, NoSigner)}
    \cup {memo("SET", k1, v1, n, s) : n \in 0..4, s \in {root, alice}}
    \cup {memo("SETL", k1, v2, n, alice) : n \in 0..4}
    \cup {memo("DEL", k1, NoValue, n, s) : n \in 0..4, s \in {alice, eve}}

\* Owners and writers granted, removed and re-granted, by the root and by each other.
RegistryMemos ==
    Lifecycle({root, eve})
    \cup {memo(op, t, {}, n, s) : op \in {"OWNERADD", "OWNERDEL"}, t \in {root_id, alice_id},
                                  n \in 0..1, s \in {root, alice}}
    \cup {memo("WRITERADD", alice_id, c, n, root) : c \in {{}, {"CREATE"}}, n \in 0..1}
    \cup {memo("WRITERDEL", alice_id, {}, n, root) : n \in 0..1}
    \cup {memo("OWNERADD", t, {}, 0, s) : t \in {junk_id, alice_hex}, s \in {root, eve}}

\* The epoch announcements, over one data write and one owner grant.
VersionMemos ==
    Lifecycle({root, eve})
    \cup {memo("OWNERADD", alice_id, {}, 0, root), memo("SET", k1, v1, 0, alice)}
    \cup {memo("VERSION", n, b, 0, root) : n \in 0..2, b \in {{}, {"WRITE"}}}
    \cup {memo("VERSION", NotNumeric, {}, 0, root), memo("VERSION", 1, NoValue, 0, root),
          memo("VERSION", 3, {}, 0, root), memo("VERSION", 1, BlockCap, 0, alice)}

\* Grants and removals as this program's own writers spell them, canonically.
RoleMemos ==
    {memo("INIT", NoValue, NoValue, 0, root)}
    \cup {memo(op, t, {}, n, s) : op \in {"OWNERADD", "OWNERDEL", "WRITERDEL"},
                t \in {root_id, alice_id}, n \in 0..MaxAuditSeq, s \in {root, alice}}
    \cup {memo("WRITERADD", t, c, n, root) : t \in {root_id, alice_id}, n \in 0..MaxAuditSeq,
                c \in {{}, {"CREATE"}, {"UPDATE", "DESTROY"}}}

\* And with one identity in raw hex, which replay accepts as well.
SpelledMemos ==
    RoleMemos \cup {memo("OWNERDEL", alice_hex, {}, n, root) : n \in 0..MaxAuditSeq}

MCSpelling == [p \in MCPubkeys |->
    CASE p = root -> root_id [] p = alice -> alice_id [] OTHER -> eve_id]

MCSigned == SpelledMemos \cup DataMemos \cup RegistryMemos \cup VersionMemos

OnTopic ==
    CASE topic = "data"     -> DataMemos
      [] topic = "registry" -> RegistryMemos
      [] topic = "version"  -> VersionMemos
      [] OTHER              -> {}

Audited ==
    CASE topic = "roles"    -> RoleMemos
      [] topic = "spelled"  -> SpelledMemos
      [] OTHER              -> {}

MCInit == Init /\ AuditInit /\ topic \in Topics

MCNext ==
    /\ \/ /\ \/ \E m \in OnTopic : FoldConfirmed(m)
             \/ \E m \in OnTopic : FoldConfirming(m)
             \/ Finish
          /\ UNCHANGED auditvars
       \/ (\E m \in Audited : FoldRow(m)) /\ UNCHANGED vars
    /\ UNCHANGED topic

MCSpec == MCInit /\ [][MCNext]_<<vars, auditvars, topic>>
=============================================================================
