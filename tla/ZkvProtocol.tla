----------------------------- MODULE ZkvProtocol -----------------------------
(***************************************************************************)
(* The ZKV0 protocol rules, as operators on a replayed database state:     *)
(* who may write (auth.rs), which sequence numbers are accepted and which  *)
(* memos are honoured (replay.rs), and what an honoured memo does to the   *)
(* state.  Every state machine of the project folds memos with             *)
(* Fold(db, m, status); nothing here is a transition by itself.            *)
(*                                                                         *)
(* A memo is a parsed command together with the signer its signature       *)
(* recovers to.  Signing binds receiver, op, key, value and sequence, so a *)
(* verbatim re-broadcast is the same record and any altered copy recovers  *)
(* to some other signer.                                                   *)
(***************************************************************************)
EXTENDS Integers, Sequences, FiniteSets

CONSTANTS
    Pubkeys,        \* canonical zkvid1 identities
    Root,           \* the UFVK-derived root identity
    Targets,        \* wire spellings of a management target
    Canonical,      \* canonical_pubkey: Targets -> Pubkeys \cup {NotAPubkey}
    NotAPubkey,     \* result for a spelling that is no public key
    Keys,           \* data keys
    Values,         \* data values
    NoValue,        \* an absent value
    NoSigner,       \* a signature that recovers to no key
    VersionWindow   \* VERSION_WINDOW, 256 in the code

ASSUME RootAssumption      == Root \in Pubkeys
ASSUME CanonicalAssumption == Canonical \in [Targets -> Pubkeys \cup {NotAPubkey}]
ASSUME NoValueAssumption   == NoValue \notin Values
ASSUME NotAPubkeyAssumption == NotAPubkey \notin Pubkeys /\ NoSigner \notin Pubkeys
ASSUME WindowAssumption    == VersionWindow \in Nat

-----------------------------------------------------------------------------
(* Operations and their classes.                                           *)

SetOps       == {"SET", "SETL"}
DataOps      == SetOps \cup {"DEL"}
RegistryOps  == {"OWNERADD", "OWNERDEL", "WRITERADD", "WRITERDEL"}
OwnerOnlyOps == RegistryOps \cup {"FINALIZE", "VERSION"}

\* Ops whose signing domain carries a sequence; the others bind only the receiver.
is_versioned(op) == op \in DataOps \cup RegistryOps

Capability == {"CREATE", "UPDATE", "DESTROY"}
BlockCap   == {"SYNC", "READ", "WRITE"}

\* A scope is a set of capabilities; the empty set stands for "no scope", both
\* for a WRITERADD whose token list does not parse and for a key with no entry.
Scope == SUBSET Capability

\* A wire epoch that is not a decimal u32.
NotNumeric == -1

Memo ==
    LET Signer == Pubkeys \cup {NoSigner}
    IN  [op: SetOps, key: Keys, value: Values, seq: Nat, signer: Signer]
        \cup [op: {"DEL"}, key: Keys, value: {NoValue}, seq: Nat, signer: Signer]
        \cup [op: RegistryOps, key: Targets, value: Scope, seq: Nat, signer: Signer]
        \cup [op: {"INIT", "FINALIZE"}, key: {NoValue}, value: {NoValue},
              seq: {0}, signer: Signer]
        \cup [op: {"VERSION"}, key: Nat \cup {NotNumeric},
              value: (SUBSET BlockCap) \cup {NoValue}, seq: {0}, signer: Signer]

\* WriteStatus, judged at query time from the depth of the row.
Status == {"Confirmed", "Confirming"}

-----------------------------------------------------------------------------
(* The replayed state (ReplayResult).  Maps are total: a key with no value *)
(* holds NoValue, a pubkey with no writer entry holds the empty scope, an  *)
(* entity that was never written has high-water 0, as the code reads them. *)

PendingOp == [op: {"Set"}, value: Values] \cup [op: {"Del"}, value: {NoValue}]

Database ==
    [ init            : {"Uninitialized", "Initializing", "Initialized"},
      owners          : SUBSET Pubkeys,
      writers         : [Pubkeys -> Scope],
      finalized       : BOOLEAN,
      version         : Nat,
      blocks          : SUBSET BlockCap,
      kv              : [Keys -> Values \cup {NoValue}],
      pending         : [Keys -> Seq(PendingOp)],
      kv_versions     : [Keys -> Nat],
      target_versions : [Targets -> Nat] ]

EmptyDatabase ==
    [ init            |-> "Uninitialized",
      owners          |-> {},
      writers         |-> [p \in Pubkeys |-> {}],
      finalized       |-> FALSE,
      version         |-> 0,
      blocks          |-> {},
      kv              |-> [k \in Keys |-> NoValue],
      pending         |-> [k \in Keys |-> << >>],
      kv_versions     |-> [k \in Keys |-> 0],
      target_versions |-> [t \in Targets |-> 0] ]

\* A writer entry (auth.writers().contains).
is_writer(db, p) == db.writers[p] # {}

-----------------------------------------------------------------------------
(* Authorisation of data ops (AuthRegistry::authorize).                    *)

RequiredCapability(op, key_exists) ==
    CASE op = "DEL"                        -> "DESTROY"
      [] op \in SetOps /\ key_exists       -> "UPDATE"
      [] op \in SetOps /\ ~key_exists      -> "CREATE"

\* Mutant: a signer with no registry entry is let through.
authorize_unlisted(db, signer, op, key_exists) ==
    IF signer \in db.owners \/ ~is_writer(db, signer) THEN "Ok"
    ELSE IF RequiredCapability(op, key_exists) \in db.writers[signer] THEN "Ok"
    ELSE "OutOfScope"

authorize(db, signer, op, key_exists) ==
    IF signer \in db.owners THEN "Ok"
    ELSE IF ~is_writer(db, signer) THEN "NoWriteAuthority"
    ELSE IF RequiredCapability(op, key_exists) \in db.writers[signer] THEN "Ok"
    ELSE "OutOfScope"

-----------------------------------------------------------------------------
(* Replay protection: the bounded-forward sequence window.                 *)

high_water(db, m) ==
    IF m.op \in DataOps THEN db.kv_versions[m.key] ELSE db.target_versions[m.key]

\* Mutants: the window has no floor, no ceiling, or a ceiling one short.
seq_in_window_no_floor(db, m) ==
    is_versioned(m.op) => m.seq =< high_water(db, m) + VersionWindow

seq_in_window_no_ceiling(db, m) ==
    is_versioned(m.op) => high_water(db, m) =< m.seq

seq_in_window_short(db, m) ==
    is_versioned(m.op) => /\ high_water(db, m) =< m.seq
                          /\ m.seq < high_water(db, m) + VersionWindow

seq_in_window(db, m) ==
    is_versioned(m.op) =>
        /\ high_water(db, m) =< m.seq
        /\ m.seq =< high_water(db, m) + VersionWindow

bump_hw(current, seq) == IF current >= seq + 1 THEN current ELSE seq + 1

-----------------------------------------------------------------------------
(* The gate every memo passes: decide, behind signature recovery and the   *)
(* window check.  The result is "Applied", "Pending" or a drop reason.     *)

\* decide past its FINALIZE latch: INIT, then the lifecycle, ownership and scope checks.
decide_unsealed(db, m, status) ==
    LET honoured   == IF status = "Confirmed" THEN "Applied" ELSE "Pending"
        authorized == authorize(db, m.signer, m.op, db.kv[m.key] # NoValue)
    IN  IF m.op = "INIT" /\ m.signer # Root  THEN "ForgedInit"
        ELSE IF m.op = "INIT"
             THEN IF db.init # "Uninitialized" THEN "DuplicateInit" ELSE honoured
        ELSE IF db.init # "Initialized"      THEN "NotInitialized"
        ELSE IF m.op \in OwnerOnlyOps
             THEN IF m.signer \in db.owners THEN honoured ELSE "NotOwner"
        ELSE IF authorized = "Ok" THEN honoured ELSE authorized

decide(db, m, status) ==
    IF db.finalized THEN "Finalized" ELSE decide_unsealed(db, m, status)

classify(db, m, status) ==
    IF m.signer = NoSigner THEN "BadSignature"
    ELSE IF ~seq_in_window(db, m) THEN "StaleVersion"
    ELSE decide(db, m, status)

-----------------------------------------------------------------------------
(* Effects of an honoured memo.                                            *)

insert_owner(db, p) == [db EXCEPT !.owners = @ \cup {p}, !.writers[p] = {}]

\* Mutant: the last owner may be removed.
management_verdict_ownerless(db, m) ==
    LET target == Canonical[m.key]
    IN  IF target = NotAPubkey THEN "InvalidTargetPubkey"
        ELSE IF m.op = "WRITERADD" /\ m.value = {} THEN "InvalidScope"
        ELSE IF m.op = "WRITERADD" /\ target \in db.owners THEN "WriterTargetIsOwner"
        ELSE "Applied"

\* The policy verdict of apply_management: a reason when the registry must not change.
management_verdict(db, m) ==
    LET target == Canonical[m.key]
    IN  IF target = NotAPubkey THEN "InvalidTargetPubkey"
        ELSE IF m.op = "OWNERDEL" /\ target \in db.owners /\ Cardinality(db.owners) <= 1
             THEN "LastOwnerProtected"
        ELSE IF m.op = "WRITERADD" /\ m.value = {} THEN "InvalidScope"
        ELSE IF m.op = "WRITERADD" /\ target \in db.owners THEN "WriterTargetIsOwner"
        ELSE "Applied"

apply_management(db, m) ==
    LET target == Canonical[m.key]
    IN  IF management_verdict(db, m) # "Applied" THEN db
        ELSE CASE m.op = "OWNERADD"  -> insert_owner(db, target)
               [] m.op = "OWNERDEL"  -> [db EXCEPT !.owners = @ \ {target}]
               [] m.op = "WRITERADD" -> [db EXCEPT !.writers[target] = m.value]
               [] m.op = "WRITERDEL" -> [db EXCEPT !.writers[target] = {}]

\* VersionState::apply_version over transition_allowed: one step up, any step down.
version_verdict(db, m) ==
    CASE m.key = NotNumeric                                   -> "VersionNotNumeric"
      [] m.key # NotNumeric /\ m.value = NoValue              -> "VersionBadFlag"
      [] m.key # NotNumeric /\ m.value # NoValue /\ m.key = db.version
                                                              -> "VersionNoOp"
      [] m.value # NoValue /\ m.key > db.version + 1          -> "VersionJumpTooLarge"
      [] OTHER                                                -> "Applied"

apply_version(db, m) ==
    IF version_verdict(db, m) = "Applied"
    THEN [db EXCEPT !.version = m.key, !.blocks = m.value]
    ELSE db

\* Mutant: a management memo the policy refused does not consume its sequence.
apply_confirmed_lazy_bump(db, m) ==
    CASE m.op = "INIT"          -> [insert_owner(db, Root) EXCEPT !.init = "Initialized"]
      [] m.op \in RegistryOps   ->
             IF management_verdict(db, m) # "Applied" THEN db
             ELSE [apply_management(db, m) EXCEPT
                       !.target_versions[m.key] = bump_hw(@, m.seq)]
      [] m.op = "VERSION"       -> apply_version(db, m)
      [] m.op \in DataOps       -> [db EXCEPT !.kv[m.key] = m.value,
                                              !.kv_versions[m.key] = bump_hw(@, m.seq)]
      [] m.op = "FINALIZE"      -> [db EXCEPT !.finalized = TRUE]

\* The owner-authorised bump happens whether or not the registry mutation was refused.
apply_confirmed(db, m) ==
    CASE m.op = "INIT"          -> [insert_owner(db, Root) EXCEPT !.init = "Initialized"]
      [] m.op \in RegistryOps   -> [apply_management(db, m) EXCEPT
                                       !.target_versions[m.key] = bump_hw(@, m.seq)]
      [] m.op = "VERSION"       -> apply_version(db, m)
      [] m.op \in DataOps       -> [db EXCEPT !.kv[m.key] = m.value,
                                              !.kv_versions[m.key] = bump_hw(@, m.seq)]
      [] m.op = "FINALIZE"      -> [db EXCEPT !.finalized = TRUE]

\* A Confirming row queues its data op and bumps the high-water, and confers nothing else.
apply_pending(db, m) ==
    CASE m.op = "INIT"          -> [db EXCEPT !.init = "Initializing"]
      [] m.op \in RegistryOps   -> [db EXCEPT !.target_versions[m.key] = bump_hw(@, m.seq)]
      [] m.op \in DataOps       -> [db EXCEPT
              !.pending[m.key] = Append(@, [op |-> IF m.op = "DEL" THEN "Del" ELSE "Set",
                                            value |-> m.value]),
              !.kv_versions[m.key] = bump_hw(@, m.seq)]
      [] m.op \in {"FINALIZE", "VERSION"} -> db

\* One iteration of the replay loop: classify_in_memory, then apply_in_memory.
Fold(db, m, status) ==
    LET c == classify(db, m, status)
    IN  CASE c = "Applied" -> apply_confirmed(db, m)
          [] c = "Pending" -> apply_pending(db, m)
          [] OTHER         -> db

\* The outcome the audit and history views report: a policy no-op refines "Applied".
outcome(db, m, status) ==
    LET c == classify(db, m, status)
    IN  IF c = "Applied" /\ m.op \in RegistryOps   THEN management_verdict(db, m)
        ELSE IF c = "Applied" /\ m.op = "VERSION"  THEN version_verdict(db, m)
        ELSE c

-----------------------------------------------------------------------------
(* The two ends of a replay pass.                                          *)

\* A seed keeps every confirmed projection and loses its pending queues.
clear_pending(db) == [db EXCEPT !.pending = [k \in Keys |-> << >>]]

\* A key with no confirmed value is listed only if some Set is pending on it.
prune(db) ==
    LET listed(k) == \/ db.kv[k] # NoValue
                     \/ \E i \in DOMAIN db.pending[k] : db.pending[k][i].op = "Set"
    IN  [db EXCEPT !.pending = [k \in Keys |-> IF listed(k) THEN @[k] ELSE << >>]]

=============================================================================
