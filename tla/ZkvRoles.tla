------------------------------ MODULE ZkvRoles ------------------------------
(***************************************************************************)
(* The audit's role views.  replay_audit is a pass of its own: it folds    *)
(* the whole stream without a seed and records one row per memo with its   *)
(* final outcome.  granted_roles and revoked_roles then re-derive who      *)
(* holds a role from the rows that were Applied, keyed by the wire         *)
(* spelling of the target, and roles_resp joins them with the registry a   *)
(* read returns.  The views are folded here row by row beside the registry *)
(* they describe.                                                          *)
(***************************************************************************)
EXTENDS ZkvReplay

CONSTANT Spelling       \* pubkey_bech32: the canonical wire spelling of an identity

ASSUME SpellingAssumption ==
    /\ Spelling \in [Pubkeys -> Targets]
    /\ \A p \in Pubkeys : Canonical[Spelling[p]] = p

VARIABLES
    audit,      \* AuditResult's projections
    held,       \* granted_roles: wire spelling -> [role, caps, by]
    revoked     \* revoked_roles: wire spelling -> the role held when revoked

auditvars == <<audit, held, revoked>>

NoRole == [role |-> "none", caps |-> {}, by |-> NoSigner]

AuditInit ==
    /\ audit = EmptyDatabase
    /\ held = [t \in Targets |-> NoRole]
    /\ revoked = [t \in Targets |-> NoRole]

\* The role an Applied row gives its target (INIT: its signer); NoRole takes it away.
RoleGiven(m) ==
    CASE m.op \in {"INIT", "OWNERADD"}      -> [role |-> "owner", caps |-> {}, by |-> m.signer]
      [] m.op = "WRITERADD"                 -> [role |-> "writer", caps |-> m.value,
                                                by |-> m.signer]
      [] m.op \in {"OWNERDEL", "WRITERDEL"} -> NoRole

RoleSubject(m) == IF m.op = "INIT" THEN Spelling[m.signer] ELSE m.key

\* Mutant: re-granting a role leaves its tombstone standing.
FoldRow_keeps_tombstone(m) ==
    /\ audit' = Fold(audit, m, "Confirmed")
    /\ IF outcome(audit, m, "Confirmed") = "Applied" /\ m.op \in RegistryOps \cup {"INIT"}
       THEN LET t == RoleSubject(m)
            IN  /\ held' = [held EXCEPT ![t] = RoleGiven(m)]
                /\ revoked' = [revoked EXCEPT ![t] =
                       IF RoleGiven(m) = NoRole /\ held[t] # NoRole THEN held[t] ELSE @]
       ELSE UNCHANGED <<held, revoked>>

\* A removal tombstones what was held, whatever role the op names; a grant clears it.
FoldRow(m) ==
    /\ audit' = Fold(audit, m, "Confirmed")
    /\ IF outcome(audit, m, "Confirmed") = "Applied" /\ m.op \in RegistryOps \cup {"INIT"}
       THEN LET t == RoleSubject(m)
            IN  /\ held' = [held EXCEPT ![t] = RoleGiven(m)]
                /\ revoked' = [revoked EXCEPT ![t] =
                       IF RoleGiven(m) # NoRole THEN NoRole
                       ELSE IF held[t] # NoRole THEN held[t] ELSE @]
       ELSE UNCHANGED <<held, revoked>>

\* replay_audit over any rows.
Audit == AuditInit /\ [][\E m \in Signed : FoldRow(m)]_auditvars

\* Every management memo names its target as this program's own writers spell it.
CanonicallySpelled ==
    \A m \in Signed : m.op \in RegistryOps /\ Canonical[m.key] # NotAPubkey =>
        m.key = Spelling[Canonical[m.key]]

-----------------------------------------------------------------------------

\* The role the registry itself records for an identity.
RegistryRole(p) ==
    IF p \in audit.owners THEN [role |-> "owner", caps |-> {}]
    ELSE IF is_writer(audit, p) THEN [role |-> "writer", caps |-> audit.writers[p]]
    ELSE [role |-> "none", caps |-> {}]

\* The Roles tab: a row per identity of the registry with the provenance looked up
\* under its canonical spelling, and the revoked spellings.
roles_resp ==
    [rows    |-> {[pubkey |-> p, role |-> RegistryRole(p).role, caps |-> RegistryRole(p).caps,
                   grant |-> held[Spelling[p]]] :
                      p \in {q \in Pubkeys : RegistryRole(q).role # "none"}},
     revoked |-> {t \in Targets : revoked[t] # NoRole}]

\* The Roles tab never tells a wrong story ("the survivors here agree with
\* AuditResult::auth"): the provenance beside a role, when there is any, is of a
\* grant of exactly that role with a known signer, and nobody is listed as granted
\* who is missing from the registry.
GrantedRolesSound ==
    LET listed == roles_resp.rows
    IN  /\ \A row \in listed : row.grant # NoRole =>
               /\ row.grant.role = row.role /\ row.grant.caps = row.caps
               /\ row.grant.by # NoSigner
        /\ \A p \in Pubkeys : held[Spelling[p]] # NoRole => \E row \in listed : row.pubkey = p

\* No spelling is listed both as granted and as revoked, and everybody the
\* registry trusts is found in one of the two views.
RolesPartitionAuthority ==
    LET resp == roles_resp
    IN  /\ \A t \in resp.revoked : held[t] = NoRole
        /\ \A row \in resp.rows :
               \E t \in Targets : Canonical[t] = row.pubkey
                                  /\ (held[t] # NoRole \/ t \in resp.revoked)

\* The Roles tab is right: GrantedRolesSound and RolesPartitionAuthority.
RolesViewSound == GrantedRolesSound /\ RolesPartitionAuthority

\* revoked_roles agrees with AuditResult::auth: "a pubkey is either current
\* there or revoked here, never both".
RevokedIsNotCurrent ==
    \A row \in roles_resp.rows : Spelling[row.pubkey] \notin roles_resp.revoked

=============================================================================
