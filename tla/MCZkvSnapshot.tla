---------------------------- MODULE MCZkvSnapshot ----------------------------
(* Small instances of ZkvSnapshot: a root, one writer it grants, one key.  *)
EXTENDS ZkvSnapshot

CONSTANTS root, alice, root_id, alice_id, k1, v1, v2

MCPubkeys   == {root, alice}
MCTargets   == {root_id, alice_id}
MCCanonical == [t \in MCTargets |-> IF t = root_id THEN root ELSE alice]

row(op, key, value, seq, signer, self) ==
    [memo |-> [op |-> op, key |-> key, value |-> value, seq |-> seq, signer |-> signer],
     self_sent |-> self]

\* A received INIT and grant, a write of our own, and the writer's write, which
\* is honoured only after the grant.
MCRows ==
    {row("INIT", NoValue, NoValue, 0, root, FALSE),
     row("WRITERADD", alice_id, {"CREATE"}, 0, root, FALSE),
     row("SET", k1, v1, 0, alice, FALSE),
     row("SET", k1, v2, 0, root, TRUE)}
=============================================================================
