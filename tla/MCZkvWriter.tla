----------------------------- MODULE MCZkvWriter -----------------------------
(* Small instances of ZkvWriter: the client is the root, alice another writer. *)
EXTENDS ZkvWriter

CONSTANTS root, alice, root_id, alice_id, alice_hex, k1, v1, v2

MCPubkeys   == {root, alice}
MCTargets   == {root_id, alice_id, alice_hex}
MCCanonical == [t \in MCTargets |-> IF t = root_id THEN root ELSE alice]
MCSpelling  == [p \in MCPubkeys |-> IF p = root THEN root_id ELSE alice_id]

put(v) == [op |-> "SET", key |-> k1, value |-> v]
del    == [op |-> "DEL", key |-> k1, value |-> NoValue]

DataBatches == {<< >>, <<put(v1)>>, <<put(v2)>>, <<del>>, <<put(v1), del>>}
OneWrite    == {<<put(v1)>>}
Grants      == {[op |-> "OWNERADD", target |-> t, scope |-> {}] : t \in {alice_id, alice_hex}}
Seal        == [op |-> "FINALIZE", target |-> NoValue, scope |-> {}]
Governance  == Grants \cup {Seal}

AliceWrites ==
    {[op |-> "SET", key |-> k1, value |-> v2, seq |-> n, signer |-> alice] : n \in 0..2}
    \cup {[op |-> "OWNERDEL", key |-> alice_id, value |-> {}, seq |-> 2, signer |-> alice]}

=============================================================================
