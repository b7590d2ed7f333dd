---------------------------- MODULE MCZkvHistory ----------------------------
(* A small instance of ZkvHistory: the INIT with a first write in one      *)
(* transaction, an update of ours and a competing one with the same        *)
(* sequence by a writer nobody granted.                                    *)
EXTENDS ZkvHistory

CONSTANTS root, alice, k1, k2, v1, v2

memo(op, key, value, seq, signer) ==
    [op |-> op, key |-> key, value |-> value, seq |-> seq, signer |-> signer]

MCCanonical == << >>

MCMemosOf ==
    [t \in Tx |-> CASE t = 1 -> <<memo("INIT", NoValue, NoValue, 0, root),
                                  memo("SET", k1, v1, 0, root)>>
                    [] t = 2 -> <<memo("SET", k2, v1, 0, root), memo("SET", k1, v2, 1, root)>>
                    [] t = 3 -> <<memo("DEL", k1, NoValue, 1, alice)>>
                    [] t = 4 -> <<memo("DEL", k1, NoValue, 2, root)>>]

\* The same with a value that needs SETL in the second write of ours.
MCLongValue == [MCMemosOf EXCEPT ![4] = <<memo("SETL", k1, v2, 2, root)>>]

ask(filter, ops, order, limit, offset, locate) ==
    [filter |-> filter, ops |-> ops, order |-> order, limit |-> limit, offset |-> offset,
     locate |-> locate]

MCQueries ==
    {ask(NoFilter, {}, "Desc", 99, 0, 0)}
    \cup {ask(NoFilter, {}, order, 2, off, 0) : order \in {"Desc", "Asc"}, off \in {0, 1, 2}}
    \cup {ask(NoFilter, {}, "Desc", 2, 0, t) : t \in {1, 2}}
    \cup {ask({k1}, {"SETL"}, "Asc", 1, 1, 0), ask({k1}, {}, "Desc", 1, 0, 1)}
=============================================================================
