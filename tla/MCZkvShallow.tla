---------------------------- MODULE MCZkvShallow ----------------------------
(***************************************************************************)
(* A small instance of ZkvShallow: an INIT, a batch with a write by a      *)
(* delegate and a newer write of the same key.  They are mined in any      *)
(* order, so the older write also appears as a late re-broadcast.          *)
(***************************************************************************)
EXTENDS ZkvShallow

CONSTANTS root, alice, k1, k2, v1, v2

memo(op, key, value, seq, signer) ==
    [op |-> op, key |-> key, value |-> value, seq |-> seq, signer |-> signer]

MCCanonical == [t \in {} |-> root]

MCMemosOf ==
    << <<memo("INIT", NoValue, NoValue, 0, root)>>,
       <<memo("SET", k1, v1, 0, root), memo("SET", k2, v1, 0, alice)>>,
       <<memo("SET", k1, v2, 1, root)>> >>

\* `get k1` and `get 'k*'`.
MCSearches == {[want |-> {k1}, pattern |-> FALSE], [want |-> {k1, k2}, pattern |-> TRUE]}

=============================================================================
