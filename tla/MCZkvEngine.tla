----------------------------- MODULE MCZkvEngine -----------------------------
(* Small instances of ZkvEngine: two members of one network's shared scan. *)
EXTENDS ZkvEngine
=============================================================================
