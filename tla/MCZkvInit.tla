----------------------------- MODULE MCZkvInit -----------------------------
(* Small instance of ZkvInit. *)
EXTENDS ZkvInit
=============================================================================
