---------------------------- MODULE MCZkvReadSync ----------------------------
(* A small instance of ZkvReadSync: a chain of three blocks that may hold an INIT *)
(* and the VERSION memos of Epochs, reads at no, one or two confirmations.        *)
EXTENDS ZkvReadSync
=============================================================================
