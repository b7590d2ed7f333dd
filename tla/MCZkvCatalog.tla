---------------------------- MODULE MCZkvCatalog ----------------------------
(* Small instance of ZkvCatalog: the GUI's calls are interchangeable. *)
EXTENDS ZkvCatalog, TLC
GuiSymmetry == Permutations(Gui)
=============================================================================
