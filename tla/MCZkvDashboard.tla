--------------------------- MODULE MCZkvDashboard ---------------------------
(* Small instances of ZkvDashboard: two keys, a funded wallet, amounts of   *)
(* one decimal place.                                                      *)
EXTENDS ZkvDashboard

CONSTANTS k1, k2

typed(whole, frac) == [whole |-> whole, frac |-> frac]

\* 0.2 can be sent; 0.0, 0.25 and 1.0, which is more than there is, are refused.
MCTyped == {typed(0, <<2>>), typed(0, <<0>>), typed(0, <<2, 5>>), typed(1, << >>)}
=============================================================================
