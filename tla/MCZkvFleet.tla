----------------------------- MODULE MCZkvFleet -----------------------------
(* Small instances of ZkvFleet: one or two databases of one or two keys. *)
EXTENDS ZkvFleet

CONSTANTS d1, d2, k1, k2

\* Each name is only ever given one address.
OneEach == [d \in DB |-> IF d = d1 THEN {k1} ELSE {k2}]

\* A name may be given another address once it is free.
AnyEach == [d \in DB |-> Key]
=============================================================================
