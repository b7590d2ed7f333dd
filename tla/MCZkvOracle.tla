---------------------------- MODULE MCZkvOracle ----------------------------
(* A small instance of ZkvOracle: a project with a release candidate, a    *)
(* release and a build that its ignore list drops.                         *)
EXTENDS ZkvOracle

CONSTANTS root

MCCanonical == << >>

MCChannels == <<"latest", "stable">>

MCTagInfo ==
    [t \in {"rc", "rc-no-tls", "final"} |->
        CASE t = "rc"        -> [version |-> 1, pre |-> TRUE, ignored |-> FALSE]
          [] t = "rc-no-tls" -> [version |-> 2, pre |-> TRUE, ignored |-> TRUE]
          [] t = "final"     -> [version |-> 3, pre |-> FALSE, ignored |-> FALSE]]
=============================================================================
