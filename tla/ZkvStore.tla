------------------------------ MODULE ZkvStore ------------------------------
(***************************************************************************)
(* What a database promises whoever reads it, without memos, signatures,   *)
(* queues or replay: a map with one counter per key, owners, an epoch and  *)
(* a seal.  It opens with the root as its only owner; from then on each    *)
(* step writes one key, reserves a sequence of one key, adds or removes    *)
(* one owner but never the last, moves the epoch up by one or down, or     *)
(* seals everything for good.  ZkvReplay implements it, ImplementsStore.   *)
(***************************************************************************)
EXTENDS Integers

CONSTANTS Keys, Values, NoValue, Pubkeys, Root,
          Window        \* how far ahead of its counter a key may be written

VARIABLES owners, epoch, value, next, sealed

vars == <<owners, epoch, value, next, sealed>>

Init ==
    /\ owners = {} /\ epoch = 0 /\ sealed = FALSE
    /\ value = [k \in Keys |-> NoValue]
    /\ next = [k \in Keys |-> 0]

Writable == owners # {} /\ ~sealed

\* The counter passes a sequence of its forward window, which nobody can use again.
Consume(k) == \E seq \in next[k]..(next[k] + Window) : next' = [next EXCEPT ![k] = seq + 1]

Open ==
    /\ owners = {} /\ ~sealed
    /\ owners' = {Root}
    /\ UNCHANGED <<epoch, value, next, sealed>>

Write(k) ==
    /\ Writable /\ Consume(k)
    /\ \E v \in Values \cup {NoValue} : value' = [value EXCEPT ![k] = v]
    /\ UNCHANGED <<owners, epoch, sealed>>

\* A write that is not confirmed yet takes its sequence and nothing else.
Reserve(k) ==
    /\ Writable /\ Consume(k)
    /\ UNCHANGED <<owners, epoch, value, sealed>>

Govern(p) ==
    /\ Writable
    /\ owners' = owners \cup {p} \/ (owners' = owners \ {p} /\ owners' # {})
    /\ UNCHANGED <<epoch, value, next, sealed>>

Announce ==
    /\ Writable
    /\ epoch' \in 0..(epoch + 1)
    /\ UNCHANGED <<owners, value, next, sealed>>

Seal ==
    /\ Writable
    /\ sealed' = TRUE
    /\ UNCHANGED <<owners, epoch, value, next>>

Next ==
    \/ Open \/ Announce \/ Seal
    \/ \E k \in Keys : Write(k) \/ Reserve(k)
    \/ \E p \in Pubkeys : Govern(p)

Spec == Init /\ [][Next]_vars

=============================================================================
