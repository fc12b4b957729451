----------------------------- MODULE TotalOrder -----------------------------
(***************************************************************************)
(* What the consensus layer promises to the proxies: every server delivers *)
(* objects that were requested, each at most once, the objects of a proxy  *)
(* in the order of their sequence numbers, and all servers deliver the     *)
(* same objects in the same order.                                         *)
(***************************************************************************)
EXTENDS Integers, Sequences

CONSTANTS Server, Object

VARIABLES
    requested,  \* the objects some server has received from a proxy
    delivered   \* delivered[s]: the objects s has delivered, in order

vars == <<requested, delivered>>

Init ==
    /\ requested = {}
    /\ delivered = [s \in Server |-> << >>]

Request(o) ==
    /\ requested' = requested \cup {o}
    /\ UNCHANGED delivered

Delivered(s) == {delivered[s][i] : i \in DOMAIN delivered[s]}

Deliver(s, o) ==
    /\ o \in requested \ Delivered(s)
    /\ \A b \in Object :
          b.proId = o.proId /\ b.proSeq < o.proSeq => b \in Delivered(s)
    /\ \A t \in Server :
          Len(delivered[t]) > Len(delivered[s]) => delivered[t][Len(delivered[s]) + 1] = o
    /\ delivered' = [delivered EXCEPT ![s] = Append(@, o)]
    /\ UNCHANGED requested

Next == \E o \in Object : Request(o) \/ \E s \in Server : Deliver(s, o)

Spec == Init /\ [][Next]_vars
=============================================================================
