------------------------- MODULE MCReplicatedStore -------------------------
(* Instances of ReplicatedStore for TLC.                                    *)
EXTENDS ReplicatedStore, TLC

CONSTANTS s1, s2, c1, c2, c3, k1

(* Two clients share a proxy, the third has one of its own.                  *)
SharedProxy == c1 :> s1 @@ c2 :> s1 @@ c3 :> s2

Put(v) == [op |-> "write", key |-> k1, val |-> v]
Get == [op |-> "read", key |-> k1, val |-> "v0"]

(* All clients read and write one key: c1 reads back what it wrote, in the   *)
(* same request and in the next, while the others write.                     *)
OneKey ==
    c1 :> << <<Put("v1"), Get>>, <<Get, Put("v2")>> >>
    @@ c2 :> << <<Get, Put("v3")>> >>
    @@ c3 :> << <<Put("v4"), Get>> >>
=============================================================================
