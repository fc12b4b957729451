----------------------------- MODULE MCNetwork -----------------------------
(* Instances of Network for TLC.                                            *)
EXTENDS Network, TLC

CONSTANTS s1, s2, s3

ThreePeers == <<s1, s2, s3>>

(* s1 asks twice, and its proxy broadcasts as well.                         *)
OneRequest == s1 :> 1 @@ s2 :> 0 @@ s3 :> 0
TwoAsks == s1 :> 2 @@ s2 :> 0 @@ s3 :> 0
=============================================================================
