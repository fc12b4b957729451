----------------------------- MODULE MCRabiaLog -----------------------------
(* Instances of RabiaLog for TLC.                                           *)
EXTENDS RabiaLog, TLC

(* The objects of a run are few, those of one proxy more than one, so that   *)
(* both parts of the priority matter.                                        *)
TwoAndOne == 1 :> 2 @@ 2 :> 1
=============================================================================
