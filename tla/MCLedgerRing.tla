---------------------------- MODULE MCLedgerRing ----------------------------
(* Instances of LedgerRing for TLC.                                         *)
EXTENDS LedgerRing, TLC

CONSTANTS s1, s2, s3

PeerSymmetry == Permutations({s2, s3})
=============================================================================
