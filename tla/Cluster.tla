------------------------------ MODULE Cluster ------------------------------
(***************************************************************************)
(* The parameters of a Rabia cluster, and the thresholds CalcConstants     *)
(* derives from them.                                                      *)
(***************************************************************************)
EXTENDS Integers, FiniteSets

CONSTANTS
    Server,         \* the servers of the cluster
    NFaulty,        \* Conf.NFaulty, the number of faulty servers tolerated
    Proposal,       \* the consensus objects clients' requests are batched in
    LenBlockArray,  \* Conf.LenBlockArray, the number of phases a slot can hold
    Coin,           \* Coin[p]: the common coin flipped in phase p
    Null,           \* the decision ConsensusObj{IsNull: true}
    None            \* "not set yet"

ASSUME ServerAssumption   == IsFiniteSet(Server)
ASSUME FaultAssumption    == NFaulty \in Nat /\ 2 * NFaulty < Cardinality(Server)
ASSUME PhaseAssumption    == LenBlockArray \in Nat \ {0}
ASSUME CoinAssumption     == Coin \in [1 .. LenBlockArray - 1 -> {0, 1}]
ASSUME ValueAssumption    ==
    /\ None # Null
    /\ {None, Null} \cap (Proposal \cup {0, 1, 2}) = {}

(* The operators named <operator>_<slip> here and in the other modules are    *)
(* plausible slips in the code that <operator> models; no definition uses     *)
(* them.  A property worth stating fails when a slip replaces the operator.   *)
NServers      == Cardinality(Server)
MajorityPlusF_WithoutF == NServers \div 2 + 1
NMinusF       == NServers - NFaulty
Majority      == NServers \div 2 + 1
MajorityPlusF == NServers \div 2 + NFaulty + 1
FaultyPlusOne == NFaulty + 1

Phase   == 0 .. LenBlockArray - 1
Bit     == {0, 1}
Unknown == 2                          \* the vote "?"
Object  == Proposal \cup {Null}       \* what a slot can be decided to
=============================================================================
