-------------------------- MODULE SlotEngineProofs --------------------------
(***************************************************************************)
(* Proofs about SlotEngine, for every number of servers, objects and       *)
(* phases, capacity of the queues and number of crashes: the tallies,      *)
(* notices and replies of the two routines of each server let the executor *)
(* take the steps of WeakMVC and no others, so that what WeakMVCProofs     *)
(* prove of the algorithm holds of the engine.                             *)
(*                                                                         *)
(* The last part is about the notices of MsgHandler: a server broadcasts   *)
(* its rounds in order and a handler completes their tallies in order, so  *)
(* that the notices come in the order the executor reads them in and there *)
(* is one Decision.  A server only asks for a proposal once a majority     *)
(* shares it, and two rounds later the others have decided: with room for  *)
(* three notices in the queue no handler blocks on it forever.             *)
(***************************************************************************)
EXTENDS SlotEngine, TLAPS, FiniteSetTheorems

Weak == INSTANCE WeakMVCProofs WITH pc <- AlgorithmPc

StatesOf(p) == [q \in Server |-> state[q][p]]
VotesOf(p) == [q \in Server |-> vote[q][p]]
Backed(m) == Cardinality({q \in Server : proposal[q] = m}) >= Majority

(* The rounds whose tallies the executor of s has yet to read.               *)
OpenProposals(s) == pc[s] # "done" /\ phase[s] = 0 /\ round[s] <= 1
OpenStates(s, p) == pc[s] # "done" /\ (p > phase[s] \/ (p = phase[s] /\ round[s] <= 1))
OpenVotes(s, p) == pc[s] # "done" /\ p >= phase[s]

(* A tally is a sample of what was broadcast, of NMinusF messages at most.   *)
SampleOf(T, cast) ==
    /\ \A q \in Server : T[q] # None => T[q] = cast[q]
    /\ Cardinality(Tallied(T)) <= NMinusF

TallySound(s) ==
    /\ OpenProposals(s) => SampleOf(recvProposal[s], proposal)
    /\ OpenProposals(s) \/ pc[s] = "done" \/ HasEnoughMsg(recvProposal[s])
    /\ \A m \in MajProposals(s, Majority) : Backed(m)
    /\ \A p \in Phase :
          /\ IF OpenStates(s, p) THEN SampleOf(recvState[s][p], StatesOf(p))
             ELSE recvState[s][p] = Consumed
          /\ IF OpenVotes(s, p) THEN SampleOf(recvVote[s][p], VotesOf(p))
             ELSE recvVote[s][p] = Consumed
TalliesSound == \A s \in Server : TallySound(s)

(* A message in a log is what its sender broadcast.                          *)
Genuine(q, m) ==
    /\ m.type = "Proposal" => m.value = proposal[q]
    /\ m.type = "State" => m.value = state[q][m.phase]
    /\ m.type = "Vote" => m.value = vote[q][m.phase]
    /\ m.type = "Decision" => m.value = decision[q]
SentSound == \A q \in Server : \A i \in DOMAIN sent[q] : Genuine(q, sent[q][i])

(* A notice tells of a complete round or carries a decision.                 *)
Sound(s, n) ==
    /\ n.type = "Proposal" => n.phase = 0 /\ HasEnoughMsg(recvProposal[s])
    /\ n.type = "State" => n.phase > 0 /\ HasEnoughMsg(recvState[s][n.phase])
    /\ n.type = "Vote" => HasEnoughMsg(recvVote[s][n.phase])
    /\ n.type = "Decision" => \E q \in Server : decision[q] = n.value
NoticesSound ==
    \A s \in Server :
        /\ Sound(s, handler[s])
        /\ \A i \in DOMAIN queue[s] : Sound(s, queue[s][i])

(* A server that waits for a reply has seen the binary decision 1.           *)
DecidesOne(T, k) == HasEnoughMsg(T) /\ MajV(T) = 1 /\ MajT(T) >= k
RequestSound(s) ==
    /\ pc[s] = "request" =>
          \/ /\ round[s] = 1 /\ phase[s] > 0
             /\ DecidesOne(recvState[s][phase[s]], MajorityPlusF)
          \/ /\ round[s] = 2
             /\ DecidesOne(recvVote[s][phase[s]], FaultyPlusOne)
    /\ \A r \in replies[s] : Backed(r.value)
    /\ vote[s][0] = 1 =>
          HasEnoughMsg(recvProposal[s]) /\ MajProposals(s, Majority) # {}
RequestsSound == \A s \in Server : RequestSound(s)

Rounds ==
    \A s \in Server :
        /\ pc[s] \in {"wait", "request", "panic"} => round[s] \in {1, 2}
        /\ pc[s] = "done" => decision[s] # None

EngineInv ==
    /\ TypeOK /\ Weak!IndInv
    /\ TalliesSound /\ SentSound /\ NoticesSound /\ RequestsSound /\ Rounds

-----------------------------------------------------------------------------
(* Constants and sets of servers.  The instance Weak has operators of its    *)
(* own for what it shares with this module.                                  *)
LEMMA SameCardinality ==
    /\ \A S : Weak!Cardinality(S) = Cardinality(S)
    /\ \A S : Weak!IsFiniteSet(S) <=> IsFiniteSet(S)
  BY DEF Weak!Cardinality, Cardinality, Weak!IsFiniteSet, IsFiniteSet

LEMMA SameAssumptions ==
    /\ Weak!ServerAssumption /\ Weak!FaultAssumption /\ Weak!PhaseAssumption
    /\ Weak!CoinAssumption /\ Weak!ValueAssumption
  BY SameCardinality, ServerAssumption, FaultAssumption, PhaseAssumption, CoinAssumption,
     ValueAssumption
     DEF Weak!ServerAssumption, Weak!FaultAssumption, Weak!PhaseAssumption,
         Weak!CoinAssumption, Weak!ValueAssumption

LEMMA SameConstants ==
    /\ Weak!NServers = NServers /\ Weak!NMinusF = NMinusF /\ Weak!Majority = Majority
    /\ Weak!MajorityPlusF = MajorityPlusF /\ Weak!FaultyPlusOne = FaultyPlusOne
    /\ Weak!Phase = Phase /\ Weak!Bit = Bit /\ Weak!Unknown = Unknown
    /\ Weak!Object = Object
  BY SameCardinality
     DEF Weak!NServers, NServers, Weak!NMinusF, NMinusF, Weak!Majority, Majority,
         Weak!MajorityPlusF, MajorityPlusF, Weak!FaultyPlusOne, FaultyPlusOne,
         Weak!Phase, Phase, Weak!Bit, Bit, Weak!Unknown, Unknown, Weak!Object, Object

LEMMA Sizes ==
    /\ NServers \in Nat /\ NFaulty \in Nat /\ NMinusF \in Nat
    /\ Majority \in Nat /\ MajorityPlusF \in Nat /\ FaultyPlusOne \in Nat
    /\ Majority + Majority > NServers /\ Majority >= 1
    /\ NMinusF >= Majority /\ NMinusF <= NServers
    /\ NMinusF = NServers - NFaulty
    /\ MajorityPlusF = Majority + NFaulty /\ FaultyPlusOne = NFaulty + 1
<1>1. NServers \in Nat
  BY ServerAssumption, FS_CardinalityType DEF NServers
<1> QED
  BY <1>1, FaultAssumption
     DEF NServers, NMinusF, Majority, MajorityPlusF, FaultyPlusOne

LEMMA Values ==
    /\ None \notin {0, 1, 2} /\ None # Null /\ None \notin Proposal /\ None \notin Object
    /\ None \notin Bit \cup {Unknown} /\ Null \notin {0, 1, 2} \cup Proposal
    /\ Null \in Object
  BY ValueAssumption DEF Object, Bit, Unknown

LEMMA Servers ==
    ASSUME NEW A \in SUBSET Server
    PROVE  IsFiniteSet(A) /\ Cardinality(A) \in Nat /\ Cardinality(A) <= NServers
  BY ServerAssumption, FS_Subset, FS_CardinalityType DEF NServers

LEMMA Smaller ==
    ASSUME NEW B \in SUBSET Server, NEW A \in SUBSET B
    PROVE  /\ Cardinality(A) \in Nat /\ Cardinality(B) \in Nat
           /\ Cardinality(A) <= Cardinality(B)
  BY Servers, FS_Subset, FS_CardinalityType

-----------------------------------------------------------------------------
(* Tallies.                                                                 *)
LEMMA TallyFacts ==
    ASSUME NEW T, NEW v
    PROVE  /\ Cardinality(Tallied(T)) \in Nat /\ Cardinality(Tallied(T)) <= NServers
           /\ TallyOf(T, v) \in Nat /\ TallyOf(T, v) <= NServers
           /\ v # None => TallyOf(T, v) <= Cardinality(Tallied(T))
<1>1. Tallied(T) \in SUBSET Server /\ {q \in Server : T[q] = v} \in SUBSET Server
  BY DEF Tallied
<1>2. v # None => {q \in Server : T[q] = v} \in SUBSET Tallied(T)
  BY DEF Tallied
<1> QED
  BY <1>1, <1>2, Servers, Smaller DEF TallyOf

(* Two objects cannot both have a majority in a tally.                       *)
LEMMA OneMajority ==
    ASSUME NEW T, NEW m, NEW n, TallyOf(T, m) >= Majority, TallyOf(T, n) >= Majority
    PROVE  m = n
<1> DEFINE A == {q \in Server : T[q] = m}
           B == {q \in Server : T[q] = n}
<1>1. SUFFICES ASSUME m # n PROVE FALSE
  OBVIOUS
<1>2. A \in SUBSET Server /\ B \in SUBSET Server /\ A \cup B \in SUBSET Server
  OBVIOUS
<1>3. A \cap B = {}
  BY <1>1
<1>4. Cardinality(A) >= Majority /\ Cardinality(B) >= Majority
  BY DEF TallyOf
<1> HIDE DEF A, B
<1>5. Cardinality(A \cap B) = 0
  BY <1>3, FS_EmptySet
<1>6. /\ Cardinality(A \cup B) = Cardinality(A) + Cardinality(B) - Cardinality(A \cap B)
      /\ Cardinality(A) \in Nat /\ Cardinality(B) \in Nat
  BY <1>2, Servers, FS_Union
<1>7. Cardinality(A \cup B) <= NServers /\ Cardinality(A \cup B) \in Nat
  BY <1>2, Servers
<1> QED
  BY <1>4, <1>5, <1>6, <1>7, Sizes

(* A tally that holds one value for every server.                            *)
LEMMA Uniform ==
    ASSUME NEW v, NEW T, T = [q \in Server |-> v]
    PROVE  /\ v # None => HasEnoughMsg(T) /\ Tallied(T) = Server
           /\ \A n : TallyOf(T, n) = IF n = v THEN NServers ELSE 0
<1>1. v # None => Tallied(T) = Server
  BY DEF Tallied
<1>2. v # None => HasEnoughMsg(T)
  BY <1>1, Sizes DEF HasEnoughMsg, NServers
<1>3. ASSUME NEW n
      PROVE  TallyOf(T, n) = IF n = v THEN NServers ELSE 0
  <2>1. CASE n = v
    <3>1. {q \in Server : T[q] = n} = Server
      BY <2>1
    <3> QED
      BY <2>1, <3>1 DEF TallyOf, NServers
  <2>2. CASE n # v
    <3>1. {q \in Server : T[q] = n} = {}
      BY <2>2
    <3> QED
      BY <2>2, <3>1, FS_EmptySet DEF TallyOf
  <2> QED
    BY <2>1, <2>2
<1> QED
  BY <1>1, <1>2, <1>3

LEMMA ConsumedComplete == HasEnoughMsg(Consumed)
  BY Uniform, Values DEF Consumed, Unknown

(* What stays readable of a tally of proposals is what it said when complete *)
LEMMA SummaryKeeps ==
    ASSUME NEW s, NEW T, T = Summary(s)
    PROVE  /\ HasEnoughMsg(recvProposal[s]) =>
                /\ HasEnoughMsg(T)
                /\ {m \in Proposal : TallyOf(T, m) >= Majority} = MajProposals(s, Majority)
           /\ {m \in Proposal : TallyOf(T, m) >= Majority} \subseteq MajProposals(s, Majority)
<1>1. CASE ~HasEnoughMsg(recvProposal[s])
  <2>1. T = [q \in Server |-> None]
    BY <1>1 DEF Summary, NoTally
  <2>2. \A m \in Proposal : TallyOf(T, m) = 0
    BY <2>1, Uniform, Values
  <2> QED
    BY <1>1, <2>2, Sizes
<1>2. CASE HasEnoughMsg(recvProposal[s]) /\ MajProposals(s, Majority) = {}
  <2>1. T = [q \in Server |-> Null]
    BY <1>2 DEF Summary
  <2>2. HasEnoughMsg(T) /\ \A m \in Proposal : TallyOf(T, m) = 0
    BY <2>1, Uniform, Values
  <2> QED
    BY <1>2, <2>2, Sizes
<1>3. CASE HasEnoughMsg(recvProposal[s]) /\ MajProposals(s, Majority) # {}
  <2> DEFINE n == CHOOSE m \in MajProposals(s, Majority) : TRUE
  <2>1. T = [q \in Server |-> n] /\ n \in MajProposals(s, Majority)
    BY <1>3 DEF Summary
  <2> HIDE DEF n
  <2>2. n \in Proposal /\ TallyOf(recvProposal[s], n) >= Majority
    BY <2>1 DEF MajProposals
  <2>3. HasEnoughMsg(T) /\ \A m : TallyOf(T, m) = IF m = n THEN NServers ELSE 0
    BY <2>1, <2>2, Uniform, Values
  <2>4. \A m \in MajProposals(s, Majority) : m = n
    BY <2>2, OneMajority DEF MajProposals
  <2>5. {m \in Proposal : TallyOf(T, m) >= Majority} = {n}
    BY <2>2, <2>3, Sizes
  <2> QED
    BY <2>1, <2>3, <2>4, <2>5
<1> QED
  BY <1>1, <1>2, <1>3

-----------------------------------------------------------------------------
(* The engine takes the steps of the algorithm.                             *)

(* A server has broadcast exactly up to its phase and round.                 *)
LEMMA Broadcasts ==
    ASSUME Weak!IndInv, NEW s \in Server
    PROVE  /\ pc[s] = "idle" <=> proposal[s] = None
           /\ pc[s] = "idle" => round[s] = 0 /\ phase[s] = 0
           /\ pc[s] # "done" => decision[s] = None
           /\ state[s][0] = None
           /\ round[s] <= 1 => vote[s][phase[s]] = None
           /\ \A p \in Phase : p > phase[s] => state[s][p] = None /\ vote[s][p] = None
<1>1. Weak!Progress
  BY DEF Weak!IndInv
<1> QED
  BY <1>1, SameConstants DEF Weak!Progress, AlgorithmPc

LEMMA PcStep ==
    ASSUME TypeOK, NEW s \in Server, NEW v, pc' = [pc EXCEPT ![s] = v]
    PROVE  AlgorithmPc' = [AlgorithmPc EXCEPT ![s] = IF v = "request" THEN "wait" ELSE v]
  BY DEF TypeOK, AlgorithmPc

LEMMA PcStays ==
    ASSUME UNCHANGED pc
    PROVE  UNCHANGED AlgorithmPc
  BY DEF AlgorithmPc

(* A complete tally is a sample of the algorithm.                            *)
LEMMA SampleTaken ==
    ASSUME NEW T, NEW cast, SampleOf(T, cast), HasEnoughMsg(T)
    PROVE  /\ Tallied(T) \in SUBSET Server /\ Cardinality(Tallied(T)) = NMinusF
           /\ \A h \in Tallied(T) : cast[h] # None
           /\ \A v : v # None =>
                 Cardinality({h \in Tallied(T) : cast[h] = v}) = TallyOf(T, v)
<1>0. Cardinality(Tallied(T)) \in Nat
  BY Servers DEF Tallied
<1>1. Cardinality(Tallied(T)) = NMinusF
  BY <1>0, Sizes DEF SampleOf, HasEnoughMsg
<1>2. ASSUME NEW v, v # None
      PROVE  {h \in Tallied(T) : cast[h] = v} = {q \in Server : T[q] = v}
  BY <1>2 DEF SampleOf, Tallied
<1> QED
  BY <1>1, <1>2 DEF SampleOf, Tallied, TallyOf

LEMMA ConcludeIsDecide ==
    ASSUME TypeOK, NEW s \in Server, NEW d, Conclude(s, d)
    PROVE  /\ Weak!Decide(s, d) /\ round' = [round EXCEPT ![s] = round[s] + 1]
           /\ UNCHANGED <<phase, proposal, state, vote>>
<1>1. AlgorithmPc' = [AlgorithmPc EXCEPT ![s] = "done"]
  BY PcStep DEF Conclude
<1> QED
  BY <1>1 DEF Conclude, Weak!Decide

LEMMA CastVoteIsCastVote ==
    ASSUME TypeOK, NEW s \in Server, NEW v, CastVote(s, v)
    PROVE  Weak!CastVote(s, v)
  BY PcStays DEF CastVote, Weak!CastVote

LEMMA CastStateIsCastState ==
    ASSUME TypeOK, NEW s \in Server, NEW v, CastState(s, v)
    PROVE  Weak!CastState(s, v)
<1>1. CASE phase[s] + 1 \in Phase
  BY <1>1, PcStays, SameConstants DEF CastState, Weak!CastState
<1>2. CASE phase[s] + 1 \notin Phase
  <2>1. AlgorithmPc' = [AlgorithmPc EXCEPT ![s] = "panic"]
    BY <1>2, PcStep DEF CastState
  <2> QED
    BY <1>2, <2>1, SameConstants DEF CastState, Weak!CastState
<1> QED
  BY <1>1, <1>2

LEMMA RequestIsStutter ==
    ASSUME TypeOK, NEW s \in Server, pc[s] = "wait", RequestProposal(s)
    PROVE  UNCHANGED Weak!vars
<1>1. AlgorithmPc' = [AlgorithmPc EXCEPT ![s] = "wait"]
  BY PcStep DEF RequestProposal
<1>2. AlgorithmPc' = AlgorithmPc
  BY <1>1 DEF AlgorithmPc
<1> QED
  BY <1>2 DEF RequestProposal, Weak!vars

LEMMA BackedIsReturned ==
    ASSUME NEW m \in Proposal, Backed(m)
    PROVE  m \in Weak!ReturnValue(1)
  BY SameCardinality, SameConstants DEF Backed, Weak!ReturnValue, Weak!Backers

(* What findReturnValue does with a binary decision.                         *)
LEMMA ReturnSimulated ==
    ASSUME EngineInv, NEW s \in Server, pc[s] = "wait", NEW b \in Bit, FindReturnValue(s, b)
    PROVE  \/ UNCHANGED Weak!vars
           \/ \E d \in Weak!ReturnValue(b) :
                 /\ Weak!Decide(s, d) /\ round' = [round EXCEPT ![s] = round[s] + 1]
                 /\ UNCHANGED <<phase, proposal, state, vote>>
<1>0. TypeOK
  BY DEF EngineInv
<1>1. CASE b = 0 /\ Conclude(s, Null)
  BY <1>0, <1>1, ConcludeIsDecide DEF Weak!ReturnValue
<1>2. CASE b = 1 /\ \E m \in MajProposals(s, Majority) : Conclude(s, m)
  <2>1. PICK m \in MajProposals(s, Majority) : Conclude(s, m)
    BY <1>2
  <2>2. m \in Proposal /\ Backed(m)
    BY DEF MajProposals, EngineInv, TalliesSound, TallySound
  <2> QED
    BY <1>0, <1>2, <2>1, <2>2, ConcludeIsDecide, BackedIsReturned
<1>3. CASE RequestProposal(s)
  BY <1>0, <1>3, RequestIsStutter
<1> QED
  BY <1>1, <1>2, <1>3 DEF FindReturnValue

(* The executor goes on when the tally it waited for is complete, and that   *)
(* tally has not been read before.                                           *)
LEMMA TallyReady ==
    ASSUME EngineInv, NEW s \in Server, Proceed(s)
    PROVE  /\ pc[s] = "wait" /\ round[s] \in {1, 2} /\ phase[s] \in Phase
           /\ phase[s] = 0 /\ round[s] = 1 =>
                 HasEnoughMsg(recvProposal[s]) /\ SampleOf(recvProposal[s], proposal)
           /\ phase[s] > 0 /\ round[s] = 1 =>
                 /\ HasEnoughMsg(recvState[s][phase[s]])
                 /\ SampleOf(recvState[s][phase[s]], StatesOf(phase[s]))
           /\ round[s] = 2 =>
                 /\ HasEnoughMsg(recvVote[s][phase[s]])
                 /\ SampleOf(recvVote[s][phase[s]], VotesOf(phase[s]))
<1> DEFINE n == Head(queue[s])
<1>1. /\ pc[s] = "wait" /\ round[s] \in {1, 2} /\ phase[s] \in Phase /\ phase[s] >= 0
      /\ queue[s] \in Seq(Notice) /\ queue[s] # << >>
  BY DEF Proceed, TakeNotice, EngineInv, TypeOK, Rounds, Phase
<1>2. n.type = Awaited(s) /\ n.phase = phase[s]
  BY DEF Proceed
<1>3. Sound(s, n)
  <2>1. n = queue[s][1] /\ 1 \in DOMAIN queue[s]
    BY <1>1
  <2> QED
    BY <2>1 DEF EngineInv, NoticesSound
<1>4. TalliesSound
  BY DEF EngineInv
<1> HIDE DEF n
<1>5. CASE phase[s] = 0 /\ round[s] = 1
  BY <1>1, <1>2, <1>3, <1>4, <1>5 DEF Awaited, Sound, TalliesSound, TallySound, OpenProposals
<1>6. CASE phase[s] > 0 /\ round[s] = 1
  BY <1>1, <1>2, <1>3, <1>4, <1>6 DEF Awaited, Sound, TalliesSound, TallySound, OpenStates
<1>7. CASE round[s] = 2
  <2>1. phase[s] \in Int
    BY <1>1 DEF Phase
  <2>2. OpenVotes(s, phase[s])
    BY <1>1, <2>1 DEF OpenVotes
  <2> QED
    BY <1>1, <1>2, <1>3, <1>4, <1>7, <2>2 DEF Awaited, Sound, TalliesSound, TallySound
<1> QED
  BY <1>1, <1>5, <1>6, <1>7

LEMMA Phase0Round1Simulated ==
    ASSUME EngineInv, NEW s \in Server, Phase0Round1(s)
    PROVE  Weak!Phase0Round1(s)
<1> DEFINE H == Tallied(recvProposal[s])
<1>1. /\ pc[s] = "wait" /\ phase[s] = 0 /\ round[s] = 1 /\ TypeOK
      /\ HasEnoughMsg(recvProposal[s]) /\ SampleOf(recvProposal[s], proposal)
  BY TallyReady DEF Phase0Round1, EngineInv
<1>2. /\ H \in SUBSET Server /\ Cardinality(H) = NMinusF
      /\ \A h \in H : proposal[h] # None
      /\ \A v : v # None => Cardinality({h \in H : proposal[h] = v}) = TallyOf(recvProposal[s], v)
  BY <1>1, SampleTaken
<1> HIDE DEF H
<1>3. H \in Weak!Samples(Weak!Proposers)
  BY <1>2, SameCardinality, SameConstants DEF Weak!Samples, Weak!Proposers
<1>4. ASSUME NEW m \in Proposal
      PROVE  Weak!Cardinality(H \cap Weak!Backers(m)) = TallyOf(recvProposal[s], m)
  <2>1. H \cap Weak!Backers(m) = {h \in H : proposal[h] = m}
    BY <1>2 DEF Weak!Backers
  <2> QED
    BY <1>2, <2>1, Values, SameCardinality
<1>5. \A m \in Proposal : TallyOf(recvProposal[s], m) \in Nat
  BY TallyFacts
<1>6. AlgorithmPc[s] = "wait"
  BY <1>1 DEF AlgorithmPc
<1>7. CASE \E m \in MajProposals(s, MajorityPlusF) : Conclude(s, m)
  <2>1. PICK m \in MajProposals(s, MajorityPlusF) : Conclude(s, m)
    BY <1>7
  <2>2. m \in Proposal /\ Weak!Cardinality(H \cap Weak!Backers(m)) >= Weak!MajorityPlusF
    BY <1>4, SameConstants DEF MajProposals
  <2>3. /\ Weak!Decide(s, m) /\ round' = [round EXCEPT ![s] = 2]
        /\ UNCHANGED <<phase, proposal, state, vote>>
    BY <1>1, <2>1, ConcludeIsDecide
  <2> QED
    BY <1>1, <1>3, <1>6, <2>2, <2>3 DEF Weak!Phase0Round1
<1>8. CASE /\ MajProposals(s, MajorityPlusF) = {} /\ MajProposals(s, Majority) # {}
           /\ CastVote(s, 1)
  <2>1. /\ \E m \in Proposal : Weak!Cardinality(H \cap Weak!Backers(m)) >= Weak!Majority
        /\ \A m \in Proposal : Weak!Cardinality(H \cap Weak!Backers(m)) < Weak!MajorityPlusF
    BY <1>4, <1>5, <1>8, SameConstants, Sizes DEF MajProposals
  <2>2. Weak!CastVote(s, 1)
    BY <1>1, <1>8, CastVoteIsCastVote
  <2> QED
    BY <1>1, <1>3, <1>6, <2>1, <2>2 DEF Weak!Phase0Round1
<1>9. CASE MajProposals(s, Majority) = {} /\ CastVote(s, Unknown)
  <2>1. \A m \in Proposal : Weak!Cardinality(H \cap Weak!Backers(m)) < Weak!Majority
    BY <1>4, <1>5, <1>9, SameConstants, Sizes DEF MajProposals
  <2>2. Weak!CastVote(s, Weak!Unknown)
    BY <1>1, <1>9, CastVoteIsCastVote, SameConstants
  <2> QED
    BY <1>1, <1>3, <1>6, <2>1, <2>2 DEF Weak!Phase0Round1
<1> QED
  BY <1>7, <1>8, <1>9 DEF Phase0Round1

(* The majority bit of a tally, and the two bits' counts.                    *)
LEMMA BitTallies ==
    ASSUME NEW T
    PROVE  /\ TallyOf(T, 0) \in Nat /\ TallyOf(T, 1) \in Nat /\ MajT(T) \in Nat
           /\ MajV(T) \in Bit /\ MajT(T) = TallyOf(T, MajV(T))
           /\ MajV(T) = IF TallyOf(T, 0) > TallyOf(T, 1) THEN 0 ELSE 1
           /\ \A v \in Bit : TallyOf(T, v) <= MajT(T)
<1>1. TallyOf(T, 0) \in Nat /\ TallyOf(T, 1) \in Nat
  BY TallyFacts
<1> QED
  BY <1>1 DEF MajT, MajV, Bit

LEMMA PhaseNRound1Simulated ==
    ASSUME EngineInv, NEW s \in Server, PhaseNRound1(s)
    PROVE  Weak!PhaseNRound1(s) \/ UNCHANGED Weak!vars
<1> DEFINE T == recvState[s][phase[s]]
           H == Tallied(T)
           Count(v) == Weak!Cardinality(Weak!StatedIn(H, phase[s], v))
<1>1. /\ pc[s] = "wait" /\ phase[s] > 0 /\ round[s] = 1 /\ TypeOK /\ phase[s] \in Phase
      /\ HasEnoughMsg(T) /\ SampleOf(T, StatesOf(phase[s]))
  BY TallyReady DEF PhaseNRound1, EngineInv
<1>2. /\ H \in SUBSET Server /\ Cardinality(H) = NMinusF
      /\ \A h \in H : StatesOf(phase[s])[h] # None
      /\ \A v : v # None => Cardinality({h \in H : StatesOf(phase[s])[h] = v}) = TallyOf(T, v)
  BY <1>1, SampleTaken
<1>3. /\ TallyOf(T, 0) \in Nat /\ TallyOf(T, 1) \in Nat /\ MajT(T) \in Nat
      /\ MajV(T) \in Bit /\ MajT(T) = TallyOf(T, MajV(T))
      /\ \A v \in Bit : TallyOf(T, v) <= MajT(T)
  BY BitTallies
<1> HIDE DEF H
<1>4. H \in Weak!Samples(Weak!StateCasters(phase[s]))
  BY <1>2, SameCardinality, SameConstants
     DEF Weak!Samples, Weak!StateCasters, StatesOf
<1>5. ASSUME NEW v \in Bit
      PROVE  Count(v) = TallyOf(T, v)
  <2>1. Weak!StatedIn(H, phase[s], v) = {h \in H : StatesOf(phase[s])[h] = v}
    BY <1>2 DEF Weak!StatedIn, StatesOf
  <2> QED
    BY <1>2, <2>1, Values, SameCardinality
<1>6. AlgorithmPc[s] = "wait"
  BY <1>1 DEF AlgorithmPc
<1>7. CASE MajT(T) >= MajorityPlusF /\ FindReturnValue(s, MajV(T))
  <2>1. CASE UNCHANGED Weak!vars
    BY <2>1
  <2>2. CASE \E d \in Weak!ReturnValue(MajV(T)) :
                 /\ Weak!Decide(s, d) /\ round' = [round EXCEPT ![s] = round[s] + 1]
                 /\ UNCHANGED <<phase, proposal, state, vote>>
    <3>1. PICK d \in Weak!ReturnValue(MajV(T)) :
                 /\ Weak!Decide(s, d) /\ round' = [round EXCEPT ![s] = 2]
                 /\ UNCHANGED <<phase, proposal, state, vote>>
      BY <1>1, <2>2
    <3>2. MajV(T) \in Weak!Bit /\ Count(MajV(T)) >= Weak!MajorityPlusF
      BY <1>3, <1>5, <1>7, SameConstants
    <3> QED
      BY <1>1, <1>4, <1>6, <3>1, <3>2 DEF Weak!PhaseNRound1
  <2> QED
    BY <1>1, <1>3, <1>7, <2>1, <2>2, ReturnSimulated
<1>8. CASE MajT(T) \in Majority .. MajorityPlusF - 1 /\ CastVote(s, MajV(T))
  <2>1. /\ MajV(T) \in Weak!Bit /\ Count(MajV(T)) >= Weak!Majority
        /\ Count(MajV(T)) < Weak!MajorityPlusF
    BY <1>3, <1>5, <1>8, SameConstants, Sizes
  <2>2. Weak!CastVote(s, MajV(T))
    BY <1>1, <1>8, CastVoteIsCastVote
  <2> QED
    BY <1>1, <1>4, <1>6, <2>1, <2>2 DEF Weak!PhaseNRound1
<1>9. CASE MajT(T) < Majority /\ CastVote(s, Unknown)
  <2>1. \A v \in Weak!Bit : Count(v) < Weak!Majority
    <3> SUFFICES ASSUME NEW v \in Bit PROVE Count(v) < Majority
      BY SameConstants
    <3>1. TallyOf(T, v) \in Nat /\ TallyOf(T, v) <= MajT(T)
      BY <1>3 DEF Bit
    <3> QED
      BY <1>3, <1>5, <1>9, <3>1, Sizes
  <2>2. Weak!CastVote(s, Weak!Unknown)
    BY <1>1, <1>9, CastVoteIsCastVote, SameConstants
  <2> QED
    BY <1>1, <1>4, <1>6, <2>1, <2>2 DEF Weak!PhaseNRound1
<1> QED
  BY <1>7, <1>8, <1>9 DEF PhaseNRound1

LEMMA Round2Simulated ==
    ASSUME EngineInv, NEW s \in Server, NEW c, Round2(s, c)
    PROVE  Weak!Round2(s, c) \/ UNCHANGED Weak!vars
<1> DEFINE T == recvVote[s][phase[s]]
           H == Tallied(T)
           Count(v) == Weak!Cardinality(Weak!VotedIn(H, phase[s], v))
           Maj == IF Count(0) > Count(1) THEN 0 ELSE 1
<1>1. /\ pc[s] = "wait" /\ round[s] = 2 /\ TypeOK /\ phase[s] \in Phase
      /\ HasEnoughMsg(T) /\ SampleOf(T, VotesOf(phase[s]))
  BY TallyReady DEF Round2, EngineInv
<1>2. /\ H \in SUBSET Server /\ Cardinality(H) = NMinusF
      /\ \A h \in H : VotesOf(phase[s])[h] # None
      /\ \A v : v # None => Cardinality({h \in H : VotesOf(phase[s])[h] = v}) = TallyOf(T, v)
  BY <1>1, SampleTaken
<1>3. /\ TallyOf(T, 0) \in Nat /\ TallyOf(T, 1) \in Nat /\ MajT(T) \in Nat
      /\ MajV(T) \in Bit /\ MajT(T) = TallyOf(T, MajV(T))
      /\ MajV(T) = IF TallyOf(T, 0) > TallyOf(T, 1) THEN 0 ELSE 1
  BY BitTallies
<1> HIDE DEF H
<1>4. H \in Weak!Samples(Weak!VoteCasters(phase[s]))
  BY <1>2, SameCardinality, SameConstants
     DEF Weak!Samples, Weak!VoteCasters, VotesOf
<1>5. ASSUME NEW v \in Bit
      PROVE  Count(v) = TallyOf(T, v)
  <2>1. Weak!VotedIn(H, phase[s], v) = {h \in H : VotesOf(phase[s])[h] = v}
    BY <1>2 DEF Weak!VotedIn, VotesOf
  <2> QED
    BY <1>2, <2>1, Values, SameCardinality
<1>6. AlgorithmPc[s] = "wait"
  BY <1>1 DEF AlgorithmPc
<1>7. Maj = MajV(T) /\ Count(Maj) = MajT(T)
  <2>1. Count(0) = TallyOf(T, 0) /\ Count(1) = TallyOf(T, 1)
    BY <1>5 DEF Bit
  <2> QED
    BY <1>3, <2>1
<1> SUFFICES ASSUME ~UNCHANGED Weak!vars
             PROVE  Weak!Round2(s, c)
  OBVIOUS
<1>8. CASE MajT(T) >= FaultyPlusOne /\ FindReturnValue(s, MajV(T))
  <2>1. PICK d \in Weak!ReturnValue(MajV(T)) :
               /\ Weak!Decide(s, d) /\ round' = [round EXCEPT ![s] = round[s] + 1]
               /\ UNCHANGED <<phase, proposal, state, vote>>
    BY <1>1, <1>3, <1>8, ReturnSimulated
  <2>2. /\ d \in Weak!ReturnValue(Maj) /\ Count(Maj) >= Weak!FaultyPlusOne
        /\ Weak!Decide(s, d) /\ round' = [round EXCEPT ![s] = 3]
        /\ UNCHANGED <<phase, proposal, state, vote>>
    BY <1>1, <1>7, <1>8, <2>1, SameConstants
  <2> QED
    BY <1>1, <1>4, <1>6, <2>2 DEF Weak!Round2
<1>9. CASE MajT(T) \in 1 .. NFaulty /\ CastState(s, MajV(T))
  <2>1. Count(Maj) \in 1 .. NFaulty /\ Weak!CastState(s, Maj)
    BY <1>1, <1>7, <1>9, CastStateIsCastState
  <2> QED
    BY <1>1, <1>4, <1>6, <2>1 DEF Weak!Round2
<1>10. CASE MajT(T) = 0 /\ CastState(s, c)
  <2>1. Count(Maj) = 0 /\ Weak!CastState(s, c)
    BY <1>1, <1>7, <1>10, CastStateIsCastState
  <2> QED
    BY <1>1, <1>4, <1>6, <2>1 DEF Weak!Round2
<1> QED
  BY <1>8, <1>9, <1>10 DEF Round2

LEMMA ReceiveReplySimulated ==
    ASSUME EngineInv, NEW s \in Server, NEW r \in replies[s], ReceiveReply(s, r)
    PROVE  Weak!PhaseNRound1(s) \/ Weak!Phase0Round2(s) \/ Weak!PhaseNRound2(s)
<1>1. /\ pc[s] = "request" /\ TypeOK /\ phase[s] \in Phase /\ TalliesSound
      /\ r.value \in Proposal /\ Backed(r.value)
  BY DEF ReceiveReply, EngineInv, TypeOK, RequestsSound, RequestSound
<1>2. /\ Weak!Decide(s, r.value) /\ round' = [round EXCEPT ![s] = round[s] + 1]
      /\ UNCHANGED <<phase, proposal, state, vote>>
  BY <1>1, ConcludeIsDecide DEF ReceiveReply
<1>3. r.value \in Weak!ReturnValue(1)
  BY <1>1, BackedIsReturned
<1>4. AlgorithmPc[s] = "wait" /\ phase[s] \in Nat /\ phase[s] >= phase[s]
  BY <1>1 DEF AlgorithmPc, Phase
<1>5. CASE round[s] = 1 /\ phase[s] > 0 /\ DecidesOne(recvState[s][phase[s]], MajorityPlusF)
  <2> DEFINE T == recvState[s][phase[s]]
             H == Tallied(T)
  <2>1. /\ HasEnoughMsg(T) /\ SampleOf(T, StatesOf(phase[s]))
        /\ TallyOf(T, 1) >= MajorityPlusF
    BY <1>1, <1>4, <1>5 DEF DecidesOne, TalliesSound, TallySound, OpenStates, MajT
  <2>2. /\ H \in SUBSET Server /\ Cardinality(H) = NMinusF
        /\ \A h \in H : StatesOf(phase[s])[h] # None
        /\ Cardinality({h \in H : StatesOf(phase[s])[h] = 1}) = TallyOf(T, 1)
    BY <2>1, SampleTaken, Values
  <2> HIDE DEF H
  <2>3. H \in Weak!Samples(Weak!StateCasters(phase[s]))
    BY <2>2, SameCardinality, SameConstants
       DEF Weak!Samples, Weak!StateCasters, StatesOf
  <2>4. Weak!StatedIn(H, phase[s], 1) = {h \in H : StatesOf(phase[s])[h] = 1}
    BY <2>2 DEF Weak!StatedIn, StatesOf
  <2>5. /\ 1 \in Weak!Bit
        /\ Weak!Cardinality(Weak!StatedIn(H, phase[s], 1)) >= Weak!MajorityPlusF
    BY <2>1, <2>2, <2>4, SameCardinality, SameConstants DEF Bit
  <2>6. round' = [round EXCEPT ![s] = 2]
    BY <1>2, <1>5
  <2> QED
    BY <1>2, <1>3, <1>4, <1>5, <2>3, <2>5, <2>6 DEF Weak!PhaseNRound1
<1>6. CASE round[s] = 2 /\ DecidesOne(recvVote[s][phase[s]], FaultyPlusOne)
  <2> DEFINE T == recvVote[s][phase[s]]
             H == Tallied(T)
             Count(v) == Weak!Cardinality(Weak!VotedIn(H, phase[s], v))
             Maj == IF Count(0) > Count(1) THEN 0 ELSE 1
  <2>1. /\ HasEnoughMsg(T) /\ SampleOf(T, VotesOf(phase[s]))
        /\ ~(TallyOf(T, 0) > TallyOf(T, 1)) /\ TallyOf(T, 1) >= FaultyPlusOne
    BY <1>1, <1>4, <1>6 DEF DecidesOne, TalliesSound, TallySound, OpenVotes, MajT, MajV
  <2>2. /\ H \in SUBSET Server /\ Cardinality(H) = NMinusF
        /\ \A h \in H : VotesOf(phase[s])[h] # None
        /\ \A v : v # None => Cardinality({h \in H : VotesOf(phase[s])[h] = v}) = TallyOf(T, v)
    BY <2>1, SampleTaken
  <2> HIDE DEF H
  <2>3. H \in Weak!Samples(Weak!VoteCasters(phase[s]))
    BY <2>2, SameCardinality, SameConstants
       DEF Weak!Samples, Weak!VoteCasters, VotesOf
  <2>4. ASSUME NEW v \in Bit
        PROVE  Count(v) = TallyOf(T, v)
    <3>1. Weak!VotedIn(H, phase[s], v) = {h \in H : VotesOf(phase[s])[h] = v}
      BY <2>2 DEF Weak!VotedIn, VotesOf
    <3> QED
      BY <2>2, <3>1, Values, SameCardinality
  <2>5. Count(0) = TallyOf(T, 0) /\ Count(1) = TallyOf(T, 1)
    BY <2>4 DEF Bit
  <2>6. Maj = 1 /\ Count(Maj) >= Weak!FaultyPlusOne /\ round' = [round EXCEPT ![s] = 3]
    BY <1>2, <1>6, <2>1, <2>5, SameConstants
  <2>7. ASSUME NEW c
        PROVE  Weak!Round2(s, c)
    BY <1>2, <1>3, <1>4, <1>6, <2>3, <2>6 DEF Weak!Round2
  <2> QED
    BY <1>4, <2>7 DEF Weak!Phase0Round2, Weak!PhaseNRound2
<1> QED
  BY <1>1, <1>5, <1>6 DEF EngineInv, RequestsSound, RequestSound

LEMMA LearnDecisionSimulated ==
    ASSUME EngineInv, NEW s \in Server, LearnDecision(s)
    PROVE  Weak!LearnDecision(s)
<1> DEFINE n == Head(queue[s])
<1>1. /\ pc[s] = "wait" /\ TypeOK /\ queue[s] \in Seq(Notice) /\ queue[s] # << >>
      /\ n.type = "Decision" /\ decision' = [decision EXCEPT ![s] = n.value]
      /\ pc' = [pc EXCEPT ![s] = "done"]
      /\ UNCHANGED <<phase, round, proposal, state, vote>>
  BY DEF LearnDecision, TakeNotice, EngineInv, TypeOK
<1>2. n = queue[s][1] /\ 1 \in DOMAIN queue[s] /\ n \in Notice
  BY <1>1
<1>3. PICK q \in Server : decision[q] = n.value
  BY <1>1, <1>2 DEF EngineInv, NoticesSound, Sound
<1>4. n.value \in Object
  BY <1>1, <1>2 DEF Notice
<1>5. /\ AlgorithmPc' = [AlgorithmPc EXCEPT ![s] = "done"] /\ AlgorithmPc[s] = "wait"
      /\ decision[q] # None
  BY <1>1, <1>3, <1>4, PcStep, Values DEF AlgorithmPc
<1> QED
  BY <1>1, <1>3, <1>5 DEF Weak!LearnDecision, Weak!Decide

LEMMA StartSimulated ==
    ASSUME EngineInv, NEW s \in Server, NEW m \in Proposal, Start(s, m)
    PROVE  Weak!Propose(s, m)
<1>1. AlgorithmPc' = [AlgorithmPc EXCEPT ![s] = "wait"] /\ AlgorithmPc[s] = "idle"
  BY PcStep DEF Start, EngineInv, AlgorithmPc
<1> QED
  BY <1>1 DEF Start, Weak!Propose

(* The steps that the algorithm does not see.                                *)
LEMMA OthersStutter ==
    ASSUME NEW s \in Server,
           \/ DiscardNotice(s) \/ Unblock(s) \/ MarkDecision(s) \/ Crash(s)
           \/ \E q \in Server : MsgHandler(s, q)
    PROVE  UNCHANGED executorVars
  BY DEF DiscardNotice, Unblock, MarkDecision, Crash, MsgHandler

LEMMA ExecutorVarsStutter ==
    ASSUME UNCHANGED executorVars
    PROVE  UNCHANGED Weak!vars
  BY PcStays DEF executorVars, Weak!vars

(* Every step of the engine is a step of the algorithm or leaves it alone.   *)
LEMMA NextSimulated == EngineInv /\ [Next]_vars => [Weak!Next]_(Weak!vars)
<1> SUFFICES ASSUME EngineInv, [Next]_vars PROVE Weak!Next \/ UNCHANGED Weak!vars
  OBVIOUS
<1>1. CASE UNCHANGED vars
  BY <1>1, ExecutorVarsStutter DEF vars
<1>2. CASE Next
  <2>1. PICK s \in Server :
          \/ \E m \in Proposal : Start(s, m)
          \/ Executor(s)
          \/ \E r \in replies[s] : ReceiveReply(s, r)
          \/ \E q \in Server : MsgHandler(s, q)
          \/ Unblock(s)
          \/ MarkDecision(s)
          \/ Crash(s)
    BY <1>2 DEF Next
  <2>2. CASE \E m \in Proposal : Start(s, m)
    BY <2>2, StartSimulated DEF Weak!Next
  <2>3. CASE Phase0Round1(s)
    BY <2>3, Phase0Round1Simulated DEF Weak!Next
  <2>4. CASE Phase0Round2(s)
    BY <2>4, Round2Simulated DEF Phase0Round2, Weak!Phase0Round2, Weak!Next
  <2>5. CASE PhaseNRound1(s)
    BY <2>5, PhaseNRound1Simulated DEF Weak!Next
  <2>6. CASE PhaseNRound2(s)
    BY <2>6, Round2Simulated DEF PhaseNRound2, Weak!PhaseNRound2, Weak!Next
  <2>7. CASE LearnDecision(s)
    BY <2>7, LearnDecisionSimulated DEF Weak!Next
  <2>8. CASE \E r \in replies[s] : ReceiveReply(s, r)
    BY <2>8, ReceiveReplySimulated DEF Weak!Next
  <2>9. CASE \/ DiscardNotice(s) \/ Unblock(s) \/ MarkDecision(s) \/ Crash(s)
             \/ \E q \in Server : MsgHandler(s, q)
    BY <2>9, OthersStutter, ExecutorVarsStutter
  <2> QED
    BY <2>1, <2>2, <2>3, <2>4, <2>5, <2>6, <2>7, <2>8, <2>9 DEF Executor
<1> QED
  BY <1>1, <1>2

LEMMA AlgorithmInvariant == EngineInv /\ [Next]_vars => Weak!IndInv'
<1>1. EngineInv /\ [Next]_vars => Weak!IndInv /\ [Weak!Next]_(Weak!vars)
  BY NextSimulated DEF EngineInv
<1> QED
  BY <1>1, SameAssumptions, Weak!NextIndInv

-----------------------------------------------------------------------------
(* What a step of the executor changes.                                     *)

(* What the executor takes of what it shares with the handler: in wait(), a  *)
(* notice; one that carries a decision ends the slot.                        *)
Took(s) ==
    /\ UNCHANGED <<handlerVars, crashed>>
    /\ \/ UNCHANGED queue /\ pc[s] # "wait"
       \/ /\ pc[s] = "wait" /\ queue[s] # << >> /\ queue' = [queue EXCEPT ![s] = Tail(@)]
          /\ Head(queue[s]).type = "Decision" => pc'[s] = "done"

Voted(s) ==
    /\ pc[s] = "wait" /\ round[s] = 1
    /\ phase[s] = 0 => HasEnoughMsg(recvProposal[s])
    /\ \E v \in Bit \cup {Unknown} :
          /\ CastVote(s, v)
          /\ phase[s] = 0 /\ v = 1 => MajProposals(s, Majority) # {}
Stated(s) ==
    /\ pc[s] = "wait" /\ round[s] = 2
    /\ HasEnoughMsg(recvVote[s][phase[s]]) /\ MajT(recvVote[s][phase[s]]) <= NFaulty
    /\ \E v \in Bit : CastState(s, v)
Concluded(s) == pc[s] \in {"wait", "request"} /\ \E d \in Object : Conclude(s, d)
Asked(s) ==
    /\ pc[s] = "wait" /\ ~hasRecvDec[s] /\ RequestProposal(s)
    /\ \/ /\ round[s] = 1 /\ phase[s] > 0
          /\ DecidesOne(recvState[s][phase[s]], MajorityPlusF)
       \/ /\ round[s] = 2
          /\ DecidesOne(recvVote[s][phase[s]], FaultyPlusOne)
Learned(s) ==
    /\ pc[s] = "wait" /\ RetireSlot(s)
    /\ \E d \in Object : decision' = [decision EXCEPT ![s] = d]
    /\ pc' = [pc EXCEPT ![s] = "done"]
    /\ UNCHANGED <<phase, round, proposal, state, vote, sent>>

ExecutorStep(s) ==
    /\ Took(s)
    /\ \/ \E m \in Proposal : Start(s, m)
       \/ Voted(s) \/ Stated(s) \/ Concluded(s) \/ Asked(s) \/ Learned(s)
       \/ hasRecvDec[s] /\ UNCHANGED <<executorVars, tallyVars>>

LEMMA ReturnEffect ==
    ASSUME NEW s \in Server, pc[s] = "wait", NEW T, NEW k, MajT(T) >= k, HasEnoughMsg(T),
           FindReturnValue(s, MajV(T))
    PROVE  \/ Concluded(s)
           \/ RequestProposal(s) /\ DecidesOne(T, k)
  BY Values DEF FindReturnValue, Concluded, DecidesOne, MajProposals, Object

LEMMA ExecutorEffect ==
    ASSUME EngineInv, NEW s \in Server,
           \/ \E m \in Proposal : Start(s, m)
           \/ Executor(s)
           \/ \E r \in replies[s] : ReceiveReply(s, r)
    PROVE  ExecutorStep(s)
<1>0. TypeOK
  BY DEF EngineInv
<1>1. CASE \E m \in Proposal : Start(s, m)
  BY <1>1 DEF Start, ExecutorStep, Took
<1>2. CASE DiscardNotice(s)
  BY <1>2 DEF DiscardNotice, TakeNotice, ExecutorStep, Took
<1>3. ASSUME Proceed(s)
      PROVE  Took(s) /\ pc[s] = "wait" /\ ~hasRecvDec[s]
  <2>1. Head(queue[s]).type # "Decision"
    BY <1>3 DEF Proceed, Awaited
  <2> QED
    BY <1>3, <2>1 DEF Proceed, TakeNotice, Took
<1>4. CASE Phase0Round1(s)
  <2>1. Proceed(s) /\ phase[s] = 0 /\ round[s] = 1 /\ HasEnoughMsg(recvProposal[s])
    BY <1>4, TallyReady DEF Phase0Round1
  <2>2. CASE \E m \in MajProposals(s, MajorityPlusF) : Conclude(s, m)
    BY <1>3, <2>1, <2>2 DEF ExecutorStep, Concluded, MajProposals, Object
  <2>3. CASE MajProposals(s, Majority) # {} /\ CastVote(s, 1)
    BY <1>3, <2>1, <2>3 DEF ExecutorStep, Voted, Bit
  <2>4. CASE CastVote(s, Unknown)
    <3>1. Unknown # 1
      BY DEF Unknown
    <3> QED
      BY <1>3, <2>1, <2>4, <3>1 DEF ExecutorStep, Voted
  <2> QED
    BY <1>4, <2>2, <2>3, <2>4 DEF Phase0Round1
<1>5. CASE PhaseNRound1(s)
  <2> DEFINE T == recvState[s][phase[s]]
  <2>1. /\ Proceed(s) /\ phase[s] > 0 /\ round[s] = 1 /\ HasEnoughMsg(T)
        /\ phase[s] # 0 /\ MajV(T) \in Bit
    BY <1>5, TallyReady, BitTallies DEF PhaseNRound1
  <2>2. CASE MajT(T) >= MajorityPlusF /\ FindReturnValue(s, MajV(T))
    BY <1>3, <2>1, <2>2, ReturnEffect DEF ExecutorStep, Asked
  <2>3. CASE CastVote(s, MajV(T)) \/ CastVote(s, Unknown)
    BY <1>3, <2>1, <2>3 DEF ExecutorStep, Voted
  <2> QED
    BY <1>5, <2>2, <2>3 DEF PhaseNRound1
<1>6. ASSUME NEW c \in Bit, Round2(s, c)
      PROVE  ExecutorStep(s)
  <2> DEFINE T == recvVote[s][phase[s]]
  <2>1. Proceed(s) /\ round[s] = 2 /\ HasEnoughMsg(T) /\ MajV(T) \in Bit
    BY <1>6, TallyReady, BitTallies DEF Round2
  <2>2. CASE MajT(T) >= FaultyPlusOne /\ FindReturnValue(s, MajV(T))
    BY <1>3, <2>1, <2>2, ReturnEffect DEF ExecutorStep, Asked
  <2>3. CASE MajT(T) <= NFaulty /\ (CastState(s, MajV(T)) \/ CastState(s, c))
    BY <1>3, <1>6, <2>1, <2>3 DEF ExecutorStep, Stated
  <2>4. \/ MajT(T) >= FaultyPlusOne /\ FindReturnValue(s, MajV(T))
        \/ MajT(T) <= NFaulty /\ (CastState(s, MajV(T)) \/ CastState(s, c))
    BY <1>6, Sizes DEF Round2
  <2> QED
    BY <2>2, <2>3, <2>4
<1>7. CASE Phase0Round2(s) \/ PhaseNRound2(s)
  <2>1. 0 \in Bit /\ (phase[s] > 0 => Coin[phase[s]] \in Bit)
    BY <1>0, CoinAssumption, PhaseAssumption DEF TypeOK, Phase, Bit
  <2> QED
    BY <1>6, <1>7, <2>1 DEF Phase0Round2, PhaseNRound2
<1>8. CASE LearnDecision(s)
  <2>1. /\ queue[s] \in Seq(Notice) /\ queue[s] # << >>
        /\ Head(queue[s]).type = "Decision"
    BY <1>0, <1>8 DEF LearnDecision, TakeNotice, TypeOK
  <2>2. Head(queue[s]) \in Notice
    BY <2>1
  <2>3. Head(queue[s]).value \in Object
    BY <2>1, <2>2 DEF Notice
  <2> QED
    BY <1>0, <1>8, <2>3
       DEF TypeOK, LearnDecision, TakeNotice, ExecutorStep, Took, Learned
<1>9. CASE \E r \in replies[s] : ReceiveReply(s, r)
  <2>1. \A r \in replies[s] : r.value \in Object
    BY <1>0 DEF TypeOK, Object
  <2> QED
    BY <1>9, <2>1 DEF ReceiveReply, ExecutorStep, Took, Concluded
<1> QED
  BY <1>1, <1>2, <1>4, <1>5, <1>7, <1>8, <1>9 DEF Executor

(* Nothing broadcast is changed later.                                       *)
Kept ==
    /\ \A q \in Server : proposal[q] # None => proposal'[q] = proposal[q]
    /\ \A q \in Server : decision[q] # None => decision'[q] = decision[q]
    /\ \A q \in Server : \A p \in Phase :
          /\ state[q][p] # None => state'[q][p] = state[q][p]
          /\ vote[q][p] # None => vote'[q][p] = vote[q][p]

LEMMA ExecutorKeeps ==
    ASSUME EngineInv, NEW s \in Server, ExecutorStep(s)
    PROVE  Kept
<1>0. TypeOK /\ Weak!IndInv
  BY DEF EngineInv
<1>1. /\ pc[s] = "idle" => proposal[s] = None
      /\ pc[s] # "done" => decision[s] = None
      /\ round[s] <= 1 => vote[s][phase[s]] = None
      /\ \A p \in Phase : p > phase[s] => state[s][p] = None
  BY <1>0, Broadcasts
<1>2. /\ proposal \in [Server -> Proposal \cup {None}]
      /\ decision \in [Server -> Object \cup {None}]
      /\ state \in [Server -> [Phase -> Bit \cup {None}]]
      /\ vote \in [Server -> [Phase -> Bit \cup {Unknown, None}]]
      /\ phase[s] \in Phase /\ phase[s] \in Int
  BY <1>0 DEF TypeOK, Phase
<1>3. CASE \E m \in Proposal : Start(s, m)
  BY <1>1, <1>2, <1>3 DEF Start, Kept
<1>4. CASE Voted(s)
  BY <1>1, <1>2, <1>4 DEF Voted, CastVote, Kept
<1>5. CASE Stated(s)
  <2>1. /\ UNCHANGED <<proposal, decision, vote>>
        /\ \/ UNCHANGED state
           \/ /\ phase[s] + 1 \in Phase /\ phase[s] + 1 > phase[s]
              /\ \E v \in Bit : state' = [state EXCEPT ![s][phase[s] + 1] = v]
    <3>1. PICK v \in Bit : CastState(s, v)
      BY <1>5 DEF Stated
    <3>2. phase[s] + 1 > phase[s]
      BY <1>2
    <3> QED
      BY <3>1, <3>2 DEF CastState
  <2> QED
    BY <1>1, <1>2, <2>1 DEF Kept
<1>6. CASE Concluded(s)
  BY <1>1, <1>2, <1>6 DEF Concluded, Conclude, Kept
<1>7. CASE Asked(s)
  BY <1>7 DEF Asked, RequestProposal, Kept
<1>8. CASE Learned(s)
  BY <1>1, <1>2, <1>8 DEF Learned, Kept
<1>9. CASE UNCHANGED <<executorVars, tallyVars>>
  BY <1>9 DEF executorVars, Kept
<1> QED
  BY <1>3, <1>4, <1>5, <1>6, <1>7, <1>8, <1>9 DEF ExecutorStep

LEMMA SummaryType ==
    ASSUME NEW s \in Server
    PROVE  Summary(s) \in [Server -> Object \cup {None}]
<1>1. CASE MajProposals(s, Majority) # {}
  <2> DEFINE n == CHOOSE m \in MajProposals(s, Majority) : TRUE
  <2>1. n \in MajProposals(s, Majority)
    BY <1>1
  <2>2. n \in Object
    BY <2>1 DEF MajProposals, Object
  <2> HIDE DEF n
  <2> QED
    BY <1>1, <2>2, Values DEF Summary, NoTally, n
<1>2. CASE MajProposals(s, Majority) = {}
  BY <1>2, Values DEF Summary, NoTally
<1> QED
  BY <1>1, <1>2

(* A step of the executor keeps the types of what the algorithm does not see *)
EngineTypes ==
    /\ pc \in [Server -> {"idle", "wait", "request", "done", "panic"}]
    /\ recvProposal \in [Server -> [Server -> Object \cup {None}]]
    /\ recvState \in [Server -> [Phase -> [Server -> Bit \cup {Unknown, None}]]]
    /\ recvVote \in [Server -> [Phase -> [Server -> Bit \cup {Unknown, None}]]]
    /\ sent \in [Server -> Seq(Sent)]
    /\ requests \in [Server -> SUBSET Server]
    /\ queue \in [Server -> Seq(Notice)] /\ \A s \in Server : Len(queue[s]) <= QueueCap
    /\ handler \in [Server -> Notice \cup {Free, Mark}]
    /\ hasRecvDec \in [Server -> BOOLEAN]
    /\ replies \in [Server -> SUBSET [from : Server, value : Proposal]]
    /\ crashed \in SUBSET Server

LEMMA TypesSuffice == EngineTypes /\ Weak!IndInv => TypeOK
<1> SUFFICES ASSUME EngineTypes, Weak!IndInv PROVE TypeOK
  OBVIOUS
<1>1. Weak!TypeOK
  BY DEF Weak!IndInv
<1> QED
  BY <1>1, SameConstants DEF Weak!TypeOK, EngineTypes, TypeOK

LEMMA SentTypes ==
    /\ \A m \in Proposal : Message("Proposal", 0, m) \in Sent
    /\ \A p \in Phase : \A v \in Bit : Message("State", p, v) \in Sent
    /\ \A p \in Phase : \A v \in Bit \cup {Unknown} : Message("Vote", p, v) \in Sent
    /\ \A d \in Object : Message("Decision", 0, d) \in Sent
    /\ Message("ProposalRequest", 0, None) \in Sent
  BY DEF Message, Sent

LEMMA BroadcastType ==
    ASSUME TypeOK, NEW s \in Server, NEW m \in Sent, Broadcast(s, m)
    PROVE  sent' \in [Server -> Seq(Sent)]
  BY DEF TypeOK, Broadcast

LEMMA ConsumedType == Consumed \in [Server -> Bit \cup {Unknown, None}]
  BY DEF Consumed

LEMMA RetireTypes ==
    ASSUME TypeOK, NEW s \in Server, RetireRound(s) \/ RetireSlot(s)
    PROVE  /\ recvProposal' \in [Server -> [Server -> Object \cup {None}]]
           /\ recvState' \in [Server -> [Phase -> [Server -> Bit \cup {Unknown, None}]]]
           /\ recvVote' \in [Server -> [Phase -> [Server -> Bit \cup {Unknown, None}]]]
<1> DEFINE U == Summary(s)
           C == Consumed
           R == [Server -> Bit \cup {Unknown, None}]
<1>1. U \in [Server -> Object \cup {None}] /\ C \in R
  BY SummaryType, ConsumedType
<1>2. /\ recvProposal \in [Server -> [Server -> Object \cup {None}]]
      /\ recvState \in [Server -> [Phase -> R]] /\ recvVote \in [Server -> [Phase -> R]]
  BY DEF TypeOK
<1>3. /\ recvProposal' = [recvProposal EXCEPT ![s] = U]
      /\ \/ recvState' = [recvState EXCEPT ![s][phase[s]] = C]
         \/ recvState' = [recvState EXCEPT ![s] = [p \in Phase |-> C]]
      /\ \/ recvVote' = [recvVote EXCEPT ![s][phase[s]] = C]
         \/ recvVote' = [recvVote EXCEPT ![s] = [p \in Phase |-> C]]
         \/ recvVote' = recvVote
  BY DEF RetireRound, RetireSlot
<1> HIDE DEF U, C, R
<1>4. recvProposal' \in [Server -> [Server -> Object \cup {None}]]
  BY <1>1, <1>2, <1>3
<1>5. ASSUME NEW f \in [Server -> [Phase -> R]]
      PROVE  /\ [f EXCEPT ![s][phase[s]] = C] \in [Server -> [Phase -> R]]
             /\ [f EXCEPT ![s] = [p \in Phase |-> C]] \in [Server -> [Phase -> R]]
  <2>1. f[s] \in [Phase -> R]
    OBVIOUS
  <2>2. [f[s] EXCEPT ![phase[s]] = C] \in [Phase -> R] /\ [p \in Phase |-> C] \in [Phase -> R]
    BY <1>1, <2>1
  <2> QED
    BY <2>2
<1>6. recvState' \in [Server -> [Phase -> R]] /\ recvVote' \in [Server -> [Phase -> R]]
  <2>1. /\ [recvState EXCEPT ![s][phase[s]] = C] \in [Server -> [Phase -> R]]
        /\ [recvState EXCEPT ![s] = [p \in Phase |-> C]] \in [Server -> [Phase -> R]]
        /\ [recvVote EXCEPT ![s][phase[s]] = C] \in [Server -> [Phase -> R]]
        /\ [recvVote EXCEPT ![s] = [p \in Phase |-> C]] \in [Server -> [Phase -> R]]
    BY <1>2, <1>5
  <2> QED
    BY <1>2, <1>3, <2>1, Zenon
<1> QED
  BY <1>4, <1>5, <1>6 DEF R

LEMMA ExecutorTypes ==
    ASSUME EngineInv, NEW s \in Server, ExecutorStep(s)
    PROVE  EngineTypes'
<1>0. TypeOK
  BY DEF EngineInv
<1>1. /\ queue' \in [Server -> Seq(Notice)] /\ \A t \in Server : Len(queue'[t]) <= QueueCap
  <2>1. \A t \in Server : queue[t] \in Seq(Notice) /\ Len(queue[t]) <= QueueCap
    BY <1>0 DEF TypeOK
  <2>2. queue[s] # << >> => /\ Tail(queue[s]) \in Seq(Notice)
                            /\ Len(Tail(queue[s])) <= QueueCap
    BY <2>1, QueueAssumption
  <2>3. CASE UNCHANGED queue
    BY <1>0, <2>3 DEF TypeOK
  <2>4. CASE queue[s] # << >> /\ queue' = [queue EXCEPT ![s] = Tail(@)]
    <3> DEFINE Q == Tail(queue[s])
    <3>1. Q \in Seq(Notice) /\ Len(Q) <= QueueCap /\ queue' = [queue EXCEPT ![s] = Q]
      BY <2>2, <2>4
    <3>2. queue \in [Server -> Seq(Notice)]
      BY <1>0 DEF TypeOK
    <3> HIDE DEF Q
    <3>3. queue' \in [Server -> Seq(Notice)]
      BY <3>1, <3>2
    <3>4. \A t \in Server : queue'[t] = Q \/ queue'[t] = queue[t]
      BY <3>1, <3>2
    <3> QED
      BY <2>1, <3>1, <3>3, <3>4
  <2> QED
    BY <2>3, <2>4 DEF ExecutorStep, Took
<1>2. /\ requests' \in [Server -> SUBSET Server]
      /\ handler' \in [Server -> Notice \cup {Free, Mark}]
      /\ hasRecvDec' \in [Server -> BOOLEAN]
      /\ replies' \in [Server -> SUBSET [from : Server, value : Proposal]]
      /\ crashed' \in SUBSET Server
  BY <1>0 DEF ExecutorStep, Took, handlerVars, TypeOK
<1>3. CASE \E m \in Proposal : Start(s, m)
  <2>1. sent' \in [Server -> Seq(Sent)]
    BY <1>0, <1>3, BroadcastType, SentTypes DEF Start
  <2>2. UNCHANGED <<recvProposal, recvState, recvVote>> /\ pc' = [pc EXCEPT ![s] = "wait"]
    BY <1>3 DEF Start, tallyVars
  <2> QED
    BY <1>0, <1>1, <1>2, <2>1, <2>2 DEF TypeOK, EngineTypes
<1>4. CASE Voted(s)
  <2>1. sent' \in [Server -> Seq(Sent)]
    BY <1>0, <1>4, BroadcastType, SentTypes DEF Voted, CastVote, TypeOK
  <2>2. RetireRound(s) /\ UNCHANGED pc
    BY <1>4 DEF Voted, CastVote
  <2> QED
    BY <1>0, <1>1, <1>2, <2>1, <2>2, RetireTypes DEF TypeOK, EngineTypes
<1>5. CASE Stated(s)
  <2>1. CASE phase[s] + 1 \in Phase
    <3>1. sent' \in [Server -> Seq(Sent)]
      BY <1>0, <1>5, <2>1, BroadcastType, SentTypes DEF Stated, CastState
    <3>2. RetireRound(s) /\ UNCHANGED pc
      BY <1>5, <2>1 DEF Stated, CastState
    <3> QED
      BY <1>0, <1>1, <1>2, <3>1, <3>2, RetireTypes DEF TypeOK, EngineTypes
  <2>2. CASE phase[s] + 1 \notin Phase
    BY <1>0, <1>1, <1>2, <1>5, <2>2 DEF Stated, CastState, tallyVars, TypeOK, EngineTypes
  <2> QED
    BY <2>1, <2>2
<1>6. CASE Concluded(s)
  <2>1. sent' \in [Server -> Seq(Sent)]
    BY <1>0, <1>6, BroadcastType, SentTypes DEF Concluded, Conclude
  <2>2. RetireSlot(s) /\ pc' = [pc EXCEPT ![s] = "done"]
    BY <1>6 DEF Concluded, Conclude
  <2> QED
    BY <1>0, <1>1, <1>2, <2>1, <2>2, RetireTypes DEF TypeOK, EngineTypes
<1>7. CASE Asked(s)
  <2>1. sent' \in [Server -> Seq(Sent)]
    BY <1>0, <1>7, BroadcastType, SentTypes DEF Asked, RequestProposal
  <2> QED
    BY <1>0, <1>1, <1>2, <1>7, <2>1 DEF Asked, RequestProposal, tallyVars, TypeOK, EngineTypes
<1>8. CASE Learned(s)
  BY <1>0, <1>1, <1>2, <1>8, RetireTypes DEF Learned, TypeOK, EngineTypes
<1>9. CASE UNCHANGED <<executorVars, tallyVars>>
  BY <1>0, <1>1, <1>2, <1>9 DEF executorVars, tallyVars, TypeOK, EngineTypes
<1> QED
  BY <1>3, <1>4, <1>5, <1>6, <1>7, <1>8, <1>9 DEF ExecutorStep

-----------------------------------------------------------------------------
(* What a step of the handler changes.                                      *)

(* The handler takes a message of q once it has dealt with all before it.    *)
Handled(s, q, m) ==
    /\ \E i \in DOMAIN sent[q] :
          m = sent[q][i] /\ \A j \in DOMAIN sent[q] : j < i => Passed(s, q, sent[q][j])
    /\ ~Passed(s, q, m)
    /\ Alive(s) /\ handler[s] = Free
    /\ UNCHANGED <<executorVars, crashed>>
    /\ \/ HandleProposal(s, q, m)
       \/ HandleState(s, q, m)
       \/ HandleVote(s, q, m)
       \/ HandleDecision(s, q, m)
       \/ HandleRequest(s, q, m)

LEMMA HandledMessage ==
    ASSUME TypeOK, NEW s \in Server, NEW q \in Server, MsgHandler(s, q)
    PROVE  \E m \in Sent : Handled(s, q, m)
<1>1. PICK i \in Due(s, q) :
         LET m == sent[q][i] IN
         \/ HandleProposal(s, q, m)
         \/ HandleState(s, q, m)
         \/ HandleVote(s, q, m)
         \/ HandleDecision(s, q, m)
         \/ HandleRequest(s, q, m)
  BY DEF MsgHandler
<1>2. sent[q] \in Seq(Sent) /\ DOMAIN sent[q] \subseteq Nat
  BY DEF TypeOK
<1>3. /\ i \in DOMAIN sent[q] /\ ~Passed(s, q, sent[q][i])
      /\ \A j \in DOMAIN sent[q] : ~Passed(s, q, sent[q][j]) => i <= j
  BY DEF Due
<1>4. \A j \in DOMAIN sent[q] : j < i => Passed(s, q, sent[q][j])
  BY <1>2, <1>3
<1>5. sent[q][i] \in Sent
  BY <1>2, <1>3
<1> QED
  BY <1>1, <1>3, <1>4, <1>5 DEF MsgHandler, Handled

(* What kind of message and notice it is says what is in it.                 *)
LEMMA SentKinds ==
    ASSUME NEW m \in Sent
    PROVE  /\ m.type = "Proposal" => m.phase = 0 /\ m.value \in Proposal
           /\ m.type = "State" => m.phase \in Phase /\ m.value \in Bit
           /\ m.type = "Vote" => m.phase \in Phase /\ m.value \in Bit \cup {Unknown}
           /\ m.type = "Decision" => m.phase = 0 /\ m.value \in Object /\ m \in Notice
           /\ m.type \in {"Proposal", "State", "Vote"} => m.phase \in Phase
           /\ m.type \in {"Proposal", "State", "Vote", "Decision", "ProposalRequest"}
  BY PhaseAssumption DEF Sent, Notice, Phase

LEMMA NoticeKinds ==
    /\ \A t \in {"Proposal", "State", "Vote"} : \A p \in Phase : Message(t, p, None) \in Notice
    /\ \A n \in Notice : /\ n.type \in {"Proposal", "State", "Vote", "Decision"}
                         /\ n.phase \in Phase
                         /\ n.type = "Decision" => n.value \in Object
    /\ Free.type = "Free" /\ Mark.type = "Mark" /\ Free # Mark
    /\ Free \notin Notice /\ Mark \notin Notice
  BY PhaseAssumption DEF Message, Notice, Free, Mark, Phase

(* A notice that is pushed, at once or when there is room.                   *)
LEMMA PushTypes ==
    ASSUME TypeOK, NEW s \in Server, NEW n \in Notice, NEW rest \in {Free, Mark},
           PushThen(s, n, rest)
    PROVE  /\ queue' \in [Server -> Seq(Notice)]
           /\ \A t \in Server : Len(queue'[t]) <= QueueCap
           /\ handler' \in [Server -> Notice \cup {Free, Mark}]
<1>1. /\ queue \in [Server -> Seq(Notice)] /\ \A t \in Server : Len(queue[t]) <= QueueCap
      /\ handler \in [Server -> Notice \cup {Free, Mark}]
  BY DEF TypeOK
<1>2. handler' \in [Server -> Notice \cup {Free, Mark}]
  BY <1>1 DEF PushThen
<1>3. CASE Len(queue[s]) < QueueCap
  <2> DEFINE Q == Append(queue[s], n)
  <2>1. queue' = [queue EXCEPT ![s] = Q]
    BY <1>3 DEF PushThen
  <2>2. Q \in Seq(Notice) /\ Len(Q) <= QueueCap
    BY <1>1, <1>3, QueueAssumption
  <2> HIDE DEF Q
  <2>3. queue' \in [Server -> Seq(Notice)]
    BY <1>1, <2>1, <2>2
  <2>4. \A t \in Server : queue'[t] = Q \/ queue'[t] = queue[t]
    BY <1>1, <2>1
  <2> QED
    BY <1>1, <1>2, <2>2, <2>3, <2>4
<1>4. CASE ~(Len(queue[s]) < QueueCap)
  BY <1>1, <1>2, <1>4 DEF PushThen
<1> QED
  BY <1>3, <1>4

LEMMA NotifyTypes ==
    ASSUME TypeOK, NEW s \in Server, NEW n \in Notice, NEW T, NotifyIfEnough(s, T, n)
    PROVE  /\ queue' \in [Server -> Seq(Notice)]
           /\ \A t \in Server : Len(queue'[t]) <= QueueCap
           /\ handler' \in [Server -> Notice \cup {Free, Mark}]
<1>1. CASE HasEnoughMsg(T)
  BY <1>1, PushTypes DEF NotifyIfEnough
<1>2. CASE ~HasEnoughMsg(T)
  BY <1>2 DEF NotifyIfEnough, TypeOK
<1> QED
  BY <1>1, <1>2

LEMMA HandlerTypes ==
    ASSUME EngineInv, NEW s \in Server, NEW q \in Server, NEW m \in Sent, Handled(s, q, m)
    PROVE  EngineTypes'
<1> DEFINE R == [Server -> Bit \cup {Unknown, None}]
<1>0. TypeOK
  BY DEF EngineInv
<1>1. UNCHANGED <<pc, sent, crashed>>
  BY DEF Handled, executorVars
<1>2. CASE HandleProposal(s, q, m)
  <2> DEFINE T == [recvProposal[s] EXCEPT ![q] = m.value]
  <2>1. /\ recvProposal' = [recvProposal EXCEPT ![s] = T]
        /\ NotifyIfEnough(s, T, Message("Proposal", 0, None))
        /\ m.value \in Object
        /\ UNCHANGED <<recvState, recvVote, hasRecvDec, replies, requests>>
    BY <1>2, SentKinds DEF HandleProposal, Object
  <2>2. Message("Proposal", 0, None) \in Notice
    BY NoticeKinds, PhaseAssumption DEF Phase
  <2>3. T \in [Server -> Object \cup {None}]
    BY <1>0, <2>1 DEF TypeOK
  <2> HIDE DEF T
  <2>4. recvProposal' \in [Server -> [Server -> Object \cup {None}]]
    BY <1>0, <2>1, <2>3 DEF TypeOK
  <2> QED
    BY <1>0, <1>1, <2>1, <2>2, <2>4, NotifyTypes DEF TypeOK, EngineTypes
<1>3. CASE HandleState(s, q, m)
  <2> DEFINE T == [recvState[s][m.phase] EXCEPT ![q] = m.value]
             F == [recvState[s] EXCEPT ![m.phase] = T]
  <2>1. /\ recvState' = [recvState EXCEPT ![s] = F]
        /\ NotifyIfEnough(s, T, Message("State", m.phase, None))
        /\ m.value \in Bit /\ m.phase \in Phase
        /\ UNCHANGED <<recvProposal, recvVote, hasRecvDec, replies, requests>>
    BY <1>3, SentKinds DEF HandleState
  <2>2. Message("State", m.phase, None) \in Notice
    BY <2>1, NoticeKinds
  <2>3. recvState[s] \in [Phase -> R] /\ recvState[s][m.phase] \in R
    BY <1>0, <2>1 DEF TypeOK
  <2>4. T \in R
    BY <2>1, <2>3
  <2> HIDE DEF T
  <2>5. F \in [Phase -> R]
    BY <2>3, <2>4
  <2> HIDE DEF F
  <2>6. recvState' \in [Server -> [Phase -> R]]
    BY <1>0, <2>1, <2>5 DEF TypeOK
  <2> QED
    BY <1>0, <1>1, <2>1, <2>2, <2>6, NotifyTypes DEF TypeOK, EngineTypes
<1>4. CASE HandleVote(s, q, m)
  <2> DEFINE T == [recvVote[s][m.phase] EXCEPT ![q] = m.value]
             F == [recvVote[s] EXCEPT ![m.phase] = T]
  <2>1. /\ recvVote' = [recvVote EXCEPT ![s] = F]
        /\ NotifyIfEnough(s, T, Message("Vote", m.phase, None))
        /\ m.value \in Bit \cup {Unknown} /\ m.phase \in Phase
        /\ UNCHANGED <<recvProposal, recvState, hasRecvDec, replies, requests>>
    BY <1>4, SentKinds DEF HandleVote
  <2>2. Message("Vote", m.phase, None) \in Notice
    BY <2>1, NoticeKinds
  <2>3. recvVote[s] \in [Phase -> R] /\ recvVote[s][m.phase] \in R
    BY <1>0, <2>1 DEF TypeOK
  <2>4. T \in R
    BY <2>1, <2>3
  <2> HIDE DEF T
  <2>5. F \in [Phase -> R]
    BY <2>3, <2>4
  <2> HIDE DEF F
  <2>6. recvVote' \in [Server -> [Phase -> R]]
    BY <1>0, <2>1, <2>5 DEF TypeOK
  <2> QED
    BY <1>0, <1>1, <2>1, <2>2, <2>6, NotifyTypes DEF TypeOK, EngineTypes
<1>5. CASE HandleDecision(s, q, m)
  <2>1. m \in Notice /\ PushThen(s, m, Mark)
    BY <1>5, SentKinds DEF HandleDecision
  <2> QED
    BY <1>0, <1>1, <1>5, <2>1, PushTypes DEF HandleDecision, tallyVars, TypeOK, EngineTypes
<1>6. CASE HandleRequest(s, q, m)
  <2> DEFINE W == IF HasEnoughMsg(recvProposal[s]) THEN MajProposals(s, Majority) ELSE {}
             A == {[from |-> s, value |-> v] : v \in W}
  <2>1. replies' = [replies EXCEPT ![q] = @ \cup A] /\ requests' = [requests EXCEPT ![s] = @ \cup {q}]
    BY <1>6 DEF HandleRequest
  <2>2. A \in SUBSET [from : Server, value : Proposal]
    BY DEF MajProposals
  <2> HIDE DEF A
  <2>3. /\ replies' \in [Server -> SUBSET [from : Server, value : Proposal]]
        /\ requests' \in [Server -> SUBSET Server]
    BY <1>0, <2>1, <2>2 DEF TypeOK
  <2> QED
    BY <1>0, <1>1, <1>6, <2>3 DEF HandleRequest, tallyVars, TypeOK, EngineTypes
<1> QED
  BY <1>2, <1>3, <1>4, <1>5, <1>6 DEF Handled

LEMMA OtherTypes ==
    ASSUME EngineInv, NEW s \in Server, Unblock(s) \/ MarkDecision(s) \/ Crash(s)
    PROVE  EngineTypes'
<1>0. TypeOK
  BY DEF EngineInv
<1>1. CASE Unblock(s)
  <2> DEFINE n == handler[s]
             rest == IF n.type = "Decision" THEN Mark ELSE Free
  <2>1. n \in Notice /\ rest \in {Free, Mark} /\ PushThen(s, n, rest)
    BY <1>0, <1>1 DEF Unblock, TypeOK
  <2> HIDE DEF n, rest
  <2>2. /\ queue' \in [Server -> Seq(Notice)] /\ \A t \in Server : Len(queue'[t]) <= QueueCap
        /\ handler' \in [Server -> Notice \cup {Free, Mark}]
    BY <1>0, <2>1, PushTypes
  <2>3. UNCHANGED <<pc, sent, recvProposal, recvState, recvVote, requests, hasRecvDec,
                    replies, crashed>>
    BY <1>1 DEF Unblock, executorVars, tallyVars
  <2> QED
    BY <1>0, <2>2, <2>3 DEF TypeOK, EngineTypes
<1>2. CASE MarkDecision(s)
  BY <1>0, <1>2 DEF MarkDecision, executorVars, tallyVars, TypeOK, EngineTypes
<1>3. CASE Crash(s)
  BY <1>0, <1>3 DEF Crash, executorVars, tallyVars, handlerVars, TypeOK, EngineTypes
<1> QED
  BY <1>1, <1>2, <1>3

-----------------------------------------------------------------------------
(* What becomes of the tallies.                                             *)

(* A complete tally stays complete, and one of proposals says what it said.  *)
TallyKept(t) ==
    /\ HasEnoughMsg(recvProposal[t]) =>
          /\ HasEnoughMsg(recvProposal'[t])
          /\ MajProposals(t, Majority)' = MajProposals(t, Majority)
    /\ \A p \in Phase :
          /\ HasEnoughMsg(recvState[t][p]) => HasEnoughMsg(recvState'[t][p])
          /\ HasEnoughMsg(recvVote[t][p]) => HasEnoughMsg(recvVote'[t][p])

LEMMA SameTallyKept ==
    ASSUME NEW t \in Server, recvProposal'[t] = recvProposal[t],
           recvState'[t] = recvState[t], recvVote'[t] = recvVote[t]
    PROVE  TallyKept(t)
  BY DEF TallyKept, MajProposals

LEMMA RetireEffect ==
    ASSUME TypeOK, NEW s \in Server
    PROVE  /\ RetireRound(s) \/ RetireSlot(s) =>
                /\ recvProposal'[s] = Summary(s)
                /\ \A t \in Server \ {s} :
                      /\ recvProposal'[t] = recvProposal[t]
                      /\ recvState'[t] = recvState[t] /\ recvVote'[t] = recvVote[t]
           /\ RetireRound(s) => \A p \in Phase :
                /\ recvState'[s][p] = IF p = phase[s] THEN Consumed ELSE recvState[s][p]
                /\ recvVote'[s][p] = IF p = phase[s] /\ round[s] = 2 THEN Consumed
                                     ELSE recvVote[s][p]
           /\ RetireSlot(s) => \A p \in Phase :
                recvState'[s][p] = Consumed /\ recvVote'[s][p] = Consumed
  BY DEF TypeOK, RetireRound, RetireSlot

LEMMA RetireKeeps ==
    ASSUME TypeOK, NEW s \in Server, RetireRound(s) \/ RetireSlot(s), NEW t \in Server
    PROVE  TallyKept(t)
<1>1. CASE t # s
  BY <1>1, RetireEffect, SameTallyKept
<1>2. CASE t = s
  <2>1. recvProposal'[s] = Summary(s)
    BY RetireEffect
  <2>2. HasEnoughMsg(recvProposal[s]) =>
          /\ HasEnoughMsg(recvProposal'[s])
          /\ MajProposals(s, Majority)' = MajProposals(s, Majority)
    BY <2>1, SummaryKeeps DEF MajProposals
  <2>3. \A p \in Phase :
          /\ recvState'[s][p] \in {Consumed, recvState[s][p]}
          /\ recvVote'[s][p] \in {Consumed, recvVote[s][p]}
    BY RetireEffect
  <2>4. \A p \in Phase :
          /\ HasEnoughMsg(recvState[s][p]) => HasEnoughMsg(recvState'[s][p])
          /\ HasEnoughMsg(recvVote[s][p]) => HasEnoughMsg(recvVote'[s][p])
    BY <2>3, ConsumedComplete
  <2> QED
    BY <1>2, <2>2, <2>4 DEF TallyKept
<1> QED
  BY <1>1, <1>2

(* One more message in a tally that is not complete.                         *)
LEMMA OneMore ==
    ASSUME NEW X, NEW T \in [Server -> X], NEW q \in Server, NEW v, v # None,
           T[q] = None, ~HasEnoughMsg(T)
    PROVE  LET U == [T EXCEPT ![q] = v] IN
           /\ Cardinality(Tallied(U)) <= NMinusF
           /\ Tallied(U) = Tallied(T) \cup {q}
           /\ \A t \in Server : U[t] = IF t = q THEN v ELSE T[t]
<1> DEFINE U == [T EXCEPT ![q] = v]
<1>1. \A t \in Server : U[t] = IF t = q THEN v ELSE T[t]
  OBVIOUS
<1>2. Tallied(U) = Tallied(T) \cup {q} /\ q \notin Tallied(T)
  BY <1>1 DEF Tallied
<1> HIDE DEF U
<1>3. Tallied(T) \in SUBSET Server
  BY DEF Tallied
<1>4. Cardinality(Tallied(U)) = Cardinality(Tallied(T)) + 1 /\ Cardinality(Tallied(T)) \in Nat
  BY <1>2, <1>3, Servers, FS_AddElement
<1>5. Cardinality(Tallied(T)) < NMinusF
  BY <1>4, Sizes DEF HasEnoughMsg
<1>6. Cardinality(Tallied(U)) <= NMinusF
  BY <1>4, <1>5, Sizes
<1> QED
  BY <1>1, <1>2, <1>6 DEF U

LEMMA SampleBacked ==
    ASSUME NEW T, SampleOf(T, proposal), NEW m \in Proposal, TallyOf(T, m) >= Majority
    PROVE  Backed(m)
<1> DEFINE A == {q \in Server : T[q] = m}
           B == {q \in Server : proposal[q] = m}
<1>1. A \in SUBSET B /\ B \in SUBSET Server
  BY Values DEF SampleOf
<1>2. Cardinality(A) >= Majority
  BY DEF TallyOf
<1> HIDE DEF A, B
<1>3. Cardinality(A) \in Nat /\ Cardinality(B) \in Nat /\ Cardinality(A) <= Cardinality(B)
  BY <1>1, Smaller
<1>4. Cardinality(B) >= Majority
  BY <1>2, <1>3, Sizes
<1> QED
  BY <1>4 DEF B, Backed

(* What was broadcast stays, so samples and majorities stay.                 *)
LEMMA BackedStays ==
    ASSUME Kept, NEW m \in Proposal, Backed(m)
    PROVE  Backed(m)'
<1> DEFINE A == {q \in Server : proposal[q] = m}
           B == {q \in Server : proposal'[q] = m}
<1>1. A \in SUBSET B /\ B \in SUBSET Server
  BY Values DEF Kept
<1>2. Cardinality(A) >= Majority
  BY DEF Backed
<1> HIDE DEF A, B
<1>3. Cardinality(A) \in Nat /\ Cardinality(B) \in Nat /\ Cardinality(A) <= Cardinality(B)
  BY <1>1, Smaller
<1>4. Cardinality(B) >= Majority
  BY <1>2, <1>3, Sizes
<1> QED
  BY <1>4 DEF B, Backed

LEMMA SampleStays ==
    ASSUME Kept, NEW T
    PROVE  /\ SampleOf(T, proposal) => SampleOf(T, proposal')
           /\ \A p \in Phase : SampleOf(T, StatesOf(p)) => SampleOf(T, StatesOf(p)')
           /\ \A p \in Phase : SampleOf(T, VotesOf(p)) => SampleOf(T, VotesOf(p)')
<1>1. SampleOf(T, proposal) => SampleOf(T, proposal')
  BY DEF Kept, SampleOf
<1>2. ASSUME NEW p \in Phase
      PROVE  /\ \A q \in Server : StatesOf(p)[q] # None => StatesOf(p)'[q] = StatesOf(p)[q]
             /\ \A q \in Server : VotesOf(p)[q] # None => VotesOf(p)'[q] = VotesOf(p)[q]
  BY DEF Kept, StatesOf, VotesOf
<1>3. ASSUME NEW p \in Phase, SampleOf(T, StatesOf(p))
      PROVE  SampleOf(T, StatesOf(p)')
  BY <1>2, <1>3 DEF SampleOf
<1>4. ASSUME NEW p \in Phase, SampleOf(T, VotesOf(p))
      PROVE  SampleOf(T, VotesOf(p)')
  BY <1>2, <1>4 DEF SampleOf
<1> QED
  BY <1>1, <1>3, <1>4

(* A server whose tallies do not move, nor what its executor has yet to read *)
LEMMA TallySoundStays ==
    ASSUME EngineInv, Kept, NEW t \in Server,
           OpenProposals(t)' <=> OpenProposals(t),
           pc'[t] = "done" <=> pc[t] = "done",
           \A p \in Phase : /\ OpenStates(t, p)' <=> OpenStates(t, p)
                            /\ OpenVotes(t, p)' <=> OpenVotes(t, p),
           recvProposal'[t] = recvProposal[t], recvState'[t] = recvState[t],
           recvVote'[t] = recvVote[t]
    PROVE  TallySound(t)'
<1>1. TallySound(t)
  BY DEF EngineInv, TalliesSound
<1>2. MajProposals(t, Majority)' = MajProposals(t, Majority)
  BY DEF MajProposals
<1>3. \A m \in MajProposals(t, Majority) : Backed(m)'
  BY <1>1, BackedStays DEF TallySound, MajProposals
<1>4. OpenProposals(t) => SampleOf(recvProposal[t], proposal')
  BY <1>1, SampleStays DEF TallySound
<1>5. ASSUME NEW p \in Phase
      PROVE  /\ IF OpenStates(t, p)' THEN SampleOf(recvState[t][p], StatesOf(p)')
                ELSE recvState[t][p] = Consumed
             /\ IF OpenVotes(t, p)' THEN SampleOf(recvVote[t][p], VotesOf(p)')
                ELSE recvVote[t][p] = Consumed
  BY <1>1, SampleStays DEF TallySound
<1>6. /\ OpenProposals(t)' => SampleOf(recvProposal'[t], proposal')
      /\ OpenProposals(t)' \/ pc'[t] = "done" \/ HasEnoughMsg(recvProposal'[t])
  BY <1>1, <1>4 DEF TallySound
<1>7. \A m \in MajProposals(t, Majority)' : Backed(m)'
  BY <1>2, <1>3
<1>8. ASSUME NEW p \in Phase
      PROVE  /\ IF OpenStates(t, p)' THEN SampleOf(recvState'[t][p], StatesOf(p)')
                ELSE recvState'[t][p] = Consumed
             /\ IF OpenVotes(t, p)' THEN SampleOf(recvVote'[t][p], VotesOf(p)')
                ELSE recvVote'[t][p] = Consumed
  BY <1>5
<1> QED
  BY <1>6, <1>7, <1>8 DEF TallySound, SampleOf

(* The summary of a tally of proposals names objects a majority proposed.    *)
LEMMA SummarySound ==
    ASSUME EngineInv, Kept, NEW s \in Server, recvProposal'[s] = Summary(s)
    PROVE  /\ \A m \in MajProposals(s, Majority)' : Backed(m)'
           /\ HasEnoughMsg(recvProposal[s]) => HasEnoughMsg(recvProposal'[s])
<1>1. MajProposals(s, Majority)' \subseteq MajProposals(s, Majority)
  BY SummaryKeeps DEF MajProposals
<1>2. \A m \in MajProposals(s, Majority) : Backed(m)'
  BY BackedStays DEF EngineInv, TalliesSound, TallySound, MajProposals
<1> QED
  BY <1>1, <1>2, SummaryKeeps

(* A server that has read the tally of its round.                            *)
LEMMA RetireRoundSound ==
    ASSUME EngineInv, Kept, NEW s \in Server, RetireRound(s),
           HasEnoughMsg(recvProposal[s]), ~OpenProposals(s)',
           \A p \in Phase :
              /\ OpenStates(s, p)' <=> OpenStates(s, p) /\ p # phase[s]
              /\ OpenVotes(s, p)' <=> OpenVotes(s, p) /\ ~(p = phase[s] /\ round[s] = 2)
    PROVE  TallySound(s)'
<1>1. TypeOK /\ TallySound(s)
  BY DEF EngineInv, TalliesSound
<1>2. /\ recvProposal'[s] = Summary(s)
      /\ \A p \in Phase :
            /\ recvState'[s][p] = IF p = phase[s] THEN Consumed ELSE recvState[s][p]
            /\ recvVote'[s][p] = IF p = phase[s] /\ round[s] = 2 THEN Consumed
                                 ELSE recvVote[s][p]
  BY <1>1, RetireEffect
<1>3. /\ \A m \in MajProposals(s, Majority)' : Backed(m)'
      /\ HasEnoughMsg(recvProposal'[s])
  BY <1>2, SummarySound
<1>4. ASSUME NEW p \in Phase
      PROVE  /\ IF OpenStates(s, p)' THEN SampleOf(recvState'[s][p], StatesOf(p)')
                ELSE recvState'[s][p] = Consumed
             /\ IF OpenVotes(s, p)' THEN SampleOf(recvVote'[s][p], VotesOf(p)')
                ELSE recvVote'[s][p] = Consumed
  <2>1. /\ IF OpenStates(s, p) THEN SampleOf(recvState[s][p], StatesOf(p)')
           ELSE recvState[s][p] = Consumed
        /\ IF OpenVotes(s, p) THEN SampleOf(recvVote[s][p], VotesOf(p)')
           ELSE recvVote[s][p] = Consumed
    BY <1>1, SampleStays DEF TallySound
  <2> QED
    BY <1>2, <2>1
<1> QED
  BY <1>3, <1>4 DEF TallySound, SampleOf

(* A server that has decided.                                                *)
LEMMA RetireSlotSound ==
    ASSUME EngineInv, Kept, NEW s \in Server, RetireSlot(s), pc'[s] = "done"
    PROVE  TallySound(s)'
<1>1. TypeOK
  BY DEF EngineInv
<1>2. /\ recvProposal'[s] = Summary(s)
      /\ \A p \in Phase : recvState'[s][p] = Consumed /\ recvVote'[s][p] = Consumed
  BY <1>1, RetireEffect
<1>3. \A m \in MajProposals(s, Majority)' : Backed(m)'
  BY <1>2, SummarySound
<1>4. ~OpenProposals(s)' /\ \A p \in Phase : ~OpenStates(s, p)' /\ ~OpenVotes(s, p)'
  BY DEF OpenProposals, OpenStates, OpenVotes
<1> QED
  BY <1>2, <1>3, <1>4 DEF TallySound

LEMMA ExecutorLocal ==
    ASSUME EngineInv, NEW s \in Server, ExecutorStep(s), NEW t \in Server, t # s
    PROVE  /\ pc'[t] = pc[t] /\ phase'[t] = phase[t] /\ round'[t] = round[t]
           /\ vote'[t] = vote[t] /\ sent'[t] = sent[t] /\ decision'[t] = decision[t]
           /\ recvProposal'[t] = recvProposal[t] /\ recvState'[t] = recvState[t]
           /\ recvVote'[t] = recvVote[t]
<1>0. TypeOK
  BY DEF EngineInv
<1>1. RetireRound(s) \/ RetireSlot(s) =>
         /\ recvProposal'[t] = recvProposal[t] /\ recvState'[t] = recvState[t]
         /\ recvVote'[t] = recvVote[t]
  BY <1>0, RetireEffect
<1>2. CASE \E m \in Proposal : Start(s, m)
  BY <1>0, <1>2 DEF Start, Broadcast, tallyVars, TypeOK
<1>3. CASE Voted(s)
  BY <1>0, <1>1, <1>3 DEF Voted, CastVote, Broadcast, TypeOK
<1>4. CASE Stated(s)
  <2>1. CASE phase[s] + 1 \in Phase
    BY <1>0, <1>1, <1>4, <2>1 DEF Stated, CastState, Broadcast, TypeOK
  <2>2. CASE phase[s] + 1 \notin Phase
    BY <1>0, <1>4, <2>2 DEF Stated, CastState, tallyVars, TypeOK
  <2> QED
    BY <2>1, <2>2
<1>5. CASE Concluded(s)
  BY <1>0, <1>1, <1>5 DEF Concluded, Conclude, Broadcast, TypeOK
<1>6. CASE Asked(s)
  BY <1>0, <1>6 DEF Asked, RequestProposal, Broadcast, tallyVars, TypeOK
<1>7. CASE Learned(s)
  BY <1>0, <1>1, <1>7 DEF Learned, TypeOK
<1>8. CASE UNCHANGED <<executorVars, tallyVars>>
  BY <1>8 DEF executorVars, tallyVars
<1> QED
  BY <1>2, <1>3, <1>4, <1>5, <1>6, <1>7, <1>8 DEF ExecutorStep

(* What the step of an executor leaves for it to read.                       *)
LEMMA ExecutorTallySound ==
    ASSUME EngineInv, NEW s \in Server, ExecutorStep(s), NEW t \in Server
    PROVE  TallySound(t)'
<1>0. TypeOK /\ Weak!IndInv /\ Kept /\ TallySound(s)
  BY ExecutorKeeps DEF EngineInv, TalliesSound
<1>1. CASE t # s
  <2>1. /\ OpenProposals(t)' <=> OpenProposals(t)
        /\ pc'[t] = "done" <=> pc[t] = "done"
        /\ \A p \in Phase : /\ OpenStates(t, p)' <=> OpenStates(t, p)
                            /\ OpenVotes(t, p)' <=> OpenVotes(t, p)
    BY <1>1, ExecutorLocal DEF OpenProposals, OpenStates, OpenVotes
  <2> QED
    BY <1>0, <1>1, <2>1, ExecutorLocal, TallySoundStays
<1> SUFFICES ASSUME t = s PROVE TallySound(s)'
  BY <1>1
<1>2. /\ pc \in [Server -> {"idle", "wait", "request", "done", "panic"}]
      /\ phase \in [Server -> Phase] /\ round \in [Server -> 0 .. 3]
      /\ phase[s] \in Nat /\ \A p \in Phase : p \in Nat
  BY <1>0 DEF TypeOK, Phase
<1>3. pc[s] # "done" /\ ~OpenProposals(s) => HasEnoughMsg(recvProposal[s])
  BY <1>0 DEF TallySound
<1>4. ASSUME UNCHANGED <<phase, round, tallyVars>>, pc[s] # "done", pc'[s] # "done"
      PROVE  TallySound(s)'
  <2>1. /\ OpenProposals(s)' <=> OpenProposals(s)
        /\ pc'[s] = "done" <=> pc[s] = "done"
        /\ \A p \in Phase : /\ OpenStates(s, p)' <=> OpenStates(s, p)
                            /\ OpenVotes(s, p)' <=> OpenVotes(s, p)
    BY <1>4 DEF OpenProposals, OpenStates, OpenVotes
  <2> QED
    BY <1>0, <1>4, <2>1, TallySoundStays DEF tallyVars
<1>5. CASE \E m \in Proposal : Start(s, m)
  <2>1. /\ pc[s] = "idle" /\ pc'[s] = "wait" /\ phase[s] = 0 /\ round[s] = 0
        /\ phase'[s] = 0 /\ round'[s] = 1 /\ UNCHANGED tallyVars
    BY <1>0, <1>2, <1>5, Broadcasts DEF Start
  <2>2. /\ OpenProposals(s)' <=> OpenProposals(s)
        /\ pc'[s] = "done" <=> pc[s] = "done"
        /\ \A p \in Phase : /\ OpenStates(s, p)' <=> OpenStates(s, p)
                            /\ OpenVotes(s, p)' <=> OpenVotes(s, p)
    BY <2>1 DEF OpenProposals, OpenStates, OpenVotes
  <2> QED
    BY <1>0, <2>1, <2>2, TallySoundStays DEF tallyVars
<1>6. CASE Voted(s)
  <2>1. /\ pc[s] = "wait" /\ round[s] = 1 /\ round'[s] = 2 /\ UNCHANGED <<pc, phase>>
        /\ phase[s] = 0 => HasEnoughMsg(recvProposal[s])
    BY <1>2, <1>6 DEF Voted, CastVote
  <2>2. HasEnoughMsg(recvProposal[s])
    BY <1>3, <2>1 DEF OpenProposals
  <2>3. RetireRound(s)
    BY <1>6 DEF Voted, CastVote
  <2>4. /\ ~OpenProposals(s)'
        /\ \A p \in Phase :
              /\ OpenStates(s, p)' <=> OpenStates(s, p) /\ p # phase[s]
              /\ OpenVotes(s, p)' <=> OpenVotes(s, p) /\ ~(p = phase[s] /\ round[s] = 2)
    BY <1>2, <2>1 DEF OpenProposals, OpenStates, OpenVotes
  <2> QED
    BY <1>0, <2>2, <2>3, <2>4, RetireRoundSound
<1>7. CASE Stated(s)
  <2>1. CASE phase[s] + 1 \in Phase
    <3>1. /\ pc[s] = "wait" /\ round[s] = 2 /\ round'[s] = 1 /\ UNCHANGED pc
          /\ phase'[s] = phase[s] + 1
      BY <1>2, <1>7, <2>1 DEF Stated, CastState
    <3>2. RetireRound(s)
      BY <1>7, <2>1 DEF Stated, CastState
    <3>3. HasEnoughMsg(recvProposal[s])
      BY <1>3, <3>1 DEF OpenProposals
    <3>4. /\ ~OpenProposals(s)'
          /\ \A p \in Phase :
                /\ OpenStates(s, p)' <=> OpenStates(s, p) /\ p # phase[s]
                /\ OpenVotes(s, p)' <=> OpenVotes(s, p) /\ ~(p = phase[s] /\ round[s] = 2)
      BY <1>2, <3>1 DEF OpenProposals, OpenStates, OpenVotes
    <3> QED
      BY <1>0, <3>2, <3>3, <3>4, RetireRoundSound
  <2>2. CASE phase[s] + 1 \notin Phase
    BY <1>2, <1>4, <1>7, <2>2 DEF Stated, CastState
  <2> QED
    BY <2>1, <2>2
<1>8. CASE Concluded(s)
  BY <1>0, <1>2, <1>8, RetireSlotSound DEF Concluded, Conclude
<1>9. CASE Asked(s)
  BY <1>2, <1>4, <1>9 DEF Asked, RequestProposal
<1>10. CASE Learned(s)
  BY <1>0, <1>2, <1>10, RetireSlotSound DEF Learned
<1>11. CASE UNCHANGED <<executorVars, tallyVars>>
  <2>1. /\ OpenProposals(s)' <=> OpenProposals(s)
        /\ pc'[s] = "done" <=> pc[s] = "done"
        /\ \A p \in Phase : /\ OpenStates(s, p)' <=> OpenStates(s, p)
                            /\ OpenVotes(s, p)' <=> OpenVotes(s, p)
    BY <1>11 DEF executorVars, OpenProposals, OpenStates, OpenVotes
  <2> QED
    BY <1>0, <1>11, <2>1, TallySoundStays DEF tallyVars
<1> QED
  BY <1>5, <1>6, <1>7, <1>8, <1>9, <1>10, <1>11 DEF ExecutorStep

(* An executor's step keeps what complete tallies say.                       *)
LEMMA ExecutorTallyKept ==
    ASSUME EngineInv, NEW s \in Server, ExecutorStep(s), NEW t \in Server
    PROVE  TallyKept(t)
<1>0. TypeOK
  BY DEF EngineInv
<1>1. CASE RetireRound(s) \/ RetireSlot(s)
  BY <1>0, <1>1, RetireKeeps
<1>2. CASE UNCHANGED tallyVars
  BY <1>2, SameTallyKept DEF tallyVars
<1>3. RetireRound(s) \/ RetireSlot(s) \/ UNCHANGED tallyVars
  BY DEF ExecutorStep, Start, Voted, CastVote, Stated, CastState, Concluded, Conclude,
         Asked, RequestProposal, Learned
<1> QED
  BY <1>1, <1>2, <1>3

(* A message in a tally that is still open: it is what its sender broadcast. *)
LEMMA HandlerTallySound ==
    ASSUME EngineInv, NEW s \in Server, NEW q \in Server, NEW m \in Sent, Handled(s, q, m),
           NEW t \in Server
    PROVE  TallySound(t)' /\ TallyKept(t)
<1>0. /\ TypeOK /\ TallySound(s) /\ TallySound(t)
      /\ UNCHANGED <<pc, phase, round, proposal, state, vote, decision>>
  BY DEF EngineInv, TalliesSound, Handled, executorVars
<1>1. Kept
  BY <1>0 DEF Kept
<1>2. /\ OpenProposals(t)' <=> OpenProposals(t)
      /\ pc'[t] = "done" <=> pc[t] = "done"
      /\ \A p \in Phase : /\ OpenStates(t, p)' <=> OpenStates(t, p)
                          /\ OpenVotes(t, p)' <=> OpenVotes(t, p)
      /\ \A p \in Phase : StatesOf(p)' = StatesOf(p) /\ VotesOf(p)' = VotesOf(p)
  BY <1>0 DEF OpenProposals, OpenStates, OpenVotes, StatesOf, VotesOf
<1>3. CASE /\ recvProposal'[t] = recvProposal[t] /\ recvState'[t] = recvState[t]
           /\ recvVote'[t] = recvVote[t]
  BY <1>1, <1>2, <1>3, TallySoundStays, SameTallyKept
<1>4. /\ recvProposal \in [Server -> [Server -> Object \cup {None}]]
      /\ recvState \in [Server -> [Phase -> [Server -> Bit \cup {Unknown, None}]]]
      /\ recvVote \in [Server -> [Phase -> [Server -> Bit \cup {Unknown, None}]]]
  BY <1>0 DEF TypeOK
<1>5. PICK i \in DOMAIN sent[q] : m = sent[q][i]
  BY DEF Handled
<1>6. /\ m.type = "Proposal" => m.value = proposal[q]
      /\ m.type = "State" => m.value = state[q][m.phase]
      /\ m.type = "Vote" => m.value = vote[q][m.phase]
  BY <1>5 DEF EngineInv, SentSound, Genuine
<1>7. m.type # "ProposalRequest" => pc[s] # "done"
  BY DEF Handled, Passed, Ignores, IsDone, EngineInv, Rounds
<1>8. CASE HandleProposal(s, q, m)
  <2> DEFINE T == recvProposal[s]
             U == [T EXCEPT ![q] = m.value]
  <2>1. /\ m.type = "Proposal" /\ recvProposal' = [recvProposal EXCEPT ![s] = U]
        /\ UNCHANGED <<recvState, recvVote>>
    BY <1>8 DEF HandleProposal
  <2>2. m.value \in Proposal /\ m.value # None /\ m.value = proposal[q]
    BY <1>6, <2>1, SentKinds, Values
  <2>3. T[q] = None /\ ~HasEnoughMsg(T)
    BY <2>1 DEF Handled, Passed, Ignores
  <2>4. OpenProposals(s) /\ SampleOf(T, proposal)
    BY <1>0, <1>7, <2>1, <2>3 DEF TallySound
  <2>5. T \in [Server -> Object \cup {None}]
    BY <1>4
  <2>6. /\ Cardinality(Tallied(U)) <= NMinusF
        /\ \A r \in Server : U[r] = IF r = q THEN m.value ELSE T[r]
    BY <2>2, <2>3, <2>5, OneMore
  <2>7. SampleOf(U, proposal)
    BY <2>2, <2>4, <2>6 DEF SampleOf
  <2>8. recvProposal'[s] = U
    BY <1>4, <2>1
  <2> HIDE DEF T, U
  <2>9. CASE t # s
    BY <1>3, <1>4, <2>1, <2>9
  <2>10. CASE t = s
    <3>1. \A n \in MajProposals(s, Majority)' : n \in Proposal /\ Backed(n)
      BY <2>7, <2>8, SampleBacked DEF MajProposals
    <3>2. \A n \in MajProposals(s, Majority)' : Backed(n)'
      BY <1>0, <3>1 DEF Backed
    <3>3. SampleOf(recvProposal'[s], proposal')
      BY <1>0, <2>7, <2>8
    <3>4. TallySound(s)'
      BY <1>0, <1>2, <2>1, <2>4, <2>10, <3>2, <3>3 DEF TallySound, SampleOf
    <3>5. TallyKept(s)
      BY <2>1, <2>3 DEF TallyKept, T
    <3> QED
      BY <2>10, <3>4, <3>5
  <2> QED
    BY <2>9, <2>10
<1>9. CASE HandleState(s, q, m)
  <2> DEFINE k == m.phase
             T == recvState[s][k]
             U == [T EXCEPT ![q] = m.value]
  <2>1. /\ m.type = "State" /\ recvState' = [recvState EXCEPT ![s][k] = U]
        /\ UNCHANGED <<recvProposal, recvVote>>
    BY <1>9 DEF HandleState
  <2>2. k \in Phase /\ m.value # None /\ m.value = StatesOf(k)[q]
    BY <1>6, <2>1, SentKinds, Values DEF StatesOf
  <2>3. T[q] = None /\ ~HasEnoughMsg(T)
    BY <2>1 DEF Handled, Passed, Ignores
  <2>4. OpenStates(s, k) /\ SampleOf(T, StatesOf(k))
    BY <1>0, <2>2, <2>3, ConsumedComplete DEF TallySound
  <2>5. T \in [Server -> Bit \cup {Unknown, None}]
    BY <1>4, <2>2
  <2> HIDE DEF T, k
  <2>6. /\ Cardinality(Tallied(U)) <= NMinusF
        /\ \A r \in Server : U[r] = IF r = q THEN m.value ELSE T[r]
    BY <2>2, <2>3, <2>5, OneMore
  <2>7. SampleOf(U, StatesOf(k))
    BY <2>2, <2>4, <2>6 DEF SampleOf
  <2> HIDE DEF U
  <2>8. /\ t # s => recvState'[t] = recvState[t]
        /\ \A p \in Phase : recvState'[s][p] = IF p = k THEN U ELSE recvState[s][p]
    BY <1>4, <2>1 DEF T
  <2>9. CASE t # s
    BY <1>3, <2>1, <2>8, <2>9
  <2>10. CASE t = s
    <3>1. MajProposals(s, Majority)' = MajProposals(s, Majority)
      BY <2>1 DEF MajProposals
    <3>2. \A n \in MajProposals(s, Majority)' : Backed(n)'
      BY <1>0, <3>1 DEF TallySound, Backed
    <3>3. ASSUME NEW p \in Phase
          PROVE  /\ IF OpenStates(s, p)' THEN SampleOf(recvState'[s][p], StatesOf(p)')
                    ELSE recvState'[s][p] = Consumed
                 /\ IF OpenVotes(s, p)' THEN SampleOf(recvVote'[s][p], VotesOf(p)')
                    ELSE recvVote'[s][p] = Consumed
      <4>1. CASE p = k
        BY <1>0, <1>2, <2>1, <2>4, <2>7, <2>8, <2>10, <4>1 DEF TallySound
      <4>2. CASE p # k
        BY <1>0, <1>2, <2>1, <2>8, <2>10, <4>2 DEF TallySound
      <4> QED
        BY <4>1, <4>2
    <3>4. TallySound(s)'
      BY <1>0, <1>2, <2>1, <2>10, <3>2, <3>3 DEF TallySound, SampleOf
    <3>5. TallyKept(s)
      BY <2>1, <2>3, <2>8, <3>1 DEF TallyKept, T
    <3> QED
      BY <2>10, <3>4, <3>5
  <2> QED
    BY <2>9, <2>10
<1>10. CASE HandleVote(s, q, m)
  <2> DEFINE k == m.phase
             T == recvVote[s][k]
             U == [T EXCEPT ![q] = m.value]
  <2>1. /\ m.type = "Vote" /\ recvVote' = [recvVote EXCEPT ![s][k] = U]
        /\ UNCHANGED <<recvProposal, recvState>>
    BY <1>10 DEF HandleVote
  <2>2. k \in Phase /\ m.value # None /\ m.value = VotesOf(k)[q]
    BY <1>6, <2>1, SentKinds, Values DEF VotesOf
  <2>3. T[q] = None /\ ~HasEnoughMsg(T)
    BY <2>1 DEF Handled, Passed, Ignores
  <2>4. OpenVotes(s, k) /\ SampleOf(T, VotesOf(k))
    BY <1>0, <2>2, <2>3, ConsumedComplete DEF TallySound
  <2>5. T \in [Server -> Bit \cup {Unknown, None}]
    BY <1>4, <2>2
  <2> HIDE DEF T, k
  <2>6. /\ Cardinality(Tallied(U)) <= NMinusF
        /\ \A r \in Server : U[r] = IF r = q THEN m.value ELSE T[r]
    BY <2>2, <2>3, <2>5, OneMore
  <2>7. SampleOf(U, VotesOf(k))
    BY <2>2, <2>4, <2>6 DEF SampleOf
  <2> HIDE DEF U
  <2>8. /\ t # s => recvVote'[t] = recvVote[t]
        /\ \A p \in Phase : recvVote'[s][p] = IF p = k THEN U ELSE recvVote[s][p]
    BY <1>4, <2>1 DEF T
  <2>9. CASE t # s
    BY <1>3, <2>1, <2>8, <2>9
  <2>10. CASE t = s
    <3>1. MajProposals(s, Majority)' = MajProposals(s, Majority)
      BY <2>1 DEF MajProposals
    <3>2. \A n \in MajProposals(s, Majority)' : Backed(n)'
      BY <1>0, <3>1 DEF TallySound, Backed
    <3>3. ASSUME NEW p \in Phase
          PROVE  /\ IF OpenStates(s, p)' THEN SampleOf(recvState'[s][p], StatesOf(p)')
                    ELSE recvState'[s][p] = Consumed
                 /\ IF OpenVotes(s, p)' THEN SampleOf(recvVote'[s][p], VotesOf(p)')
                    ELSE recvVote'[s][p] = Consumed
      <4>1. CASE p = k
        BY <1>0, <1>2, <2>1, <2>4, <2>7, <2>8, <2>10, <4>1 DEF TallySound
      <4>2. CASE p # k
        BY <1>0, <1>2, <2>1, <2>8, <2>10, <4>2 DEF TallySound
      <4> QED
        BY <4>1, <4>2
    <3>4. TallySound(s)'
      BY <1>0, <1>2, <2>1, <2>10, <3>2, <3>3 DEF TallySound, SampleOf
    <3>5. TallyKept(s)
      BY <2>1, <2>3, <2>8, <3>1 DEF TallyKept, T
    <3> QED
      BY <2>10, <3>4, <3>5
  <2> QED
    BY <2>9, <2>10
<1>11. CASE HandleDecision(s, q, m) \/ HandleRequest(s, q, m)
  BY <1>3, <1>11 DEF HandleDecision, HandleRequest, tallyVars
<1> QED
  BY <1>8, <1>9, <1>10, <1>11 DEF Handled

-----------------------------------------------------------------------------
(* What becomes of the messages, notices and replies.                       *)

(* A complete tally of states or votes does not change, but by the executor  *)
(* that has read it.                                                         *)
LEMMA CompleteFixed ==
    ASSUME EngineInv, NEW s \in Server, NEW q \in Server, NEW m \in Sent, Handled(s, q, m),
           NEW t \in Server, NEW p \in Phase
    PROVE  /\ HasEnoughMsg(recvState[t][p]) => recvState'[t][p] = recvState[t][p]
           /\ HasEnoughMsg(recvVote[t][p]) => recvVote'[t][p] = recvVote[t][p]
<1>1. /\ recvState \in [Server -> [Phase -> [Server -> Bit \cup {Unknown, None}]]]
      /\ recvVote \in [Server -> [Phase -> [Server -> Bit \cup {Unknown, None}]]]
  BY DEF EngineInv, TypeOK
<1>2. /\ m.type = "State" => ~HasEnoughMsg(recvState[s][m.phase])
      /\ m.type = "Vote" => ~HasEnoughMsg(recvVote[s][m.phase])
  BY DEF Handled, Passed, Ignores
<1>3. CASE HandleState(s, q, m)
  <2> DEFINE U == [recvState[s][m.phase] EXCEPT ![q] = m.value]
  <2>1. m.type = "State" /\ recvState' = [recvState EXCEPT ![s][m.phase] = U] /\ UNCHANGED recvVote
    BY <1>3 DEF HandleState
  <2> HIDE DEF U
  <2> QED
    BY <1>1, <1>2, <2>1
<1>4. CASE HandleVote(s, q, m)
  <2> DEFINE U == [recvVote[s][m.phase] EXCEPT ![q] = m.value]
  <2>1. m.type = "Vote" /\ recvVote' = [recvVote EXCEPT ![s][m.phase] = U] /\ UNCHANGED recvState
    BY <1>4 DEF HandleVote
  <2> HIDE DEF U
  <2> QED
    BY <1>1, <1>2, <2>1
<1>5. CASE HandleProposal(s, q, m) \/ HandleDecision(s, q, m) \/ HandleRequest(s, q, m)
  BY <1>5 DEF HandleProposal, HandleDecision, HandleRequest, tallyVars
<1> QED
  BY <1>3, <1>4, <1>5 DEF Handled

LEMMA GenuineStays ==
    ASSUME Kept, NEW q \in Server, NEW m \in Sent, Genuine(q, m)
    PROVE  Genuine(q, m)'
<1>1. /\ m.type = "Proposal" => m.value # None
      /\ m.type = "State" => m.value # None /\ m.phase \in Phase
      /\ m.type = "Vote" => m.value # None /\ m.phase \in Phase
      /\ m.type = "Decision" => m.value # None
  BY SentKinds, Values
<1> QED
  BY <1>1 DEF Kept, Genuine

LEMMA MoreSent ==
    ASSUME TypeOK, SentSound, Kept, NEW s \in Server, NEW m \in Sent, Broadcast(s, m),
           Genuine(s, m)'
    PROVE  SentSound'
<1> SUFFICES ASSUME NEW q \in Server, NEW i \in DOMAIN sent'[q], NEW n, n = sent'[q][i]
             PROVE  Genuine(q, n)'
  BY DEF SentSound, Genuine
<1>1. /\ sent[q] \in Seq(Sent) /\ sent[s] \in Seq(Sent)
      /\ sent'[q] = IF q = s THEN Append(sent[s], m) ELSE sent[q]
  BY DEF TypeOK, Broadcast
<1>2. (q = s /\ n = m) \/ \E j \in DOMAIN sent[q] : n = sent[q][j]
  BY <1>1
<1>3. ASSUME NEW j \in DOMAIN sent[q], n = sent[q][j]
      PROVE  Genuine(q, n)'
  <2>1. n \in Sent /\ Genuine(q, n)
    BY <1>1, <1>3 DEF SentSound, Genuine
  <2> QED
    BY <2>1, GenuineStays
<1>4. CASE q = s /\ n = m
  BY <1>4 DEF Genuine
<1> QED
  BY <1>2, <1>3, <1>4

LEMMA SameSent ==
    ASSUME TypeOK, SentSound, Kept, UNCHANGED sent
    PROVE  SentSound'
<1> SUFFICES ASSUME NEW q \in Server, NEW i \in DOMAIN sent[q], NEW n, n = sent[q][i]
             PROVE  Genuine(q, n)'
  BY DEF SentSound, Genuine
<1>1. sent[q] \in Seq(Sent)
  BY DEF TypeOK
<1>2. n \in Sent /\ Genuine(q, n)
  BY <1>1 DEF SentSound, Genuine
<1> QED
  BY <1>2, GenuineStays

LEMMA ExecutorSentSound ==
    ASSUME EngineInv, NEW s \in Server, ExecutorStep(s)
    PROVE  SentSound'
<1>0. TypeOK /\ SentSound /\ Kept
  BY ExecutorKeeps DEF EngineInv
<1>1. /\ proposal \in [Server -> Proposal \cup {None}]
      /\ decision \in [Server -> Object \cup {None}]
      /\ state \in [Server -> [Phase -> Bit \cup {None}]]
      /\ vote \in [Server -> [Phase -> Bit \cup {Unknown, None}]]
      /\ phase[s] \in Phase
  BY <1>0 DEF TypeOK
<1>2. CASE \E m \in Proposal : Start(s, m)
  <2>1. PICK m \in Proposal : Start(s, m)
    BY <1>2
  <2>2. Genuine(s, Message("Proposal", 0, m))'
    BY <1>1, <2>1 DEF Start, Genuine, Message
  <2> QED
    BY <1>0, <2>1, <2>2, SentTypes, MoreSent DEF Start
<1>3. CASE Voted(s)
  <2>1. PICK v \in Bit \cup {Unknown} : CastVote(s, v)
    BY <1>3 DEF Voted
  <2>2. Genuine(s, Message("Vote", phase[s], v))'
    BY <1>1, <2>1 DEF CastVote, Genuine, Message
  <2> QED
    BY <1>0, <1>1, <2>1, <2>2, SentTypes, MoreSent DEF CastVote
<1>4. CASE Stated(s)
  <2>1. PICK v \in Bit : CastState(s, v)
    BY <1>4 DEF Stated
  <2>2. CASE phase[s] + 1 \in Phase
    <3>0. PICK k \in Phase : k = phase[s] + 1
      BY <2>2
    <3>1. state' = [state EXCEPT ![s][k] = v] /\ Broadcast(s, Message("State", k, v))
      BY <2>1, <2>2, <3>0 DEF CastState
    <3>2. Genuine(s, Message("State", k, v))'
      BY <1>1, <3>1 DEF Genuine, Message
    <3> QED
      BY <1>0, <3>1, <3>2, SentTypes, MoreSent
  <2>3. CASE phase[s] + 1 \notin Phase
    BY <1>0, <2>1, <2>3, SameSent DEF CastState
  <2> QED
    BY <2>2, <2>3
<1>5. CASE Concluded(s)
  <2>1. PICK d \in Object : Conclude(s, d)
    BY <1>5 DEF Concluded
  <2>2. Genuine(s, Message("Decision", 0, d))'
    BY <1>1, <2>1 DEF Conclude, Genuine, Message
  <2> QED
    BY <1>0, <2>1, <2>2, SentTypes, MoreSent DEF Conclude
<1>6. CASE Asked(s)
  <2>1. Broadcast(s, Message("ProposalRequest", 0, None))
    BY <1>6 DEF Asked, RequestProposal
  <2>2. Genuine(s, Message("ProposalRequest", 0, None))'
    BY DEF Genuine, Message
  <2> QED
    BY <1>0, <2>1, <2>2, SentTypes, MoreSent
<1>7. CASE Learned(s) \/ UNCHANGED <<executorVars, tallyVars>>
  BY <1>0, <1>7, SameSent DEF Learned, executorVars
<1> QED
  BY <1>2, <1>3, <1>4, <1>5, <1>6, <1>7 DEF ExecutorStep

LEMMA SoundStays ==
    ASSUME EngineInv, Kept, NEW t \in Server, TallyKept(t),
           NEW n \in Notice \cup {Free, Mark}, Sound(t, n)
    PROVE  Sound(t, n)'
<1>1. CASE n \in Notice
  <2>1. n.phase \in Phase /\ (n.type = "Decision" => n.value # None)
    BY <1>1, NoticeKinds, Values
  <2>2. n.type = "Decision" => \E q \in Server : decision'[q] = n.value
    BY <2>1 DEF Kept, Sound
  <2> QED
    BY <2>1, <2>2 DEF TallyKept, Sound
<1>2. CASE n \in {Free, Mark}
  BY <1>2 DEF Sound, Free, Mark, Message
<1> QED
  BY <1>1, <1>2

(* The notices that were there.                                              *)
LEMMA OldNoticesSound ==
    ASSUME EngineInv, Kept, \A t \in Server : TallyKept(t), NEW t \in Server, NEW n,
           n \in {handler[t], Free, Mark} \/ \E i \in DOMAIN queue[t] : n = queue[t][i]
    PROVE  Sound(t, n)'
<1>1. handler[t] \in Notice \cup {Free, Mark} /\ queue[t] \in Seq(Notice)
  BY DEF EngineInv, TypeOK
<1>2. Sound(t, handler[t]) /\ \A i \in DOMAIN queue[t] : Sound(t, queue[t][i])
  BY DEF EngineInv, NoticesSound
<1>3. n \in Notice \cup {Free, Mark}
  BY <1>1
<1>4. CASE n = handler[t] \/ \E i \in DOMAIN queue[t] : n = queue[t][i]
  BY <1>2, <1>3, <1>4, SoundStays
<1>5. CASE n \in {Free, Mark}
  BY <1>5 DEF Sound, Free, Mark, Message
<1> QED
  BY <1>4, <1>5

LEMMA NoticesSuffice ==
    ASSUME \A t \in Server : \A n :
              n = handler'[t] \/ (\E i \in DOMAIN queue'[t] : n = queue'[t][i]) => Sound(t, n)'
    PROVE  NoticesSound'
  BY DEF NoticesSound, Sound

LEMMA PushSound ==
    ASSUME EngineInv, Kept, \A t \in Server : TallyKept(t), NEW s \in Server,
           NEW n \in Notice, NEW rest \in {Free, Mark}, PushThen(s, n, rest), Sound(s, n)'
    PROVE  NoticesSound'
<1>1. /\ queue \in [Server -> Seq(Notice)]
      /\ handler \in [Server -> Notice \cup {Free, Mark}]
  BY DEF EngineInv, TypeOK
<1>2. ASSUME NEW t \in Server, NEW k,
             k = handler'[t] \/ \E i \in DOMAIN queue'[t] : k = queue'[t][i]
      PROVE  Sound(t, k)'
  <2>1. /\ handler'[t] \in {handler[t], Free, Mark} \/ (t = s /\ handler'[t] = n)
        /\ queue'[t] = queue[t] \/ (t = s /\ queue'[t] = Append(queue[t], n))
    BY <1>1 DEF PushThen
  <2>2. \/ k \in {handler[t], Free, Mark}
        \/ \E i \in DOMAIN queue[t] : k = queue[t][i]
        \/ t = s /\ k = n
    <3>1. queue[t] \in Seq(Notice)
      BY <1>1
    <3>2. \A i \in DOMAIN Append(queue[t], n) :
             \/ i \in DOMAIN queue[t] /\ Append(queue[t], n)[i] = queue[t][i]
             \/ Append(queue[t], n)[i] = n
      BY <3>1
    <3>3. CASE k = handler'[t]
      BY <2>1, <3>3
    <3>4. CASE \E i \in DOMAIN queue'[t] : k = queue'[t][i]
      <4>1. CASE queue'[t] = queue[t]
        BY <3>4, <4>1
      <4>2. CASE t = s /\ queue'[t] = Append(queue[t], n)
        BY <3>2, <3>4, <4>2
      <4> QED
        BY <2>1, <4>1, <4>2
    <3> QED
      BY <1>2, <3>3, <3>4
  <2>3. CASE t = s /\ k = n
    BY <2>3 DEF Sound
  <2> QED
    BY <2>2, <2>3, OldNoticesSound
<1> QED
  BY <1>2, NoticesSuffice

LEMMA ExecutorNoticesSound ==
    ASSUME EngineInv, NEW s \in Server, ExecutorStep(s)
    PROVE  NoticesSound'
<1>0. Kept /\ \A t \in Server : TallyKept(t)
  BY ExecutorKeeps, ExecutorTallyKept
<1>1. /\ queue \in [Server -> Seq(Notice)] /\ UNCHANGED handler
      /\ UNCHANGED queue \/ (queue[s] # << >> /\ queue' = [queue EXCEPT ![s] = Tail(@)])
  BY DEF EngineInv, TypeOK, ExecutorStep, Took, handlerVars
<1>2. ASSUME NEW t \in Server, NEW i \in DOMAIN queue'[t]
      PROVE  \E j \in DOMAIN queue[t] : queue'[t][i] = queue[t][j]
  <2>1. queue[t] \in Seq(Notice)
    BY <1>1
  <2>2. CASE queue'[t] = queue[t]
    BY <1>2, <2>2
  <2>3. CASE queue[t] # << >> /\ queue'[t] = Tail(queue[t])
    <3>1. i + 1 \in DOMAIN queue[t] /\ queue'[t][i] = queue[t][i + 1]
      BY <1>2, <2>1, <2>3
    <3> QED
      BY <3>1
  <2> QED
    BY <1>1, <2>2, <2>3
<1>3. ASSUME NEW t \in Server, NEW n,
             n = handler'[t] \/ \E i \in DOMAIN queue'[t] : n = queue'[t][i]
      PROVE  Sound(t, n)'
  BY <1>0, <1>1, <1>2, <1>3, OldNoticesSound
<1> QED
  BY <1>3, NoticesSuffice

(* The notice of a round is pushed by the message that completes its tally.  *)
LEMMA HandlerNoticesSound ==
    ASSUME EngineInv, NEW s \in Server, NEW q \in Server, NEW m \in Sent, Handled(s, q, m)
    PROVE  NoticesSound'
<1>0. /\ TypeOK /\ \A t \in Server : TallyKept(t)
      /\ UNCHANGED <<proposal, state, vote, decision>>
  BY HandlerTallySound DEF EngineInv, Handled, executorVars
<1>1. Kept
  BY <1>0 DEF Kept
<1>2. ASSUME UNCHANGED <<queue, handler>>
      PROVE  NoticesSound'
  BY <1>0, <1>1, <1>2, OldNoticesSound, NoticesSuffice
<1>3. ASSUME NEW T, NEW n \in Notice, NotifyIfEnough(s, T, n), HasEnoughMsg(T) => Sound(s, n)'
      PROVE  NoticesSound'
  BY <1>0, <1>1, <1>2, <1>3, PushSound DEF NotifyIfEnough
<1>4. /\ recvProposal \in [Server -> [Server -> Object \cup {None}]]
      /\ recvState \in [Server -> [Phase -> [Server -> Bit \cup {Unknown, None}]]]
      /\ recvVote \in [Server -> [Phase -> [Server -> Bit \cup {Unknown, None}]]]
  BY <1>0 DEF TypeOK
<1>5. CASE HandleProposal(s, q, m)
  <2> DEFINE T == [recvProposal[s] EXCEPT ![q] = m.value]
             n == Message("Proposal", 0, None)
  <2>1. recvProposal' = [recvProposal EXCEPT ![s] = T] /\ NotifyIfEnough(s, T, n)
    BY <1>5 DEF HandleProposal
  <2>2. n \in Notice
    BY NoticeKinds, PhaseAssumption DEF Phase
  <2> HIDE DEF T
  <2>3. HasEnoughMsg(T) => Sound(s, n)'
    BY <1>4, <2>1 DEF Sound, Message
  <2> HIDE DEF n
  <2> QED
    BY <1>3, <2>1, <2>2, <2>3
<1>6. CASE HandleState(s, q, m)
  <2> DEFINE T == [recvState[s][m.phase] EXCEPT ![q] = m.value]
  <2>1. /\ m.type = "State" /\ recvState' = [recvState EXCEPT ![s][m.phase] = T]
        /\ NotifyIfEnough(s, T, Message("State", m.phase, None))
    BY <1>6 DEF HandleState
  <2>2. m.phase \in Phase /\ Message("State", m.phase, None) \in Notice
    BY <2>1, SentKinds, NoticeKinds
  <2>3. m.phase > 0
    <3>1. PICK i \in DOMAIN sent[q] : m = sent[q][i]
      BY DEF Handled
    <3>2. m.value = state[q][m.phase] /\ m.value # None
      BY <2>1, <3>1, SentKinds, Values DEF EngineInv, SentSound, Genuine
    <3>3. state[q][0] = None
      BY Broadcasts DEF EngineInv
    <3> QED
      BY <2>2, <3>2, <3>3 DEF Phase
  <2> HIDE DEF T
  <2>4. recvState'[s][m.phase] = T
    BY <1>4, <2>1, <2>2
  <2>5. HasEnoughMsg(T) => Sound(s, Message("State", m.phase, None))'
    BY <2>3, <2>4 DEF Sound, Message
  <2> QED
    BY <1>3, <2>1, <2>2, <2>5
<1>7. CASE HandleVote(s, q, m)
  <2> DEFINE T == [recvVote[s][m.phase] EXCEPT ![q] = m.value]
  <2>1. /\ m.type = "Vote" /\ recvVote' = [recvVote EXCEPT ![s][m.phase] = T]
        /\ NotifyIfEnough(s, T, Message("Vote", m.phase, None))
    BY <1>7 DEF HandleVote
  <2>2. m.phase \in Phase /\ Message("Vote", m.phase, None) \in Notice
    BY <2>1, SentKinds, NoticeKinds
  <2> HIDE DEF T
  <2>3. recvVote'[s][m.phase] = T
    BY <1>4, <2>1, <2>2
  <2>4. HasEnoughMsg(T) => Sound(s, Message("Vote", m.phase, None))'
    BY <2>3 DEF Sound, Message
  <2> QED
    BY <1>3, <2>1, <2>2, <2>4
<1>8. CASE HandleDecision(s, q, m)
  <2>1. m.type = "Decision" /\ PushThen(s, m, Mark) /\ m \in Notice
    BY <1>8, SentKinds DEF HandleDecision
  <2>2. PICK i \in DOMAIN sent[q] : m = sent[q][i]
    BY DEF Handled
  <2>3. m.value = decision[q]
    BY <2>1, <2>2 DEF EngineInv, SentSound, Genuine
  <2>4. Sound(s, m)'
    BY <1>0, <2>1, <2>3 DEF Sound
  <2> QED
    BY <1>0, <1>1, <2>1, <2>4, PushSound
<1>9. CASE HandleRequest(s, q, m)
  BY <1>2, <1>9 DEF HandleRequest
<1> QED
  BY <1>5, <1>6, <1>7, <1>8, <1>9 DEF Handled

LEMMA ExecutorRequestsSound ==
    ASSUME EngineInv, NEW s \in Server, ExecutorStep(s)
    PROVE  RequestsSound'
<1> SUFFICES ASSUME NEW t \in Server PROVE RequestSound(t)'
  BY DEF RequestsSound
<1>0. TypeOK /\ RequestSound(t) /\ Kept /\ TallyKept(t)
  BY ExecutorKeeps, ExecutorTallyKept DEF EngineInv, RequestsSound
<1>1. \A r \in replies'[t] : Backed(r.value)'
  <2>1. UNCHANGED replies /\ \A r \in replies[t] : r.value \in Proposal
    BY <1>0 DEF ExecutorStep, Took, handlerVars, TypeOK
  <2> QED
    BY <1>0, <2>1, BackedStays DEF RequestSound
<1>2. /\ pc \in [Server -> {"idle", "wait", "request", "done", "panic"}]
      /\ phase \in [Server -> Phase] /\ round \in [Server -> 0 .. 3]
      /\ vote \in [Server -> [Phase -> Bit \cup {Unknown, None}]]
      /\ 0 \in Phase /\ phase[s] + 1 # phase[s]
  BY <1>0, PhaseAssumption DEF TypeOK, Phase
<1>3. vote'[t][0] = 1 => HasEnoughMsg(recvProposal[t]) /\ MajProposals(t, Majority) # {}
  <2>1. CASE vote'[t][0] = vote[t][0]
    BY <1>0, <2>1 DEF RequestSound
  <2>2. CASE t = s /\ Voted(s) /\ phase[s] = 0
    <3>1. PICK v \in Bit \cup {Unknown} :
             /\ vote' = [vote EXCEPT ![s][phase[s]] = v]
             /\ phase[s] = 0 /\ v = 1 => MajProposals(s, Majority) # {}
      BY <2>2 DEF Voted, CastVote
    <3>2. vote'[t][0] = v
      BY <1>2, <2>2, <3>1
    <3> QED
      BY <2>2, <3>1, <3>2 DEF Voted
  <2>3. CASE Voted(s) /\ (t # s \/ phase[s] # 0)
    <3>1. PICK v : vote' = [vote EXCEPT ![s][phase[s]] = v]
      BY <2>3 DEF Voted, CastVote
    <3>2. vote'[t][0] = vote[t][0]
      BY <1>2, <2>3, <3>1
    <3> QED
      BY <2>1, <3>2
  <2>4. Voted(s) \/ UNCHANGED vote
    BY DEF ExecutorStep, Start, Stated, CastState, Concluded, Conclude, Asked,
           RequestProposal, Learned, executorVars
  <2> QED
    BY <2>1, <2>2, <2>3, <2>4
<1>4. vote'[t][0] = 1 => HasEnoughMsg(recvProposal'[t]) /\ MajProposals(t, Majority)' # {}
  BY <1>0, <1>3 DEF TallyKept
<1>5. pc'[t] = "request" =>
          /\ phase'[t] = phase[t] /\ round'[t] = round[t]
          /\ recvState'[t] = recvState[t] /\ recvVote'[t] = recvVote[t]
          /\ \/ pc[t] = "request"
             \/ t = s /\ Asked(s)
  <2>1. CASE t # s
    BY <2>1, ExecutorLocal
  <2>2. CASE t = s /\ Asked(s)
    BY <2>2 DEF Asked, RequestProposal, tallyVars
  <2>3. CASE t = s /\ (Learned(s) \/ Concluded(s) \/ \E m \in Proposal : Start(s, m))
    BY <1>2, <2>3 DEF Learned, Concluded, Conclude, Start
  <2>4. CASE t = s /\ (Voted(s) \/ Stated(s))
    BY <1>2, <2>4 DEF Voted, CastVote, Stated, CastState
  <2>5. CASE UNCHANGED <<executorVars, tallyVars>>
    BY <2>5 DEF executorVars, tallyVars
  <2> QED
    BY <2>1, <2>2, <2>3, <2>4, <2>5 DEF ExecutorStep
<1>6. pc'[t] = "request" =>
          \/ /\ round[t] = 1 /\ phase[t] > 0
             /\ DecidesOne(recvState[t][phase[t]], MajorityPlusF)
          \/ /\ round[t] = 2
             /\ DecidesOne(recvVote[t][phase[t]], FaultyPlusOne)
  BY <1>0, <1>5 DEF RequestSound, Asked
<1>7. pc'[t] = "request" =>
          \/ /\ round'[t] = 1 /\ phase'[t] > 0
             /\ DecidesOne(recvState'[t][phase'[t]], MajorityPlusF)
          \/ /\ round'[t] = 2
             /\ DecidesOne(recvVote'[t][phase'[t]], FaultyPlusOne)
  BY <1>5, <1>6
<1> QED
  BY <1>1, <1>4, <1>7 DEF RequestSound, DecidesOne

LEMMA HandlerRequestsSound ==
    ASSUME EngineInv, NEW s \in Server, NEW q \in Server, NEW m \in Sent, Handled(s, q, m)
    PROVE  RequestsSound'
<1> SUFFICES ASSUME NEW t \in Server PROVE RequestSound(t)'
  BY DEF RequestsSound
<1>0. /\ TypeOK /\ RequestSound(t) /\ TallyKept(t) /\ TallySound(s)
      /\ UNCHANGED <<pc, phase, round, proposal, vote>>
  BY HandlerTallySound DEF EngineInv, RequestsSound, TalliesSound, Handled, executorVars
<1>1. \A r \in replies'[t] : Backed(r.value)
  <2>1. CASE UNCHANGED replies
    BY <1>0, <2>1 DEF RequestSound
  <2>2. CASE HandleRequest(s, q, m)
    <3> DEFINE W == IF HasEnoughMsg(recvProposal[s]) THEN MajProposals(s, Majority) ELSE {}
               A == {[from |-> s, value |-> v] : v \in W}
    <3>1. replies' = [replies EXCEPT ![q] = @ \cup A] /\ \A r \in A : Backed(r.value)
      BY <1>0, <2>2 DEF HandleRequest, TallySound
    <3>2. replies \in [Server -> SUBSET [from : Server, value : Proposal]]
      BY <1>0 DEF TypeOK
    <3> HIDE DEF A
    <3>3. \A r \in replies'[t] : r \in replies[t] \/ r \in A
      BY <3>1, <3>2
    <3> QED
      BY <1>0, <3>1, <3>3 DEF RequestSound
  <2> QED
    BY <2>1, <2>2
       DEF Handled, HandleProposal, HandleState, HandleVote, HandleDecision
<1>2. \A r \in replies'[t] : Backed(r.value)'
  BY <1>0, <1>1 DEF Backed
<1>3. vote'[t][0] = 1 => HasEnoughMsg(recvProposal'[t]) /\ MajProposals(t, Majority)' # {}
  BY <1>0 DEF RequestSound, TallyKept
<1>4. pc[t] = "request" =>
          \/ /\ round[t] = 1 /\ phase[t] > 0
             /\ DecidesOne(recvState'[t][phase[t]], MajorityPlusF)
          \/ /\ round[t] = 2
             /\ DecidesOne(recvVote'[t][phase[t]], FaultyPlusOne)
  <2>1. /\ phase[t] \in Phase
        /\ HasEnoughMsg(recvState[t][phase[t]]) =>
              recvState'[t][phase[t]] = recvState[t][phase[t]]
        /\ HasEnoughMsg(recvVote[t][phase[t]]) =>
              recvVote'[t][phase[t]] = recvVote[t][phase[t]]
    BY <1>0, CompleteFixed DEF TypeOK
  <2> QED
    BY <1>0, <2>1 DEF RequestSound, DecidesOne
<1> QED
  BY <1>0, <1>2, <1>3, <1>4 DEF RequestSound, DecidesOne

LEMMA ExecutorRounds ==
    ASSUME EngineInv, NEW s \in Server, ExecutorStep(s)
    PROVE  Rounds'
<1> SUFFICES ASSUME NEW t \in Server
             PROVE  /\ pc'[t] \in {"wait", "request", "panic"} => round'[t] \in {1, 2}
                    /\ pc'[t] = "done" => decision'[t] # None
  BY DEF Rounds
<1>0. /\ TypeOK /\ Kept
      /\ pc[t] \in {"wait", "request", "panic"} => round[t] \in {1, 2}
      /\ pc[t] = "done" => decision[t] # None
  BY ExecutorKeeps DEF EngineInv, Rounds
<1>1. CASE t # s
  BY <1>0, <1>1, ExecutorLocal
<1>2. CASE t = s
  <2>1. /\ pc \in [Server -> {"idle", "wait", "request", "done", "panic"}]
        /\ round \in [Server -> 0 .. 3]
        /\ decision \in [Server -> Object \cup {None}]
        /\ \A d \in Object : d # None
    BY <1>0, Values DEF TypeOK
  <2>2. CASE \E m \in Proposal : Start(s, m)
    BY <1>2, <2>1, <2>2 DEF Start
  <2>3. CASE Voted(s)
    BY <1>2, <2>1, <2>3 DEF Voted, CastVote
  <2>4. CASE Stated(s)
    BY <1>2, <2>1, <2>4 DEF Stated, CastState
  <2>5. CASE Concluded(s) \/ Learned(s)
    BY <1>2, <2>1, <2>5 DEF Concluded, Conclude, Learned
  <2>6. CASE Asked(s)
    BY <1>0, <1>2, <2>1, <2>6 DEF Asked, RequestProposal
  <2>7. CASE UNCHANGED <<executorVars, tallyVars>>
    BY <1>0, <2>7 DEF executorVars
  <2> QED
    BY <2>2, <2>3, <2>4, <2>5, <2>6, <2>7 DEF ExecutorStep
<1> QED
  BY <1>1, <1>2

-----------------------------------------------------------------------------
(* The invariant.                                                           *)

LEMMA TallySoundSame ==
    ASSUME EngineInv, UNCHANGED <<executorVars, tallyVars>>
    PROVE  /\ TalliesSound' /\ Rounds' /\ Kept /\ \A t \in Server : TallyKept(t)
           /\ UNCHANGED replies => RequestsSound'
<1>0. /\ UNCHANGED <<pc, phase, round, proposal, state, vote, decision>>
      /\ UNCHANGED <<recvProposal, recvState, recvVote>>
  BY DEF executorVars, tallyVars
<1>1. Kept /\ \A t \in Server : TallyKept(t)
  BY <1>0, SameTallyKept DEF Kept
<1>2. ASSUME NEW t \in Server
      PROVE  TallySound(t)'
  <2>1. /\ OpenProposals(t)' <=> OpenProposals(t)
        /\ \A p \in Phase : /\ OpenStates(t, p)' <=> OpenStates(t, p)
                            /\ OpenVotes(t, p)' <=> OpenVotes(t, p)
    BY <1>0 DEF OpenProposals, OpenStates, OpenVotes
  <2> QED
    BY <1>0, <1>1, <2>1, TallySoundStays
<1>3. Rounds'
  BY <1>0 DEF EngineInv, Rounds
<1>4. ASSUME UNCHANGED replies
      PROVE  RequestsSound'
  BY <1>0, <1>4 DEF EngineInv, RequestsSound, RequestSound, DecidesOne, MajProposals, Backed
<1> QED
  BY <1>1, <1>2, <1>3, <1>4 DEF TalliesSound

LEMMA OtherSound ==
    ASSUME EngineInv, NEW s \in Server, Unblock(s) \/ MarkDecision(s) \/ Crash(s)
    PROVE  TalliesSound' /\ SentSound' /\ NoticesSound' /\ RequestsSound' /\ Rounds'
<1>1. UNCHANGED <<executorVars, tallyVars>> /\ UNCHANGED replies
  BY DEF Unblock, MarkDecision, Crash, handlerVars
<1>2. /\ TalliesSound' /\ Rounds' /\ Kept /\ \A t \in Server : TallyKept(t)
      /\ RequestsSound'
  BY <1>1, TallySoundSame
<1>3. SentSound'
  BY <1>1, <1>2, SameSent DEF EngineInv, executorVars
<1>4. NoticesSound'
  <2>1. CASE Unblock(s)
    <3> DEFINE rest == IF handler[s].type = "Decision" THEN Mark ELSE Free
    <3>1. PICK n \in Notice : n = handler[s]
      BY <2>1 DEF Unblock, EngineInv, TypeOK
    <3>2. PushThen(s, n, rest) /\ rest \in {Free, Mark}
      BY <2>1, <3>1 DEF Unblock
    <3>3. Sound(s, n)'
      BY <1>2, <3>1, OldNoticesSound
    <3> HIDE DEF rest
    <3> QED
      BY <1>2, <3>2, <3>3, PushSound
  <2>2. CASE MarkDecision(s)
    <3>1. \A t \in Server : handler'[t] \in {handler[t], Free, Mark}
      BY <2>2 DEF MarkDecision, EngineInv, TypeOK
    <3>2. UNCHANGED queue
      BY <2>2 DEF MarkDecision
    <3> QED
      BY <1>2, <3>1, <3>2, OldNoticesSound, NoticesSuffice
  <2>3. CASE Crash(s)
    BY <1>2, <2>3, OldNoticesSound, NoticesSuffice DEF Crash, handlerVars
  <2> QED
    BY <2>1, <2>2, <2>3
<1> QED
  BY <1>2, <1>3, <1>4

LEMMA StutterSound ==
    ASSUME EngineInv, UNCHANGED vars
    PROVE  /\ TalliesSound' /\ SentSound' /\ NoticesSound' /\ RequestsSound' /\ Rounds'
           /\ EngineTypes'
<1>1. /\ UNCHANGED <<executorVars, tallyVars>> /\ UNCHANGED <<replies, sent, queue, handler>>
      /\ UNCHANGED <<pc, recvProposal, recvState, recvVote, requests, hasRecvDec, crashed>>
  BY DEF vars, handlerVars, executorVars, tallyVars
<1>2. /\ TalliesSound' /\ Rounds' /\ Kept /\ \A t \in Server : TallyKept(t)
      /\ RequestsSound'
  BY <1>1, TallySoundSame
<1>3. SentSound'
  BY <1>1, <1>2, SameSent DEF EngineInv
<1>4. NoticesSound'
  BY <1>1, <1>2, OldNoticesSound, NoticesSuffice
<1>5. EngineTypes'
  BY <1>1 DEF EngineInv, TypeOK, EngineTypes
<1> QED
  BY <1>2, <1>3, <1>4, <1>5

(* A step is one of an executor, of a handler, of a handler that had stopped *)
(* half way, or a crash.                                                     *)
LEMMA StepKinds ==
    ASSUME EngineInv, [Next]_vars
    PROVE  \/ \E s \in Server : \/ ExecutorStep(s)
                                \/ \E q \in Server : \E m \in Sent : Handled(s, q, m)
                                \/ Unblock(s) \/ MarkDecision(s) \/ Crash(s)
           \/ UNCHANGED vars
<1>1. CASE Next
  <2>1. PICK s \in Server :
          \/ \E m \in Proposal : Start(s, m)
          \/ Executor(s)
          \/ \E r \in replies[s] : ReceiveReply(s, r)
          \/ \E q \in Server : MsgHandler(s, q)
          \/ Unblock(s)
          \/ MarkDecision(s)
          \/ Crash(s)
    BY <1>1 DEF Next
  <2>2. CASE \E q \in Server : MsgHandler(s, q)
    BY <2>2, HandledMessage DEF EngineInv
  <2>3. CASE \/ \E m \in Proposal : Start(s, m)
             \/ Executor(s)
             \/ \E r \in replies[s] : ReceiveReply(s, r)
    BY <2>3, ExecutorEffect
  <2> QED
    BY <2>1, <2>2, <2>3
<1> QED
  BY <1>1

LEMMA EngineInvariance == EngineInv /\ [Next]_vars => EngineInv'
<1> SUFFICES ASSUME EngineInv, [Next]_vars PROVE EngineInv'
  OBVIOUS
<1>1. Weak!IndInv'
  BY AlgorithmInvariant
<1>2. ASSUME EngineTypes', TalliesSound', SentSound', NoticesSound', RequestsSound', Rounds'
      PROVE  EngineInv'
  <2>1. TypeOK'
    BY <1>1, <1>2, TypesSuffice, PTL
  <2> QED
    BY <1>1, <1>2, <2>1 DEF EngineInv
<1>3. ASSUME NEW s \in Server, ExecutorStep(s)
      PROVE  EngineInv'
  BY <1>2, <1>3, ExecutorTypes, ExecutorTallySound, ExecutorSentSound, ExecutorNoticesSound,
     ExecutorRequestsSound, ExecutorRounds DEF TalliesSound
<1>4. ASSUME NEW s \in Server, NEW q \in Server, NEW m \in Sent, Handled(s, q, m)
      PROVE  EngineInv'
  <2>1. UNCHANGED <<pc, phase, round, proposal, state, vote, decision, sent>>
    BY <1>4 DEF Handled, executorVars
  <2>2. Rounds' /\ Kept
    BY <2>1 DEF EngineInv, Rounds, Kept
  <2>3. SentSound'
    BY <2>1, <2>2, SameSent DEF EngineInv
  <2> QED
    BY <1>2, <1>4, <2>2, <2>3, HandlerTypes, HandlerTallySound, HandlerNoticesSound,
       HandlerRequestsSound DEF TalliesSound
<1>5. ASSUME NEW s \in Server, Unblock(s) \/ MarkDecision(s) \/ Crash(s)
      PROVE  EngineInv'
  BY <1>2, <1>5, OtherTypes, OtherSound
<1>6. ASSUME UNCHANGED vars
      PROVE  EngineInv'
  BY <1>2, <1>6, StutterSound
<1> QED
  BY <1>3, <1>4, <1>5, <1>6, StepKinds

LEMMA InitInvariant == Init => EngineInv
<1> SUFFICES ASSUME Init PROVE EngineInv
  OBVIOUS
<1>0. /\ pc = [s \in Server |-> "idle"] /\ phase = [s \in Server |-> 0]
      /\ round = [s \in Server |-> 0] /\ proposal = [s \in Server |-> None]
      /\ vote = [s \in Server |-> [p \in Phase |-> None]]
      /\ recvProposal = [s \in Server |-> NoTally]
      /\ recvState = [s \in Server |-> [p \in Phase |-> NoTally]]
      /\ recvVote = [s \in Server |-> [p \in Phase |-> NoTally]]
      /\ sent = [s \in Server |-> << >>] /\ queue = [s \in Server |-> << >>]
      /\ handler = [s \in Server |-> Free] /\ replies = [s \in Server |-> {}]
      /\ 0 \in Phase /\ \A p \in Phase : p \in Nat
  BY PhaseAssumption DEF Init, Phase
<1>1. TypeOK
  <2>1. NoTally \in [Server -> Object \cup {None}]
        /\ NoTally \in [Server -> Bit \cup {Unknown, None}]
    BY DEF NoTally
  <2>2. \A s \in Server : queue[s] = << >> /\ Len(queue[s]) <= QueueCap
    BY <1>0, QueueAssumption
  <2>3. sent \in [Server -> Seq(Sent)] /\ queue \in [Server -> Seq(Notice)]
    BY <1>0
  <2> QED
    BY <1>0, <2>1, <2>2, <2>3 DEF Init, TypeOK
<1>2. Weak!IndInv
  <2>1. AlgorithmPc = [s \in Server |-> "idle"]
    BY <1>0 DEF AlgorithmPc
  <2>2. Weak!Init
    BY <2>1, SameConstants DEF Init, Weak!Init
  <2> QED
    BY <2>2, SameAssumptions, Weak!InitIndInv
<1>3. TalliesSound
  <2> SUFFICES ASSUME NEW s \in Server PROVE TallySound(s)
    BY DEF TalliesSound
  <2>1. \A v : v # None => TallyOf(NoTally, v) = 0
    BY Uniform DEF NoTally
  <2>2. \A m \in Proposal : TallyOf(NoTally, m) = 0
    BY <2>1, Values
  <2>3. MajProposals(s, Majority) = {}
    BY <1>0, <2>2, Sizes DEF MajProposals
  <2>4. Tallied(NoTally) = {}
    BY DEF Tallied, NoTally
  <2>5. Cardinality(Tallied(NoTally)) <= NMinusF
    BY <2>4, FS_EmptySet, Sizes
  <2>6. ASSUME NEW cast
        PROVE  SampleOf(NoTally, cast)
    BY <2>4, <2>5 DEF SampleOf, NoTally
  <2>7. OpenProposals(s) /\ \A p \in Phase : OpenStates(s, p) /\ OpenVotes(s, p)
    BY <1>0 DEF OpenProposals, OpenStates, OpenVotes
  <2> QED
    BY <1>0, <2>3, <2>6, <2>7 DEF TallySound
<1>4. SentSound /\ NoticesSound
  BY <1>0 DEF SentSound, NoticesSound, Sound, Free, Message
<1>5. RequestsSound /\ Rounds
  BY <1>0, Values DEF RequestsSound, RequestSound, Rounds
<1> QED
  BY <1>1, <1>2, <1>3, <1>4, <1>5 DEF EngineInv

(* The invariant of the engine: its algorithm's, and that tallies, messages, *)
(* notices and replies tell of what servers broadcast.                       *)
THEOREM Invariance == Spec => []EngineInv
<1> QED
  BY InitInvariant, EngineInvariance, PTL DEF Spec

(* The two routines keep to their rounds, notices and capacity.              *)
THEOREM TypeCorrect == Spec => []TypeOK
<1>1. EngineInv => TypeOK
  BY DEF EngineInv
<1> QED
  BY <1>1, Invariance, PTL

-----------------------------------------------------------------------------
(* The algorithm that SlotEngine names is the one the instance Weak is about *)
LEMMA SameAlgorithm ==
    /\ Algorithm!Init <=> Weak!Init
    /\ [Algorithm!Next]_(Algorithm!vars) <=> [Weak!Next]_(Weak!vars)
<1>1. /\ \A S : Algorithm!Cardinality(S) = Weak!Cardinality(S)
      /\ Algorithm!NServers = Weak!NServers /\ Algorithm!NMinusF = Weak!NMinusF
      /\ Algorithm!Majority = Weak!Majority
      /\ Algorithm!MajorityPlusF = Weak!MajorityPlusF
      /\ Algorithm!FaultyPlusOne = Weak!FaultyPlusOne
      /\ Algorithm!Phase = Weak!Phase /\ Algorithm!Bit = Weak!Bit
      /\ Algorithm!Unknown = Weak!Unknown
  BY DEF Algorithm!Cardinality, Weak!Cardinality, Algorithm!IsFiniteSet, Weak!IsFiniteSet,
         Algorithm!NServers, Weak!NServers, Algorithm!NMinusF, Weak!NMinusF,
         Algorithm!Majority, Weak!Majority, Algorithm!MajorityPlusF, Weak!MajorityPlusF,
         Algorithm!FaultyPlusOne, Weak!FaultyPlusOne, Algorithm!Phase, Weak!Phase,
         Algorithm!Bit, Weak!Bit, Algorithm!Unknown, Weak!Unknown
<1>2. Algorithm!Init <=> Weak!Init
  BY <1>1 DEF Algorithm!Init, Weak!Init
<1>3. Algorithm!vars = Weak!vars /\ Algorithm!vars' = Weak!vars'
  BY DEF Algorithm!vars, Weak!vars
<1>4. /\ \A S : Algorithm!Samples(S) = Weak!Samples(S)
      /\ Algorithm!Proposers = Weak!Proposers
      /\ \A m : Algorithm!Backers(m) = Weak!Backers(m)
      /\ \A p : /\ Algorithm!StateCasters(p) = Weak!StateCasters(p)
                /\ Algorithm!VoteCasters(p) = Weak!VoteCasters(p)
      /\ \A H, p, v : /\ Algorithm!StatedIn(H, p, v) = Weak!StatedIn(H, p, v)
                      /\ Algorithm!VotedIn(H, p, v) = Weak!VotedIn(H, p, v)
  BY <1>1
     DEF Algorithm!Samples, Weak!Samples, Algorithm!Proposers, Weak!Proposers,
         Algorithm!Backers, Weak!Backers, Algorithm!StateCasters, Weak!StateCasters,
         Algorithm!VoteCasters, Weak!VoteCasters, Algorithm!StatedIn, Weak!StatedIn,
         Algorithm!VotedIn, Weak!VotedIn
<1>5. \A b : Algorithm!ReturnValue(b) = Weak!ReturnValue(b)
  BY <1>1, <1>4 DEF Algorithm!ReturnValue, Weak!ReturnValue
<1>6. ASSUME NEW s \in Server, NEW v
      PROVE  /\ Algorithm!Propose(s, v) <=> Weak!Propose(s, v)
             /\ Algorithm!Decide(s, v) <=> Weak!Decide(s, v)
             /\ Algorithm!CastVote(s, v) <=> Weak!CastVote(s, v)
             /\ Algorithm!CastState(s, v) <=> Weak!CastState(s, v)
  BY <1>1
     DEF Algorithm!Propose, Weak!Propose, Algorithm!Decide, Weak!Decide,
         Algorithm!CastVote, Weak!CastVote, Algorithm!CastState, Weak!CastState
<1>7. ASSUME NEW s \in Server
      PROVE  /\ Algorithm!Phase0Round1(s) <=> Weak!Phase0Round1(s)
             /\ Algorithm!PhaseNRound1(s) <=> Weak!PhaseNRound1(s)
             /\ Algorithm!LearnDecision(s) <=> Weak!LearnDecision(s)
  BY <1>1, <1>4, <1>5, <1>6
     DEF Algorithm!Phase0Round1, Weak!Phase0Round1, Algorithm!PhaseNRound1,
         Weak!PhaseNRound1, Algorithm!LearnDecision, Weak!LearnDecision
<1>8. ASSUME NEW s \in Server, NEW c
      PROVE  Algorithm!Round2(s, c) <=> Weak!Round2(s, c)
  BY <1>1, <1>4, <1>5, <1>6 DEF Algorithm!Round2, Weak!Round2
<1>9. Algorithm!Next <=> Weak!Next
  BY <1>6, <1>7, <1>8
     DEF Algorithm!Next, Weak!Next, Algorithm!Phase0Round2, Weak!Phase0Round2,
         Algorithm!PhaseNRound2, Weak!PhaseNRound2
<1> QED
  BY <1>2, <1>3, <1>9

(* The engine implements the algorithm: whatever the order of messages,      *)
(* notices, requests and replies, and whichever servers crash, an executor   *)
(* goes on, votes and decides as WeakMVC allows it to.                       *)
THEOREM RefinesWeakMVC == Spec => ImplementsWeakMVC
<1>1. Init => Algorithm!Init
  <2> SUFFICES ASSUME Init PROVE Algorithm!Init
    OBVIOUS
  <2>1. AlgorithmPc = [s \in Server |-> "idle"]
    BY DEF Init, AlgorithmPc
  <2>2. Weak!Init
    BY <2>1, SameConstants DEF Init, Weak!Init
  <2> QED
    BY <2>2, SameAlgorithm
<1>2. EngineInv /\ [Next]_vars => [Algorithm!Next]_(Algorithm!vars)
  BY NextSimulated, SameAlgorithm
<1> QED
  BY <1>1, <1>2, Invariance, PTL DEF Spec, ImplementsWeakMVC, Algorithm!Spec

(* So no two servers of the engine decide the slot differently.              *)
THEOREM EngineAgreement == Spec => []Weak!Agreement
<1>1. EngineInv => Weak!Agreement
  <2>1. Weak!IndInv => Weak!Agreement
    BY SameAssumptions, Weak!AgreementFollows
  <2> QED
    BY <2>1 DEF EngineInv
<1> QED
  BY <1>1, Invariance, PTL

(* What a complete tally of proposals says is never changed by the messages  *)
(* and steps that follow: "the majority value is stable after notifying the  *)
(* Executor".                                                                *)
THEOREM MajorityStableHolds == Spec => MajorityStable
<1>1. ASSUME EngineInv, [Next]_vars, NEW t \in Server
      PROVE  TallyKept(t)
  <2>1. CASE \E s \in Server : ExecutorStep(s)
    BY <1>1, <2>1, ExecutorTallyKept
  <2>2. CASE \E s \in Server : \E q \in Server : \E m \in Sent : Handled(s, q, m)
    BY <1>1, <2>2, HandlerTallySound
  <2>3. CASE \E s \in Server : Unblock(s) \/ MarkDecision(s) \/ Crash(s)
    <3>1. UNCHANGED tallyVars
      BY <2>3 DEF Unblock, MarkDecision, Crash
    <3> QED
      BY <3>1, SameTallyKept DEF tallyVars
  <2>4. CASE UNCHANGED vars
    BY <2>4, SameTallyKept DEF vars, tallyVars
  <2> QED
    BY <1>1, <2>1, <2>2, <2>3, <2>4, StepKinds
<1>2. EngineInv /\ [Next]_vars =>
         [\A s \in Server : HasEnoughMsg(recvProposal[s]) =>
             MajProposals(s, Majority)' = MajProposals(s, Majority)]_vars
  BY <1>1 DEF TallyKept
<1> QED
  BY <1>2, Invariance, PTL DEF Spec, MajorityStable

(* The round statistics of a decided slot are within their array, although   *)
(* Round is incremented before they are taken.                               *)
THEOREM StatIndexInRangeHolds == Spec => []StatIndexInRange
<1>1. EngineInv => StatIndexInRange
  <2> SUFFICES ASSUME EngineInv, NEW s \in Server
               PROVE  StatIndex(s) < LenBlockArray * 2 + 2
    BY DEF StatIndexInRange
  <2>1. /\ phase[s] \in Int /\ phase[s] >= 0 /\ phase[s] <= LenBlockArray - 1
        /\ round[s] \in Int /\ round[s] >= 0 /\ round[s] <= 3
        /\ LenBlockArray \in Int /\ LenBlockArray >= 1
    <3>1. phase[s] \in 0 .. LenBlockArray - 1 /\ round[s] \in 0 .. 3
      BY DEF EngineInv, TypeOK, Phase
    <3> QED
      BY <3>1, PhaseAssumption
  <2> DEFINE n == phase[s] * 2 + round[s]
  <2>2. n \in Int /\ n <= LenBlockArray * 2 + 1 /\ 3 < LenBlockArray * 2 + 2
    BY <2>1
  <2> HIDE DEF n
  <2>3. n % 2 = 0 => n + 1 < LenBlockArray * 2 + 2
    BY <2>1, <2>2
  <2>4. StatIndex(s) \in {3, n} \/ (n % 2 = 0 /\ StatIndex(s) = n + 1)
    BY DEF StatIndex, n
  <2> QED
    BY <2>1, <2>2, <2>3, <2>4
<1> QED
  BY <1>1, Invariance, PTL

(* A binary 1 goes back to a vote for 1 in phase 0.                          *)
LEMMA FirstVote ==
    ASSUME Weak!IndInv, NEW q \in Server, NEW p \in Phase,
           vote[q][p] = 1 \/ (p > 0 /\ state[q][p] = 1)
    PROVE  \E h \in Server : vote[h][0] = 1
<1>0. /\ \A r \in Phase : r \in Nat
      /\ \A r \in Phase : r > 0 => 1 \in 1 .. r /\ 1 \in Phase \ {0} /\ 1 - 1 = 0
      /\ 0 \in Phase /\ 1 \in Bit /\ 1 # None /\ 1 # Unknown
  BY PhaseAssumption, Values DEF Phase, Bit, Unknown
<1>1. Weak!Founded /\ Weak!StateTrace
  BY DEF Weak!IndInv
<1>2. ASSUME NEW t \in Server, NEW r \in Phase, r > 0, state[t][r] = 1
      PROVE  \E h \in Server : vote[h][0] = 1
  <2>1. PICK u \in Server : state[u][1] = 1
    BY <1>0, <1>1, <1>2, SameConstants DEF Weak!StateTrace
  <2>2. Weak!StateBasis(0, 1)
    <3>1. 1 \in Phase \ {0} /\ state[u][1] # None
      BY <1>0, <1>2, <2>1
    <3>2. Weak!StateBasis(1 - 1, state[u][1])
      BY <1>1, <3>1, SameConstants DEF Weak!Founded
    <3> QED
      BY <2>1, <3>2
  <2>3. PICK H \in Weak!Samples(Weak!VoteCasters(0)) : \E h \in H : vote[h][0] = 1
    BY <2>2 DEF Weak!StateBasis, Weak!Fallback
  <2> QED
    BY <2>3 DEF Weak!Samples, Weak!VoteCasters
<1>3. ASSUME vote[q][p] = 1, p # 0
      PROVE  \E t \in Server : state[t][p] = 1
  <2>1. Weak!VoteBasis(p, 1)
    BY <1>0, <1>1, <1>3, SameConstants DEF Weak!Founded
  <2>2. Cardinality(Weak!StatedIn(Server, p, 1)) >= Majority
    BY <1>0, <1>3, <2>1, SameConstants, SameCardinality DEF Weak!VoteBasis
  <2>3. Weak!StatedIn(Server, p, 1) # {}
    BY <2>2, FS_EmptySet, Sizes
  <2> QED
    BY <2>3 DEF Weak!StatedIn
<1>4. p # 0 => p > 0
  BY <1>0
<1> QED
  BY <1>2, <1>3, <1>4

(* A value that a tally counts was broadcast.                                *)
LEMMA TalliedWasCast ==
    ASSUME NEW T, NEW cast, SampleOf(T, cast), NEW v, v # None, NEW k \in Nat, k >= 1,
           TallyOf(T, v) >= k
    PROVE  \E q \in Server : cast[q] = v
<1>1. {q \in Server : T[q] = v} # {}
  BY FS_EmptySet DEF TallyOf
<1> QED
  BY <1>1 DEF SampleOf

(* When a server asks for the proposal, some server has tallied it already,  *)
(* completely and with a majority: the request is not hopeless.              *)
THEOREM RequestAnswerableHolds == Spec => []RequestAnswerable
<1>1. EngineInv => RequestAnswerable
  <2> SUFFICES ASSUME EngineInv, NEW s \in Server, pc[s] = "request"
               PROVE  \E q \in Server :
                         HasEnoughMsg(recvProposal[q]) /\ MajProposals(q, Majority) # {}
    BY DEF RequestAnswerable
  <2> DEFINE p == phase[s]
  <2>1. /\ Weak!IndInv /\ p \in Phase /\ p \in Nat /\ TallySound(s)
        /\ 1 # None /\ MajorityPlusF \in Nat /\ MajorityPlusF >= 1
        /\ FaultyPlusOne \in Nat /\ FaultyPlusOne >= 1
    BY Values, Sizes DEF EngineInv, TypeOK, TalliesSound, Phase
  <2>2. \A T : \A k : DecidesOne(T, k) => TallyOf(T, 1) >= k
    BY DEF DecidesOne, MajT
  <2>3. CASE round[s] = 1 /\ p > 0 /\ DecidesOne(recvState[s][p], MajorityPlusF)
    <3>1. SampleOf(recvState[s][p], StatesOf(p))
      BY <2>1, <2>3 DEF TallySound, OpenStates
    <3>2. \E q \in Server : StatesOf(p)[q] = 1
      BY <2>1, <2>2, <2>3, <3>1, TalliedWasCast
    <3>3. \E q \in Server : state[q][p] = 1
      BY <3>2 DEF StatesOf
    <3> QED
      BY <2>1, <2>3, <3>3, FirstVote DEF EngineInv, RequestsSound, RequestSound
  <2>4. CASE round[s] = 2 /\ DecidesOne(recvVote[s][p], FaultyPlusOne)
    <3>1. SampleOf(recvVote[s][p], VotesOf(p))
      BY <2>1, <2>4 DEF TallySound, OpenVotes
    <3>2. \E q \in Server : VotesOf(p)[q] = 1
      BY <2>1, <2>2, <2>4, <3>1, TalliedWasCast
    <3>3. \E q \in Server : vote[q][p] = 1
      BY <3>2 DEF VotesOf
    <3> QED
      BY <2>1, <3>3, FirstVote DEF EngineInv, RequestsSound, RequestSound
  <2> QED
    BY <2>3, <2>4 DEF EngineInv, RequestsSound, RequestSound
<1> QED
  BY <1>1, Invariance, PTL

-----------------------------------------------------------------------------
(* The rounds in order: round r of phase p has rank 2 * p + r.               *)
RoundNotice(n) == n.type \in {"Proposal", "State", "Vote"}
RoundOf(n) == IF n.type = "Vote" THEN 2 ELSE 1
Rank(n) == 2 * n.phase + RoundOf(n)
Tally(s, p, r) ==
    IF r = 2 THEN recvVote[s][p] ELSE IF p = 0 THEN recvProposal[s] ELSE recvState[s][p]

(* The rank of the round that the executor waits for, or will first.         *)
Waiting(s) == IF round[s] = 0 THEN 1 ELSE 2 * phase[s] + round[s]

(* A server broadcasts the messages of its rounds in order.                  *)
SentBefore(q, i, k) == \E j \in DOMAIN sent[q] : j < i /\ RoundNotice(sent[q][j]) /\ Rank(sent[q][j]) = k
SentInOrder ==
    \A q \in Server :
        /\ \A i \in DOMAIN sent[q] :
              RoundNotice(sent[q][i]) /\ Rank(sent[q][i]) > 1 =>
                  SentBefore(q, i, Rank(sent[q][i]) - 1)
        /\ pc[q] = "wait" => SentBefore(q, Len(sent[q]) + 1, Waiting(q))

(* So a handler has dealt with those of one round before those of the next.  *)
Past(s, p, r, q) == Tally(s, p, r)[q] # None \/ HasEnoughMsg(Tally(s, p, r))
TalliedInOrder ==
    \A s \in Server : pc[s] # "done" =>
        \A p \in Phase : \A q \in Server :
            /\ Tally(s, p, 2)[q] # None => Past(s, p, 1, q)
            /\ p > 0 /\ Tally(s, p, 1)[q] # None => Past(s, p - 1, 2, q)

(* The first round the handler has not produced a notice for.                *)
Known(s) ==
    Waiting(s) + Len(queue[s]) +
        IF handler[s] = Mark THEN -1 ELSE IF RoundNotice(handler[s]) THEN 1 ELSE 0

(* The notices are in the queue in the order of the rounds, from the one the *)
(* executor waits for, and a Decision comes last.                            *)
QueueInOrder(s) ==
    /\ \A i \in DOMAIN queue[s] :
          /\ RoundNotice(queue[s][i]) => Rank(queue[s][i]) = Waiting(s) + i - 1
          /\ queue[s][i].type = "Decision" => i = Len(queue[s]) /\ handler[s] = Mark
    /\ RoundNotice(handler[s]) => Rank(handler[s]) = Waiting(s) + Len(queue[s])
    /\ \A p \in Phase : \A r \in {1, 2} :
          HasEnoughMsg(Tally(s, p, r)) <=> 2 * p + r < Known(s)
QueuesInOrder ==
    \A s \in Server :
        pc[s] \in {"idle", "wait"} /\ ~hasRecvDec[s] => QueueInOrder(s)

(* The Decision notice: in the handler, in the queue or learned.             *)
Holds(s, i) == queue[s][i].type = "Decision"
DecisionOnce(s) ==
    /\ \A i, j \in DOMAIN queue[s] : Holds(s, i) /\ Holds(s, j) => i = j
    /\ ~hasRecvDec[s] /\ handler[s] # Mark => \A i \in DOMAIN queue[s] : ~Holds(s, i)
    /\ (hasRecvDec[s] \/ handler[s] = Mark) /\ pc[s] \in {"idle", "wait"} =>
          \E i \in DOMAIN queue[s] : Holds(s, i)
    /\ handler[s].type = "Decision" => ~hasRecvDec[s]
    /\ handler[s] = Mark => ~hasRecvDec[s]
DecisionsOnce == \A s \in Server : DecisionOnce(s)

OrderInv == EngineInv /\ SentInOrder /\ TalliedInOrder /\ QueuesInOrder /\ DecisionsOnce

-----------------------------------------------------------------------------
LEMMA RankFacts ==
    ASSUME NEW n, n.phase \in Nat
    PROVE  Rank(n) \in Nat /\ Rank(n) >= 1 /\ RoundOf(n) \in {1, 2}
  BY DEF Rank, RoundOf

(* What the executor of s broadcasts in a step, if anything.                 *)
LEMMA ExecutorSends ==
    ASSUME EngineInv, NEW s \in Server, ExecutorStep(s)
    PROVE  \/ sent'[s] = sent[s] /\ (pc'[s] = "wait" => pc[s] = "wait" /\ UNCHANGED <<phase, round>>)
           \/ \E m \in Sent :
                 /\ sent'[s] = Append(sent[s], m)
                 /\ RoundNotice(m) => /\ Rank(m) = Waiting(s)' 
                                      /\ \/ Rank(m) = 1
                                         \/ pc[s] = "wait" /\ Rank(m) = Waiting(s) + 1
                 /\ pc'[s] = "wait" => RoundNotice(m)
<1>0. /\ pc \in [Server -> {"idle", "wait", "request", "done", "panic"}]
      /\ phase \in [Server -> Phase] /\ round \in [Server -> 0 .. 3] /\ sent \in [Server -> Seq(Sent)]
      /\ phase[s] \in Nat /\ phase[s] \in Phase
  BY DEF EngineInv, TypeOK, Phase
<1>1. CASE \E m \in Proposal : Start(s, m)
  <2>1. PICK m \in Proposal : Start(s, m)
    BY <1>1
  <2>2. phase[s] = 0
    BY <2>1, Broadcasts DEF EngineInv, Start
  <2> DEFINE n == Message("Proposal", 0, m)
  <2>3. /\ n \in Sent /\ sent'[s] = Append(sent[s], n)
        /\ round'[s] = 1 /\ phase'[s] = 0
        /\ RoundNotice(n) /\ Rank(n) = 1
    BY <1>0, <2>1, <2>2, SentTypes
       DEF Start, Broadcast, Message, RoundNotice, Rank, RoundOf
  <2>4. Waiting(s)' = 1
    BY <2>3 DEF Waiting
  <2> HIDE DEF n
  <2> QED
    BY <2>3, <2>4
<1>2. CASE Voted(s)
  <2>1. PICK v \in Bit \cup {Unknown} : CastVote(s, v)
    BY <1>2 DEF Voted
  <2> DEFINE n == Message("Vote", phase[s], v)
  <2>2. /\ n \in Sent /\ sent'[s] = Append(sent[s], n)
        /\ pc[s] = "wait" /\ round[s] = 1 /\ round'[s] = 2 /\ phase'[s] = phase[s]
        /\ RoundNotice(n) /\ Rank(n) = 2 * phase[s] + 2
    BY <1>0, <1>2, <2>1, SentTypes
       DEF Voted, CastVote, Broadcast, Message, RoundNotice, Rank, RoundOf
  <2>3. Waiting(s) = 2 * phase[s] + 1 /\ Waiting(s)' = 2 * phase[s] + 2
    BY <2>2 DEF Waiting
  <2> HIDE DEF n
  <2> QED
    BY <1>0, <2>2, <2>3
<1>3. CASE Stated(s)
  <2>1. PICK v \in Bit : CastState(s, v)
    BY <1>3 DEF Stated
  <2>2. CASE phase[s] + 1 \in Phase
    <3>0. PICK k \in Phase : k = phase[s] + 1
      BY <2>2
    <3> DEFINE n == Message("State", k, v)
    <3>1. /\ n \in Sent /\ sent'[s] = Append(sent[s], n)
          /\ pc[s] = "wait" /\ round[s] = 2 /\ round'[s] = 1 /\ phase'[s] = k
          /\ RoundNotice(n) /\ Rank(n) = 2 * k + 1
      BY <1>0, <1>3, <2>1, <2>2, <3>0, SentTypes
         DEF Stated, CastState, Broadcast, Message, RoundNotice, Rank, RoundOf
    <3>2. Waiting(s) = 2 * phase[s] + 2 /\ Waiting(s)' = 2 * k + 1
      BY <3>1 DEF Waiting
    <3>3. 2 * k + 1 = (2 * phase[s] + 2) + 1
      BY <1>0, <3>0
    <3> HIDE DEF n
    <3> QED
      BY <3>1, <3>2, <3>3
  <2>3. CASE phase[s] + 1 \notin Phase
    BY <1>0, <2>1, <2>3 DEF CastState
  <2> QED
    BY <2>2, <2>3
<1>4. CASE Concluded(s)
  <2>1. PICK d \in Object : Conclude(s, d)
    BY <1>4 DEF Concluded
  <2> DEFINE n == Message("Decision", 0, d)
  <2>2. n \in Sent /\ sent'[s] = Append(sent[s], n) /\ pc'[s] = "done" /\ ~RoundNotice(n)
    BY <1>0, <2>1, SentTypes DEF Conclude, Broadcast, Message, RoundNotice
  <2> HIDE DEF n
  <2> QED
    BY <2>2
<1>5. CASE Asked(s)
  <2> DEFINE n == Message("ProposalRequest", 0, None)
  <2>1. n \in Sent /\ sent'[s] = Append(sent[s], n) /\ pc'[s] = "request" /\ ~RoundNotice(n)
    BY <1>0, <1>5, SentTypes DEF Asked, RequestProposal, Broadcast, Message, RoundNotice
  <2> HIDE DEF n
  <2> QED
    BY <2>1
<1>6. CASE Learned(s)
  BY <1>0, <1>6 DEF Learned
<1>7. CASE UNCHANGED <<executorVars, tallyVars>>
  BY <1>7 DEF executorVars
<1> QED
  BY <1>1, <1>2, <1>3, <1>4, <1>5, <1>6, <1>7 DEF ExecutorStep

(* What was sent before stays sent before.                                   *)
LEMMA SentBeforeStays ==
    ASSUME NEW q \in Server, NEW m, sent[q] \in Seq(Sent),
           sent'[q] = sent[q] \/ sent'[q] = Append(sent[q], m),
           NEW i, NEW k, SentBefore(q, i, k)
    PROVE  SentBefore(q, i, k)'
<1>1. PICK j \in DOMAIN sent[q] :
         j < i /\ RoundNotice(sent[q][j]) /\ Rank(sent[q][j]) = k
  BY DEF SentBefore
<1>2. j \in DOMAIN sent'[q] /\ sent'[q][j] = sent[q][j]
  OBVIOUS
<1> QED
  BY <1>1, <1>2 DEF SentBefore, RoundNotice, Rank, RoundOf

LEMMA ExecutorSentInOrder ==
    ASSUME EngineInv, SentInOrder, NEW s \in Server, ExecutorStep(s)
    PROVE  SentInOrder'
<1> SUFFICES ASSUME NEW q \in Server
             PROVE  /\ \A i \in DOMAIN sent'[q] : \A n : n = sent'[q][i] =>
                          (RoundNotice(n) /\ Rank(n) > 1 => SentBefore(q, i, Rank(n) - 1)')
                    /\ pc'[q] = "wait" => \A k : k = Len(sent'[q]) + 1 => SentBefore(q, k, Waiting(q))'
  BY DEF SentInOrder, RoundNotice, Rank, RoundOf, SentBefore
<1>0. /\ sent[q] \in Seq(Sent) /\ Len(sent[q]) \in Nat
      /\ \A i \in DOMAIN sent[q] :
              RoundNotice(sent[q][i]) /\ Rank(sent[q][i]) > 1 =>
                  SentBefore(q, i, Rank(sent[q][i]) - 1)
      /\ pc[q] = "wait" => SentBefore(q, Len(sent[q]) + 1, Waiting(q))
      /\ \A n \in Sent : RoundNotice(n) => n.phase \in Nat
  BY SentKinds DEF EngineInv, TypeOK, SentInOrder, RoundNotice, Phase
<1>1. CASE sent'[q] = sent[q] /\ (pc'[q] = "wait" => pc[q] = "wait" /\ Waiting(q)' = Waiting(q))
  <2>1. \A i, k : SentBefore(q, i, k) => SentBefore(q, i, k)'
    BY <1>0, <1>1, SentBeforeStays
  <2>2. pc'[q] = "wait" => SentBefore(q, Len(sent[q]) + 1, Waiting(q))'
    BY <1>0, <1>1, <2>1 DEF SentBefore
  <2> QED
    BY <1>0, <1>1, <2>1, <2>2
<1>2. CASE q # s
  BY <1>1, <1>2, ExecutorLocal DEF Waiting
<1>3. CASE q = s /\ sent'[s] = sent[s] /\ (pc'[s] = "wait" => pc[s] = "wait" /\ UNCHANGED <<phase, round>>)
  BY <1>1, <1>3 DEF Waiting
<1>4. CASE /\ q = s
           /\ \E m \in Sent :
                 /\ sent'[s] = Append(sent[s], m)
                 /\ RoundNotice(m) => /\ Rank(m) = Waiting(s)'
                                      /\ \/ Rank(m) = 1
                                         \/ pc[s] = "wait" /\ Rank(m) = Waiting(s) + 1
                 /\ pc'[s] = "wait" => RoundNotice(m)
  <2>1. PICK m \in Sent :
                 /\ sent'[q] = Append(sent[q], m)
                 /\ RoundNotice(m) => /\ Rank(m) = Waiting(q)'
                                      /\ \/ Rank(m) = 1
                                         \/ pc[q] = "wait" /\ Rank(m) = Waiting(q) + 1
                 /\ pc'[q] = "wait" => RoundNotice(m)
    BY <1>4
  <2> DEFINE L == Len(sent[q])
  <2>2. \A i, k : SentBefore(q, i, k) => SentBefore(q, i, k)'
    BY <1>0, <2>1, SentBeforeStays
  <2>3. /\ DOMAIN sent'[q] = DOMAIN sent[q] \cup {L + 1} /\ Len(sent'[q]) = L + 1
        /\ \A i \in DOMAIN sent[q] : sent'[q][i] = sent[q][i]
        /\ sent'[q][L + 1] = m /\ L + 1 < L + 2 /\ (L + 1) + 1 = L + 2
    BY <1>0, <2>1
  <2>4. Waiting(q) \in Nat
    <3>1. phase[q] \in Phase /\ round[q] \in 0 .. 3
      BY DEF EngineInv, TypeOK
    <3>2. phase[q] \in Nat /\ round[q] \in Nat
      BY <3>1 DEF Phase
    <3> QED
      BY <3>2 DEF Waiting
  <2>5. RoundNotice(m) /\ Rank(m) > 1 => SentBefore(q, L + 1, Rank(m) - 1)
    <3> SUFFICES ASSUME RoundNotice(m), Rank(m) > 1 PROVE SentBefore(q, L + 1, Rank(m) - 1)
      OBVIOUS
    <3>1. pc[q] = "wait" /\ Rank(m) = Waiting(q) + 1
      BY <1>0, <2>1, RankFacts
    <3>2. Rank(m) - 1 = Waiting(q)
      BY <2>4, <3>1
    <3> QED
      BY <1>0, <3>1, <3>2
  <2>6. ASSUME pc'[q] = "wait", NEW k, k = L + 2
        PROVE  SentBefore(q, k, Waiting(q))'
    <3>1. RoundNotice(m) /\ Rank(m) = Waiting(q)'
      BY <2>1, <2>6
    <3> QED
      BY <2>3, <2>6, <3>1 DEF SentBefore, RoundNotice, Rank, RoundOf
  <2>7. ASSUME NEW i \in DOMAIN sent'[q], NEW n, n = sent'[q][i], RoundNotice(n), Rank(n) > 1
        PROVE  SentBefore(q, i, Rank(n) - 1)'
    <3>1. CASE i = L + 1
      BY <2>2, <2>3, <2>5, <2>7, <3>1
    <3>2. CASE i \in DOMAIN sent[q]
      BY <1>0, <2>2, <2>3, <2>7, <3>2
    <3> QED
      BY <2>3, <2>7, <3>1, <3>2
  <2> QED
    BY <2>3, <2>6, <2>7
<1> QED
  BY <1>2, <1>3, <1>4, ExecutorSends

LEMMA SameSentInOrder ==
    ASSUME SentInOrder, UNCHANGED executorVars
    PROVE  SentInOrder'
  BY DEF SentInOrder, SentBefore, executorVars, Waiting

-----------------------------------------------------------------------------
LEMMA TallyTypes ==
    ASSUME TypeOK, NEW s \in Server, NEW p \in Phase, NEW r \in {1, 2}
    PROVE  DOMAIN Tally(s, p, r) = Server
  BY DEF TypeOK, Tally

LEMMA WaitingFacts ==
    ASSUME TypeOK, NEW s \in Server
    PROVE  /\ phase[s] \in Nat /\ round[s] \in Nat /\ round[s] <= 3 /\ Waiting(s) \in Nat
           /\ \A p \in Phase : p \in Nat
<1>1. phase[s] \in Phase /\ round[s] \in 0 .. 3
  BY DEF TypeOK
<1>2. phase[s] \in Nat /\ round[s] \in Nat /\ round[s] <= 3
  BY <1>1 DEF Phase
<1> QED
  BY <1>2 DEF Waiting, Phase

(* The rounds before the one that an executor waits for are complete.        *)
Read(s) ==
    /\ Waiting(s) \in Nat
    /\ pc[s] # "done" =>
          \A p \in Phase : \A r \in {1, 2} :
              2 * p + r < Waiting(s) => HasEnoughMsg(Tally(s, p, r))
RoundsRead == \A s \in Server : Read(s)

LEMMA ReadComplete == EngineInv => RoundsRead
<1> SUFFICES ASSUME EngineInv, NEW s \in Server, pc[s] # "done",
                    NEW p \in Phase, NEW r \in {1, 2}, 2 * p + r < Waiting(s)
             PROVE  HasEnoughMsg(Tally(s, p, r))
  BY WaitingFacts DEF RoundsRead, Read, EngineInv
<1>1. /\ phase[s] \in Nat /\ round[s] \in Nat /\ p \in Nat /\ TallySound(s)
      /\ round[s] \in {0, 1, 2}
  <2>1. TypeOK /\ Rounds /\ TallySound(s) /\ Weak!IndInv
    BY DEF EngineInv, TalliesSound
  <2>2. pc[s] = "idle" => round[s] = 0
    BY <2>1, Broadcasts
  <2> QED
    BY <2>1, <2>2, WaitingFacts DEF TypeOK, Rounds
<1>2. CASE r = 2
  <2>1. ~OpenVotes(s, p)
    BY <1>1, <1>2 DEF Waiting, OpenVotes
  <2> QED
    BY <1>1, <1>2, <2>1, ConsumedComplete DEF TallySound, Tally
<1>3. CASE r = 1 /\ p = 0
  <2>1. ~OpenProposals(s)
    BY <1>1, <1>3 DEF Waiting, OpenProposals
  <2> QED
    BY <1>1, <1>3, <2>1 DEF TallySound, Tally
<1>4. CASE r = 1 /\ p # 0
  <2>1. ~OpenStates(s, p)
    BY <1>1, <1>4 DEF Waiting, OpenStates
  <2> QED
    BY <1>1, <1>4, <2>1, ConsumedComplete DEF TallySound, Tally
<1> QED
  BY <1>2, <1>3, <1>4

(* Those from it on are not touched by an executor.                          *)
LEMMA ExecutorTallies ==
    ASSUME EngineInv, NEW s \in Server, ExecutorStep(s), pc'[s] # "done",
           NEW p \in Phase, NEW r \in {1, 2}
    PROVE  pc[s] # "done" /\ (2 * p + r < Waiting(s)' \/ UNCHANGED Tally(s, p, r))
<1>0. /\ TypeOK /\ phase[s] \in Nat /\ p \in Nat
      /\ pc \in [Server -> {"idle", "wait", "request", "done", "panic"}]
      /\ phase \in [Server -> Phase] /\ round \in [Server -> 0 .. 3]
  BY WaitingFacts DEF EngineInv, TypeOK
<1>1. CASE Voted(s)
  <2>1. /\ RetireRound(s) /\ pc[s] = "wait" /\ round[s] = 1 /\ round'[s] = 2
        /\ phase'[s] = phase[s]
    BY <1>0, <1>1 DEF Voted, CastVote
  <2>2. /\ recvState'[s][p] = IF p = phase[s] THEN Consumed ELSE recvState[s][p]
        /\ recvVote'[s][p] = recvVote[s][p]
    BY <1>0, <2>1, RetireEffect
  <2>3. Waiting(s)' = 2 * phase[s] + 2
    BY <2>1 DEF Waiting
  <2> QED
    BY <1>0, <2>1, <2>2, <2>3 DEF Tally
<1>2. CASE Stated(s) /\ phase[s] + 1 \in Phase
  <2>1. /\ RetireRound(s) /\ pc[s] = "wait" /\ round[s] = 2 /\ round'[s] = 1
        /\ phase'[s] = phase[s] + 1
    BY <1>0, <1>2 DEF Stated, CastState
  <2>2. p # phase[s] => recvState'[s][p] = recvState[s][p] /\ recvVote'[s][p] = recvVote[s][p]
    BY <1>0, <2>1, RetireEffect
  <2>3. Waiting(s)' = 2 * phase[s] + 3
    BY <1>0, <2>1 DEF Waiting
  <2> QED
    BY <1>0, <2>1, <2>2, <2>3 DEF Tally
<1>3. CASE \/ Stated(s) /\ phase[s] + 1 \notin Phase
           \/ Asked(s) \/ \E m \in Proposal : Start(s, m)
           \/ hasRecvDec[s] /\ UNCHANGED <<executorVars, tallyVars>>
  BY <1>0, <1>3
     DEF Stated, CastState, Asked, RequestProposal, Start, tallyVars, executorVars, Tally
<1>4. CASE Concluded(s) \/ Learned(s)
  BY <1>0, <1>4 DEF Concluded, Conclude, Learned
<1> QED
  BY <1>1, <1>2, <1>3, <1>4 DEF ExecutorStep

LEMMA KeptTally ==
    ASSUME NEW t \in Server, TallyKept(t), NEW p \in Phase, NEW r \in {1, 2},
           HasEnoughMsg(Tally(t, p, r))
    PROVE  HasEnoughMsg(Tally(t, p, r))'
  BY DEF TallyKept, Tally

LEMMA ExecutorTalliedInOrder ==
    ASSUME EngineInv, EngineInv', TalliedInOrder, NEW s \in Server, ExecutorStep(s)
    PROVE  TalliedInOrder'
<1> SUFFICES ASSUME NEW t \in Server, pc'[t] # "done", NEW p \in Phase, NEW q \in Server
             PROVE  /\ Tally(t, p, 2)'[q] # None => Past(t, p, 1, q)'
                    /\ p > 0 /\ Tally(t, p, 1)'[q] # None => Past(t, p - 1, 2, q)'
  BY DEF TalliedInOrder
<1>0. /\ p \in Nat /\ (p > 0 => p - 1 \in Phase) /\ Read(t)' /\ Waiting(t)' \in Nat
  <2>1. RoundsRead'
    BY ReadComplete, PTL
  <2>2. p \in Nat /\ (p > 0 => p - 1 \in Phase)
    BY PhaseAssumption DEF Phase
  <2> QED
    BY <2>1, <2>2 DEF RoundsRead, Read
<1>1. CASE t # s
  BY <1>1, ExecutorLocal DEF TalliedInOrder, Past, Tally
<1>2. CASE t = s
  <2>1. pc[s] # "done" /\ \A k \in Phase : \A r \in {1, 2} :
           2 * k + r < Waiting(s)' \/ Tally(s, k, r)' = Tally(s, k, r)
    BY <1>2, ExecutorTallies
  <2>2. \A k \in Phase : \A r \in {1, 2} :
           2 * k + r < Waiting(s)' => Past(s, k, r, q)'
    BY <1>0, <1>2 DEF Read, Past
  <2>3. Tally(s, p, 2)'[q] # None => Past(s, p, 1, q)'
    <3>1. CASE 2 * p + 1 < Waiting(s)'
      BY <2>2, <3>1
    <3>2. CASE ~(2 * p + 1 < Waiting(s)')
      <4>1. ~(2 * p + 2 < Waiting(s)')
        BY <1>0, <1>2, <3>2
      <4>2. Tally(s, p, 1)' = Tally(s, p, 1) /\ Tally(s, p, 2)' = Tally(s, p, 2)
        BY <2>1, <3>2, <4>1
      <4> QED
        BY <2>1, <4>2 DEF TalliedInOrder, Past
    <3> QED
      BY <3>1, <3>2
  <2>4. p > 0 /\ Tally(s, p, 1)'[q] # None => Past(s, p - 1, 2, q)'
    <3>0. SUFFICES ASSUME p > 0 PROVE Tally(s, p, 1)'[q] # None => Past(s, p - 1, 2, q)'
      OBVIOUS
    <3>1. CASE 2 * (p - 1) + 2 < Waiting(s)'
      BY <1>0, <2>2, <3>0, <3>1
    <3>2. CASE ~(2 * (p - 1) + 2 < Waiting(s)')
      <4>1. ~(2 * p + 1 < Waiting(s)')
        BY <1>0, <1>2, <3>2
      <4>2. Tally(s, p - 1, 2)' = Tally(s, p - 1, 2) /\ Tally(s, p, 1)' = Tally(s, p, 1)
        BY <1>0, <2>1, <3>0, <3>2, <4>1
      <4> QED
        BY <2>1, <3>0, <4>2 DEF TalliedInOrder, Past
    <3> QED
      BY <3>1, <3>2
  <2> QED
    BY <1>2, <2>3, <2>4
<1> QED
  BY <1>1, <1>2

(* The tally that a message goes to.                                         *)
LEMMA MessageTally ==
    ASSUME EngineInv, NEW s \in Server, NEW q \in Server, NEW j \in DOMAIN sent[q],
           NEW n, n = sent[q][j], RoundNotice(n)
    PROVE  /\ n \in Sent /\ n.phase \in Phase /\ n.phase \in Nat /\ n.value # None
           /\ RoundOf(n) \in {1, 2} /\ Rank(n) = 2 * n.phase + RoundOf(n)
           /\ n.type = "Proposal" => n.phase = 0
           /\ n.type = "State" => n.phase > 0
           /\ ~IsDone(s) /\ Passed(s, q, n) => Past(s, n.phase, RoundOf(n), q)
           /\ ~Passed(s, q, n) =>
                 /\ ~IsDone(s) /\ ~HasEnoughMsg(Tally(s, n.phase, RoundOf(n)))
                 /\ Tally(s, n.phase, RoundOf(n))[q] = None
<1>1. /\ n \in Sent /\ n.phase \in Phase /\ n.phase \in Nat /\ n.value # None
      /\ n.type = "Proposal" => n.phase = 0
      /\ n.type \in {"Proposal", "State", "Vote"}
  <2>1. sent[q] \in Seq(Sent)
    BY DEF EngineInv, TypeOK
  <2>2. n \in Sent
    BY <2>1
  <2> QED
    BY <2>2, SentKinds, Values DEF RoundNotice, Phase
<1>2. n.type = "State" => n.phase > 0
  <2>1. n.type = "State" => n.value = state[q][n.phase]
    BY DEF EngineInv, SentSound, Genuine
  <2>2. state[q][0] = None
    BY Broadcasts DEF EngineInv
  <2> QED
    BY <1>1, <2>1, <2>2
<1>3. Tally(s, n.phase, RoundOf(n)) =
         IF n.type = "Proposal" THEN recvProposal[s]
         ELSE IF n.type = "State" THEN recvState[s][n.phase] ELSE recvVote[s][n.phase]
  BY <1>1, <1>2 DEF Tally, RoundOf
<1> QED
  BY <1>1, <1>2, <1>3 DEF Passed, Ignores, Past, RoundOf, Rank

LEMMA HandlerTallies ==
    ASSUME EngineInv, NEW s \in Server, NEW q \in Server, NEW m \in Sent, Handled(s, q, m),
           NEW t \in Server, NEW p \in Phase, NEW r \in {1, 2}
    PROVE  Tally(t, p, r)' =
              IF t = s /\ RoundNotice(m) /\ p = m.phase /\ r = RoundOf(m)
              THEN [Tally(t, p, r) EXCEPT ![q] = m.value] ELSE Tally(t, p, r)
<1>0. /\ recvProposal \in [Server -> [Server -> Object \cup {None}]]
      /\ recvState \in [Server -> [Phase -> [Server -> Bit \cup {Unknown, None}]]]
      /\ recvVote \in [Server -> [Phase -> [Server -> Bit \cup {Unknown, None}]]]
  BY DEF EngineInv, TypeOK
<1>1. PICK i \in DOMAIN sent[q] : m = sent[q][i]
  BY DEF Handled
<1>2. RoundNotice(m) => /\ m.phase \in Phase
                        /\ m.type = "Proposal" => m.phase = 0
                        /\ m.type = "State" => m.phase # 0
  <2>1. RoundNotice(m) => /\ m.phase \in Phase /\ m.phase \in Nat
                          /\ m.type = "Proposal" => m.phase = 0
                          /\ m.type = "State" => m.phase > 0
    BY <1>1, MessageTally
  <2> QED
    BY <2>1
<1>3. CASE HandleProposal(s, q, m)
  <2>1. /\ m.type = "Proposal" /\ m.phase = 0 /\ RoundNotice(m) /\ RoundOf(m) = 1
        /\ UNCHANGED <<recvState, recvVote>>
        /\ recvProposal' = [recvProposal EXCEPT ![s] = [recvProposal[s] EXCEPT ![q] = m.value]]
    BY <1>2, <1>3 DEF HandleProposal, RoundNotice, RoundOf
  <2>2. recvProposal'[t] = IF t = s THEN [recvProposal[t] EXCEPT ![q] = m.value]
                           ELSE recvProposal[t]
    BY <1>0, <2>1
  <2> QED
    BY <2>1, <2>2 DEF Tally
<1>4. CASE HandleState(s, q, m)
  <2>1. /\ m.type = "State" /\ m.phase # 0 /\ RoundNotice(m) /\ RoundOf(m) = 1
        /\ m.phase \in Phase /\ UNCHANGED <<recvProposal, recvVote>>
        /\ recvState' = [recvState EXCEPT ![s][m.phase] =
                            [recvState[s][m.phase] EXCEPT ![q] = m.value]]
    BY <1>2, <1>4 DEF HandleState, RoundNotice, RoundOf
  <2>2. recvState'[t][p] = IF t = s /\ p = m.phase
                           THEN [recvState[t][p] EXCEPT ![q] = m.value] ELSE recvState[t][p]
    BY <1>0, <2>1
  <2> QED
    BY <2>1, <2>2 DEF Tally
<1>5. CASE HandleVote(s, q, m)
  <2>1. /\ m.type = "Vote" /\ RoundNotice(m) /\ RoundOf(m) = 2
        /\ m.phase \in Phase /\ UNCHANGED <<recvProposal, recvState>>
        /\ recvVote' = [recvVote EXCEPT ![s][m.phase] =
                            [recvVote[s][m.phase] EXCEPT ![q] = m.value]]
    BY <1>2, <1>5 DEF HandleVote, RoundNotice, RoundOf
  <2>2. recvVote'[t][p] = IF t = s /\ p = m.phase
                          THEN [recvVote[t][p] EXCEPT ![q] = m.value] ELSE recvVote[t][p]
    BY <1>0, <2>1
  <2> QED
    BY <2>1, <2>2 DEF Tally
<1>6. CASE HandleDecision(s, q, m) \/ HandleRequest(s, q, m)
  BY <1>6 DEF HandleDecision, HandleRequest, tallyVars, RoundNotice, Tally
<1> QED
  BY <1>3, <1>4, <1>5, <1>6 DEF Handled

(* A handler that tallies a message has dealt with its sender's message of   *)
(* the round before.                                                         *)
LEMMA HandledPast ==
    ASSUME EngineInv, SentInOrder, NEW s \in Server, NEW q \in Server, NEW m \in Sent,
           Handled(s, q, m), RoundNotice(m)
    PROVE  /\ RoundOf(m) = 2 => Past(s, m.phase, 1, q)
           /\ RoundOf(m) = 1 /\ m.phase > 0 => Past(s, m.phase - 1, 2, q)
<1>1. PICK i \in DOMAIN sent[q] :
         m = sent[q][i] /\ \A j \in DOMAIN sent[q] : j < i => Passed(s, q, sent[q][j])
  BY DEF Handled
<1>2. /\ m.phase \in Phase /\ m.phase \in Nat /\ ~IsDone(s)
      /\ Rank(m) = 2 * m.phase + RoundOf(m)
  BY <1>1, MessageTally DEF Handled
<1>3. ASSUME Rank(m) > 1
      PROVE  \E p \in Phase : \E r \in {1, 2} :
                p \in Nat /\ 2 * p + r = Rank(m) - 1 /\ Past(s, p, r, q)
  <2>1. PICK j \in DOMAIN sent[q] :
           j < i /\ RoundNotice(sent[q][j]) /\ Rank(sent[q][j]) = Rank(m) - 1
    BY <1>1, <1>3 DEF SentInOrder, SentBefore
  <2> DEFINE n == sent[q][j]
  <2>2. /\ n.phase \in Phase /\ n.phase \in Nat /\ RoundOf(n) \in {1, 2}
        /\ Rank(n) = 2 * n.phase + RoundOf(n) /\ Past(s, n.phase, RoundOf(n), q)
    BY <1>1, <1>2, <2>1, MessageTally
  <2> QED
    BY <2>1, <2>2
<1>4. ASSUME RoundOf(m) = 2
      PROVE  Past(s, m.phase, 1, q)
  <2>1. PICK p \in Phase, r \in {1, 2} :
           p \in Nat /\ 2 * p + r = Rank(m) - 1 /\ Past(s, p, r, q)
    BY <1>2, <1>3, <1>4
  <2>2. p = m.phase /\ r = 1
    BY <1>2, <1>4, <2>1
  <2> QED
    BY <2>1, <2>2
<1>5. ASSUME RoundOf(m) = 1, m.phase > 0
      PROVE  Past(s, m.phase - 1, 2, q)
  <2>1. PICK p \in Phase, r \in {1, 2} :
           p \in Nat /\ 2 * p + r = Rank(m) - 1 /\ Past(s, p, r, q)
    BY <1>2, <1>3, <1>5
  <2>2. p = m.phase - 1 /\ r = 2
    BY <1>2, <1>5, <2>1
  <2> QED
    BY <2>1, <2>2
<1> QED
  BY <1>4, <1>5

LEMMA HandlerTalliedInOrder ==
    ASSUME EngineInv, SentInOrder, TalliedInOrder, NEW s \in Server, NEW q \in Server,
           NEW m \in Sent, Handled(s, q, m)
    PROVE  TalliedInOrder'
<1> SUFFICES ASSUME NEW t \in Server, pc'[t] # "done", NEW p \in Phase, NEW u \in Server
             PROVE  /\ Tally(t, p, 2)'[u] # None => Past(t, p, 1, u)'
                    /\ p > 0 /\ Tally(t, p, 1)'[u] # None => Past(t, p - 1, 2, u)'
  BY DEF TalliedInOrder
<1>0. /\ TypeOK /\ TallyKept(t) /\ UNCHANGED pc
      /\ p > 0 => p - 1 \in Phase
  BY HandlerTallySound, PhaseAssumption DEF EngineInv, Handled, executorVars, Phase
<1>1. PICK i \in DOMAIN sent[q] : m = sent[q][i]
  BY DEF Handled
<1>2. RoundNotice(m) => m.value # None /\ RoundOf(m) \in {1, 2}
  BY <1>1, MessageTally
<1>3. ASSUME NEW k \in Phase, NEW r \in {1, 2}
      PROVE  /\ Past(t, k, r, u) => Past(t, k, r, u)'
             /\ Tally(t, k, r)'[u] # None =>
                   \/ Tally(t, k, r)[u] # None
                   \/ t = s /\ u = q /\ RoundNotice(m) /\ k = m.phase /\ r = RoundOf(m)
  <2>1. DOMAIN Tally(t, k, r) = Server
    BY <1>0, TallyTypes
  <2>2. Tally(t, k, r)' =
              IF t = s /\ RoundNotice(m) /\ k = m.phase /\ r = RoundOf(m)
              THEN [Tally(t, k, r) EXCEPT ![q] = m.value] ELSE Tally(t, k, r)
    BY HandlerTallies
  <2>3. HasEnoughMsg(Tally(t, k, r)) => HasEnoughMsg(Tally(t, k, r))'
    BY <1>0, KeptTally
  <2>4. Tally(t, k, r)[u] # None => Tally(t, k, r)'[u] # None
    BY <1>2, <2>1, <2>2
  <2> QED
    BY <2>1, <2>2, <2>3, <2>4 DEF Past
<1>4. Tally(t, p, 2)'[u] # None => Past(t, p, 1, u)
  BY <1>0, <1>3, HandledPast DEF TalliedInOrder
<1>5. p > 0 /\ Tally(t, p, 1)'[u] # None => Past(t, p - 1, 2, u)
  BY <1>0, <1>3, HandledPast DEF TalliedInOrder
<1> QED
  BY <1>0, <1>3, <1>4, <1>5

LEMMA SameTalliedInOrder ==
    ASSUME TalliedInOrder, UNCHANGED <<executorVars, tallyVars>>
    PROVE  TalliedInOrder'
  BY DEF TalliedInOrder, Past, Tally, executorVars, tallyVars

-----------------------------------------------------------------------------
(* The Decision notice.                                                     *)

LEMMA ExecutorDecisionsOnce ==
    ASSUME EngineInv, DecisionsOnce, NEW s \in Server, ExecutorStep(s)
    PROVE  DecisionsOnce'
<1> SUFFICES ASSUME NEW t \in Server PROVE DecisionOnce(t)'
  BY DEF DecisionsOnce
<1>0. /\ TypeOK /\ DecisionOnce(t) /\ UNCHANGED <<handler, hasRecvDec>>
      /\ queue[t] \in Seq(Notice)
  BY DEF EngineInv, TypeOK, DecisionsOnce, ExecutorStep, Took, handlerVars
<1>1. pc'[t] \in {"idle", "wait"} => pc[t] \in {"idle", "wait"}
  <2>1. pc \in [Server -> {"idle", "wait", "request", "done", "panic"}]
    BY <1>0 DEF TypeOK
  <2> QED
    BY <2>1
       DEF ExecutorStep, Start, Voted, CastVote, Stated, CastState, Concluded, Conclude,
           Asked, RequestProposal, Learned, executorVars
<1>2. CASE queue'[t] = queue[t]
  BY <1>0, <1>1, <1>2 DEF DecisionOnce, Holds
<1>3. CASE /\ queue[t] # << >> /\ queue'[t] = Tail(queue[t])
           /\ Head(queue[t]).type = "Decision" => pc'[t] = "done"
  <2>1. /\ \A i \in DOMAIN queue'[t] : i \in Nat /\ i + 1 \in DOMAIN queue[t]
                                       /\ queue'[t][i] = queue[t][i + 1]
        /\ \A i \in DOMAIN queue[t] : i \in Nat /\ (i > 1 => i - 1 \in DOMAIN queue'[t] /\ queue'[t][i - 1] = queue[t][i])
        /\ Head(queue[t]) = queue[t][1] /\ \A i \in DOMAIN queue[t] : i = 1 \/ i > 1
    BY <1>0, <1>3
  <2>2. \A i \in DOMAIN queue'[t] : Holds(t, i)' <=> Holds(t, i + 1)
    BY <2>1 DEF Holds
  <2>3. \A i, j \in DOMAIN queue'[t] : Holds(t, i)' /\ Holds(t, j)' => i = j
    <3> SUFFICES ASSUME NEW i \in DOMAIN queue'[t], NEW j \in DOMAIN queue'[t],
                        Holds(t, i)', Holds(t, j)'
                 PROVE  i = j
      OBVIOUS
    <3>1. i + 1 = j + 1
      BY <1>0, <2>1, <2>2 DEF DecisionOnce
    <3> QED
      BY <2>1, <3>1
  <2>4. /\ (hasRecvDec[t] \/ handler[t] = Mark) /\ pc'[t] \in {"idle", "wait"}
        => \E i \in DOMAIN queue'[t] : Holds(t, i)'
    <3> SUFFICES ASSUME hasRecvDec[t] \/ handler[t] = Mark, pc'[t] \in {"idle", "wait"}
                 PROVE  \E i \in DOMAIN queue'[t] : Holds(t, i)'
      OBVIOUS
    <3>1. PICK i \in DOMAIN queue[t] : Holds(t, i)
      BY <1>0, <1>1 DEF DecisionOnce
    <3>2. i # 1
      BY <1>3, <2>1, <3>1 DEF Holds
    <3>3. i - 1 \in DOMAIN queue'[t] /\ queue'[t][i - 1] = queue[t][i]
      BY <2>1, <3>2
    <3>4. PICK j : j = i - 1
      OBVIOUS
    <3>5. Holds(t, j)'
      BY <3>1, <3>3, <3>4 DEF Holds
    <3> QED
      BY <3>3, <3>4, <3>5
  <2> QED
    BY <1>0, <2>2, <2>1, <2>3, <2>4 DEF DecisionOnce
<1>4. queue \in [Server -> Seq(Notice)]
  BY <1>0 DEF TypeOK
<1> QED
  BY <1>2, <1>3, <1>4 DEF ExecutorStep, Took

(* A Decision message is taken only before HasRecvDec is set.                *)
LEMMA PushDecisionOnce ==
    ASSUME EngineInv, DecisionsOnce, NEW s \in Server, NEW n \in Notice,
           NEW rest \in {Free, Mark}, rest = Mark <=> n.type = "Decision",
           n.type = "Decision" => ~hasRecvDec[s], handler[s] # Mark,
           PushThen(s, n, rest), UNCHANGED <<pc, hasRecvDec>>
    PROVE  DecisionsOnce'
<1> SUFFICES ASSUME NEW t \in Server PROVE DecisionOnce(t)'
  BY DEF DecisionsOnce
<1>0. /\ DecisionOnce(t) /\ queue[t] \in Seq(Notice)
      /\ queue \in [Server -> Seq(Notice)] /\ handler \in [Server -> Notice \cup {Free, Mark}]
  BY DEF EngineInv, TypeOK, DecisionsOnce
<1>1. CASE t # s
  <2>1. queue'[t] = queue[t] /\ handler'[t] = handler[t]
    BY <1>0, <1>1 DEF PushThen
  <2> QED
    BY <1>0, <2>1 DEF DecisionOnce, Holds
<1>2. CASE t = s /\ queue'[s] = queue[s] /\ handler'[s] = n
  BY <1>0, <1>2, NoticeKinds DEF DecisionOnce, Holds
<1>3. CASE t = s /\ queue'[s] = Append(queue[s], n) /\ handler'[s] = rest
  <2> DEFINE L == Len(queue[s])
  <2>1. /\ DOMAIN queue'[s] = DOMAIN queue[s] \cup {L + 1}
        /\ \A i \in DOMAIN queue[s] : queue'[s][i] = queue[s][i]
        /\ queue'[s][L + 1] = n
    BY <1>0, <1>3
  <2>2. /\ \A i \in DOMAIN queue[s] : Holds(s, i)' <=> Holds(s, i)
        /\ \A i : i = L + 1 => (Holds(s, i)' <=> n.type = "Decision")
    BY <2>1 DEF Holds
  <2> HIDE DEF L
  <2>3. n.type = "Decision" => \A i \in DOMAIN queue[s] : ~Holds(s, i)
    BY <1>0, <1>3 DEF DecisionOnce
  <2>4. \A i, j \in DOMAIN queue'[s] : Holds(s, i)' /\ Holds(s, j)' => i = j
    BY <1>0, <1>3, <2>1, <2>2, <2>3 DEF DecisionOnce
  <2>5. ~hasRecvDec[s] /\ handler'[s] # Mark => \A i \in DOMAIN queue'[s] : ~Holds(s, i)'
    BY <1>0, <1>3, <2>1, <2>2 DEF DecisionOnce
  <2>6. (hasRecvDec[s] \/ handler'[s] = Mark) /\ pc[s] \in {"idle", "wait"} =>
           \E i \in DOMAIN queue'[s] : Holds(s, i)'
    BY <1>0, <1>3, <2>1, <2>2 DEF DecisionOnce
  <2>7. /\ handler'[s].type = "Decision" => ~hasRecvDec[s]
        /\ handler'[s] = Mark => ~hasRecvDec[s]
    BY <1>3, NoticeKinds
  <2> QED
    BY <1>3, <2>4, <2>5, <2>6, <2>7 DEF DecisionOnce
<1> QED
  BY <1>0, <1>1, <1>2, <1>3 DEF PushThen

LEMMA HandlerDecisionsOnce ==
    ASSUME EngineInv, DecisionsOnce, NEW s \in Server, NEW q \in Server, NEW m \in Sent,
           Handled(s, q, m)
    PROVE  DecisionsOnce'
<1>0. /\ UNCHANGED <<pc, hasRecvDec>> /\ handler[s] # Mark
      /\ m.type = "Decision" => ~hasRecvDec[s]
  BY NoticeKinds
     DEF Handled, executorVars, HandleProposal, HandleState, HandleVote, HandleDecision,
         HandleRequest, Passed, Ignores
<1>1. ASSUME UNCHANGED <<queue, handler>>
      PROVE  DecisionsOnce'
  BY <1>0, <1>1 DEF DecisionsOnce, DecisionOnce, Holds
<1>2. ASSUME NEW T, NEW n \in Notice, n.type # "Decision", NotifyIfEnough(s, T, n)
      PROVE  DecisionsOnce'
  <2>1. Free # Mark
    BY NoticeKinds
  <2> QED
    BY <1>0, <1>1, <1>2, <2>1, PushDecisionOnce DEF NotifyIfEnough
<1>3. ASSUME NEW t \in {"Proposal", "State", "Vote"}, NEW p \in Phase
      PROVE  Message(t, p, None) \in Notice /\ Message(t, p, None).type # "Decision"
  <2>1. Message(t, p, None).type = t
    BY DEF Message
  <2> QED
    BY <2>1, NoticeKinds
<1>4. CASE HandleProposal(s, q, m)
  BY <1>2, <1>3, <1>4, PhaseAssumption DEF HandleProposal, Phase
<1>5. CASE HandleState(s, q, m) \/ HandleVote(s, q, m)
  BY <1>2, <1>3, <1>5, SentKinds DEF HandleState, HandleVote
<1>6. CASE HandleDecision(s, q, m)
  BY <1>0, <1>6, SentKinds, PushDecisionOnce DEF HandleDecision
<1>7. CASE HandleRequest(s, q, m)
  BY <1>1, <1>7 DEF HandleRequest
<1> QED
  BY <1>4, <1>5, <1>6, <1>7 DEF Handled

LEMMA OtherDecisionsOnce ==
    ASSUME EngineInv, DecisionsOnce, NEW s \in Server,
           Unblock(s) \/ MarkDecision(s) \/ Crash(s) \/ UNCHANGED vars
    PROVE  DecisionsOnce'
<1>0. /\ handler \in [Server -> Notice \cup {Free, Mark}] /\ hasRecvDec \in [Server -> BOOLEAN]
      /\ DecisionOnce(s)
  BY DEF EngineInv, TypeOK, DecisionsOnce
<1>1. CASE Unblock(s)
  <2> DEFINE rest == IF handler[s].type = "Decision" THEN Mark ELSE Free
  <2>1. /\ handler[s] \in Notice /\ handler[s] # Mark /\ PushThen(s, handler[s], rest)
        /\ rest \in {Free, Mark} /\ (rest = Mark <=> handler[s].type = "Decision")
        /\ UNCHANGED <<pc, hasRecvDec>>
        /\ handler[s].type = "Decision" => ~hasRecvDec[s]
    BY <1>0, <1>1, NoticeKinds DEF Unblock, executorVars, DecisionOnce
  <2> HIDE DEF rest
  <2> QED
    BY <2>1, PushDecisionOnce
<1>2. CASE MarkDecision(s)
  <2> SUFFICES ASSUME NEW t \in Server PROVE DecisionOnce(t)'
    BY DEF DecisionsOnce
  <2>1. /\ UNCHANGED <<pc, queue>> /\ handler[s] = Mark
        /\ handler' = [handler EXCEPT ![s] = Free]
        /\ hasRecvDec' = [hasRecvDec EXCEPT ![s] = TRUE]
    BY <1>2 DEF MarkDecision, executorVars
  <2>2. CASE t = s
    BY <1>0, <2>1, <2>2, NoticeKinds DEF DecisionOnce, Holds
  <2>3. CASE t # s
    BY <1>0, <2>1, <2>3 DEF DecisionsOnce, DecisionOnce, Holds
  <2> QED
    BY <2>2, <2>3
<1>3. CASE Crash(s) \/ UNCHANGED vars
  BY <1>3 DEF Crash, vars, executorVars, handlerVars, DecisionsOnce, DecisionOnce, Holds
<1> QED
  BY <1>1, <1>2, <1>3

LEMMA DecisionKept == EngineInv /\ DecisionsOnce => DecisionNoticeKept
<1> SUFFICES ASSUME EngineInv, DecisionsOnce, NEW s \in Server
             PROVE  /\ Cardinality(DecisionNotices(s)) <= 1
                    /\ hasRecvDec[s] /\ pc[s] = "wait" => DecisionNotices(s) # {}
  BY DEF DecisionNoticeKept
<1>1. DecisionNotices(s) = {i \in DOMAIN queue[s] : Holds(s, i)} /\ DecisionOnce(s)
  BY DEF DecisionNotices, Holds, DecisionsOnce
<1>2. Cardinality(DecisionNotices(s)) <= 1
  <2>1. CASE DecisionNotices(s) = {}
    BY <2>1, FS_EmptySet
  <2>2. CASE \E i : DecisionNotices(s) = {i}
    <3>1. PICK i : DecisionNotices(s) = {i}
      BY <2>2
    <3>2. Cardinality({i}) = 1
      BY FS_Singleton
    <3> QED
      BY <3>1, <3>2
  <2> QED
    BY <1>1, <2>1, <2>2 DEF DecisionOnce
<1> QED
  BY <1>1, <1>2 DEF DecisionOnce

-----------------------------------------------------------------------------
(* The order of the notices.                                                *)

(* No round is complete before those that precede it.                        *)
CompletedInOrder ==
    \A s \in Server : pc[s] # "done" =>
        \A p \in Phase :
            /\ HasEnoughMsg(Tally(s, p, 2)) => HasEnoughMsg(Tally(s, p, 1))
            /\ p > 0 /\ HasEnoughMsg(Tally(s, p, 1)) => HasEnoughMsg(Tally(s, p - 1, 2))

LEMMA OrderComplete == TalliedInOrder => CompletedInOrder
<1>1. ASSUME NEW T, NEW U, HasEnoughMsg(T),
             \A q \in Server : T[q] # None => U[q] # None \/ HasEnoughMsg(U)
      PROVE  HasEnoughMsg(U)
  <2> SUFFICES ASSUME ~HasEnoughMsg(U) PROVE FALSE
    OBVIOUS
  <2>1. Tallied(T) \in SUBSET Tallied(U) /\ Tallied(U) \in SUBSET Server
    BY <1>1 DEF Tallied
  <2>2. /\ Cardinality(Tallied(T)) <= Cardinality(Tallied(U))
        /\ Cardinality(Tallied(T)) \in Nat /\ Cardinality(Tallied(U)) \in Nat
    BY <2>1, Smaller
  <2> QED
    BY <1>1, <2>2, Sizes DEF HasEnoughMsg
<1> QED
  BY <1>1 DEF TalliedInOrder, CompletedInOrder, Past

(* A notice that is pushed behind those in the queue, or waits for room.     *)
LEMMA PushInOrder ==
    ASSUME EngineInv, NEW s \in Server, NEW n \in Notice,
           NEW rest \in {Free, Mark}, rest = Mark <=> n.type = "Decision",
           PushThen(s, n, rest), UNCHANGED <<phase, round>>,
           \A i \in DOMAIN queue[s] :
              /\ RoundNotice(queue[s][i]) => Rank(queue[s][i]) = Waiting(s) + i - 1
              /\ queue[s][i].type # "Decision",
           RoundNotice(n) => Rank(n) = Waiting(s) + Len(queue[s]),
           \A p \in Phase : \A r \in {1, 2} :
              HasEnoughMsg(Tally(s, p, r))' <=>
                 2 * p + r < Waiting(s) + Len(queue[s]) + IF RoundNotice(n) THEN 1 ELSE 0
    PROVE  QueueInOrder(s)'
<1> DEFINE W == Waiting(s)
           L == Len(queue[s])
<1>0. /\ queue \in [Server -> Seq(Notice)] /\ handler \in [Server -> Notice \cup {Free, Mark}]
      /\ queue[s] \in Seq(Notice) /\ L \in Nat /\ W \in Nat /\ Waiting(s)' = W
      /\ DOMAIN queue[s] = 1 .. L
  BY WaitingFacts DEF EngineInv, TypeOK, Waiting
<1>1. /\ ~RoundNotice(Free) /\ ~RoundNotice(Mark) /\ n # Free /\ n # Mark /\ Free # Mark
      /\ RoundNotice(n) <=> n.type # "Decision"
  BY NoticeKinds DEF RoundNotice
<1>2. CASE queue'[s] = queue[s] /\ handler'[s] = n
  <2>1. Known(s)' = W + L + IF RoundNotice(n) THEN 1 ELSE 0
    BY <1>0, <1>1, <1>2 DEF Known, RoundNotice
  <2>2. \A i \in DOMAIN queue'[s] :
           /\ RoundNotice(queue'[s][i]) => Rank(queue'[s][i]) = W + i - 1
           /\ queue'[s][i].type # "Decision"
    BY <1>2
  <2>3. RoundNotice(handler'[s]) => Rank(handler'[s]) = W + Len(queue'[s])
    BY <1>2
  <2> HIDE DEF W, L
  <2> QED
    BY <1>0, <2>1, <2>2, <2>3 DEF QueueInOrder, RoundNotice, Rank, RoundOf, W, L
<1>3. CASE queue'[s] = Append(queue[s], n) /\ handler'[s] = rest
  <2>1. /\ Len(queue'[s]) = L + 1 /\ DOMAIN queue'[s] = DOMAIN queue[s] \cup {L + 1}
        /\ \A i \in DOMAIN queue[s] : queue'[s][i] = queue[s][i]
        /\ queue'[s][L + 1] = n
    BY <1>0, <1>3
  <2>2. Known(s)' = W + (L + 1) + IF rest = Mark THEN -1 ELSE 0
    BY <1>0, <1>1, <1>3, <2>1 DEF Known, RoundNotice
  <2>3. Known(s)' = W + L + IF RoundNotice(n) THEN 1 ELSE 0
    BY <1>0, <1>1, <2>2
  <2>4. \A i \in DOMAIN queue'[s] :
           /\ RoundNotice(queue'[s][i]) => Rank(queue'[s][i]) = W + i - 1
           /\ queue'[s][i].type = "Decision" => i = Len(queue'[s]) /\ handler'[s] = Mark
    <3> SUFFICES ASSUME NEW i \in DOMAIN queue'[s]
                 PROVE  /\ RoundNotice(queue'[s][i]) => Rank(queue'[s][i]) = W + i - 1
                        /\ queue'[s][i].type = "Decision" => i = Len(queue'[s]) /\ handler'[s] = Mark
      OBVIOUS
    <3>1. CASE i \in DOMAIN queue[s]
      BY <2>1, <3>1
    <3>2. CASE i = L + 1
      <4>1. W + i - 1 = W + L
        BY <1>0, <3>2
      <4> QED
        BY <1>3, <2>1, <3>2, <4>1
    <3> QED
      BY <2>1, <3>1, <3>2
  <2>5. ~RoundNotice(handler'[s])
    BY <1>1, <1>3
  <2> HIDE DEF W, L
  <2> QED
    BY <1>0, <2>3, <2>4, <2>5 DEF QueueInOrder, RoundNotice, Rank, RoundOf, W, L
<1> QED
  BY <1>0, <1>2, <1>3 DEF PushThen

(* Another server, or one whose queue and tallies a step leaves alone.       *)
LEMMA SameQueueInOrder ==
    ASSUME NEW s \in Server, QueueInOrder(s), queue'[s] = queue[s], handler'[s] = handler[s],
           UNCHANGED Waiting(s),
           \A p \in Phase : \A r \in {1, 2} :
              HasEnoughMsg(Tally(s, p, r))' <=> HasEnoughMsg(Tally(s, p, r))
    PROVE  QueueInOrder(s)'
<1>1. Known(s)' = Known(s)
  BY DEF Known, RoundNotice
<1>2. \A p \in Phase : \A r \in {1, 2} :
         HasEnoughMsg(Tally(s, p, r))' <=> 2 * p + r < Known(s)'
  BY <1>1 DEF QueueInOrder
<1> QED
  BY <1>2 DEF QueueInOrder, RoundNotice, Rank, RoundOf

(* The message that completes a round is of the first round without notice:  *)
(* its notice goes behind those of all rounds before.                        *)
LEMMA NotifyInOrder ==
    ASSUME EngineInv, TalliedInOrder, TalliedInOrder', NEW s \in Server, QueueInOrder(s),
           pc[s] # "done", UNCHANGED <<pc, phase, round>>, handler[s] = Free,
           NEW p \in Phase, NEW r \in {1, 2},
           ~HasEnoughMsg(Tally(s, p, r)),
           \A k \in Phase : \A u \in {1, 2} :
              k # p \/ u # r => UNCHANGED Tally(s, k, u),
           NEW n \in Notice, n.type # "Decision", Rank(n) = 2 * p + r,
           NEW T, T = Tally(s, p, r)', NotifyIfEnough(s, T, n)
    PROVE  QueueInOrder(s)'
<1> DEFINE K == Waiting(s) + Len(queue[s])
<1>0. /\ queue[s] \in Seq(Notice) /\ Waiting(s) \in Nat /\ Waiting(s) >= 1 /\ K \in Nat /\ K >= 1
      /\ Waiting(s)' = Waiting(s) /\ p \in Nat /\ r \in Nat
      /\ \A k \in Phase : k \in Nat
      /\ p > 0 => p - 1 \in Phase
      /\ phase[s] \in Nat /\ round[s] \in Nat
  <2>1. phase[s] \in Nat /\ round[s] \in Nat /\ \A k \in Phase : k \in Nat
    BY WaitingFacts DEF EngineInv
  <2>2. Waiting(s) \in Nat /\ Waiting(s) >= 1
    BY <2>1 DEF Waiting
  <2>3. p > 0 => p - 1 \in Phase
    BY PhaseAssumption DEF Phase
  <2> QED
    BY <2>1, <2>2, <2>3 DEF EngineInv, TypeOK, Waiting
<1>1. /\ Known(s) = K /\ Free # Mark /\ ~RoundNotice(Free) /\ RoundNotice(n)
      /\ \A k \in Phase : \A u \in {1, 2} : HasEnoughMsg(Tally(s, k, u)) <=> 2 * k + u < K
      /\ \A i \in DOMAIN queue[s] :
            /\ RoundNotice(queue[s][i]) => Rank(queue[s][i]) = Waiting(s) + i - 1
            /\ queue[s][i].type # "Decision"
  <2>1. Free # Mark /\ ~RoundNotice(Free) /\ RoundNotice(n)
    BY NoticeKinds DEF RoundNotice
  <2>2. Known(s) = K
    BY <1>0, <2>1 DEF Known
  <2> QED
    BY <2>1, <2>2 DEF QueueInOrder
<1>2. \A k \in Phase : \A u \in {1, 2} :
         k # p \/ u # r => (HasEnoughMsg(Tally(s, k, u))' <=> HasEnoughMsg(Tally(s, k, u)))
  BY DEF HasEnoughMsg, Tallied
<1> HIDE DEF K
<1>3. CASE ~HasEnoughMsg(T)
  <2>1. UNCHANGED <<queue, handler>>
    BY <1>3 DEF NotifyIfEnough
  <2>2. HasEnoughMsg(Tally(s, p, r))' <=> HasEnoughMsg(Tally(s, p, r))
    BY <1>3 DEF HasEnoughMsg, Tallied
  <2> QED
    BY <1>0, <1>2, <2>1, <2>2, SameQueueInOrder
<1>4. CASE HasEnoughMsg(T)
  <2>1. PushThen(s, n, Free)
    BY <1>4 DEF NotifyIfEnough
  <2>2. CompletedInOrder'
    BY OrderComplete, PTL
  <2>3. HasEnoughMsg(Tally(s, p, r))'
    BY <1>4 DEF HasEnoughMsg, Tallied
  <2>4. ~(2 * p + r < K)
    BY <1>1
  <2>5. r = 2 => HasEnoughMsg(Tally(s, p, 1))
    <3>1. r = 2 => HasEnoughMsg(Tally(s, p, 1))'
      BY <2>2, <2>3 DEF CompletedInOrder
    <3> QED
      BY <1>2, <3>1
  <2>6. r = 1 /\ p > 0 => HasEnoughMsg(Tally(s, p - 1, 2))
    <3> SUFFICES ASSUME r = 1, p > 0 PROVE HasEnoughMsg(Tally(s, p - 1, 2))
      OBVIOUS
    <3>1. PICK k \in Phase : k = p - 1
      BY <1>0
    <3>2. HasEnoughMsg(Tally(s, k, 2))'
      BY <1>0, <2>2, <2>3, <3>1 DEF CompletedInOrder
    <3> QED
      BY <1>2, <3>1, <3>2
  <2>7. 2 * p + r = K
    <3>1. CASE r = 2
      <4>1. 2 * p + 1 < K
        BY <1>1, <2>5, <3>1
      <4> QED
        BY <1>0, <2>4, <3>1, <4>1
    <3>2. CASE r = 1 /\ p > 0
      <4>1. 2 * (p - 1) + 2 < K
        BY <1>0, <1>1, <2>6, <3>2
      <4>2. 2 * (p - 1) + 2 = 2 * p
        BY <1>0
      <4>3. 2 * p < K /\ ~(2 * p + 1 < K)
        BY <2>4, <3>2, <4>1, <4>2
      <4>4. 2 * p \in Nat
        BY <1>0
      <4> QED
        BY <1>0, <3>2, <4>3, <4>4
    <3>3. CASE r = 1 /\ p = 0
      BY <1>0, <2>4, <3>3
    <3> QED
      BY <1>0, <3>1, <3>2, <3>3
  <2>8. ASSUME NEW k \in Phase, NEW u \in {1, 2}
        PROVE  HasEnoughMsg(Tally(s, k, u))' <=> 2 * k + u < K + 1
    <3>1. CASE k = p /\ u = r
      BY <1>0, <2>3, <2>7, <3>1
    <3>2. CASE k # p \/ u # r
      <4>1. 2 * k + u # K
        <5>1. k \in Nat /\ p \in Nat
          BY <1>0
        <5>2. CASE u = r
          BY <2>7, <3>2, <5>1, <5>2
        <5>3. CASE u = 1 /\ r = 2
          BY <2>7, <5>1, <5>3
        <5>4. CASE u = 2 /\ r = 1
          BY <2>7, <5>1, <5>4
        <5> QED
          BY <5>2, <5>3, <5>4
      <4>2. 2 * k + u < K <=> 2 * k + u < K + 1
        BY <1>0, <4>1
      <4> QED
        BY <1>1, <1>2, <3>2, <4>2
    <3> QED
      BY <3>1, <3>2
  <2>9. Free = Mark <=> n.type = "Decision"
    BY <1>1
  <2> QED
    BY <1>0, <1>1, <2>1, <2>7, <2>8, <2>9, PushInOrder DEF K
<1> QED
  BY <1>3, <1>4

LEMMA HandlerQueuesInOrder ==
    ASSUME EngineInv, TalliedInOrder, TalliedInOrder', QueuesInOrder,
           NEW s \in Server, NEW q \in Server, NEW m \in Sent, Handled(s, q, m)
    PROVE  QueuesInOrder'
<1> SUFFICES ASSUME NEW t \in Server, pc'[t] \in {"idle", "wait"}, ~hasRecvDec'[t]
             PROVE  QueueInOrder(t)'
  BY DEF QueuesInOrder
<1>0. /\ UNCHANGED <<pc, phase, round, hasRecvDec>> /\ handler[s] = Free
      /\ pc[t] # "done" /\ QueueInOrder(t) /\ Waiting(t)' = Waiting(t)
      /\ queue \in [Server -> Seq(Notice)] /\ handler \in [Server -> Notice \cup {Free, Mark}]
  BY DEF Handled, executorVars, HandleProposal, HandleState, HandleVote, HandleDecision,
         HandleRequest, QueuesInOrder, Waiting, EngineInv, TypeOK
<1>1. \A k \in Phase : \A u \in {1, 2} :
         Tally(t, k, u)' =
              IF t = s /\ RoundNotice(m) /\ k = m.phase /\ u = RoundOf(m)
              THEN [Tally(t, k, u) EXCEPT ![q] = m.value] ELSE Tally(t, k, u)
  BY HandlerTallies
<1>2. ASSUME NEW n, NEW rest, PushThen(s, n, rest) \/ UNCHANGED <<queue, handler>>, t # s
      PROVE  queue'[t] = queue[t] /\ handler'[t] = handler[t]
  BY <1>0, <1>2 DEF PushThen
<1>3. CASE t # s
  <2>1. queue'[t] = queue[t] /\ handler'[t] = handler[t]
    BY <1>2, <1>3
       DEF Handled, HandleProposal, HandleState, HandleVote, HandleDecision, HandleRequest,
           NotifyIfEnough
  <2>2. \A k \in Phase : \A u \in {1, 2} :
           HasEnoughMsg(Tally(t, k, u))' <=> HasEnoughMsg(Tally(t, k, u))
    BY <1>1, <1>3 DEF HasEnoughMsg, Tallied
  <2> QED
    BY <1>0, <2>1, <2>2, SameQueueInOrder
<1>4. ASSUME t = s, RoundNotice(m), NEW n \in Notice, n.type # "Decision", Rank(n) = Rank(m),
             NEW T, T = Tally(s, m.phase, RoundOf(m))', NotifyIfEnough(s, T, n)
      PROVE  QueueInOrder(s)'
  <2>1. PICK i \in DOMAIN sent[q] : m = sent[q][i]
    BY DEF Handled
  <2>2. /\ m.phase \in Phase /\ RoundOf(m) \in {1, 2} /\ Rank(m) = 2 * m.phase + RoundOf(m)
        /\ ~HasEnoughMsg(Tally(s, m.phase, RoundOf(m)))
    BY <1>4, <2>1, MessageTally DEF Handled
  <2>3. PICK p \in Phase, r \in {1, 2} : p = m.phase /\ r = RoundOf(m)
    BY <2>2
  <2>4. T = Tally(s, p, r)'
    BY <1>4, <2>3
  <2>5. \A k \in Phase : \A u \in {1, 2} : k # p \/ u # r => UNCHANGED Tally(s, k, u)
    BY <1>1, <1>4, <2>3
  <2> QED
    BY <1>0, <1>4, <2>2, <2>3, <2>4, <2>5, NotifyInOrder
<1>5. ASSUME NEW y \in {"Proposal", "State", "Vote"}, NEW p \in Phase
      PROVE  Message(y, p, None) \in Notice /\ Message(y, p, None).type = y
                 /\ Message(y, p, None).phase = p
  BY NoticeKinds DEF Message
<1>6. /\ recvProposal \in [Server -> [Server -> Object \cup {None}]]
      /\ recvState \in [Server -> [Phase -> [Server -> Bit \cup {Unknown, None}]]]
      /\ recvVote \in [Server -> [Phase -> [Server -> Bit \cup {Unknown, None}]]]
  BY DEF EngineInv, TypeOK
<1>7. CASE t = s /\ HandleProposal(s, q, m)
  <2> DEFINE n == Message("Proposal", 0, None)
             T == [recvProposal[s] EXCEPT ![q] = m.value]
  <2>1. /\ m.type = "Proposal" /\ m.phase = 0 /\ RoundOf(m) = 1 /\ RoundNotice(m)
        /\ recvProposal' = [recvProposal EXCEPT ![s] = T] /\ NotifyIfEnough(s, T, n)
    BY <1>7, SentKinds DEF HandleProposal, RoundOf, RoundNotice
  <2>2. n \in Notice /\ n.type = "Proposal" /\ n.phase = 0 /\ Rank(n) = Rank(m)
    BY <1>5, <2>1, PhaseAssumption DEF Phase, Rank, RoundOf
  <2>3. T = Tally(s, m.phase, RoundOf(m))'
    BY <1>6, <2>1 DEF Tally
  <2> HIDE DEF n, T
  <2> QED
    BY <1>4, <1>7, <2>1, <2>2, <2>3
<1>8. CASE t = s /\ HandleState(s, q, m)
  <2> DEFINE n == Message("State", m.phase, None)
             T == [recvState[s][m.phase] EXCEPT ![q] = m.value]
  <2>1. /\ m.type = "State" /\ m.phase \in Phase /\ RoundOf(m) = 1 /\ RoundNotice(m)
        /\ recvState' = [recvState EXCEPT ![s][m.phase] = T] /\ NotifyIfEnough(s, T, n)
    BY <1>8, SentKinds DEF HandleState, RoundOf, RoundNotice
  <2>2. n \in Notice /\ n.type = "State" /\ n.phase = m.phase /\ Rank(n) = Rank(m)
    BY <1>5, <2>1 DEF Rank, RoundOf
  <2>3. m.phase # 0
    <3>1. PICK i \in DOMAIN sent[q] : m = sent[q][i]
      BY DEF Handled
    <3>2. m.phase \in Nat /\ m.phase > 0
      BY <2>1, <3>1, MessageTally
    <3> QED
      BY <3>2
  <2>4. T = Tally(s, m.phase, RoundOf(m))'
    <3> HIDE DEF T
    <3> QED
      BY <1>6, <2>1, <2>3 DEF Tally
  <2> HIDE DEF n, T
  <2> QED
    BY <1>4, <1>8, <2>1, <2>2, <2>4
<1>9. CASE t = s /\ HandleVote(s, q, m)
  <2> DEFINE n == Message("Vote", m.phase, None)
             T == [recvVote[s][m.phase] EXCEPT ![q] = m.value]
  <2>1. /\ m.type = "Vote" /\ m.phase \in Phase /\ RoundOf(m) = 2 /\ RoundNotice(m)
        /\ recvVote' = [recvVote EXCEPT ![s][m.phase] = T] /\ NotifyIfEnough(s, T, n)
    BY <1>9, SentKinds DEF HandleVote, RoundOf, RoundNotice
  <2>2. n \in Notice /\ n.type = "Vote" /\ n.phase = m.phase /\ Rank(n) = Rank(m)
    BY <1>5, <2>1 DEF Rank, RoundOf
  <2>3. T = Tally(s, m.phase, RoundOf(m))'
    <3> HIDE DEF T
    <3> QED
      BY <1>6, <2>1 DEF Tally
  <2> HIDE DEF n, T
  <2> QED
    BY <1>4, <1>9, <2>1, <2>2, <2>3
<1>10. ~RoundNotice(m) => \A k \in Phase : \A u \in {1, 2} :
           HasEnoughMsg(Tally(s, k, u))' <=> HasEnoughMsg(Tally(s, k, u))
  <2> SUFFICES ASSUME ~RoundNotice(m), NEW k \in Phase, NEW u \in {1, 2}
               PROVE  HasEnoughMsg(Tally(s, k, u))' <=> HasEnoughMsg(Tally(s, k, u))
    OBVIOUS
  <2>1. Tally(s, k, u)' = Tally(s, k, u)
    BY HandlerTallies
  <2> QED
    BY <2>1 DEF HasEnoughMsg, Tallied
<1>11. CASE t = s /\ HandleDecision(s, q, m)
  <2>1. /\ m.type = "Decision" /\ m \in Notice /\ ~RoundNotice(m) /\ PushThen(s, m, Mark)
        /\ Free # Mark /\ ~RoundNotice(Free)
    BY <1>11, SentKinds, NoticeKinds DEF HandleDecision, RoundNotice
  <2>2. \A i \in DOMAIN queue[s] :
              /\ RoundNotice(queue[s][i]) => Rank(queue[s][i]) = Waiting(s) + i - 1
              /\ queue[s][i].type # "Decision"
    BY <1>0, <1>11, <2>1 DEF QueueInOrder
  <2>3. Known(s) = Waiting(s) + Len(queue[s]) + 0
    BY <1>0, <2>1 DEF Known
  <2>4. \A p \in Phase : \A r \in {1, 2} :
              HasEnoughMsg(Tally(s, p, r))' <=>
                 2 * p + r < Waiting(s) + Len(queue[s]) + IF RoundNotice(m) THEN 1 ELSE 0
    BY <1>0, <1>10, <1>11, <2>1, <2>3 DEF QueueInOrder
  <2>5. Mark = Mark <=> m.type = "Decision"
    BY <2>1
  <2> QED
    BY <1>0, <1>11, <2>1, <2>2, <2>4, <2>5, PushInOrder
<1>12. CASE t = s /\ HandleRequest(s, q, m)
  <2>1. ~RoundNotice(m) /\ UNCHANGED <<queue, handler>>
    BY <1>12 DEF HandleRequest, RoundNotice
  <2> QED
    BY <1>0, <1>10, <1>12, <2>1, SameQueueInOrder
<1> QED
  BY <1>3, <1>7, <1>8, <1>9, <1>11, <1>12 DEF Handled

LEMMA OtherQueuesInOrder ==
    ASSUME EngineInv, QueuesInOrder, NEW s \in Server,
           Unblock(s) \/ MarkDecision(s) \/ Crash(s) \/ UNCHANGED vars
    PROVE  QueuesInOrder'
<1> SUFFICES ASSUME NEW t \in Server, pc'[t] \in {"idle", "wait"}, ~hasRecvDec'[t]
             PROVE  QueueInOrder(t)'
  BY DEF QueuesInOrder
<1>0. /\ UNCHANGED <<executorVars, tallyVars>> /\ UNCHANGED <<pc, phase, round>>
      /\ Waiting(t)' = Waiting(t)
      /\ queue \in [Server -> Seq(Notice)] /\ handler \in [Server -> Notice \cup {Free, Mark}]
      /\ hasRecvDec \in [Server -> BOOLEAN]
  BY DEF Unblock, MarkDecision, Crash, vars, executorVars, Waiting, EngineInv, TypeOK
<1>1. \A p \in Phase : \A r \in {1, 2} :
         HasEnoughMsg(Tally(t, p, r))' <=> HasEnoughMsg(Tally(t, p, r))
  BY <1>0 DEF tallyVars, Tally, HasEnoughMsg, Tallied
<1>2. hasRecvDec'[t] = hasRecvDec[t] /\ QueueInOrder(t)
  <2>1. \/ UNCHANGED hasRecvDec
        \/ hasRecvDec' = [hasRecvDec EXCEPT ![s] = TRUE]
    BY DEF Unblock, MarkDecision, Crash, vars, handlerVars
  <2>2. hasRecvDec'[t] = hasRecvDec[t]
    BY <1>0, <2>1
  <2> QED
    BY <1>0, <2>2 DEF QueuesInOrder
<1>3. CASE queue'[t] = queue[t] /\ handler'[t] = handler[t]
  BY <1>0, <1>1, <1>2, <1>3, SameQueueInOrder
<1>4. CASE Unblock(s) /\ t = s
  <2> DEFINE n == handler[s]
             rest == IF n.type = "Decision" THEN Mark ELSE Free
  <2>1. /\ n \in Notice /\ n # Mark /\ PushThen(s, n, rest)
        /\ rest \in {Free, Mark} /\ (rest = Mark <=> n.type = "Decision")
    BY <1>0, <1>4, NoticeKinds DEF Unblock
  <2>2. Known(s) = Waiting(s) + Len(queue[s]) + IF RoundNotice(n) THEN 1 ELSE 0
    BY <2>1 DEF Known
  <2>3. \A i \in DOMAIN queue[s] :
              /\ RoundNotice(queue[s][i]) => Rank(queue[s][i]) = Waiting(s) + i - 1
              /\ queue[s][i].type # "Decision"
    BY <1>2, <1>4, <2>1 DEF QueueInOrder
  <2>4. RoundNotice(n) => Rank(n) = Waiting(s) + Len(queue[s])
    BY <1>2, <1>4 DEF QueueInOrder
  <2>5. \A p \in Phase : \A r \in {1, 2} :
              HasEnoughMsg(Tally(s, p, r))' <=>
                 2 * p + r < Waiting(s) + Len(queue[s]) + IF RoundNotice(n) THEN 1 ELSE 0
    BY <1>1, <1>2, <1>4, <2>2 DEF QueueInOrder
  <2> HIDE DEF n, rest
  <2> QED
    BY <1>0, <1>4, <2>1, <2>3, <2>4, <2>5, PushInOrder
<1>5. \/ queue'[t] = queue[t] /\ handler'[t] = handler[t]
      \/ Unblock(s) /\ t = s
  <2>1. CASE Unblock(s)
    BY <1>0, <2>1 DEF Unblock, PushThen
  <2>2. CASE MarkDecision(s)
    BY <1>0, <1>2, <2>2 DEF MarkDecision
  <2>3. CASE Crash(s) \/ UNCHANGED vars
    BY <2>3 DEF Crash, vars, handlerVars
  <2> QED
    BY <2>1, <2>2, <2>3
<1> QED
  BY <1>3, <1>4, <1>5

(* The notice that wait() takes is of the round the executor waits for; the  *)
(* next round is what the next notice is of.                                 *)
LEMMA ExecutorQueuesInOrder ==
    ASSUME EngineInv, EngineInv', QueuesInOrder, DecisionsOnce, NEW s \in Server, ExecutorStep(s)
    PROVE  QueuesInOrder'
<1> SUFFICES ASSUME NEW t \in Server, pc'[t] \in {"idle", "wait"}, ~hasRecvDec'[t]
             PROVE  QueueInOrder(t)'
  BY DEF QueuesInOrder
<1>0. /\ UNCHANGED <<handler, hasRecvDec>>
      /\ pc \in [Server -> {"idle", "wait", "request", "done", "panic"}]
      /\ phase \in [Server -> Phase] /\ round \in [Server -> 0 .. 3]
      /\ queue \in [Server -> Seq(Notice)] /\ handler \in [Server -> Notice \cup {Free, Mark}]
      /\ Waiting(t) \in Nat /\ phase[s] \in Nat /\ TypeOK /\ DecisionOnce(t)
      /\ \A p \in Phase : p \in Nat
  BY WaitingFacts DEF EngineInv, TypeOK, DecisionsOnce, ExecutorStep, Took, handlerVars
<1>1. CASE t # s
  <2>1. queue'[t] = queue[t]
    BY <1>0, <1>1 DEF ExecutorStep, Took
  <2>2. pc'[t] = pc[t] /\ Waiting(t)' = Waiting(t)
    BY <1>1, ExecutorLocal DEF Waiting
  <2>3. \A p \in Phase : \A r \in {1, 2} :
           HasEnoughMsg(Tally(t, p, r))' <=> HasEnoughMsg(Tally(t, p, r))
    <3>1. \A p \in Phase : \A r \in {1, 2} : Tally(t, p, r)' = Tally(t, p, r)
      BY <1>1, ExecutorLocal DEF Tally
    <3> QED
      BY <3>1 DEF HasEnoughMsg, Tallied
  <2> QED
    BY <1>0, <2>1, <2>2, <2>3, SameQueueInOrder DEF QueuesInOrder
<1>2. CASE t = s /\ \E m \in Proposal : Start(s, m)
  <2>1. /\ pc[s] = "idle" /\ round'[s] = 1 /\ UNCHANGED <<phase, queue, tallyVars>>
    BY <1>0, <1>2 DEF Start
  <2>2. round[s] = 0 /\ phase[s] = 0
    BY <2>1, Broadcasts DEF EngineInv
  <2>3. Waiting(s)' = Waiting(s)
    BY <2>1, <2>2 DEF Waiting
  <2>4. \A p \in Phase : \A r \in {1, 2} :
           HasEnoughMsg(Tally(s, p, r))' <=> HasEnoughMsg(Tally(s, p, r))
    BY <2>1 DEF Tally, HasEnoughMsg, Tallied, tallyVars
  <2> QED
    BY <1>0, <1>2, <2>1, <2>3, <2>4, SameQueueInOrder DEF QueuesInOrder
<1>3. CASE t = s /\ (Voted(s) \/ Stated(s))
  <2>1. /\ pc[s] = "wait" /\ Waiting(s)' = Waiting(s) + 1 /\ UNCHANGED pc
    <3>1. CASE Voted(s)
      <4>1. /\ pc[s] = "wait" /\ round[s] = 1 /\ round'[s] = 2 /\ phase'[s] = phase[s]
            /\ UNCHANGED pc
        BY <1>0, <3>1 DEF Voted, CastVote
      <4> QED
        BY <1>0, <4>1 DEF Waiting
    <3>2. CASE Stated(s)
      <4>1. PICK v \in Bit : CastState(s, v)
        BY <3>2 DEF Stated
      <4>2. phase[s] + 1 \in Phase
        BY <1>0, <1>3, <4>1 DEF CastState
      <4>3. /\ pc[s] = "wait" /\ round[s] = 2 /\ round'[s] = 1 /\ phase'[s] = phase[s] + 1
            /\ UNCHANGED pc
        BY <1>0, <3>2, <4>1, <4>2 DEF Stated, CastState
      <4> QED
        BY <1>0, <4>3 DEF Waiting
    <3> QED
      BY <1>3, <3>1, <3>2
  <2> DEFINE W == Waiting(s)
             L == Len(queue[s])
  <2>2. /\ queue[s] # << >> /\ queue'[s] = Tail(queue[s]) /\ Head(queue[s]).type # "Decision"
        /\ queue[s] \in Seq(Notice) /\ QueueInOrder(s)
    BY <1>0, <1>3, <2>1 DEF ExecutorStep, Took, QueuesInOrder
  <2>3. /\ L \in Nat /\ L >= 1 /\ Len(queue'[s]) = L - 1 /\ W \in Nat
        /\ \A i \in DOMAIN queue'[s] : i \in Nat /\ i + 1 \in DOMAIN queue[s]
                                       /\ queue'[s][i] = queue[s][i + 1]
        /\ Head(queue[s]) = queue[s][1] /\ DOMAIN queue[s] = 1 .. L
    BY <1>0, <1>3, <2>2
  <2>4. handler[s] = Mark => L >= 2
    <3> SUFFICES ASSUME handler[s] = Mark PROVE L >= 2
      OBVIOUS
    <3>1. PICK i \in DOMAIN queue[s] : Holds(s, i)
      BY <1>0, <1>3, <2>1 DEF DecisionOnce
    <3>2. i # 1
      BY <2>2, <2>3, <3>1 DEF Holds
    <3> QED
      BY <2>3, <3>1, <3>2
  <2> HIDE DEF W, L
  <2>5. Known(s)' = Known(s) /\ Known(s) \in Int /\ W + 1 <= Known(s)
    <3>1. Known(s) = W + L + IF handler[s] = Mark THEN -1
                             ELSE IF RoundNotice(handler[s]) THEN 1 ELSE 0
      BY DEF Known, W, L
    <3>2. Known(s)' = (W + 1) + (L - 1) + IF handler[s] = Mark THEN -1
                                          ELSE IF RoundNotice(handler[s]) THEN 1 ELSE 0
      BY <1>0, <2>1, <2>3 DEF Known, W, RoundNotice
    <3> QED
      BY <2>3, <2>4, <3>1, <3>2
  <2>6. ASSUME NEW i \in DOMAIN queue'[s]
        PROVE  /\ RoundNotice(queue'[s][i]) => Rank(queue'[s][i]) = (W + 1) + i - 1
               /\ queue'[s][i].type = "Decision" => i = L - 1 /\ handler[s] = Mark
    <3>1. PICK j \in DOMAIN queue[s] : j = i + 1
      BY <2>3
    <3>2. queue'[s][i] = queue[s][j] /\ i \in Nat
      BY <2>3, <3>1
    <3>3. /\ RoundNotice(queue[s][j]) => Rank(queue[s][j]) = W + j - 1
          /\ queue[s][j].type = "Decision" => j = L /\ handler[s] = Mark
      BY <2>2 DEF QueueInOrder, W, L
    <3>4. W + j - 1 = (W + 1) + i - 1 /\ (j = L => i = L - 1)
      BY <2>3, <3>1, <3>2
    <3> QED
      BY <3>2, <3>3, <3>4
  <2>7. RoundNotice(handler[s]) => Rank(handler[s]) = (W + 1) + (L - 1)
    <3>1. RoundNotice(handler[s]) => Rank(handler[s]) = W + L
      BY <2>2 DEF QueueInOrder, W, L
    <3> QED
      BY <2>3, <3>1
  <2>8. ASSUME NEW p \in Phase, NEW r \in {1, 2}
        PROVE  HasEnoughMsg(Tally(s, p, r))' <=> 2 * p + r < Known(s)
    <3>0. HasEnoughMsg(Tally(s, p, r)) <=> 2 * p + r < Known(s)
      BY <2>2 DEF QueueInOrder
    <3>1. CASE 2 * p + r < W + 1
      <4>1. RoundsRead'
        BY ReadComplete, PTL
      <4>2. Read(s)' /\ pc'[s] # "done"
        BY <1>3, <4>1 DEF RoundsRead
      <4>3. HasEnoughMsg(Tally(s, p, r))'
        BY <2>1, <3>1, <4>2 DEF Read, W
      <4>4. 2 * p + r < Known(s)
        BY <1>0, <2>3, <2>5, <3>1
      <4> QED
        BY <4>3, <4>4
    <3>2. CASE ~(2 * p + r < W + 1)
      <4>1. Tally(s, p, r)' = Tally(s, p, r)
        BY <1>3, <2>1, <3>2, ExecutorTallies DEF W
      <4> QED
        BY <3>0, <4>1 DEF HasEnoughMsg, Tallied
    <3> QED
      BY <3>1, <3>2
  <2> QED
    BY <1>0, <1>3, <2>1, <2>3, <2>5, <2>6, <2>7, <2>8
       DEF QueueInOrder, RoundNotice, Rank, RoundOf, W
<1>4. CASE t = s /\ (Concluded(s) \/ Asked(s) \/ Learned(s))
  BY <1>0, <1>4 DEF Concluded, Conclude, Asked, RequestProposal, Learned
<1>5. CASE t = s /\ hasRecvDec[s]
  BY <1>0, <1>5
<1> QED
  BY <1>1, <1>2, <1>3, <1>4, <1>5 DEF ExecutorStep

-----------------------------------------------------------------------------
LEMMA InitOrder == Init => OrderInv
<1> SUFFICES ASSUME Init PROVE OrderInv
  OBVIOUS
<1>0. /\ EngineInv /\ 0 \in Phase /\ \A p \in Phase : p \in Nat
      /\ ~RoundNotice(Free) /\ Free # Mark /\ Free.type = "Free"
  BY InitInvariant, PhaseAssumption, NoticeKinds DEF Phase, RoundNotice
<1>1. \A s \in Server : /\ pc[s] = "idle" /\ phase[s] = 0 /\ round[s] = 0
                        /\ sent[s] = << >> /\ queue[s] = << >> /\ handler[s] = Free
                        /\ ~hasRecvDec[s] /\ Waiting(s) = 1
  BY DEF Init, Waiting
<1>2. ASSUME NEW s \in Server, NEW p \in Phase, NEW r \in {1, 2}
      PROVE  ~HasEnoughMsg(Tally(s, p, r)) /\ \A q \in Server : Tally(s, p, r)[q] = None
  <2>1. Tally(s, p, r) = NoTally
    BY DEF Init, Tally
  <2>2. Tallied(NoTally) = {}
    BY DEF Tallied, NoTally
  <2>3. ~HasEnoughMsg(NoTally)
    BY <2>2, FS_EmptySet, Sizes DEF HasEnoughMsg
  <2> QED
    BY <2>1, <2>3 DEF NoTally
<1>3. SentInOrder
  BY <1>1 DEF SentInOrder
<1>4. TalliedInOrder
  <2>1. \A p \in Phase : 1 \in {1, 2} /\ 2 \in {1, 2}
    OBVIOUS
  <2> QED
    BY <1>2, <2>1 DEF TalliedInOrder
<1>5. QueuesInOrder
  <2> SUFFICES ASSUME NEW s \in Server PROVE QueueInOrder(s)
    BY DEF QueuesInOrder
  <2>1. Known(s) = 1
    BY <1>0, <1>1 DEF Known
  <2>2. \A p \in Phase : \A r \in {1, 2} : HasEnoughMsg(Tally(s, p, r)) <=> 2 * p + r < 1
    BY <1>0, <1>2
  <2>3. \A i \in DOMAIN queue[s] : FALSE
    BY <1>1
  <2> QED
    BY <1>0, <1>1, <2>1, <2>2, <2>3 DEF QueueInOrder
<1>6. DecisionsOnce
  BY <1>0, <1>1 DEF DecisionsOnce, DecisionOnce, Holds
<1> QED
  BY <1>0, <1>3, <1>4, <1>5, <1>6 DEF OrderInv

LEMMA OrderInvariance == OrderInv /\ [Next]_vars => OrderInv'
<1> SUFFICES ASSUME OrderInv, [Next]_vars PROVE OrderInv'
  OBVIOUS
<1>0. EngineInv /\ SentInOrder /\ TalliedInOrder /\ QueuesInOrder /\ DecisionsOnce
  BY DEF OrderInv
<1>1. EngineInv'
  BY <1>0, EngineInvariance
<1>2. ASSUME NEW s \in Server, ExecutorStep(s)
      PROVE  OrderInv'
  BY <1>0, <1>1, <1>2, ExecutorSentInOrder, ExecutorTalliedInOrder, ExecutorQueuesInOrder,
     ExecutorDecisionsOnce DEF OrderInv
<1>3. ASSUME NEW s \in Server, NEW q \in Server, NEW m \in Sent, Handled(s, q, m)
      PROVE  OrderInv'
  <2>1. UNCHANGED executorVars
    BY <1>3 DEF Handled
  <2>2. TalliedInOrder'
    BY <1>0, <1>3, HandlerTalliedInOrder
  <2> QED
    BY <1>0, <1>1, <1>3, <2>1, <2>2, SameSentInOrder, HandlerQueuesInOrder,
       HandlerDecisionsOnce DEF OrderInv
<1>4. ASSUME NEW s \in Server, Unblock(s) \/ MarkDecision(s) \/ Crash(s) \/ UNCHANGED vars
      PROVE  OrderInv'
  <2>1. UNCHANGED executorVars /\ UNCHANGED tallyVars
    BY <1>4 DEF Unblock, MarkDecision, Crash, vars
  <2> QED
    BY <1>0, <1>1, <1>4, <2>1, SameSentInOrder, SameTalliedInOrder, OtherQueuesInOrder,
       OtherDecisionsOnce DEF OrderInv
<1>5. \E s : s \in Server
  BY Sizes, FS_EmptySet DEF NServers
<1> QED
  BY <1>0, <1>2, <1>3, <1>4, <1>5, StepKinds

(* The order of messages, tallies and notices holds in every state.          *)
THEOREM OrderInvariant == Spec => []OrderInv
<1> QED
  BY InitOrder, OrderInvariance, PTL DEF Spec

(* wait() takes the notice of the round its executor waits for, or of a      *)
(* decision: its assertions "should not happen 1" to "4" never fire.         *)
THEOREM NoticesMatchHolds == Spec => []NoticesMatch
<1>1. OrderInv => NoticesMatch
  <2> SUFFICES ASSUME OrderInv, NEW s \in Server, pc[s] = "wait", queue[s] # << >>,
                      ~hasRecvDec[s], Head(queue[s]).type # "Decision"
               PROVE  Head(queue[s]).type = Awaited(s) /\ Head(queue[s]).phase = phase[s]
    BY DEF NoticesMatch
  <2>0. EngineInv /\ QueueInOrder(s)
    BY DEF OrderInv, QueuesInOrder
  <2>1. PICK n \in Notice : n = Head(queue[s]) /\ n = queue[s][1] /\ 1 \in DOMAIN queue[s]
    BY <2>0 DEF EngineInv, TypeOK
  <2>2. RoundNotice(n) /\ n.phase \in Phase
    BY <2>1, NoticeKinds DEF RoundNotice
  <2>3. /\ phase[s] \in Nat /\ round[s] \in {1, 2} /\ n.phase \in Nat
        /\ Waiting(s) = 2 * phase[s] + round[s]
    BY <2>0, <2>2, WaitingFacts DEF EngineInv, Rounds, Waiting
  <2>4. 2 * n.phase + RoundOf(n) = 2 * phase[s] + round[s]
    <3>1. Rank(n) = Waiting(s) + 1 - 1
      BY <2>0, <2>1, <2>2 DEF QueueInOrder
    <3> QED
      BY <2>3, <3>1 DEF Rank
  <2>5. n.phase = phase[s] /\ RoundOf(n) = round[s]
    BY <2>3, <2>4 DEF RoundOf
  <2>6. (n.type = "Proposal" => n.phase = 0) /\ (n.type = "State" => n.phase > 0)
    BY <2>0, <2>1 DEF EngineInv, NoticesSound, Sound
  <2>7. n.type = Awaited(s)
    BY <2>2, <2>3, <2>5, <2>6 DEF RoundNotice, RoundOf, Awaited
  <2> QED
    BY <2>1, <2>5, <2>7
<1> QED
  BY <1>1, OrderInvariant, PTL

(* At most one Decision notice is ever in the queue, and as long as wait()   *)
(* discards others because of HasRecvDec it is there to come.                *)
THEOREM DecisionNoticeKeptHolds == Spec => []DecisionNoticeKept
<1>1. OrderInv => DecisionNoticeKept
  BY DecisionKept DEF OrderInv
<1> QED
  BY <1>1, OrderInvariant, PTL

-----------------------------------------------------------------------------
(* Room for the notice of a blocked handler.                                *)

(* A server enters a phase because it saw no bit voted often enough.         *)
SplitVotes(p) ==
    \E H \in SUBSET Server :
        /\ Cardinality(H) = NMinusF /\ \A h \in H : vote[h][p] # None
        /\ \A b \in Bit : Cardinality({h \in H : vote[h][p] = b}) <= NFaulty
Undecided ==
    \A s \in Server : \A p \in Phase \ {0} : state[s][p] # None => SplitVotes(p - 1)

LEMMA SplitStays ==
    ASSUME Kept, NEW p \in Phase, SplitVotes(p)
    PROVE  SplitVotes(p)'
<1>1. PICK H \in SUBSET Server :
        /\ Cardinality(H) = NMinusF /\ \A h \in H : vote[h][p] # None
        /\ \A b \in Bit : Cardinality({h \in H : vote[h][p] = b}) <= NFaulty
  BY DEF SplitVotes
<1>2. \A h \in H : vote'[h][p] = vote[h][p]
  BY <1>1 DEF Kept
<1>3. \A b \in Bit : {h \in H : vote'[h][p] = b} = {h \in H : vote[h][p] = b}
  BY <1>2
<1> QED
  BY <1>1, <1>2, <1>3 DEF SplitVotes

LEMMA ExecutorUndecided ==
    ASSUME EngineInv, Undecided, NEW s \in Server, ExecutorStep(s)
    PROVE  Undecided'
<1> SUFFICES ASSUME NEW t \in Server, NEW p \in Phase \ {0}, state'[t][p] # None,
                    NEW k \in Phase, k = p - 1
             PROVE  SplitVotes(k)'
  BY PhaseAssumption DEF Undecided, Phase
<1>0. /\ Kept /\ state \in [Server -> [Phase -> Bit \cup {None}]] /\ phase[s] \in Phase
      /\ TallySound(s) /\ p \in Nat /\ phase[s] \in Nat
  <2>1. TypeOK /\ TalliesSound
    BY DEF EngineInv
  <2>2. state \in [Server -> [Phase -> Bit \cup {None}]] /\ phase[s] \in Phase
    BY <2>1 DEF TypeOK
  <2>3. p \in Nat /\ phase[s] \in Nat
    BY <2>1, WaitingFacts
  <2> QED
    BY <2>1, <2>2, <2>3, ExecutorKeeps DEF TalliesSound
<1>1. CASE state[t][p] # None
  BY <1>0, <1>1, SplitStays DEF Undecided
<1>2. CASE Stated(s) /\ k = phase[s]
  <2> DEFINE T == recvVote[s][k]
  <2>1. SampleOf(T, VotesOf(k)) /\ HasEnoughMsg(T) /\ MajT(T) <= NFaulty
    BY <1>0, <1>2 DEF TallySound, Stated, OpenVotes
  <2> HIDE DEF T
  <2>2. /\ Tallied(T) \in SUBSET Server /\ Cardinality(Tallied(T)) = NMinusF
        /\ \A h \in Tallied(T) : VotesOf(k)[h] # None
        /\ \A v : v # None =>
              Cardinality({h \in Tallied(T) : VotesOf(k)[h] = v}) = TallyOf(T, v)
    BY <2>1, SampleTaken
  <2>3. \A h \in Tallied(T) : VotesOf(k)[h] = vote[h][k]
    BY <2>2 DEF VotesOf
  <2>4. \A v : {h \in Tallied(T) : VotesOf(k)[h] = v} = {h \in Tallied(T) : vote[h][k] = v}
    BY <2>3
  <2>5. TallyOf(T, 0) <= NFaulty /\ TallyOf(T, 1) <= NFaulty
    BY <2>1, TallyFacts, Sizes DEF MajT, MajV
  <2>6. \A b \in Bit : Cardinality({h \in Tallied(T) : vote[h][k] = b}) <= NFaulty
    BY <2>2, <2>4, <2>5, Values DEF Bit
  <2>7. SplitVotes(k)
    BY <2>2, <2>3, <2>6 DEF SplitVotes
  <2> QED
    BY <1>0, <2>7, SplitStays
<1>3. state'[t][p] = state[t][p] \/ (Stated(s) /\ k = phase[s])
  <2>1. CASE Stated(s)
    <3>1. PICK v \in Bit : CastState(s, v)
      BY <2>1 DEF Stated
    <3>2. CASE phase[s] + 1 \in Phase /\ state' = [state EXCEPT ![s][phase[s] + 1] = v]
      <4>1. (t = s /\ p = phase[s] + 1) \/ state'[t][p] = state[t][p]
        BY <1>0, <3>2
      <4> QED
        BY <1>0, <2>1, <4>1
    <3>3. CASE UNCHANGED state
      BY <3>3
    <3> QED
      BY <3>1, <3>2, <3>3 DEF CastState
  <2>2. CASE UNCHANGED state
    BY <2>2
  <2> QED
    BY <2>1, <2>2
       DEF ExecutorStep, Start, Voted, CastVote, Concluded, Conclude, Asked, RequestProposal,
           Learned, executorVars
<1> QED
  BY <1>1, <1>2, <1>3

(* When all states of a phase are the same, so are the votes.                *)
LEMMA SameStatesVote ==
    ASSUME EngineInv, NEW p \in Phase, p > 0, NEW v \in Bit,
           \A q \in Server : state[q][p] \in {v, None}, NEW s \in Server
    PROVE  vote[s][p] \in {v, None}
<1> SUFFICES ASSUME vote[s][p] # None PROVE vote[s][p] = v
  OBVIOUS
<1>0. Weak!VoteBasis(p, vote[s][p]) /\ p # 0
  BY SameConstants DEF EngineInv, Weak!IndInv, Weak!Founded
<1>1. \/ /\ vote[s][p] \in Bit
         /\ Cardinality(Weak!StatedIn(Server, p, vote[s][p])) >= Majority
      \/ \E H \in Weak!Samples(Weak!StateCasters(p)) :
            \A b \in Bit : Cardinality(Weak!StatedIn(H, p, b)) < Majority
  BY <1>0, SameConstants, SameCardinality DEF Weak!VoteBasis
<1>2. CASE /\ vote[s][p] \in Bit
           /\ Cardinality(Weak!StatedIn(Server, p, vote[s][p])) >= Majority
  <2>1. Weak!StatedIn(Server, p, vote[s][p]) # {}
    BY <1>2, FS_EmptySet, Sizes
  <2>2. PICK q \in Server : state[q][p] = vote[s][p]
    BY <2>1 DEF Weak!StatedIn
  <2> QED
    BY <1>2, <2>2
<1>3. CASE \E H \in Weak!Samples(Weak!StateCasters(p)) :
              \A b \in Bit : Cardinality(Weak!StatedIn(H, p, b)) < Majority
  <2>1. PICK H \in Weak!Samples(Weak!StateCasters(p)) :
            Cardinality(Weak!StatedIn(H, p, v)) < Majority
    BY <1>3
  <2>2. Cardinality(H) = NMinusF /\ \A h \in H : h \in Server /\ state[h][p] # None
    BY <2>1, SameConstants, SameCardinality DEF Weak!Samples, Weak!StateCasters
  <2>3. Weak!StatedIn(H, p, v) = H
    BY <2>2 DEF Weak!StatedIn
  <2> QED
    BY <2>1, <2>2, <2>3, Sizes
<1> QED
  BY <1>1, <1>2, <1>3

(* Where all votes of a phase are the same, the slot ends.                   *)
LEMMA SameVotesEnd ==
    ASSUME EngineInv, Undecided, NEW k \in Phase, NEW p \in Phase, p = k + 1, NEW v \in Bit,
           \A q \in Server : vote[q][k] \in {v, None},
           NEW r \in Phase, r >= p, NEW s \in Server
    PROVE  state[s][r] = None /\ vote[s][r] = None
<1>0. /\ k \in Nat /\ p \in Nat /\ r \in Nat /\ p # 0 /\ p - 1 = k /\ r > 0
  BY DEF Phase
<1>1. ASSUME NEW q \in Server PROVE state[q][p] = None
  <2> SUFFICES ASSUME state[q][p] # None PROVE FALSE
    OBVIOUS
  <2>1. SplitVotes(k)
    BY <1>0 DEF Undecided
  <2>2. PICK H \in SUBSET Server :
          /\ Cardinality(H) = NMinusF /\ \A h \in H : vote[h][k] # None
          /\ Cardinality({h \in H : vote[h][k] = v}) <= NFaulty
    BY <2>1 DEF SplitVotes
  <2>3. {h \in H : vote[h][k] = v} = H
    BY <2>2
  <2>4. NMinusF <= NFaulty
    BY <2>2, <2>3
  <2> QED
    BY <2>4, Sizes
<1>2. ASSUME NEW q \in Server PROVE state[q][r] = None
  <2> SUFFICES ASSUME state[q][r] # None PROVE FALSE
    OBVIOUS
  <2>1. Weak!StateTrace /\ p \in 1 .. r
    BY <1>0 DEF EngineInv, Weak!IndInv
  <2>2. PICK t \in Server : state[t][p] = state[q][r]
    BY <2>1, SameConstants DEF Weak!StateTrace
  <2> QED
    BY <1>1, <2>2
<1>3. 0 \in Bit /\ 1 \in Bit /\ None \notin {0, 1}
  BY Values DEF Bit
<1>4. vote[s][r] \in {0, None} /\ vote[s][r] \in {1, None}
  BY <1>0, <1>2, <1>3, SameStatesVote
<1> QED
  BY <1>2, <1>4

(* The rounds after the one that made a server ask are few.                  *)
LEMMA TallyBacked ==
    ASSUME NEW T, NEW cast, SampleOf(T, cast), NEW v, v # None, NEW A,
           A = {q \in Server : cast[q] = v}
    PROVE  Cardinality(A) >= TallyOf(T, v) /\ Cardinality(A) \in Nat
<1>1. {q \in Server : T[q] = v} \in SUBSET A /\ A \in SUBSET Server
  BY DEF SampleOf
<1>2. TallyOf(T, v) \in Nat
  BY TallyFacts
<1> QED
  BY <1>1, <1>2, Smaller DEF TallyOf

LEMMA RoundsAfterAsking ==
    ASSUME EngineInv, Undecided, NEW s \in Server, pc[s] = "request",
           NEW p \in Phase, NEW r \in {1, 2}, Waiting(s) < 2 * p + r,
           HasEnoughMsg(Tally(s, p, r))
    PROVE  2 * p + r <= Waiting(s) + 2
<1> DEFINE k == phase[s]
<1>0. /\ k \in Phase /\ k \in Nat /\ p \in Nat /\ round[s] \in {1, 2} /\ TallySound(s)
      /\ Waiting(s) = 2 * k + round[s] /\ Weak!IndInv /\ \A j \in Phase : j \in Nat
  <2>1. k \in Phase /\ round[s] \in {1, 2} /\ TallySound(s) /\ Weak!IndInv
    BY DEF EngineInv, TypeOK, Rounds, TalliesSound
  <2> QED
    BY <2>1 DEF Waiting, Phase
<1>1. \E q \in Server : state[q][p] # None \/ vote[q][p] # None
  <2> DEFINE T == Tally(s, p, r)
  <2>0. Cardinality(Tallied(T)) >= NMinusF
    BY DEF HasEnoughMsg
  <2>1. Tallied(T) # {}
    <3> HIDE DEF T
    <3> QED
      BY <2>0, FS_EmptySet, Sizes
  <2>2. PICK q \in Server : T[q] # None
    BY <2>1 DEF Tallied
  <2>3. CASE r = 2
    <3>1. OpenVotes(s, p)
      BY <1>0, <2>3 DEF OpenVotes
    <3> QED
      BY <1>0, <2>2, <2>3, <3>1 DEF Tally, TallySound, SampleOf, VotesOf
  <2>4. CASE r = 1
    <3>1. OpenStates(s, p) /\ p # 0
      BY <1>0, <2>4 DEF OpenStates
    <3> QED
      BY <1>0, <2>2, <2>4, <3>1 DEF Tally, TallySound, SampleOf, StatesOf
  <2> QED
    BY <2>3, <2>4
<1>2. 1 \in Bit /\ 1 # None
  BY Values DEF Bit
<1>3. CASE round[s] = 1
  <2>1. k > 0 /\ DecidesOne(recvState[s][k], MajorityPlusF)
    BY <1>3 DEF EngineInv, RequestsSound, RequestSound
  <2>2. SampleOf(recvState[s][k], StatesOf(k)) /\ TallyOf(recvState[s][k], 1) >= MajorityPlusF
    BY <1>0, <1>3, <2>1 DEF TallySound, OpenStates, DecidesOne, MajT
  <2>3. Weak!StatedIn(Server, k, 1) = {q \in Server : StatesOf(k)[q] = 1}
    BY DEF Weak!StatedIn, StatesOf
  <2>4. Cardinality(Weak!StatedIn(Server, k, 1)) >= MajorityPlusF
    BY <1>2, <2>2, <2>3, TallyBacked, TallyFacts, Sizes
  <2>5. \A q \in Server : vote[q][k] \in {1, None}
    BY <1>0, <1>2, <2>1, <2>4, SameAssumptions, SameConstants, SameCardinality,
       Weak!StatesForceVotes
  <2>6. p <= k
    <3> SUFFICES ASSUME p > k PROVE FALSE
      BY <1>0
    <3>1. k + 1 \in Phase /\ p >= k + 1
      BY <1>0, PhaseAssumption DEF Phase
    <3> QED
      BY <1>0, <1>1, <1>2, <2>5, <3>1, SameVotesEnd
  <2> QED
    BY <1>0, <1>3, <2>6
<1>4. CASE round[s] = 2
  <2>1. DecidesOne(recvVote[s][k], FaultyPlusOne)
    BY <1>4 DEF EngineInv, RequestsSound, RequestSound
  <2>2. SampleOf(recvVote[s][k], VotesOf(k)) /\ TallyOf(recvVote[s][k], 1) >= FaultyPlusOne
    BY <1>0, <1>4, <2>1 DEF TallySound, OpenVotes, DecidesOne, MajT
  <2>3. Weak!VotedIn(Server, k, 1) = {q \in Server : VotesOf(k)[q] = 1}
    BY DEF Weak!VotedIn, VotesOf
  <2>4. Cardinality(Weak!VotedIn(Server, k, 1)) >= FaultyPlusOne
    BY <1>2, <2>2, <2>3, TallyBacked, TallyFacts, Sizes
  <2>5. Weak!Commit(k, 1)
    BY <2>4, SameConstants, SameCardinality DEF Weak!Commit
  <2>6. p <= k + 1
    <3> SUFFICES ASSUME p > k + 1 PROVE FALSE
      BY <1>0
    <3>1. PICK j \in Phase : j = k + 1
      BY <1>0, PhaseAssumption DEF Phase
    <3>2. j + 1 \in Phase /\ p >= j + 1 /\ j > 0
      BY <1>0, <3>1, PhaseAssumption DEF Phase
    <3>3. \A q \in Server : state[q][j] \in {1, None}
      BY <1>0, <1>2, <2>5, <3>1, SameAssumptions, SameConstants, Weak!CommitNextPhase
    <3>4. \A q \in Server : vote[q][j] \in {1, None}
      BY <1>2, <3>2, <3>3, SameStatesVote
    <3> QED
      BY <1>0, <1>1, <1>2, <3>2, <3>4, SameVotesEnd
  <2> QED
    BY <1>0, <1>4, <2>6
<1> QED
  BY <1>0, <1>3, <1>4

(* While a server asks, the notices it has are of different, later rounds.   *)
RequestOrder(s) ==
    pc[s] = "request" =>
        /\ \A i \in DOMAIN queue[s] : RoundNotice(queue[s][i]) =>
              /\ Rank(queue[s][i]) > Waiting(s)
              /\ RoundNotice(handler[s]) => Rank(handler[s]) # Rank(queue[s][i])
              /\ \A j \in DOMAIN queue[s] :
                    RoundNotice(queue[s][j]) /\ Rank(queue[s][j]) = Rank(queue[s][i]) => i = j
        /\ RoundNotice(handler[s]) => Rank(handler[s]) > Waiting(s)
RequestsInOrder == \A s \in Server : RequestOrder(s)

LEMMA SameRequestOrder ==
    ASSUME NEW s \in Server, RequestOrder(s), queue'[s] = queue[s], handler'[s] = handler[s],
           Waiting(s)' = Waiting(s), pc'[s] = pc[s]
    PROVE  RequestOrder(s)'
  BY DEF RequestOrder, RoundNotice, Rank, RoundOf

LEMMA PushRequestOrder ==
    ASSUME EngineInv, NEW s \in Server, RequestOrder(s), NEW n \in Notice,
           NEW rest \in {Free, Mark}, PushThen(s, n, rest),
           Waiting(s)' = Waiting(s), pc'[s] = pc[s], pc[s] = "request",
           RoundNotice(n) =>
              /\ Rank(n) > Waiting(s)
              /\ \A i \in DOMAIN queue[s] : RoundNotice(queue[s][i]) =>
                    Rank(queue[s][i]) # Rank(n)
    PROVE  RequestOrder(s)'
<1>0. /\ queue \in [Server -> Seq(Notice)] /\ handler \in [Server -> Notice \cup {Free, Mark}]
      /\ queue[s] \in Seq(Notice) /\ ~RoundNotice(Free) /\ ~RoundNotice(Mark)
  BY NoticeKinds DEF EngineInv, TypeOK, RoundNotice
<1>1. CASE queue'[s] = queue[s] /\ handler'[s] = n
  BY <1>1 DEF RequestOrder, RoundNotice, Rank, RoundOf
<1>2. CASE queue'[s] = Append(queue[s], n) /\ handler'[s] = rest
  <2> DEFINE L == Len(queue[s])
             W == Waiting(s)
             N(i) == RoundNotice(queue[s][i])
             R(i) == Rank(queue[s][i])
             M(i) == RoundNotice(queue'[s][i])
             S(i) == Rank(queue'[s][i])
  <2>1. /\ DOMAIN queue'[s] = DOMAIN queue[s] \cup {L + 1} /\ L + 1 \notin DOMAIN queue[s]
        /\ \A i \in DOMAIN queue[s] : queue'[s][i] = queue[s][i]
        /\ queue'[s][L + 1] = n
    BY <1>0, <1>2
  <2>2. \A i \in DOMAIN queue[s] : (M(i) <=> N(i)) /\ S(i) = R(i)
    BY <2>1
  <2>3. (M(L + 1) <=> RoundNotice(n)) /\ S(L + 1) = Rank(n)
    BY <2>1
  <2>4. \A i \in DOMAIN queue[s] : N(i) =>
           R(i) > W /\ \A j \in DOMAIN queue[s] : N(j) /\ R(j) = R(i) => i = j
    BY DEF RequestOrder
  <2>5. RoundNotice(n) => Rank(n) > W /\ \A i \in DOMAIN queue[s] : N(i) => R(i) # Rank(n)
    OBVIOUS
  <2>6. ~RoundNotice(handler'[s])
    BY <1>0, <1>2
  <2> HIDE DEF N, R, M, S, L, W
  <2>7. \A i \in DOMAIN queue'[s] : M(i) =>
           S(i) > W /\ \A j \in DOMAIN queue'[s] : M(j) /\ S(j) = S(i) => i = j
    <3> SUFFICES ASSUME NEW i \in DOMAIN queue'[s], M(i)
                 PROVE  S(i) > W /\ \A j \in DOMAIN queue'[s] : M(j) /\ S(j) = S(i) => i = j
      OBVIOUS
    <3>1. CASE i \in DOMAIN queue[s]
      BY <2>1, <2>2, <2>3, <2>4, <2>5, <3>1
    <3>2. CASE i = L + 1
      BY <2>1, <2>2, <2>3, <2>4, <2>5, <3>2
    <3> QED
      BY <2>1, <3>1, <3>2
  <2> QED
    BY <2>6, <2>7 DEF RequestOrder, RoundNotice, Rank, RoundOf, M, S, W
<1> QED
  BY <1>0, <1>1, <1>2 DEF PushThen

LEMMA ExecutorRequestsInOrder ==
    ASSUME EngineInv, QueuesInOrder, RequestsInOrder, NEW s \in Server, ExecutorStep(s)
    PROVE  RequestsInOrder'
<1> SUFFICES ASSUME NEW t \in Server, pc'[t] = "request" PROVE RequestOrder(t)'
  BY DEF RequestsInOrder, RequestOrder
<1>0. /\ UNCHANGED handler /\ Waiting(t) \in Nat
      /\ pc \in [Server -> {"idle", "wait", "request", "done", "panic"}]
      /\ queue \in [Server -> Seq(Notice)]
  BY WaitingFacts DEF EngineInv, TypeOK, ExecutorStep, Took, handlerVars
<1>1. CASE t # s
  BY <1>0, <1>1, ExecutorLocal, SameRequestOrder
     DEF ExecutorStep, Took, Waiting, RequestsInOrder
<1>2. CASE t = s /\ UNCHANGED executorVars
  BY <1>0, <1>2, SameRequestOrder
     DEF ExecutorStep, Took, Waiting, RequestsInOrder, executorVars
<1>3. CASE t = s /\ Asked(s)
  <2>1. /\ pc[s] = "wait" /\ ~hasRecvDec[s] /\ Waiting(s)' = Waiting(s)
        /\ queue'[s] = Tail(queue[s]) /\ queue[s] # << >>
    BY <1>0, <1>3 DEF Asked, RequestProposal, ExecutorStep, Took, Waiting
  <2>2. QueueInOrder(s)
    BY <2>1 DEF QueuesInOrder
  <2> DEFINE W == Waiting(s)
             L == Len(queue[s])
  <2>3. /\ L \in Nat /\ W \in Nat
        /\ \A i \in DOMAIN queue'[s] : /\ i \in Nat /\ i >= 1 /\ i <= L - 1
                                       /\ i + 1 \in DOMAIN queue[s]
                                       /\ queue'[s][i] = queue[s][i + 1]
    BY <1>0, <1>3, <2>1
  <2>4. ASSUME NEW i \in DOMAIN queue'[s], RoundNotice(queue'[s][i])
        PROVE  Rank(queue'[s][i]) = W + i
    <3>1. PICK j \in DOMAIN queue[s] : j = i + 1
      BY <2>3
    <3>2. RoundNotice(queue[s][j]) /\ Rank(queue[s][j]) = W + j - 1
      BY <2>2, <2>3, <2>4, <3>1 DEF QueueInOrder
    <3> QED
      BY <2>3, <3>1, <3>2
  <2>5. RoundNotice(handler[s]) => Rank(handler[s]) = W + L /\ W + L > W
    <3>1. RoundNotice(handler[s]) => Rank(handler[s]) = W + L
      BY <2>2 DEF QueueInOrder
    <3>2. L >= 1
      BY <1>0, <1>3, <2>1
    <3> QED
      BY <2>3, <3>1, <3>2
  <2> HIDE DEF W, L
  <2>6. ASSUME NEW i \in DOMAIN queue'[s], RoundNotice(queue'[s][i])
        PROVE  /\ Rank(queue'[s][i]) > W
               /\ RoundNotice(handler[s]) => Rank(handler[s]) # Rank(queue'[s][i])
               /\ \A j \in DOMAIN queue'[s] :
                    RoundNotice(queue'[s][j]) /\ Rank(queue'[s][j]) = Rank(queue'[s][i])
                       => i = j
    <3>1. Rank(queue'[s][i]) = W + i /\ i \in Nat /\ i >= 1 /\ i <= L - 1
      BY <2>3, <2>4, <2>6
    <3>2. ASSUME NEW j \in DOMAIN queue'[s], RoundNotice(queue'[s][j]),
                 Rank(queue'[s][j]) = Rank(queue'[s][i])
          PROVE  i = j
      <4>1. Rank(queue'[s][j]) = W + j /\ j \in Nat
        BY <2>3, <2>4, <3>2
      <4> QED
        BY <2>3, <3>1, <3>2, <4>1
    <3> QED
      BY <2>3, <2>5, <3>1, <3>2
  <2> QED
    BY <1>0, <1>3, <2>1, <2>5, <2>6 DEF RequestOrder, RoundNotice, Rank, RoundOf, W
<1>4. CASE t = s /\ (\/ \E m \in Proposal : Start(s, m)
                     \/ Voted(s) \/ Stated(s) \/ Concluded(s) \/ Learned(s))
  <2>1. FALSE
    BY <1>0, <1>4
       DEF Start, Voted, CastVote, Stated, CastState, Concluded, Conclude, Learned
  <2> QED
    BY <2>1
<1> QED
  BY <1>1, <1>2, <1>3, <1>4 DEF ExecutorStep

LEMMA NoticeComplete ==
    ASSUME NEW s \in Server, NEW n \in Notice, RoundNotice(n), Sound(s, n)
    PROVE  /\ HasEnoughMsg(Tally(s, n.phase, RoundOf(n)))
           /\ n.phase \in Phase /\ n.phase \in Nat /\ RoundOf(n) \in {1, 2}
           /\ Rank(n) = 2 * n.phase + RoundOf(n)
<1>1. n.phase \in Phase /\ n.phase \in Nat
  BY NoticeKinds DEF Phase
<1> QED
  BY <1>1 DEF Sound, RoundNotice, RoundOf, Rank, Tally

LEMMA AskedRead ==
    ASSUME EngineInv, NEW s \in Server, pc[s] = "request", NEW p \in Phase, NEW r \in {1, 2},
           ~HasEnoughMsg(Tally(s, p, r))
    PROVE  2 * p + r > Waiting(s)
<1>0. /\ phase[s] \in Nat /\ p \in Nat /\ Waiting(s) \in Nat /\ round[s] \in {1, 2}
      /\ Waiting(s) = 2 * phase[s] + round[s]
  <2>1. round[s] \in {1, 2}
    BY DEF EngineInv, Rounds
  <2> QED
    BY <2>1, WaitingFacts DEF EngineInv, Waiting
<1>1. ~(2 * p + r < Waiting(s))
  BY ReadComplete DEF RoundsRead, Read
<1>2. 2 * p + r # Waiting(s)
  <2> SUFFICES ASSUME 2 * p + r = Waiting(s) PROVE FALSE
    OBVIOUS
  <2>1. p = phase[s] /\ r = round[s]
    BY <1>0
  <2> QED
    BY <1>0, <2>1 DEF EngineInv, RequestsSound, RequestSound, DecidesOne, Tally
<1> QED
  BY <1>0, <1>1, <1>2

LEMMA HandlerRequestsInOrder ==
    ASSUME EngineInv, RequestsInOrder, NEW s \in Server, NEW q \in Server, NEW m \in Sent,
           Handled(s, q, m)
    PROVE  RequestsInOrder'
<1> SUFFICES ASSUME NEW t \in Server, pc'[t] = "request" PROVE RequestOrder(t)'
  BY DEF RequestsInOrder, RequestOrder
<1>0. /\ UNCHANGED <<pc, phase, round>> /\ pc[t] = "request" /\ Waiting(t)' = Waiting(t)
      /\ queue \in [Server -> Seq(Notice)] /\ handler \in [Server -> Notice \cup {Free, Mark}]
      /\ Free \in {Free, Mark} /\ Mark \in {Free, Mark} /\ RequestOrder(t)
  BY DEF Handled, executorVars, Waiting, EngineInv, TypeOK, RequestsInOrder
<1>1. ASSUME UNCHANGED <<queue, handler>>
      PROVE  RequestOrder(t)'
  BY <1>0, <1>1, SameRequestOrder
<1>2. ASSUME NEW n, NEW rest, PushThen(s, n, rest), t # s
      PROVE  RequestOrder(t)'
  <2>1. queue'[t] = queue[t] /\ handler'[t] = handler[t]
    BY <1>0, <1>2 DEF PushThen
  <2> QED
    BY <1>0, <2>1, SameRequestOrder
<1>3. ASSUME t = s, RoundNotice(m), NEW n \in Notice, Rank(n) = Rank(m), PushThen(s, n, Free)
      PROVE  RequestOrder(s)'
  <2>1. PICK i \in DOMAIN sent[q] : m = sent[q][i]
    BY DEF Handled
  <2>2. /\ m.phase \in Phase /\ m.phase \in Nat /\ RoundOf(m) \in {1, 2}
        /\ Rank(m) = 2 * m.phase + RoundOf(m)
        /\ ~HasEnoughMsg(Tally(s, m.phase, RoundOf(m)))
    BY <1>3, <2>1, MessageTally DEF Handled
  <2>3. Rank(m) > Waiting(s)
    BY <1>0, <1>3, <2>2, AskedRead
  <2>4. ASSUME NEW j \in DOMAIN queue[s], RoundNotice(queue[s][j])
        PROVE  Rank(queue[s][j]) # Rank(m)
    <3> DEFINE x == queue[s][j]
    <3>1. x \in Notice /\ Sound(s, x)
      BY <1>0 DEF EngineInv, NoticesSound
    <3>2. /\ HasEnoughMsg(Tally(s, x.phase, RoundOf(x))) /\ x.phase \in Nat
          /\ RoundOf(x) \in {1, 2} /\ Rank(x) = 2 * x.phase + RoundOf(x)
      BY <2>4, <3>1, NoticeComplete
    <3> HIDE DEF x
    <3>3. Rank(x) = Rank(m) => x.phase = m.phase /\ RoundOf(x) = RoundOf(m)
      BY <2>2, <3>2
    <3>4. Rank(x) # Rank(m)
      BY <2>2, <3>2, <3>3
    <3> QED
      BY <3>4 DEF x
  <2> QED
    BY <1>0, <1>3, <2>3, <2>4, PushRequestOrder
<1>4. ASSUME NEW n \in Notice, NEW T, RoundNotice(m), Rank(n) = Rank(m),
             NotifyIfEnough(s, T, n)
      PROVE  RequestOrder(t)'
  BY <1>1, <1>2, <1>3, <1>4 DEF NotifyIfEnough
<1>5. ASSUME NEW y \in {"Proposal", "State", "Vote"}, NEW p \in Phase
      PROVE  /\ Message(y, p, None) \in Notice /\ Message(y, p, None).type = y
             /\ Message(y, p, None).phase = p
  BY NoticeKinds DEF Message
<1>6. CASE HandleProposal(s, q, m)
  <2> DEFINE n == Message("Proposal", 0, None)
  <2>1. m.type = "Proposal" /\ m.phase = 0 /\ RoundNotice(m)
    BY <1>6, SentKinds DEF HandleProposal, RoundNotice
  <2>2. n \in Notice /\ n.type = "Proposal" /\ n.phase = 0
    BY <1>5, PhaseAssumption DEF Phase
  <2>3. Rank(n) = Rank(m)
    BY <2>1, <2>2 DEF Rank, RoundOf
  <2> QED
    BY <1>4, <1>6, <2>1, <2>2, <2>3 DEF HandleProposal
<1>7. ASSUME NEW y \in {"State", "Vote"}, m.type = y,
             NEW T, NotifyIfEnough(s, T, Message(y, m.phase, None))
      PROVE  RequestOrder(t)'
  <2>1. RoundNotice(m) /\ m.phase \in Phase
    BY <1>7, SentKinds DEF RoundNotice
  <2>2. PICK n \in Notice : /\ n = Message(y, m.phase, None)
                            /\ n.type = m.type /\ n.phase = m.phase
    BY <1>5, <1>7, <2>1
  <2>3. Rank(n) = Rank(m)
    BY <2>2 DEF Rank, RoundOf
  <2> QED
    BY <1>4, <1>7, <2>1, <2>2, <2>3
<1>8. CASE HandleState(s, q, m) \/ HandleVote(s, q, m)
  BY <1>7, <1>8 DEF HandleState, HandleVote
<1>9. CASE HandleDecision(s, q, m)
  <2>1. m \in Notice /\ ~RoundNotice(m) /\ PushThen(s, m, Mark)
    BY <1>9, SentKinds DEF HandleDecision, RoundNotice
  <2>2. CASE t = s
    BY <1>0, <2>1, <2>2, PushRequestOrder
  <2> QED
    BY <1>2, <2>1, <2>2
<1>10. CASE HandleRequest(s, q, m)
  BY <1>1, <1>10 DEF HandleRequest
<1> QED
  BY <1>6, <1>8, <1>9, <1>10 DEF Handled

LEMMA OtherRequestsInOrder ==
    ASSUME EngineInv, RequestsInOrder, NEW s \in Server,
           Unblock(s) \/ MarkDecision(s) \/ Crash(s) \/ UNCHANGED vars
    PROVE  RequestsInOrder'
<1> SUFFICES ASSUME NEW t \in Server, pc'[t] = "request" PROVE RequestOrder(t)'
  BY DEF RequestsInOrder, RequestOrder
<1>0. /\ UNCHANGED <<pc, phase, round>> /\ pc[t] = "request" /\ Waiting(t)' = Waiting(t)
      /\ queue \in [Server -> Seq(Notice)] /\ handler \in [Server -> Notice \cup {Free, Mark}]
      /\ RequestOrder(t)
  BY DEF Unblock, MarkDecision, Crash, vars, executorVars, Waiting, EngineInv, TypeOK,
         RequestsInOrder
<1>1. CASE queue'[t] = queue[t] /\ handler'[t] = handler[t]
  BY <1>0, <1>1, SameRequestOrder
<1>2. CASE Unblock(s) /\ t = s
  <2> DEFINE n == handler[s]
             rest == IF n.type = "Decision" THEN Mark ELSE Free
  <2>1. n \in Notice /\ PushThen(s, n, rest) /\ rest \in {Free, Mark}
    BY <1>0, <1>2 DEF Unblock
  <2>2. RoundNotice(n) =>
              /\ Rank(n) > Waiting(s)
              /\ \A i \in DOMAIN queue[s] : RoundNotice(queue[s][i]) =>
                    Rank(queue[s][i]) # Rank(n)
    BY <1>0, <1>2 DEF RequestOrder
  <2> HIDE DEF n, rest
  <2> QED
    BY <1>0, <1>2, <2>1, <2>2, PushRequestOrder
<1>3. CASE MarkDecision(s) /\ t = s
  <2>1. queue' = queue /\ handler[s] = Mark /\ handler'[s] = Free
    BY <1>0, <1>3 DEF MarkDecision
  <2>2. ~RoundNotice(handler'[s])
    BY <2>1, NoticeKinds DEF RoundNotice
  <2> QED
    BY <1>0, <1>3, <2>1, <2>2 DEF RequestOrder, RoundNotice, Rank, RoundOf
<1>4. \/ queue'[t] = queue[t] /\ handler'[t] = handler[t]
      \/ (Unblock(s) \/ MarkDecision(s)) /\ t = s
  <2>1. CASE Unblock(s)
    BY <1>0, <2>1 DEF Unblock, PushThen
  <2>2. CASE MarkDecision(s)
    BY <1>0, <2>2 DEF MarkDecision
  <2>3. CASE Crash(s) \/ UNCHANGED vars
    BY <2>3 DEF Crash, vars, handlerVars
  <2> QED
    BY <2>1, <2>2, <2>3
<1> QED
  BY <1>1, <1>2, <1>3, <1>4

(* A server that asks has at most three notices: of the two rounds that the  *)
(* others may still get to, and a Decision.                                  *)
LEMMA RoomForBlocked ==
    ASSUME EngineInv, Undecided, RequestsInOrder, DecisionsOnce,
           NEW s \in Server, pc[s] = "request", handler[s] \notin {Free, Mark}
    PROVE  Len(queue[s]) <= 2
<1> SUFFICES ASSUME Len(queue[s]) >= 3 PROVE FALSE
  BY DEF EngineInv, TypeOK
<1> DEFINE W == Waiting(s)
           Key(n) == IF RoundNotice(n) THEN Rank(n) - W ELSE 0
<1>0. /\ queue[s] \in Seq(Notice) /\ handler[s] \in Notice /\ W \in Nat
      /\ Sound(s, handler[s]) /\ \A i \in DOMAIN queue[s] : Sound(s, queue[s][i])
      /\ RequestOrder(s) /\ DecisionOnce(s)
  BY WaitingFacts DEF EngineInv, TypeOK, NoticesSound, RequestsInOrder, DecisionsOnce
<1>1. ASSUME NEW n \in Notice, Sound(s, n), RoundNotice(n) => Rank(n) > W
      PROVE  Key(n) \in {0, 1, 2} /\ (Key(n) = 0 => ~RoundNotice(n))
  <2> SUFFICES ASSUME RoundNotice(n) PROVE Rank(n) - W \in {1, 2}
    OBVIOUS
  <2>1. /\ HasEnoughMsg(Tally(s, n.phase, RoundOf(n))) /\ n.phase \in Phase
        /\ n.phase \in Nat /\ RoundOf(n) \in {1, 2} /\ Rank(n) = 2 * n.phase + RoundOf(n)
    BY <1>1, NoticeComplete
  <2>2. Rank(n) <= W + 2 /\ Rank(n) > W /\ Rank(n) \in Nat
    BY <1>1, <2>1, RoundsAfterAsking
  <2> QED
    BY <1>0, <2>2
<1>2. ASSUME NEW i \in DOMAIN queue[s]
      PROVE  /\ Key(queue[s][i]) \in {0, 1, 2} /\ Key(queue[s][i]) # Key(handler[s])
             /\ \A j \in DOMAIN queue[s] : Key(queue[s][i]) = Key(queue[s][j]) => i = j
  <2>1. ASSUME NEW j \in DOMAIN queue[s]
        PROVE  /\ queue[s][j] \in Notice
               /\ RoundNotice(queue[s][j]) <=> ~Holds(s, j)
               /\ RoundNotice(queue[s][j]) => Rank(queue[s][j]) > W
               /\ Key(queue[s][j]) \in {0, 1, 2}
               /\ Key(queue[s][j]) = 0 => Holds(s, j)
               /\ RoundNotice(queue[s][j]) => Rank(queue[s][j]) \in Nat
    <3>1. /\ queue[s][j] \in Notice
          /\ RoundNotice(queue[s][j]) => Rank(queue[s][j]) > W
      BY <1>0 DEF RequestOrder
    <3>2. RoundNotice(queue[s][j]) <=> ~Holds(s, j)
      BY <3>1, NoticeKinds DEF RoundNotice, Holds
    <3>3. RoundNotice(queue[s][j]) => Rank(queue[s][j]) \in Nat
      BY <1>0, <3>1, NoticeComplete
    <3> QED
      BY <1>0, <1>1, <3>1, <3>2, <3>3
  <2>2. ASSUME NEW j \in DOMAIN queue[s], Key(queue[s][i]) = Key(queue[s][j])
        PROVE  i = j
    <3>1. CASE RoundNotice(queue[s][i]) /\ RoundNotice(queue[s][j])
      <4>1. Rank(queue[s][i]) = Rank(queue[s][j])
        BY <1>0, <2>1, <2>2, <3>1
      <4> QED
        BY <1>0, <3>1, <4>1 DEF RequestOrder
    <3>2. CASE Holds(s, i) /\ Holds(s, j)
      BY <1>0, <3>2 DEF DecisionOnce
    <3>3. (Key(queue[s][i]) = 0 <=> Holds(s, i)) /\ (Key(queue[s][j]) = 0 <=> Holds(s, j))
      BY <2>1
    <3> HIDE DEF Key
    <3> QED
      BY <2>1, <2>2, <3>1, <3>2, <3>3
  <2>3. Key(queue[s][i]) # Key(handler[s])
    <3>1. RoundNotice(handler[s]) \/ handler[s].type = "Decision"
      BY <1>0, NoticeKinds DEF RoundNotice
    <3>2. CASE RoundNotice(handler[s])
      <4>1. Rank(handler[s]) \in Nat /\ Rank(handler[s]) > W
        BY <1>0, <3>2, NoticeComplete DEF RequestOrder
      <4>2. Key(handler[s]) = Rank(handler[s]) - W /\ Key(handler[s]) # 0
        BY <1>0, <3>2, <4>1
      <4>3. CASE RoundNotice(queue[s][i])
        <5>1. Rank(handler[s]) # Rank(queue[s][i])
          BY <1>0, <3>2, <4>3 DEF RequestOrder
        <5>2. Key(queue[s][i]) = Rank(queue[s][i]) - W /\ Rank(queue[s][i]) \in Nat
          BY <2>1, <4>3
        <5> QED
          BY <1>0, <4>1, <4>2, <5>1, <5>2
      <4> QED
        BY <4>2, <4>3
    <3>3. CASE handler[s].type = "Decision"
      <4>1. ~RoundNotice(handler[s])
        BY <3>3 DEF RoundNotice
      <4>2. ~Holds(s, i)
        BY <1>0, <3>3 DEF DecisionOnce
      <4> QED
        BY <2>1, <4>1, <4>2
    <3> QED
      BY <3>1, <3>2, <3>3
  <2> HIDE DEF Key
  <2> QED
    BY <2>1, <2>2, <2>3
<1>3. Key(handler[s]) \in {0, 1, 2}
  BY <1>0, <1>1 DEF RequestOrder
<1>4. 1 \in DOMAIN queue[s] /\ 2 \in DOMAIN queue[s] /\ 3 \in DOMAIN queue[s]
  BY <1>0
<1> HIDE DEF Key
<1>5. /\ Key(queue[s][1]) # Key(queue[s][2]) /\ Key(queue[s][1]) # Key(queue[s][3])
      /\ Key(queue[s][2]) # Key(queue[s][3])
  <2>1. 1 # 2 /\ 1 # 3 /\ 2 # 3
    OBVIOUS
  <2> QED
    BY <1>2, <1>4, <2>1
<1> QED
  BY <1>2, <1>3, <1>4, <1>5

AskInv == OrderInv /\ Undecided /\ RequestsInOrder

LEMMA AskInvariance == AskInv /\ [Next]_vars => AskInv'
<1> SUFFICES ASSUME AskInv, [Next]_vars PROVE AskInv'
  OBVIOUS
<1>0. /\ EngineInv /\ QueuesInOrder /\ Undecided /\ RequestsInOrder /\ OrderInv'
      /\ \E s : s \in Server
  BY OrderInvariance, Sizes, FS_EmptySet DEF AskInv, OrderInv, NServers
<1>1. ASSUME UNCHANGED executorVars
      PROVE  Undecided'
  BY <1>0, <1>1 DEF executorVars, Undecided, SplitVotes
<1>2. ASSUME NEW s \in Server, ExecutorStep(s)
      PROVE  AskInv'
  BY <1>0, <1>2, ExecutorUndecided, ExecutorRequestsInOrder DEF AskInv
<1>3. ASSUME NEW s \in Server, NEW q \in Server, NEW m \in Sent, Handled(s, q, m)
      PROVE  AskInv'
  BY <1>0, <1>1, <1>3, HandlerRequestsInOrder DEF AskInv, Handled
<1>4. ASSUME NEW s \in Server, Unblock(s) \/ MarkDecision(s) \/ Crash(s) \/ UNCHANGED vars
      PROVE  AskInv'
  <2>1. UNCHANGED executorVars
    BY <1>4 DEF Unblock, MarkDecision, Crash, vars
  <2> QED
    BY <1>0, <1>1, <1>4, <2>1, OtherRequestsInOrder DEF AskInv
<1> QED
  BY <1>0, <1>2, <1>3, <1>4, StepKinds

LEMMA NotStuckStep ==
    ASSUME QueueCap >= 3, AskInv, HandlerNotStuck, [Next]_vars
    PROVE  HandlerNotStuck'
<1> SUFFICES ASSUME NEW t \in Server, pc'[t] = "done", handler'[t] \notin {Free, Mark}
             PROVE  Len(queue'[t]) < QueueCap
  BY DEF HandlerNotStuck
<1>0. /\ EngineInv /\ Undecided /\ RequestsInOrder /\ DecisionsOnce
      /\ pc \in [Server -> {"idle", "wait", "request", "done", "panic"}]
      /\ queue \in [Server -> Seq(Notice)] /\ handler \in [Server -> Notice \cup {Free, Mark}]
      /\ Len(queue[t]) <= QueueCap /\ Len(queue[t]) \in Nat /\ QueueCap \in Nat
      /\ pc[t] = "done" /\ handler[t] \notin {Free, Mark} => Len(queue[t]) < QueueCap
  BY QueueAssumption DEF AskInv, OrderInv, EngineInv, TypeOK, HandlerNotStuck
<1>1. ASSUME NEW s \in Server, ExecutorStep(s)
      PROVE  Len(queue'[t]) < QueueCap
  <2>1. handler'[t] = handler[t] /\ Took(s)
    BY <1>1 DEF ExecutorStep, Took, handlerVars
  <2>2. CASE t # s
    <3>1. queue'[t] = queue[t] /\ pc'[t] = pc[t]
      BY <1>0, <1>1, <2>1, <2>2, ExecutorLocal DEF Took
    <3> QED
      BY <1>0, <2>1, <3>1
  <2>3. CASE t = s /\ pc[s] = "wait"
    <3>1. queue[s] \in Seq(Notice) /\ queue[s] # << >> /\ queue'[s] = Tail(queue[s])
      BY <1>0, <2>1, <2>3 DEF Took
    <3>2. Len(queue'[s]) = Len(queue[s]) - 1
      BY <3>1
    <3> QED
      BY <1>0, <2>3, <3>2
  <2>4. CASE t = s /\ pc[s] # "wait"
    <3>1. queue'[s] = queue[s]
      BY <2>1, <2>4 DEF Took
    <3>2. pc[s] \in {"request", "done"}
      BY <1>0, <1>1, <2>4
         DEF ExecutorStep, Start, Voted, Stated, Concluded, Asked, Learned, executorVars
    <3>3. CASE pc[s] = "request"
      <4>1. Len(queue[s]) <= 2
        BY <1>0, <2>1, <2>4, <3>3, RoomForBlocked
      <4> QED
        BY <1>0, <2>4, <3>1, <4>1
    <3> QED
      BY <1>0, <2>1, <2>4, <3>1, <3>2, <3>3
  <2> QED
    BY <2>2, <2>3, <2>4
<1>2. ASSUME queue'[t] = queue[t], handler'[t] = handler[t], pc'[t] = pc[t]
      PROVE  Len(queue'[t]) < QueueCap
  BY <1>0, <1>2
<1>3. ASSUME NEW s \in Server, NEW q \in Server, NEW m \in Sent, Handled(s, q, m)
      PROVE  Len(queue'[t]) < QueueCap
  <2>1. UNCHANGED pc /\ IsDone(t)
    BY <1>0, <1>3 DEF Handled, executorVars, EngineInv, Rounds, IsDone
  <2>2. CASE t = s
    <3>1. m.type = "ProposalRequest"
      BY <1>3, <2>1, <2>2 DEF Handled, Passed, Ignores
    <3>2. HandleRequest(s, q, m)
      BY <1>3, <3>1
         DEF Handled, HandleProposal, HandleState, HandleVote, HandleDecision
    <3> QED
      BY <1>2, <2>1, <3>2 DEF HandleRequest
  <2>3. CASE t # s
    <3>1. queue'[t] = queue[t] /\ handler'[t] = handler[t]
      BY <1>0, <1>3, <2>3
         DEF Handled, HandleProposal, HandleState, HandleVote, HandleDecision, HandleRequest,
             NotifyIfEnough, PushThen
    <3> QED
      BY <1>2, <2>1, <3>1
  <2> QED
    BY <2>2, <2>3
<1>4. ASSUME NEW s \in Server, Unblock(s)
      PROVE  Len(queue'[t]) < QueueCap
  <2>1. /\ UNCHANGED pc /\ Len(queue[s]) < QueueCap
        /\ handler' = [handler EXCEPT ![s] =
                          IF handler[s].type = "Decision" THEN Mark ELSE Free]
        /\ queue' = [queue EXCEPT ![s] = Append(@, handler[s])]
    BY <1>4 DEF Unblock, PushThen, executorVars
  <2>2. t # s
    BY <1>0, <2>1
  <2>3. queue'[t] = queue[t] /\ handler'[t] = handler[t]
    BY <1>0, <2>1, <2>2
  <2> QED
    BY <1>2, <2>1, <2>3
<1>5. ASSUME NEW s \in Server, MarkDecision(s)
      PROVE  Len(queue'[t]) < QueueCap
  <2>1. UNCHANGED <<pc, queue>> /\ handler' = [handler EXCEPT ![s] = Free]
    BY <1>5 DEF MarkDecision, executorVars
  <2>2. handler'[t] = handler[t]
    BY <1>0, <2>1
  <2> QED
    BY <1>2, <2>1, <2>2
<1>6. ASSUME NEW s \in Server, Crash(s) \/ UNCHANGED vars
      PROVE  Len(queue'[t]) < QueueCap
  BY <1>2, <1>6 DEF Crash, vars, executorVars, handlerVars
<1>7. \E s : s \in Server
  BY Sizes, FS_EmptySet DEF NServers
<1> QED
  BY <1>0, <1>1, <1>3, <1>4, <1>5, <1>6, <1>7, StepKinds

(* A handler that blocked on the queue of a slot that its executor has left  *)
(* goes on: with a capacity of three there is room for its notice (the code  *)
(* allocates ten).  With two there need not be.                              *)
THEOREM HandlerNotStuckHolds ==
    ASSUME QueueCap >= 3
    PROVE  Spec => []HandlerNotStuck
<1>1. Init => AskInv /\ HandlerNotStuck
  <2> SUFFICES ASSUME Init PROVE AskInv /\ HandlerNotStuck
    OBVIOUS
  <2>1. Undecided /\ RequestsInOrder /\ HandlerNotStuck
    BY DEF Init, Undecided, RequestsInOrder, RequestOrder, HandlerNotStuck
  <2> QED
    BY <2>1, InitOrder DEF AskInv
<1>2. AskInv /\ HandlerNotStuck /\ [Next]_vars => (AskInv /\ HandlerNotStuck)'
  BY AskInvariance, NotStuckStep
<1> QED
  BY <1>1, <1>2, PTL DEF Spec
=============================================================================
