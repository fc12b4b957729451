--------------------------- MODULE WeakMVCProofs ---------------------------
(***************************************************************************)
(* Proofs about WeakMVC, for every cluster with NFaulty < NServers / 2,    *)
(* every set of objects, every number of phases and every common coin.     *)
(* First what its inductive invariant IndInv says of one state: it implies *)
(* every safety property of the module.  Then that it is inductive, and    *)
(* what follows: the type invariant and the safety properties of the slot, *)
(* as theorems of the specification.                                       *)
(***************************************************************************)
EXTENDS WeakMVC, FiniteSetTheorems, TLAPS

-----------------------------------------------------------------------------
(* Counting servers.                                                        *)

(* The thresholds of CalcConstants: two majorities overlap, a sample is at   *)
(* least a majority, a sample meets any FaultyPlusOne servers.               *)
LEMMA Thresholds ==
    /\ NServers \in Nat /\ NFaulty \in Nat /\ NMinusF \in Nat
    /\ Majority \in Nat /\ MajorityPlusF \in Nat /\ FaultyPlusOne \in Nat
    /\ Majority + Majority > NServers
    /\ Majority >= 1
    /\ NMinusF >= Majority
    /\ NMinusF = NServers - NFaulty
    /\ MajorityPlusF = Majority + NFaulty
    /\ FaultyPlusOne = NFaulty + 1
<1>1. NServers \in Nat
  BY ServerAssumption, FS_CardinalityType DEF NServers
<1>2. NFaulty \in Nat /\ 2 * NFaulty < NServers
  BY FaultAssumption DEF NServers
<1>3. /\ NServers \div 2 \in Nat
      /\ 2 * (NServers \div 2) <= NServers
      /\ NServers < 2 * (NServers \div 2) + 2
  BY <1>1, SMT
<1> QED
  BY <1>1, <1>2, <1>3 DEF NMinusF, Majority, MajorityPlusF, FaultyPlusOne

LEMMA SubsetFinite ==
    ASSUME NEW A \in SUBSET Server
    PROVE  IsFiniteSet(A) /\ Cardinality(A) \in Nat /\ Cardinality(A) <= NServers
  BY ServerAssumption, FS_Subset, FS_CardinalityType DEF NServers

LEMMA CardLe ==
    ASSUME NEW B \in SUBSET Server, NEW A \in SUBSET B
    PROVE  /\ Cardinality(A) \in Nat /\ Cardinality(B) \in Nat
           /\ Cardinality(A) <= Cardinality(B)
  BY SubsetFinite, FS_Subset, FS_CardinalityType

(* Sets of servers too large to be disjoint share a member.                  *)
LEMMA Overlap ==
    ASSUME NEW A \in SUBSET Server, NEW B \in SUBSET Server,
           Cardinality(A) + Cardinality(B) > NServers
    PROVE  \E x \in Server : x \in A /\ x \in B
<1>1. SUFFICES ASSUME A \cap B = {} PROVE FALSE
  OBVIOUS
<1>2. Cardinality(A \cup B) = Cardinality(A) + Cardinality(B) - Cardinality(A \cap B)
  BY SubsetFinite, FS_Union
<1>3. Cardinality(A \cap B) = 0
  BY <1>1, FS_EmptySet
<1>4. Cardinality(A \cup B) <= NServers
  BY SubsetFinite, A \cup B \in SUBSET Server
<1>5. Cardinality(A) \in Nat /\ Cardinality(B) \in Nat
  BY SubsetFinite
<1> QED
  BY <1>2, <1>3, <1>4, <1>5, Thresholds

LEMMA NonEmpty ==
    ASSUME NEW A \in SUBSET Server, Cardinality(A) >= 1
    PROVE  \E x \in Server : x \in A
<1>1. Cardinality({}) = 0
  BY FS_EmptySet
<1> QED
  BY <1>1

(* A sample misses at most NFaulty of the members of a set.                  *)
LEMMA SampleMisses ==
    ASSUME NEW A \in SUBSET Server, NEW H \in SUBSET Server,
           Cardinality(H) = NMinusF
    PROVE  Cardinality(H \cap A) >= Cardinality(A) - NFaulty
<1>1. Cardinality(H \cup A) = Cardinality(H) + Cardinality(A) - Cardinality(H \cap A)
  BY SubsetFinite, FS_Union
<1>2. Cardinality(H \cup A) <= NServers
  BY SubsetFinite, H \cup A \in SUBSET Server
<1>3. Cardinality(H \cap A) \in Nat /\ Cardinality(A) \in Nat
  BY SubsetFinite, H \cap A \in SUBSET Server
<1> QED
  BY <1>1, <1>2, <1>3, Thresholds

LEMMA SampleFacts ==
    ASSUME NEW C \in SUBSET Server, NEW H \in Samples(C)
    PROVE  /\ H \in SUBSET Server
           /\ \A h \in H : h \in C
           /\ Cardinality(H) = NMinusF
           /\ \E h \in Server : h \in H
<1>1. H \in SUBSET Server /\ Cardinality(H) = NMinusF /\ \A h \in H : h \in C
  BY DEF Samples
<1>2. Cardinality(H) >= 1
  BY <1>1, Thresholds
<1> QED
  BY <1>1, <1>2, NonEmpty

-----------------------------------------------------------------------------
(* What the inductive invariant says of one state.                          *)

LEMMA Values ==
    None \notin {0, 1, 2} /\ None # Null /\ Null \notin Proposal /\ None \notin Proposal
  BY ValueAssumption

(* The bits voted in a phase agree.                                         *)
LEMMA VotesAgreeFollows ==
    ASSUME IndInv
    PROVE  VotesAgree
<1> SUFFICES ASSUME NEW p \in Phase, NEW s \in Server, NEW t \in Server,
                    vote[s][p] \in Bit, vote[t][p] \in Bit
             PROVE  vote[s][p] = vote[t][p]
  BY DEF VotesAgree
<1>1. VoteBasis(p, vote[s][p]) /\ VoteBasis(p, vote[t][p])
  BY Values DEF IndInv, Founded, Bit
<1>2. CASE p = 0
  BY <1>1, <1>2 DEF VoteBasis, Bit, Unknown
<1>3. CASE p # 0
  <2>1. /\ Cardinality(StatedIn(Server, p, vote[s][p])) >= Majority
        /\ Cardinality(StatedIn(Server, p, vote[t][p])) >= Majority
    BY <1>1, <1>3 DEF VoteBasis, Bit, Unknown
  <2>2. /\ StatedIn(Server, p, vote[s][p]) \in SUBSET Server
        /\ StatedIn(Server, p, vote[t][p]) \in SUBSET Server
    BY DEF StatedIn
  <2>3. /\ Cardinality(StatedIn(Server, p, vote[s][p])) \in Nat
        /\ Cardinality(StatedIn(Server, p, vote[t][p])) \in Nat
    BY <2>2, SubsetFinite
  <2>4. Cardinality(StatedIn(Server, p, vote[s][p]))
          + Cardinality(StatedIn(Server, p, vote[t][p])) > NServers
    BY <2>1, <2>3, Thresholds
  <2>5. PICK x \in Server : x \in StatedIn(Server, p, vote[s][p])
                            /\ x \in StatedIn(Server, p, vote[t][p])
    BY <2>2, <2>4, Overlap
  <2> QED
    BY <2>5 DEF StatedIn
<1> QED
  BY <1>2, <1>3

(* If MajorityPlusF states of a phase equal v, every vote of the phase is v. *)
LEMMA StatesForceVotes ==
    ASSUME IndInv, NEW p \in Phase, NEW v \in Bit, p > 0,
           Cardinality(StatedIn(Server, p, v)) >= MajorityPlusF,
           NEW s \in Server
    PROVE  vote[s][p] \in {v, None}
<1> DEFINE S == StatedIn(Server, p, v)
<1> SUFFICES ASSUME vote[s][p] # None PROVE vote[s][p] = v
  OBVIOUS
<1>1. S \in SUBSET Server /\ Cardinality(S) \in Nat
  BY SubsetFinite DEF StatedIn
<1>2. VoteBasis(p, vote[s][p])
  BY DEF IndInv, Founded
<1>3. CASE vote[s][p] \in Bit /\ Cardinality(StatedIn(Server, p, vote[s][p])) >= Majority
  <2>1. /\ StatedIn(Server, p, vote[s][p]) \in SUBSET Server
        /\ Cardinality(StatedIn(Server, p, vote[s][p])) \in Nat
    BY SubsetFinite DEF StatedIn
  <2>2. Cardinality(S) + Cardinality(StatedIn(Server, p, vote[s][p])) > NServers
    BY <1>1, <1>3, <2>1, Thresholds
  <2>3. PICK x \in Server : x \in S /\ x \in StatedIn(Server, p, vote[s][p])
    BY <1>1, <2>1, <2>2, Overlap
  <2> QED
    BY <2>3 DEF StatedIn
<1>4. CASE \E H \in Samples(StateCasters(p)) :
              \A b \in Bit : Cardinality(StatedIn(H, p, b)) < Majority
  <2>1. PICK H \in Samples(StateCasters(p)) : Cardinality(StatedIn(H, p, v)) < Majority
    BY <1>4
  <2>2. H \in SUBSET Server /\ Cardinality(H) = NMinusF
    BY SampleFacts, StateCasters(p) \in SUBSET Server DEF StateCasters
  <2>3. StatedIn(H, p, v) = H \cap S
    BY <2>2 DEF StatedIn
  <2>4. Cardinality(H \cap S) >= Cardinality(S) - NFaulty
    BY <1>1, <2>2, SampleMisses
  <2>5. Cardinality(H \cap S) \in Nat
    BY <1>1, SubsetFinite, H \cap S \in SUBSET Server
  <2> QED
    BY <1>1, <2>1, <2>3, <2>4, <2>5, Thresholds
<1> QED
  BY <1>2, <1>3, <1>4 DEF VoteBasis, Phase

(* If MajorityPlusF servers proposed m, every vote of phase 0 is 1.          *)
LEMMA ProposalsForceVotes ==
    ASSUME IndInv, NEW m \in Proposal, Cardinality(Backers(m)) >= MajorityPlusF,
           NEW s \in Server
    PROVE  vote[s][0] \in {1, None}
<1> SUFFICES ASSUME vote[s][0] # None PROVE vote[s][0] = 1
  OBVIOUS
<1>1. Backers(m) \in SUBSET Server /\ Cardinality(Backers(m)) \in Nat
  BY SubsetFinite DEF Backers
<1>2. VoteBasis(0, vote[s][0])
  BY PhaseAssumption DEF IndInv, Founded, Phase
<1>3. ASSUME NEW H \in Samples(Proposers),
             \A n \in Proposal : Cardinality(H \cap Backers(n)) < Majority
      PROVE  FALSE
  <2>1. H \in SUBSET Server /\ Cardinality(H) = NMinusF
    BY SampleFacts, Proposers \in SUBSET Server DEF Proposers
  <2>2. Cardinality(H \cap Backers(m)) >= Cardinality(Backers(m)) - NFaulty
    BY <1>1, <2>1, SampleMisses
  <2>3. Cardinality(H \cap Backers(m)) \in Nat
    BY <1>1, SubsetFinite, H \cap Backers(m) \in SUBSET Server
  <2> QED
    BY <1>1, <1>3, <2>2, <2>3, Thresholds
<1> QED
  BY <1>2, <1>3 DEF VoteBasis

(* A commit of phase p leaves "?" as the only other vote of the phase ...    *)
LEMMA CommitVotes ==
    ASSUME IndInv, NEW p \in Phase, NEW v \in Bit, Commit(p, v), NEW s \in Server
    PROVE  vote[s][p] \in {v, Unknown, None}
<1>1. CASE Cardinality(VotedIn(Server, p, v)) >= FaultyPlusOne
  <2>1. VotedIn(Server, p, v) \in SUBSET Server
    BY DEF VotedIn
  <2>2. Cardinality(VotedIn(Server, p, v)) >= 1
    BY <1>1, <2>1, SubsetFinite, Thresholds
  <2>3. PICK x \in Server : vote[x][p] = v
    BY <2>1, <2>2, NonEmpty DEF VotedIn
  <2>4. vote[s][p] \in Bit => vote[s][p] = v
    BY <2>3, VotesAgreeFollows DEF VotesAgree
  <2>5. vote[s][p] \in Bit \cup {Unknown, None}
    BY DEF IndInv, TypeOK
  <2> QED
    BY <2>4, <2>5
<1>2. CASE p > 0 /\ Cardinality(StatedIn(Server, p, v)) >= MajorityPlusF
  BY <1>2, StatesForceVotes
<1>3. CASE p = 0 /\ v = 1 /\ \E m \in Proposal : Cardinality(Backers(m)) >= MajorityPlusF
  BY <1>3, ProposalsForceVotes
<1> QED
  BY <1>1, <1>2, <1>3 DEF Commit

(* ... and puts a vote for it into every sample of the phase.                *)
LEMMA CommitInSample ==
    ASSUME IndInv, NEW p \in Phase, NEW v \in Bit, Commit(p, v),
           NEW H \in Samples(VoteCasters(p))
    PROVE  \E h \in H : vote[h][p] = v
<1>1. /\ H \in SUBSET Server
      /\ Cardinality(H) = NMinusF
      /\ \A h \in H : vote[h][p] # None
      /\ \E h \in Server : h \in H
  BY SampleFacts, VoteCasters(p) \in SUBSET Server DEF VoteCasters
<1>2. CASE Cardinality(VotedIn(Server, p, v)) >= FaultyPlusOne
  <2>1. VotedIn(Server, p, v) \in SUBSET Server /\ Cardinality(VotedIn(Server, p, v)) \in Nat
    BY SubsetFinite DEF VotedIn
  <2>2. Cardinality(H) + Cardinality(VotedIn(Server, p, v)) > NServers
    BY <1>1, <1>2, <2>1, Thresholds
  <2> QED
    BY <1>1, <2>1, <2>2, Overlap DEF VotedIn
<1>3. CASE p > 0 /\ Cardinality(StatedIn(Server, p, v)) >= MajorityPlusF
  BY <1>1, <1>3, StatesForceVotes
<1>4. CASE p = 0 /\ v = 1 /\ \E m \in Proposal : Cardinality(Backers(m)) >= MajorityPlusF
  BY <1>1, <1>4, ProposalsForceVotes
<1> QED
  BY <1>2, <1>3, <1>4 DEF Commit

(* So every server enters the next phase with the committed bit ...          *)
LEMMA CommitNextPhase ==
    ASSUME IndInv, NEW p \in Phase, NEW v \in Bit, Commit(p, v),
           p + 1 \in Phase, NEW s \in Server
    PROVE  state[s][p + 1] \in {v, None}
<1> SUFFICES ASSUME state[s][p + 1] # None PROVE state[s][p + 1] = v
  OBVIOUS
<1>1. StateBasis(p, state[s][p + 1])
  <2>1. p + 1 \in Phase \ {0} /\ (p + 1) - 1 = p
    BY DEF Phase
  <2>2. StateBasis((p + 1) - 1, state[s][p + 1])
    BY <2>1 DEF IndInv, Founded
  <2> QED
    BY <2>1, <2>2
<1>2. PICK H \in Samples(VoteCasters(p)) :
        \/ \E h \in H : vote[h][p] = state[s][p + 1]
        \/ \A h \in H : vote[h][p] = Unknown
  BY <1>1 DEF StateBasis
<1>3. PICK x \in H : vote[x][p] = v
  BY CommitInSample
<1>4. PICK h \in H : vote[h][p] = state[s][p + 1]
  BY <1>2, <1>3 DEF Bit, Unknown
<1>5. h \in Server
  BY SampleFacts, VoteCasters(p) \in SUBSET Server DEF VoteCasters
<1>6. state[s][p + 1] \in Bit
  BY DEF IndInv, TypeOK
<1> QED
  BY <1>4, <1>5, <1>6, CommitVotes, Values DEF Bit, Unknown

(* ... and every later one.                                                  *)
LEMMA CommitLocks ==
    ASSUME IndInv, NEW p \in Phase, NEW v \in Bit, Commit(p, v),
           NEW r \in Phase, r > p, NEW s \in Server
    PROVE  state[s][r] \in {v, None}
<1> SUFFICES ASSUME state[s][r] # None PROVE state[s][r] = v
  OBVIOUS
<1>1. p + 1 \in Phase /\ p + 1 \in 1 .. r
  BY PhaseAssumption DEF Phase
<1>2. PICK t \in Server : state[t][p + 1] = state[s][r]
  BY <1>1 DEF IndInv, StateTrace
<1> QED
  BY <1>1, <1>2, CommitNextPhase

(* A commit shows in a message of its phase.                                 *)
LEMMA CommitShows ==
    ASSUME IndInv, NEW p \in Phase, NEW v \in Bit, Commit(p, v), p > 0
    PROVE  \E t \in Server : state[t][p] = v
<1>1. CASE Cardinality(VotedIn(Server, p, v)) >= FaultyPlusOne
  <2>1. VotedIn(Server, p, v) \in SUBSET Server
    BY DEF VotedIn
  <2>2. Cardinality(VotedIn(Server, p, v)) >= 1
    BY <1>1, <2>1, SubsetFinite, Thresholds
  <2>3. PICK x \in Server : vote[x][p] = v
    BY <2>1, <2>2, NonEmpty DEF VotedIn
  <2>4. VoteBasis(p, v)
    BY <2>3, Values DEF IndInv, Founded, Bit
  <2>5. Cardinality(StatedIn(Server, p, v)) >= Majority
    BY <2>4 DEF VoteBasis, Phase, Bit, Unknown
  <2>6. StatedIn(Server, p, v) \in SUBSET Server
    BY DEF StatedIn
  <2>7. Cardinality(StatedIn(Server, p, v)) >= 1
    BY <2>5, <2>6, SubsetFinite, Thresholds
  <2> QED
    BY <2>6, <2>7, NonEmpty DEF StatedIn
<1>2. CASE Cardinality(StatedIn(Server, p, v)) >= MajorityPlusF
  <2>1. StatedIn(Server, p, v) \in SUBSET Server
    BY DEF StatedIn
  <2>2. Cardinality(StatedIn(Server, p, v)) >= 1
    BY <1>2, <2>1, SubsetFinite, Thresholds
  <2> QED
    BY <2>1, <2>2, NonEmpty DEF StatedIn
<1> QED
  BY <1>1, <1>2 DEF Commit, Phase

(* Commits of the same phase agree, whichever their kinds.                   *)
LEMMA SamePhaseCommits ==
    ASSUME IndInv, NEW p \in Phase, Commit(p, 0), Commit(p, 1)
    PROVE  FALSE
<1>1. 0 \in Bit /\ 1 \in Bit
  BY DEF Bit
<1>2. ASSUME NEW v \in Bit, NEW w \in Bit, v # w, Commit(p, w),
             Cardinality(VotedIn(Server, p, v)) >= FaultyPlusOne
      PROVE  FALSE
  <2>1. VotedIn(Server, p, v) \in SUBSET Server
    BY DEF VotedIn
  <2>2. Cardinality(VotedIn(Server, p, v)) >= 1
    BY <1>2, <2>1, SubsetFinite, Thresholds
  <2>3. PICK x \in Server : vote[x][p] = v
    BY <2>1, <2>2, NonEmpty DEF VotedIn
  <2> QED
    BY <1>2, <2>3, CommitVotes, Values DEF Bit, Unknown
<1>3. ASSUME Cardinality(StatedIn(Server, p, 0)) >= MajorityPlusF,
             Cardinality(StatedIn(Server, p, 1)) >= MajorityPlusF
      PROVE  FALSE
  <2>1. /\ StatedIn(Server, p, 0) \in SUBSET Server
        /\ StatedIn(Server, p, 1) \in SUBSET Server
        /\ Cardinality(StatedIn(Server, p, 0)) \in Nat
        /\ Cardinality(StatedIn(Server, p, 1)) \in Nat
    BY SubsetFinite DEF StatedIn
  <2>2. Cardinality(StatedIn(Server, p, 0)) + Cardinality(StatedIn(Server, p, 1)) > NServers
    BY <1>3, <2>1, Thresholds
  <2> QED
    BY <2>1, <2>2, Overlap DEF StatedIn
<1> QED
  BY <1>1, <1>2, <1>3 DEF Commit

LEMMA CommitsAgree ==
    ASSUME IndInv, NEW p \in Phase, NEW q \in Phase, Commit(p, 0), Commit(q, 1)
    PROVE  FALSE
<1>1. 0 \in Bit /\ 1 \in Bit
  BY DEF Bit
<1>2. CASE p < q
  <2>1. PICK t \in Server : state[t][q] = 1
    BY <1>1, <1>2, CommitShows DEF Phase
  <2> QED
    BY <1>1, <1>2, <2>1, CommitLocks, Values
<1>3. CASE q < p
  <2>1. PICK t \in Server : state[t][p] = 0
    BY <1>1, <1>3, CommitShows DEF Phase
  <2> QED
    BY <1>1, <1>3, <2>1, CommitLocks, Values
<1>4. CASE p = q
  BY <1>4, SamePhaseCommits
<1> QED
  BY <1>2, <1>3, <1>4 DEF Phase

(* Majorities that back two objects back the same one.                      *)
LEMMA BackedUnique ==
    ASSUME NEW m, NEW n, Cardinality(Backers(m)) >= Majority,
           Cardinality(Backers(n)) >= Majority
    PROVE  m = n
<1>1. /\ Backers(m) \in SUBSET Server /\ Backers(n) \in SUBSET Server
      /\ Cardinality(Backers(m)) \in Nat /\ Cardinality(Backers(n)) \in Nat
  BY SubsetFinite DEF Backers
<1>2. Cardinality(Backers(m)) + Cardinality(Backers(n)) > NServers
  BY <1>1, Thresholds
<1> QED
  BY <1>1, <1>2, Overlap DEF Backers

LEMMA AgreementFollows ==
    ASSUME IndInv
    PROVE  Agreement
<1> SUFFICES ASSUME NEW s \in Server, NEW t \in Server,
                    decision[s] # None, decision[t] # None
             PROVE  decision[s] = decision[t]
  BY DEF Agreement
<1>1. DecisionBasis(decision[s]) /\ DecisionBasis(decision[t])
  BY DEF IndInv, Founded
<1>2. ASSUME NEW p \in Phase, NEW q \in Phase, Commit(p, 0), Commit(q, 1)
      PROVE  FALSE
  BY <1>2, CommitsAgree
<1> QED
  BY <1>1, <1>2, BackedUnique, Values DEF DecisionBasis

LEMMA LockedValueFollows ==
    ASSUME IndInv
    PROVE  LockedValue
<1> SUFFICES ASSUME NEW p \in Phase, NEW v \in Bit,
                    Cardinality(VotedIn(Server, p, v)) >= FaultyPlusOne,
                    NEW s \in Server, NEW r \in p + 1 .. LenBlockArray - 1
             PROVE  state[s][r] \in {v, None}
  BY DEF LockedValue
<1>1. Commit(p, v)
  BY DEF Commit
<1>2. r \in Phase /\ r > p
  BY PhaseAssumption DEF Phase
<1> QED
  BY <1>1, <1>2, CommitLocks

(* A state of a later phase was a state of phase 1, where a sample of the    *)
(* votes of phase 0 explains it.                                             *)
LEMMA FirstState ==
    ASSUME IndInv, NEW s \in Server, NEW p \in Phase, state[s][p] # None
    PROVE  \E H \in Samples(VoteCasters(0)) :
              \/ \E h \in H : vote[h][0] = state[s][p]
              \/ state[s][p] = 0 /\ \A h \in H : vote[h][0] = Unknown
<1>1. p # 0
  BY DEF IndInv, Progress
<1>2. 1 \in 1 .. p /\ 1 \in Phase \ {0}
  BY <1>1, PhaseAssumption DEF Phase
<1>3. PICK t \in Server : state[t][1] = state[s][p]
  BY <1>2 DEF IndInv, StateTrace
<1>4. StateBasis(1 - 1, state[t][1])
  BY <1>2, <1>3 DEF IndInv, Founded
<1>5. StateBasis(0, state[s][p])
  BY <1>3, <1>4
<1> QED
  BY <1>5 DEF StateBasis, Fallback

LEMMA OneIsBackedFollows ==
    ASSUME IndInv
    PROVE  OneIsBacked
<1> DEFINE Backed == \E m \in Proposal : Cardinality(Backers(m)) >= Majority
<1>0. 0 \in Phase
  BY PhaseAssumption DEF Phase
<1>1. ASSUME NEW h \in Server, vote[h][0] = 1
      PROVE  Backed
  <2>1. VoteBasis(0, 1)
    BY <1>0, <1>1, Values DEF IndInv, Founded
  <2> QED
    BY <2>1 DEF VoteBasis, Unknown
<1>2. ASSUME NEW s \in Server, NEW p \in Phase, state[s][p] = 1
      PROVE  Backed
  <2>1. PICK H \in Samples(VoteCasters(0)) : \E h \in H : vote[h][0] = 1
    BY <1>2, FirstState, Values
  <2>2. H \in SUBSET Server
    BY SampleFacts, VoteCasters(0) \in SUBSET Server DEF VoteCasters
  <2> QED
    BY <1>1, <2>1, <2>2
<1>3. ASSUME NEW s \in Server, NEW p \in Phase, vote[s][p] = 1
      PROVE  Backed
  <2>1. CASE p = 0
    BY <1>1, <1>3, <2>1
  <2>2. CASE p # 0
    <3>1. VoteBasis(p, 1)
      BY <1>3, Values DEF IndInv, Founded
    <3>2. Cardinality(StatedIn(Server, p, 1)) >= Majority
      BY <2>2, <3>1 DEF VoteBasis, Unknown
    <3>3. StatedIn(Server, p, 1) \in SUBSET Server
      BY DEF StatedIn
    <3>4. Cardinality(StatedIn(Server, p, 1)) >= 1
      BY <3>2, <3>3, SubsetFinite, Thresholds
    <3>5. PICK t \in Server : state[t][p] = 1
      BY <3>3, <3>4, NonEmpty DEF StatedIn
    <3> QED
      BY <1>2, <3>5
  <2> QED
    BY <2>1, <2>2
<1> QED
  BY <1>2, <1>3 DEF OneIsBacked

LEMMA NullOnlyWhenContendedFollows ==
    ASSUME IndInv
    PROVE  NullOnlyWhenContended
<1> DEFINE Contended == \E s, t \in Server :
              proposal[s] # None /\ proposal[t] # None /\ proposal[s] # proposal[t]
<1>0. 0 \in Phase /\ 0 \in Bit
  BY PhaseAssumption DEF Phase, Bit
<1>1. ASSUME NEW h \in Server, vote[h][0] \notin {1, None}
      PROVE  Contended
  <2>1. VoteBasis(0, vote[h][0])
    BY <1>0, <1>1 DEF IndInv, Founded
  <2>2. PICK H \in Samples(Proposers) :
          \A m \in Proposal : Cardinality(H \cap Backers(m)) < Majority
    BY <1>1, <2>1 DEF VoteBasis
  <2>3. /\ H \in SUBSET Server
        /\ Cardinality(H) = NMinusF
        /\ \A q \in H : proposal[q] # None
        /\ \E q \in Server : q \in H
    BY SampleFacts, Proposers \in SUBSET Server DEF Proposers
  <2>4. PICK s \in Server : s \in H
    BY <2>3
  <2>5. proposal[s] \in Proposal
    BY <2>3, <2>4 DEF IndInv, TypeOK
  <2>6. ASSUME \A t \in H : proposal[t] = proposal[s]
        PROVE  FALSE
    <3>1. H \cap Backers(proposal[s]) = H
      BY <2>3, <2>6 DEF Backers
    <3> QED
      BY <2>2, <2>3, <2>5, <3>1, Thresholds
  <2> QED
    BY <2>3, <2>4, <2>6
<1>2. ASSUME NEW s \in Server, NEW p \in Phase, state[s][p] = 0
      PROVE  Contended
  <2>1. PICK H \in Samples(VoteCasters(0)) :
            (\E h \in H : vote[h][0] = 0) \/ (\A h \in H : vote[h][0] = Unknown)
    BY <1>2, FirstState, Values
  <2>2. H \in SUBSET Server /\ \E h \in Server : h \in H
    BY SampleFacts, VoteCasters(0) \in SUBSET Server DEF VoteCasters
  <2>3. PICK h \in Server : vote[h][0] \in {0, Unknown}
    BY <2>1, <2>2
  <2> QED
    BY <1>1, <2>3, Values DEF Unknown
<1> SUFFICES ASSUME NEW s \in Server, decision[s] = Null
             PROVE  Contended
  BY DEF NullOnlyWhenContended
<1>3. PICK p \in Phase : Commit(p, 0)
  BY Values DEF IndInv, Founded, DecisionBasis
<1>4. CASE p = 0
  <2>1. Cardinality(VotedIn(Server, 0, 0)) >= FaultyPlusOne
    BY <1>3, <1>4 DEF Commit
  <2>2. VotedIn(Server, 0, 0) \in SUBSET Server
    BY DEF VotedIn
  <2>3. Cardinality(VotedIn(Server, 0, 0)) >= 1
    BY <2>1, <2>2, SubsetFinite, Thresholds
  <2>4. PICK h \in Server : vote[h][0] = 0
    BY <2>2, <2>3, NonEmpty DEF VotedIn
  <2> QED
    BY <1>1, <2>4, Values
<1>5. CASE p # 0
  <2>1. PICK t \in Server : state[t][p] = 0
    BY <1>0, <1>3, <1>5, CommitShows DEF Phase
  <2> QED
    BY <1>2, <2>1
<1> QED
  BY <1>4, <1>5

-----------------------------------------------------------------------------
(* What a step does.                                                        *)

(* The steps by what they change: a proposal, a vote, a state, a decision,   *)
(* or the panic of a server that ran out of phases.                          *)
StartStep(s) ==
    \E m \in Proposal : Propose(s, m)

VoteStep(s) ==
    /\ pc[s] = "wait" /\ round[s] = 1
    /\ Cardinality(Proposers) >= NMinusF
    /\ \E v \in Bit \cup {Unknown} : CastVote(s, v) /\ VoteBasis(phase[s], v)

StateStep(s) ==
    /\ pc[s] = "wait" /\ round[s] = 2
    /\ \E v \in Bit : CastState(s, v) /\ StateBasis(phase[s], v)

DecideStep(s) ==
    /\ pc[s] = "wait"
    /\ Cardinality(Proposers) >= NMinusF
    /\ \E d \in Object : Decide(s, d) /\ DecisionBasis(d)
    /\ \E r \in 0 .. 3 : round' = [round EXCEPT ![s] = r] /\ (r <= 1 => round[s] = r)
    /\ UNCHANGED <<phase, proposal, state, vote>>

Step(s) == StartStep(s) \/ VoteStep(s) \/ StateStep(s) \/ DecideStep(s)

(* The object returned for a committed bit is a decision with a basis.       *)
LEMMA ReturnBasis ==
    ASSUME NEW p \in Phase, NEW v \in Bit, Commit(p, v), NEW d \in ReturnValue(v)
    PROVE  d \in Object /\ DecisionBasis(d)
<1>1. CASE v = 0
  BY <1>1 DEF ReturnValue, DecisionBasis, Object
<1>2. CASE v = 1
  BY <1>2 DEF ReturnValue, DecisionBasis, Object
<1> QED
  BY <1>1, <1>2 DEF Bit

(* What a sample has tallied was broadcast.                                  *)
LEMMA SampledStates ==
    ASSUME NEW H \in SUBSET Server, NEW p, NEW v, NEW n \in Nat,
           Cardinality(StatedIn(H, p, v)) >= n
    PROVE  Cardinality(StatedIn(Server, p, v)) >= n
<1>1. /\ StatedIn(H, p, v) \in SUBSET StatedIn(Server, p, v)
      /\ StatedIn(Server, p, v) \in SUBSET Server
  BY DEF StatedIn
<1>2. /\ Cardinality(StatedIn(H, p, v)) \in Nat
      /\ Cardinality(StatedIn(Server, p, v)) \in Nat
      /\ Cardinality(StatedIn(H, p, v)) <= Cardinality(StatedIn(Server, p, v))
  BY <1>1, CardLe
<1> QED
  BY <1>2

LEMMA SampledVotes ==
    ASSUME NEW H \in SUBSET Server, NEW p, NEW v, NEW n \in Nat,
           Cardinality(VotedIn(H, p, v)) >= n
    PROVE  Cardinality(VotedIn(Server, p, v)) >= n
<1>1. /\ VotedIn(H, p, v) \in SUBSET VotedIn(Server, p, v)
      /\ VotedIn(Server, p, v) \in SUBSET Server
  BY DEF VotedIn
<1>2. /\ Cardinality(VotedIn(H, p, v)) \in Nat
      /\ Cardinality(VotedIn(Server, p, v)) \in Nat
      /\ Cardinality(VotedIn(H, p, v)) <= Cardinality(VotedIn(Server, p, v))
  BY <1>1, CardLe
<1> QED
  BY <1>2

LEMMA SampledProposals ==
    ASSUME NEW H \in SUBSET Server, NEW m, NEW n \in Nat,
           Cardinality(H \cap Backers(m)) >= n
    PROVE  Cardinality(Backers(m)) >= n
<1>1. H \cap Backers(m) \in SUBSET Backers(m) /\ Backers(m) \in SUBSET Server
  BY DEF Backers
<1>2. /\ Cardinality(H \cap Backers(m)) \in Nat /\ Cardinality(Backers(m)) \in Nat
      /\ Cardinality(H \cap Backers(m)) <= Cardinality(Backers(m))
  BY <1>1, CardLe
<1> QED
  BY <1>2

(* A vote shows that a sample of proposals was complete, and so does a state *)
(* of a later phase.                                                         *)
LEMMA VoteShowsEnough ==
    ASSUME IndInv, NEW p \in Phase, NEW H \in Samples(VoteCasters(p))
    PROVE  Cardinality(Proposers) >= NMinusF
<1>1. \E h \in Server : vote[h][p] # None
  BY SampleFacts, VoteCasters(p) \in SUBSET Server DEF VoteCasters
<1> QED
  BY <1>1 DEF IndInv, EnoughProposed

LEMMA StateShowsEnough ==
    ASSUME IndInv, NEW p \in Phase, p # 0, NEW H \in Samples(StateCasters(p))
    PROVE  Cardinality(Proposers) >= NMinusF
<1>1. PICK h \in Server : state[h][p] # None
  BY SampleFacts, StateCasters(p) \in SUBSET Server DEF StateCasters
<1>2. StateBasis(p - 1, state[h][p])
  BY <1>1 DEF IndInv, Founded
<1>3. PICK G \in Samples(VoteCasters(p - 1)) : TRUE
  BY <1>2 DEF StateBasis
<1>4. p - 1 \in Phase
  BY PhaseAssumption DEF Phase
<1> QED
  BY <1>3, <1>4, VoteShowsEnough

LEMMA Phase0Round1Step ==
    ASSUME IndInv, NEW s \in Server, Phase0Round1(s)
    PROVE  Step(s)
<1>0. pc[s] = "wait" /\ phase[s] = 0 /\ round[s] = 1 /\ 0 \in Phase /\ 1 \in Bit
  BY PhaseAssumption DEF Phase0Round1, Phase, Bit
<1>1. PICK H \in Samples(Proposers) :
         \/ \E m \in Proposal :
              /\ Cardinality(H \cap Backers(m)) >= MajorityPlusF
              /\ Decide(s, m)
              /\ round' = [round EXCEPT ![s] = 2]
              /\ UNCHANGED <<phase, proposal, state, vote>>
         \/ /\ \E m \in Proposal : Cardinality(H \cap Backers(m)) >= Majority
            /\ CastVote(s, 1)
         \/ /\ \A m \in Proposal : Cardinality(H \cap Backers(m)) < Majority
            /\ CastVote(s, Unknown)
  BY DEF Phase0Round1
<1>2. H \in SUBSET Server
  BY SampleFacts, Proposers \in SUBSET Server DEF Proposers
<1>enough. Cardinality(Proposers) >= NMinusF
  <2>1. H \in SUBSET Proposers /\ Cardinality(H) = NMinusF /\ Proposers \in SUBSET Server
    BY DEF Samples, Proposers
  <2>2. /\ Cardinality(H) \in Nat /\ Cardinality(Proposers) \in Nat
        /\ Cardinality(H) <= Cardinality(Proposers)
    BY <2>1, CardLe
  <2> QED
    BY <2>1, <2>2
<1>3. ASSUME NEW m \in Proposal,
             Cardinality(H \cap Backers(m)) >= MajorityPlusF,
             Decide(s, m),
             round' = [round EXCEPT ![s] = 2],
             UNCHANGED <<phase, proposal, state, vote>>
      PROVE  DecideStep(s)
  <2>1. Cardinality(Backers(m)) >= MajorityPlusF
    BY <1>2, <1>3, SampledProposals, Thresholds
  <2>2. Cardinality(Backers(m)) >= Majority
    <3>1. Cardinality(Backers(m)) \in Nat
      BY SubsetFinite, Backers(m) \in SUBSET Server DEF Backers
    <3> QED
      BY <2>1, <3>1, Thresholds
  <2>3. Commit(0, 1)
    BY <2>1 DEF Commit
  <2>4. m \in Object /\ DecisionBasis(m)
    BY <1>0, <2>2, <2>3 DEF DecisionBasis, Object
  <2> QED
    BY <1>0, <1>3, <2>4, <1>enough DEF DecideStep
<1>4. CASE (\E m \in Proposal : Cardinality(H \cap Backers(m)) >= Majority) /\ CastVote(s, 1)
  <2>1. PICK m \in Proposal : Cardinality(H \cap Backers(m)) >= Majority
    BY <1>4
  <2>2. Cardinality(Backers(m)) >= Majority
    BY <1>2, <2>1, SampledProposals, Thresholds
  <2>3. VoteBasis(0, 1)
    BY <2>2 DEF VoteBasis
  <2> QED
    BY <1>0, <1>4, <2>3, <1>enough DEF Step, VoteStep
<1>5. CASE /\ \A m \in Proposal : Cardinality(H \cap Backers(m)) < Majority
           /\ CastVote(s, Unknown)
  <2>1. VoteBasis(0, Unknown)
    BY <1>5 DEF VoteBasis
  <2> QED
    BY <1>0, <1>5, <2>1, <1>enough DEF Step, VoteStep
<1> QED
  BY <1>1, <1>3, <1>4, <1>5 DEF Step

LEMMA PhaseNRound1Step ==
    ASSUME IndInv, NEW s \in Server, PhaseNRound1(s)
    PROVE  Step(s)
<1>0. pc[s] = "wait" /\ round[s] = 1 /\ phase[s] \in Phase /\ phase[s] > 0 /\ phase[s] # 0
  BY DEF PhaseNRound1, IndInv, TypeOK, Phase
<1>1. PICK H \in Samples(StateCasters(phase[s])) :
         \/ \E v \in Bit : \E d \in ReturnValue(v) :
              /\ Cardinality(StatedIn(H, phase[s], v)) >= MajorityPlusF
              /\ Decide(s, d)
              /\ round' = [round EXCEPT ![s] = 2]
              /\ UNCHANGED <<phase, proposal, state, vote>>
         \/ \E v \in Bit :
              /\ Cardinality(StatedIn(H, phase[s], v)) >= Majority
              /\ CastVote(s, v)
         \/ /\ \A v \in Bit : Cardinality(StatedIn(H, phase[s], v)) < Majority
            /\ CastVote(s, Unknown)
  BY DEF PhaseNRound1
<1>2. H \in SUBSET Server
  BY SampleFacts, StateCasters(phase[s]) \in SUBSET Server DEF StateCasters
<1>enough. Cardinality(Proposers) >= NMinusF
  BY <1>0, StateShowsEnough
<1>3. ASSUME NEW v \in Bit, NEW d \in ReturnValue(v),
             Cardinality(StatedIn(H, phase[s], v)) >= MajorityPlusF,
             Decide(s, d),
             round' = [round EXCEPT ![s] = 2],
             UNCHANGED <<phase, proposal, state, vote>>
      PROVE  DecideStep(s)
  <2>1. Cardinality(StatedIn(Server, phase[s], v)) >= MajorityPlusF
    BY <1>2, <1>3, SampledStates, Thresholds
  <2>2. Commit(phase[s], v)
    BY <1>0, <2>1 DEF Commit
  <2>3. d \in Object /\ DecisionBasis(d)
    BY <1>0, <2>2, ReturnBasis
  <2> QED
    BY <1>0, <1>3, <2>3, <1>enough DEF DecideStep
<1>4. ASSUME NEW v \in Bit,
             Cardinality(StatedIn(H, phase[s], v)) >= Majority,
             CastVote(s, v)
      PROVE  VoteStep(s)
  <2>1. Cardinality(StatedIn(Server, phase[s], v)) >= Majority
    BY <1>2, <1>4, SampledStates, Thresholds
  <2>2. VoteBasis(phase[s], v)
    BY <1>0, <2>1 DEF VoteBasis
  <2> QED
    BY <1>0, <1>4, <2>2, <1>enough DEF Step, VoteStep
<1>5. CASE /\ \A v \in Bit : Cardinality(StatedIn(H, phase[s], v)) < Majority
           /\ CastVote(s, Unknown)
  <2>1. VoteBasis(phase[s], Unknown)
    BY <1>0, <1>5 DEF VoteBasis
  <2> QED
    BY <1>0, <1>5, <2>1, <1>enough DEF Step, VoteStep
<1> QED
  BY <1>1, <1>3, <1>4, <1>5 DEF Step

LEMMA Round2Step ==
    ASSUME IndInv, NEW s \in Server, Round2(s, Fallback(phase[s]))
    PROVE  Step(s)
<1>0. pc[s] = "wait" /\ round[s] = 2 /\ phase[s] \in Phase /\ Fallback(phase[s]) \in Bit
  BY CoinAssumption, PhaseAssumption DEF Round2, IndInv, TypeOK, Fallback, Phase, Bit
<1> DEFINE p == phase[s]
           T(H, v) == Cardinality(VotedIn(H, p, v))
           MajV(H) == IF T(H, 0) > T(H, 1) THEN 0 ELSE 1
<1>1. PICK H \in Samples(VoteCasters(p)) :
         \/ \E d \in ReturnValue(MajV(H)) :
              /\ T(H, MajV(H)) >= FaultyPlusOne
              /\ Decide(s, d)
              /\ round' = [round EXCEPT ![s] = 3]
              /\ UNCHANGED <<phase, proposal, state, vote>>
         \/ /\ T(H, MajV(H)) \in 1 .. NFaulty
            /\ CastState(s, MajV(H))
         \/ /\ T(H, MajV(H)) = 0
            /\ CastState(s, Fallback(p))
  BY DEF Round2
<1>2. H \in SUBSET Server /\ \A h \in H : vote[h][p] # None
  BY SampleFacts, VoteCasters(p) \in SUBSET Server DEF VoteCasters
<1>enough. Cardinality(Proposers) >= NMinusF
  BY <1>0, VoteShowsEnough
<1>3. MajV(H) \in Bit
  BY DEF Bit
<1>4. \A v : VotedIn(H, p, v) \in SUBSET Server /\ T(H, v) \in Nat
  BY <1>2, SubsetFinite DEF VotedIn
<1> HIDE DEF T, MajV
<1>5. ASSUME NEW d \in ReturnValue(MajV(H)),
             T(H, MajV(H)) >= FaultyPlusOne,
             Decide(s, d),
             round' = [round EXCEPT ![s] = 3],
             UNCHANGED <<phase, proposal, state, vote>>
      PROVE  DecideStep(s)
  <2>1. Cardinality(VotedIn(Server, p, MajV(H))) >= FaultyPlusOne
    BY <1>2, <1>5, SampledVotes, Thresholds DEF T
  <2>2. Commit(p, MajV(H))
    BY <2>1 DEF Commit
  <2>3. d \in Object /\ DecisionBasis(d)
    BY <1>0, <1>3, <1>5, <2>2, ReturnBasis
  <2> QED
    BY <1>0, <1>5, <2>3, <1>enough DEF DecideStep
<1>6. CASE T(H, MajV(H)) \in 1 .. NFaulty /\ CastState(s, MajV(H))
  <2>1. \E h \in Server : h \in VotedIn(H, p, MajV(H))
    BY <1>4, <1>6, NonEmpty DEF T
  <2>2. \E h \in H : vote[h][p] = MajV(H)
    BY <2>1 DEF VotedIn
  <2>3. StateBasis(p, MajV(H))
    BY <2>2 DEF StateBasis
  <2> QED
    BY <1>0, <1>3, <1>6, <2>3 DEF Step, StateStep
<1>7. CASE T(H, MajV(H)) = 0 /\ CastState(s, Fallback(p))
  <2>1. T(H, 0) = 0 /\ T(H, 1) = 0
    BY <1>4, <1>7 DEF MajV
  <2>2. VotedIn(H, p, 0) = {} /\ VotedIn(H, p, 1) = {}
    BY <1>4, <2>1, SubsetFinite, FS_EmptySet DEF T
  <2>3. \A h \in H : vote[h][p] = Unknown
    BY <1>0, <1>2, <2>2 DEF VotedIn, IndInv, TypeOK, Bit
  <2>4. StateBasis(p, Fallback(p))
    BY <2>3 DEF StateBasis
  <2> QED
    BY <1>0, <1>7, <2>4 DEF Step, StateStep
<1> QED
  BY <1>1, <1>5, <1>6, <1>7 DEF Step

LEMMA LearnDecisionStep ==
    ASSUME IndInv, NEW s \in Server, LearnDecision(s)
    PROVE  Step(s)
<1>1. PICK q \in Server : decision[q] # None /\ Decide(s, decision[q])
  BY DEF LearnDecision
<1>2. decision[q] \in Object /\ DecisionBasis(decision[q])
  BY <1>1 DEF IndInv, TypeOK, Founded
<1>enough. Cardinality(Proposers) >= NMinusF
  BY <1>1 DEF IndInv, EnoughProposed
<1>3. round[s] \in 0 .. 3 /\ round' = [round EXCEPT ![s] = round[s]]
  BY DEF LearnDecision, IndInv, TypeOK
<1>4. pc[s] = "wait" /\ UNCHANGED <<phase, proposal, state, vote>>
  BY DEF LearnDecision
<1> QED
  BY <1>1, <1>2, <1>3, <1>4, <1>enough DEF Step, DecideStep

LEMMA NextIsStep ==
    ASSUME IndInv, Next
    PROVE  \E s \in Server : Step(s)
<1>1. PICK s \in Server :
        \/ \E m \in Proposal : Propose(s, m)
        \/ Phase0Round1(s)
        \/ Phase0Round2(s)
        \/ PhaseNRound1(s)
        \/ PhaseNRound2(s)
        \/ LearnDecision(s)
  BY DEF Next
<1>2. CASE \E m \in Proposal : Propose(s, m)
  BY <1>2 DEF Step, StartStep
<1>3. CASE Phase0Round1(s)
  BY <1>3, Phase0Round1Step
<1>4. CASE Phase0Round2(s)
  BY <1>4, Round2Step DEF Phase0Round2, Fallback
<1>5. CASE PhaseNRound1(s)
  BY <1>5, PhaseNRound1Step
<1>6. CASE PhaseNRound2(s)
  <2>1. Fallback(phase[s]) = Coin[phase[s]]
    BY <1>6 DEF PhaseNRound2, Fallback, IndInv, TypeOK, Phase
  <2> QED
    BY <1>6, <2>1, Round2Step DEF PhaseNRound2
<1>7. CASE LearnDecision(s)
  BY <1>7, LearnDecisionStep
<1> QED
  BY <1>1, <1>2, <1>3, <1>4, <1>5, <1>6, <1>7

-----------------------------------------------------------------------------
(* Type correctness and the progress of a server through the phases.         *)

LEMMA InitTypeOK == Init => TypeOK /\ Progress
<1>1. 0 \in Phase
  BY PhaseAssumption DEF Phase
<1> QED
  BY <1>1 DEF Init, TypeOK, Progress

(* A state step, entry by entry: one new state, or a panic that casts none.  *)
LEMMA StateStepEffect ==
    ASSUME IndInv, NEW s \in Server, StateStep(s)
    PROVE  /\ pc[s] = "wait" /\ UNCHANGED <<proposal, vote, decision>>
           /\ \/ /\ phase[s] + 1 \in Phase
                 /\ state' \in [Server -> [Phase -> Bit \cup {None}]]
                 /\ state'[s][phase[s] + 1] \in Bit
                 /\ StateBasis(phase[s], state'[s][phase[s] + 1])
                 /\ \A q \in Server : \A p \in Phase :
                       state'[q][p] # state[q][p] => q = s /\ p = phase[s] + 1
                 /\ phase' = [phase EXCEPT ![s] = @ + 1]
                 /\ round' = [round EXCEPT ![s] = 1]
                 /\ pc' = pc
              \/ /\ pc' = [pc EXCEPT ![s] = "panic"]
                 /\ UNCHANGED <<phase, round, state>>
<1>1. PICK v \in Bit : CastState(s, v) /\ StateBasis(phase[s], v)
  BY DEF StateStep
<1>2. state \in [Server -> [Phase -> Bit \cup {None}]]
  BY DEF IndInv, TypeOK
<1>3. CASE phase[s] + 1 \in Phase
  <2> DEFINE k == phase[s] + 1
  <2>1. k \in Phase /\ state' = [state EXCEPT ![s] = [state[s] EXCEPT ![k] = v]]
    BY <1>1, <1>3 DEF CastState
  <2> HIDE DEF k
  <2>2. [state[s] EXCEPT ![k] = v] \in [Phase -> Bit \cup {None}]
    BY <1>2, <2>1
  <2>3. state' \in [Server -> [Phase -> Bit \cup {None}]]
    BY <1>2, <2>1, <2>2
  <2>4. /\ state'[s][k] = v
        /\ \A p \in Phase : p # k => state'[s][p] = state[s][p]
        /\ \A q \in Server : q # s => state'[q] = state[q]
    BY <1>2, <2>1
  <2>5. \A q \in Server : \A p \in Phase :
            state'[q][p] # state[q][p] => q = s /\ p = k
    BY <2>4
  <2> QED
    BY <1>1, <1>3, <2>3, <2>4, <2>5 DEF CastState, StateStep, k
<1>4. CASE phase[s] + 1 \notin Phase
  BY <1>1, <1>4 DEF CastState, StateStep
<1> QED
  BY <1>3, <1>4

LEMMA StepTypeOK ==
    ASSUME IndInv, NEW s \in Server, Step(s)
    PROVE  TypeOK'
<1>1. CASE StartStep(s)
  BY <1>1 DEF StartStep, Propose, IndInv, TypeOK
<1>2. CASE VoteStep(s)
  BY <1>2 DEF VoteStep, CastVote, IndInv, TypeOK
<1>3. CASE StateStep(s)
  <2>1. TypeOK
    BY DEF IndInv
  <2>2. UNCHANGED <<proposal, vote, decision>>
    BY <1>3, StateStepEffect
  <2>3. CASE /\ phase[s] + 1 \in Phase
             /\ state' \in [Server -> [Phase -> Bit \cup {None}]]
             /\ phase' = [phase EXCEPT ![s] = @ + 1]
             /\ round' = [round EXCEPT ![s] = 1]
             /\ pc' = pc
    BY <2>1, <2>2, <2>3 DEF TypeOK
  <2>4. CASE pc' = [pc EXCEPT ![s] = "panic"] /\ UNCHANGED <<phase, round, state>>
    BY <2>1, <2>2, <2>4 DEF TypeOK
  <2> QED
    BY <1>3, <2>3, <2>4, StateStepEffect
<1>4. CASE DecideStep(s)
  BY <1>4 DEF DecideStep, Decide, IndInv, TypeOK
<1> QED
  BY <1>1, <1>2, <1>3, <1>4 DEF Step

LEMMA StepProgress ==
    ASSUME IndInv, NEW s \in Server, Step(s)
    PROVE  Progress'
<1>0. TypeOK /\ Progress
  BY DEF IndInv
<1>1. CASE StartStep(s)
  BY <1>0, <1>1, Values DEF TypeOK, Progress, StartStep, Propose
<1>2. CASE VoteStep(s)
  BY <1>0, <1>2, Values DEF TypeOK, Progress, VoteStep, CastVote, Phase
<1>3. CASE StateStep(s)
  <2>2. pc[s] = "wait" /\ UNCHANGED <<proposal, vote, decision>>
    BY <1>3, StateStepEffect
  <2>3. CASE /\ phase[s] + 1 \in Phase
             /\ \A q \in Server : \A p \in Phase :
                   state'[q][p] # state[q][p] => q = s /\ p = phase[s] + 1
             /\ phase' = [phase EXCEPT ![s] = @ + 1]
             /\ round' = [round EXCEPT ![s] = 1]
             /\ pc' = pc
    <3>1. \A q \in Server : phase[q] \in Phase /\ phase'[q] \in Phase /\ phase'[q] >= phase[q]
      BY <1>0, <2>3 DEF TypeOK, Phase
    <3>2. 0 \in Phase /\ \A p \in Phase : p + 1 # 0
      BY PhaseAssumption DEF Phase
    <3>3. \A q \in Server : state'[q][0] = None
      BY <1>0, <2>3, <3>1, <3>2 DEF Progress
    <3>4. \A q \in Server : \A p \in Phase :
             p > phase'[q] => state'[q][p] = None /\ vote'[q][p] = None
      BY <1>0, <2>2, <2>3, <3>1 DEF TypeOK, Progress, Phase
    <3>5. \A q \in Server : round'[q] <= 1 => vote'[q][phase'[q]] = None
      BY <1>0, <2>2, <2>3, <3>1 DEF TypeOK, Progress, Phase
    <3> QED
      BY <1>0, <2>2, <2>3, <3>3, <3>4, <3>5 DEF TypeOK, Progress
  <2>4. CASE pc' = [pc EXCEPT ![s] = "panic"] /\ UNCHANGED <<phase, round, state>>
    BY <1>0, <2>2, <2>4 DEF TypeOK, Progress
  <2> QED
    BY <1>3, <2>3, <2>4, StateStepEffect
<1>4. CASE DecideStep(s)
  BY <1>0, <1>4, Values DEF TypeOK, Progress, DecideStep, Decide
<1> QED
  BY <1>1, <1>2, <1>3, <1>4 DEF Step

-----------------------------------------------------------------------------
(* Nothing broadcast is ever changed.                                       *)

Grows ==
    /\ \A q \in Server : proposal[q] # None => proposal'[q] = proposal[q]
    /\ \A q \in Server : \A p \in Phase : state[q][p] # None => state'[q][p] = state[q][p]
    /\ \A q \in Server : \A p \in Phase : vote[q][p] # None => vote'[q][p] = vote[q][p]

LEMMA StepGrows ==
    ASSUME IndInv, NEW s \in Server, Step(s)
    PROVE  Grows
<1>0. TypeOK /\ Progress
  BY DEF IndInv
<1>1. CASE StartStep(s)
  BY <1>0, <1>1, Values DEF TypeOK, Progress, Grows, StartStep, Propose
<1>2. CASE VoteStep(s)
  BY <1>0, <1>2, Values DEF TypeOK, Progress, Grows, VoteStep, CastVote
<1>3. CASE StateStep(s)
  <2>1. /\ UNCHANGED <<proposal, vote>>
        /\ \A q \in Server : \A p \in Phase :
              state'[q][p] # state[q][p] => q = s /\ p = phase[s] + 1
    BY <1>3, StateStepEffect
  <2>2. \A p \in Phase : p = phase[s] + 1 => state[s][p] = None
    BY <1>0 DEF TypeOK, Progress, Phase
  <2> QED
    BY <2>1, <2>2 DEF Grows
<1>4. CASE DecideStep(s)
  BY <1>0, <1>4, Values DEF TypeOK, Progress, Grows, DecideStep, Decide
<1> QED
  BY <1>1, <1>2, <1>3, <1>4 DEF Step

(* So whatever was counted is still there ...                                *)
LEMMA BackersGrow ==
    ASSUME Grows, NEW m \in Proposal, NEW n \in Nat, Cardinality(Backers(m)) >= n
    PROVE  Cardinality(Backers(m))' >= n
<1>1. Backers(m) \in SUBSET Backers(m)' /\ Backers(m)' \in SUBSET Server
  BY Values DEF Grows, Backers
<1>2. /\ Cardinality(Backers(m)) \in Nat
      /\ Cardinality(Backers(m)') \in Nat
      /\ Cardinality(Backers(m)) <= Cardinality(Backers(m)')
  BY <1>1, CardLe
<1> QED
  BY <1>2

LEMMA StatedGrow ==
    ASSUME Grows, NEW p \in Phase, NEW v \in Bit, NEW n \in Nat,
           Cardinality(StatedIn(Server, p, v)) >= n
    PROVE  Cardinality(StatedIn(Server, p, v))' >= n
<1>1. /\ StatedIn(Server, p, v) \in SUBSET StatedIn(Server, p, v)'
      /\ StatedIn(Server, p, v)' \in SUBSET Server
  BY Values DEF Grows, StatedIn, Bit
<1>2. /\ Cardinality(StatedIn(Server, p, v)) \in Nat
      /\ Cardinality(StatedIn(Server, p, v)') \in Nat
      /\ Cardinality(StatedIn(Server, p, v)) <= Cardinality(StatedIn(Server, p, v)')
  BY <1>1, CardLe
<1> QED
  BY <1>2

LEMMA VotedGrow ==
    ASSUME Grows, NEW p \in Phase, NEW v \in Bit, NEW n \in Nat,
           Cardinality(VotedIn(Server, p, v)) >= n
    PROVE  Cardinality(VotedIn(Server, p, v))' >= n
<1>1. /\ VotedIn(Server, p, v) \in SUBSET VotedIn(Server, p, v)'
      /\ VotedIn(Server, p, v)' \in SUBSET Server
  BY Values DEF Grows, VotedIn, Bit
<1>2. /\ Cardinality(VotedIn(Server, p, v)) \in Nat
      /\ Cardinality(VotedIn(Server, p, v)') \in Nat
      /\ Cardinality(VotedIn(Server, p, v)) <= Cardinality(VotedIn(Server, p, v)')
  BY <1>1, CardLe
<1> QED
  BY <1>2

(* ... every sample still shows what it showed ...                           *)
LEMMA SamplesStay ==
    ASSUME Grows
    PROVE  /\ \A H \in Samples(Proposers) :
                 /\ H \in Samples(Proposers)'
                 /\ \A m : (H \cap Backers(m))' = H \cap Backers(m)
           /\ \A p \in Phase : \A H \in Samples(StateCasters(p)) :
                 /\ H \in Samples(StateCasters(p))'
                 /\ \A v : StatedIn(H, p, v)' = StatedIn(H, p, v)
           /\ \A p \in Phase : \A H \in Samples(VoteCasters(p)) :
                 /\ H \in Samples(VoteCasters(p))'
                 /\ \A h \in H : h \in Server /\ vote'[h][p] = vote[h][p]
<1>1. ASSUME NEW H \in Samples(Proposers)
      PROVE  /\ H \in Samples(Proposers)'
             /\ \A m : (H \cap Backers(m))' = H \cap Backers(m)
  BY Values DEF Grows, Samples, Proposers, Backers
<1>2. ASSUME NEW p \in Phase, NEW H \in Samples(StateCasters(p))
      PROVE  /\ H \in Samples(StateCasters(p))'
             /\ \A v : StatedIn(H, p, v)' = StatedIn(H, p, v)
  BY Values DEF Grows, Samples, StateCasters, StatedIn
<1>3. ASSUME NEW p \in Phase, NEW H \in Samples(VoteCasters(p))
      PROVE  /\ H \in Samples(VoteCasters(p))'
             /\ \A h \in H : h \in Server /\ vote'[h][p] = vote[h][p]
  BY Values DEF Grows, Samples, VoteCasters
<1> QED
  BY <1>1, <1>2, <1>3

(* ... and what a message or a decision rests on stays.                      *)
LEMMA VoteBasisStays ==
    ASSUME Grows, NEW p \in Phase, NEW v, VoteBasis(p, v)
    PROVE  VoteBasis(p, v)'
<1>1. CASE p = 0 /\ v = 1 /\ \E m \in Proposal : Cardinality(Backers(m)) >= Majority
  <2>1. \E m \in Proposal : Cardinality(Backers(m))' >= Majority
    BY <1>1, BackersGrow, Thresholds
  <2> QED
    BY <1>1, <2>1 DEF VoteBasis, Majority, NServers
<1>2. CASE /\ p = 0 /\ v = Unknown
           /\ \E H \in Samples(Proposers) :
                 \A m \in Proposal : Cardinality(H \cap Backers(m)) < Majority
  <2>1. PICK H \in Samples(Proposers) :
                 \A m \in Proposal : Cardinality(H \cap Backers(m)) < Majority
    BY <1>2
  <2>2. H \in Samples(Proposers)' /\ \A m \in Proposal : (H \cap Backers(m))' = H \cap Backers(m)
    BY SamplesStay
  <2>3. \A m \in Proposal : Cardinality(H \cap Backers(m))' < Majority
    BY <2>1, <2>2
  <2> QED
    BY <1>2, <2>2, <2>3 DEF VoteBasis, Majority, NServers, Unknown
<1>3. CASE p # 0 /\ v \in Bit /\ Cardinality(StatedIn(Server, p, v)) >= Majority
  <2>1. Cardinality(StatedIn(Server, p, v))' >= Majority
    BY <1>3, StatedGrow, Thresholds
  <2> QED
    BY <1>3, <2>1 DEF VoteBasis, Majority, NServers
<1>4. CASE /\ p # 0 /\ v = Unknown
           /\ \E H \in Samples(StateCasters(p)) :
                 \A b \in Bit : Cardinality(StatedIn(H, p, b)) < Majority
  <2>1. PICK H \in Samples(StateCasters(p)) :
                 \A b \in Bit : Cardinality(StatedIn(H, p, b)) < Majority
    BY <1>4
  <2>2. H \in Samples(StateCasters(p))' /\ \A b \in Bit : StatedIn(H, p, b)' = StatedIn(H, p, b)
    BY SamplesStay
  <2>3. \A b \in Bit : Cardinality(StatedIn(H, p, b))' < Majority
    BY <2>1, <2>2
  <2> QED
    BY <1>4, <2>2, <2>3 DEF VoteBasis, Majority, NServers, Unknown
<1> QED
  BY <1>1, <1>2, <1>3, <1>4 DEF VoteBasis

LEMMA StateBasisStays ==
    ASSUME Grows, NEW p \in Phase, NEW v, StateBasis(p, v)
    PROVE  StateBasis(p, v)'
<1>1. PICK H \in Samples(VoteCasters(p)) :
        \/ \E h \in H : vote[h][p] = v
        \/ v = Fallback(p) /\ \A h \in H : vote[h][p] = Unknown
  BY DEF StateBasis
<1>2. H \in Samples(VoteCasters(p))' /\ \A h \in H : vote'[h][p] = vote[h][p]
  BY SamplesStay
<1> QED
  BY <1>1, <1>2 DEF StateBasis, Fallback, Unknown

LEMMA CommitStays ==
    ASSUME Grows, NEW p \in Phase, NEW v \in Bit, Commit(p, v)
    PROVE  Commit(p, v)'
<1>1. CASE Cardinality(VotedIn(Server, p, v)) >= FaultyPlusOne
  BY <1>1, VotedGrow, Thresholds DEF Commit, FaultyPlusOne
<1>2. CASE p > 0 /\ Cardinality(StatedIn(Server, p, v)) >= MajorityPlusF
  BY <1>2, StatedGrow, Thresholds DEF Commit, MajorityPlusF, NServers
<1>3. CASE p = 0 /\ v = 1 /\ \E m \in Proposal : Cardinality(Backers(m)) >= MajorityPlusF
  BY <1>3, BackersGrow, Thresholds DEF Commit, MajorityPlusF, NServers
<1> QED
  BY <1>1, <1>2, <1>3 DEF Commit

LEMMA DecisionBasisStays ==
    ASSUME Grows, NEW d, DecisionBasis(d)
    PROVE  DecisionBasis(d)'
<1>0. 0 \in Bit /\ 1 \in Bit
  BY DEF Bit
<1>1. CASE d = Null /\ \E p \in Phase : Commit(p, 0)
  <2>1. \E p \in Phase : Commit(p, 0)'
    BY <1>0, <1>1, CommitStays
  <2> QED
    BY <1>1, <2>1 DEF DecisionBasis, Phase
<1>2. CASE /\ d \in Proposal /\ Cardinality(Backers(d)) >= Majority
           /\ \E p \in Phase : Commit(p, 1)
  <2>1. \E p \in Phase : Commit(p, 1)'
    BY <1>0, <1>2, CommitStays
  <2>2. Cardinality(Backers(d))' >= Majority
    BY <1>2, BackersGrow, Thresholds
  <2> QED
    BY <1>2, <2>1, <2>2 DEF DecisionBasis, Phase, Majority, NServers
<1> QED
  BY <1>1, <1>2 DEF DecisionBasis

-----------------------------------------------------------------------------
(* Every message and every decision still has its basis after a step.        *)

LEMMA StepFounded ==
    ASSUME IndInv, NEW s \in Server, Step(s)
    PROVE  Founded'
<1>0. Grows /\ TypeOK /\ Founded
  BY StepGrows DEF IndInv
<1>1. ASSUME NEW q \in Server, NEW p \in Phase, NEW v, v = vote'[q][p], v # None
      PROVE  VoteBasis(p, v)'
  <2>1. CASE v = vote[q][p]
    BY <1>0, <1>1, <2>1, VoteBasisStays DEF Founded
  <2>2. CASE v # vote[q][p]
    <3>1. VoteStep(s)
      BY <1>1, <2>2, StateStepEffect DEF Step, StartStep, Propose, DecideStep
    <3>2. PICK w \in Bit \cup {Unknown} : CastVote(s, w) /\ VoteBasis(phase[s], w)
      BY <3>1 DEF VoteStep
    <3>3. q = s /\ p = phase[s] /\ v = w
      BY <1>0, <1>1, <2>2, <3>2 DEF CastVote, TypeOK
    <3> QED
      BY <1>0, <3>2, <3>3, VoteBasisStays
  <2> QED
    BY <2>1, <2>2
<1>2. ASSUME NEW q \in Server, NEW p \in Phase \ {0}, NEW v, v = state'[q][p], v # None
      PROVE  StateBasis(p - 1, v)'
  <2>0. p - 1 \in Phase
    BY PhaseAssumption DEF Phase
  <2>1. CASE v = state[q][p]
    BY <1>0, <1>2, <2>0, <2>1, StateBasisStays DEF Founded
  <2>2. CASE v # state[q][p]
    <3>1. StateStep(s)
      BY <1>2, <2>2 DEF Step, StartStep, Propose, VoteStep, CastVote, DecideStep
    <3>2. q = s /\ p = phase[s] + 1 /\ StateBasis(phase[s], state'[s][phase[s] + 1])
      BY <1>2, <2>2, <3>1, StateStepEffect
    <3>3. p - 1 = phase[s]
      BY <1>0, <3>2 DEF TypeOK, Phase
    <3>4. StateBasis(p - 1, v)
      BY <1>2, <3>2, <3>3
    <3> QED
      BY <1>0, <2>0, <3>4, StateBasisStays
  <2> QED
    BY <2>1, <2>2
<1>3. ASSUME NEW q \in Server, NEW d, d = decision'[q], d # None
      PROVE  DecisionBasis(d)'
  <2>1. CASE d = decision[q]
    BY <1>0, <1>3, <2>1, DecisionBasisStays DEF Founded
  <2>2. CASE d # decision[q]
    <3>1. DecideStep(s)
      BY <1>3, <2>2, StateStepEffect DEF Step, StartStep, Propose, VoteStep, CastVote
    <3>2. PICK e \in Object : Decide(s, e) /\ DecisionBasis(e)
      BY <3>1 DEF DecideStep
    <3>3. d = e
      BY <1>0, <1>3, <2>2, <3>2 DEF Decide, TypeOK
    <3> QED
      BY <1>0, <3>2, <3>3, DecisionBasisStays
  <2> QED
    BY <2>1, <2>2
<1> QED
  BY <1>1, <1>2, <1>3 DEF Founded

(* A bit with a basis in the votes of phase p > 0 was a state of that phase: *)
(* a vote for it needs a majority of its states, and a vote "?" a sample     *)
(* with both bits.                                                           *)
LEMMA BasisShows ==
    ASSUME IndInv, NEW p \in Phase, p > 0, NEW v \in Bit, StateBasis(p, v)
    PROVE  \E t \in Server : state[t][p] = v
<1>1. PICK H \in Samples(VoteCasters(p)) :
        \/ \E h \in H : vote[h][p] = v
        \/ \A h \in H : vote[h][p] = Unknown
  BY DEF StateBasis
<1>2. /\ \A h \in H : h \in Server
      /\ \E h \in H : h \in Server
  BY SampleFacts, VoteCasters(p) \in SUBSET Server DEF VoteCasters
<1>3. PICK h \in Server : vote[h][p] \in {v, Unknown}
  BY <1>1, <1>2
<1>4. VoteBasis(p, vote[h][p])
  BY <1>3, Values DEF IndInv, Founded, Bit, Unknown
<1>5. CASE vote[h][p] = v
  <2>1. Cardinality(StatedIn(Server, p, v)) >= Majority
    BY <1>4, <1>5 DEF VoteBasis, Bit, Unknown, Phase
  <2>2. StatedIn(Server, p, v) \in SUBSET Server
    BY DEF StatedIn
  <2>3. Cardinality(StatedIn(Server, p, v)) >= 1
    BY <2>1, <2>2, SubsetFinite, Thresholds
  <2> QED
    BY <2>2, <2>3, NonEmpty DEF StatedIn
<1>6. CASE vote[h][p] = Unknown
  <2>1. PICK G \in Samples(StateCasters(p)) :
            \A b \in Bit : Cardinality(StatedIn(G, p, b)) < Majority
    BY <1>4, <1>6 DEF VoteBasis, Bit, Unknown, Phase
  <2>2. /\ G \in SUBSET Server
        /\ Cardinality(G) = NMinusF
        /\ \A g \in G : state[g][p] # None
    BY SampleFacts, StateCasters(p) \in SUBSET Server DEF StateCasters
  <2>3. SUFFICES ASSUME \A g \in G : state[g][p] # v PROVE FALSE
    BY <2>2
  <2>4. \A g \in G : state[g][p] \in Bit
    BY <2>2 DEF IndInv, TypeOK
  <2>5. PICK b \in Bit : b # v
    BY DEF Bit
  <2>6. StatedIn(G, p, b) = G
    BY <2>3, <2>4, <2>5 DEF StatedIn, Bit
  <2> QED
    BY <2>1, <2>2, <2>5, <2>6, Thresholds
<1> QED
  BY <1>3, <1>5, <1>6

LEMMA StepStateTrace ==
    ASSUME IndInv, NEW s \in Server, Step(s)
    PROVE  StateTrace'
<1>0. Grows /\ TypeOK /\ TypeOK' /\ StateTrace
  BY StepGrows, StepTypeOK DEF IndInv
<1> SUFFICES ASSUME NEW q \in Server, NEW p \in Phase, NEW r \in 1 .. p,
                    state'[q][p] # None
             PROVE  \E t \in Server : state'[t][r] = state'[q][p]
  BY DEF StateTrace, Phase
<1>1. r \in Phase /\ p \in Nat
  BY PhaseAssumption DEF Phase
<1>2. ASSUME NEW t \in Server, NEW n \in Phase, r \in 1 .. n, state[t][n] # None
      PROVE  \E u \in Server : state'[u][r] = state[t][n]
  <2>1. PICK u \in Server : state[u][r] = state[t][n]
    BY <1>0, <1>2 DEF StateTrace
  <2> QED
    BY <1>0, <1>1, <1>2, <2>1 DEF Grows
<1>3. CASE state'[q][p] = state[q][p]
  BY <1>2, <1>3
<1>4. CASE state'[q][p] # state[q][p]
  <2>1. StateStep(s)
    BY <1>4 DEF Step, StartStep, Propose, VoteStep, CastVote, DecideStep
  <2>2. /\ q = s /\ p = phase[s] + 1
        /\ state'[q][p] \in Bit /\ StateBasis(phase[s], state'[q][p])
    BY <1>4, <2>1, StateStepEffect
  <2>3. CASE r = p
    BY <2>3
  <2>4. CASE r # p
    <3>1. phase[s] \in Phase /\ phase[s] > 0 /\ r \in 1 .. phase[s]
      BY <1>0, <1>1, <2>2, <2>4 DEF TypeOK, Phase
    <3>2. PICK v \in Bit : v = state'[q][p]
      BY <2>2
    <3>3. StateBasis(phase[s], v)
      BY <2>2, <3>2
    <3>4. PICK t \in Server : state[t][phase[s]] = v
      BY <3>1, <3>3, BasisShows
    <3> QED
      BY <1>2, <3>1, <3>2, <3>4, Values DEF Bit
  <2> QED
    BY <2>3, <2>4
<1> QED
  BY <1>3, <1>4

-----------------------------------------------------------------------------
(* The theorems.                                                            *)

LEMMA StepEnough ==
    ASSUME IndInv, NEW s \in Server, Step(s)
    PROVE  EnoughProposed'
<1>0. Grows /\ TypeOK
  BY StepGrows DEF IndInv
<1>1. ASSUME Cardinality(Proposers) >= NMinusF
      PROVE  Cardinality(Proposers)' >= NMinusF
  <2>1. Proposers \in SUBSET Proposers' /\ Proposers' \in SUBSET Server
    BY <1>0, Values DEF Grows, Proposers
  <2>2. /\ Cardinality(Proposers) \in Nat /\ Cardinality(Proposers') \in Nat
        /\ Cardinality(Proposers) <= Cardinality(Proposers')
    BY <2>1, CardLe
  <2> QED
    BY <1>1, <2>2, Thresholds
<1>2. NMinusF' = NMinusF
  BY DEF NMinusF, NServers
<1>3. CASE StartStep(s) \/ StateStep(s)
  <2>1. UNCHANGED <<vote, decision>>
    BY <1>3, StateStepEffect DEF StartStep, Propose
  <2> QED
    BY <1>1, <1>2, <2>1 DEF IndInv, EnoughProposed
<1>4. CASE VoteStep(s) \/ DecideStep(s)
  BY <1>1, <1>2, <1>4 DEF VoteStep, DecideStep, EnoughProposed
<1> QED
  BY <1>3, <1>4 DEF Step

LEMMA InitIndInv == Init => IndInv
<1> SUFFICES ASSUME Init PROVE IndInv
  OBVIOUS
<1>1. TypeOK /\ Progress
  BY InitTypeOK
<1>2. Founded /\ StateTrace /\ EnoughProposed
  BY DEF Init, Founded, StateTrace, EnoughProposed, Phase
<1> QED
  BY <1>1, <1>2 DEF IndInv

LEMMA NextIndInv == IndInv /\ [Next]_vars => IndInv'
<1> SUFFICES ASSUME IndInv, [Next]_vars PROVE IndInv'
  OBVIOUS
<1>1. CASE Next
  <2>1. PICK s \in Server : Step(s)
    BY <1>1, NextIsStep
  <2> QED
    BY <2>1, StepTypeOK, StepProgress, StepFounded, StepStateTrace,
       StepEnough DEF IndInv
<1>2. CASE UNCHANGED vars
  <2>1. UNCHANGED <<pc, phase, round, proposal, state, vote, decision>>
    BY <1>2 DEF vars
  <2>2. TypeOK' /\ Progress' /\ StateTrace' /\ EnoughProposed'
    BY <2>1 DEF IndInv, TypeOK, Progress, StateTrace, EnoughProposed, Proposers,
                NMinusF, NServers
  <2>3. Grows /\ Founded
    BY <2>1 DEF Grows, IndInv
  <2>4. ASSUME NEW q \in Server, NEW p \in Phase, NEW v, v = vote'[q][p], v # None
        PROVE  VoteBasis(p, v)'
    BY <2>1, <2>3, <2>4, VoteBasisStays DEF Founded
  <2>5. ASSUME NEW q \in Server, NEW p \in Phase \ {0}, NEW v, v = state'[q][p], v # None
        PROVE  StateBasis(p - 1, v)'
    <3>1. p - 1 \in Phase
      BY PhaseAssumption DEF Phase
    <3> QED
      BY <2>1, <2>3, <2>5, <3>1, StateBasisStays DEF Founded
  <2>6. ASSUME NEW q \in Server, NEW d, d = decision'[q], d # None
        PROVE  DecisionBasis(d)'
    BY <2>1, <2>3, <2>6, DecisionBasisStays DEF Founded
  <2>7. Founded'
    BY <2>4, <2>5, <2>6 DEF Founded
  <2> QED
    BY <2>2, <2>7 DEF IndInv
<1> QED
  BY <1>1, <1>2

(* The inductive invariant holds in every reachable state: each message and  *)
(* each decision of wait() rests on a sample that is still there to count.   *)
THEOREM Invariance == Spec => []IndInv
<1> QED
  BY InitIndInv, NextIndInv, PTL DEF Spec

(* The executor keeps to its phases, rounds and vote values.                 *)
THEOREM TypeCorrect == Spec => []TypeOK
<1>1. IndInv => TypeOK
  BY DEF IndInv
<1> QED
  BY <1>1, Invariance, PTL

(* No two servers ever decide a slot differently, for every cluster with a   *)
(* minority of faulty servers, whichever NMinusF messages each one tallied.  *)
THEOREM AgreementHolds == Spec => []Agreement
<1> QED
  BY AgreementFollows, Invariance, PTL

(* Once FaultyPlusOne servers voted a bit, no server starts a later phase    *)
(* with the other one.                                                       *)
THEOREM LockedValueHolds == Spec => []LockedValue
<1> QED
  BY LockedValueFollows, Invariance, PTL

(* The bits voted in one phase agree.                                       *)
THEOREM VotesAgreeHolds == Spec => []VotesAgree
<1> QED
  BY VotesAgreeFollows, Invariance, PTL

(* findReturnValue always has an object that a majority proposed to return   *)
(* for the bit 1, the common coin notwithstanding.                           *)
THEOREM OneIsBackedHolds == Spec => []OneIsBacked
<1> QED
  BY OneIsBackedFollows, Invariance, PTL

(* A slot is decided to Null only if two servers proposed different objects. *)
THEOREM NullOnlyWhenContendedHolds == Spec => []NullOnlyWhenContended
<1> QED
  BY NullOnlyWhenContendedFollows, Invariance, PTL

-----------------------------------------------------------------------------
(* The slot implements SlotDecision: a server decides once, the same as the  *)
(* others, and only what is backed or, under contention, Null.               *)

LEMMA StepRefines ==
    ASSUME IndInv, IndInv', NEW s \in Server, Step(s)
    PROVE  [Abstract!Next]_(Abstract!vars)
<1>0. TypeOK /\ Progress
  BY DEF IndInv
<1>1. CASE StartStep(s)
  <2>1. PICK m \in Proposal : Propose(s, m)
    BY <1>1 DEF StartStep
  <2>2. Abstract!Propose(s, m)
    BY <1>0, <2>1 DEF Propose, Abstract!Propose, Progress
  <2> QED
    BY <2>2 DEF Abstract!Next
<1>2. CASE VoteStep(s)
  BY <1>2 DEF VoteStep, CastVote, Abstract!vars
<1>3. CASE StateStep(s)
  BY <1>3, StateStepEffect DEF Abstract!vars
<1>4. CASE DecideStep(s)
  <2>1. PICK d \in Object : Decide(s, d) /\ DecisionBasis(d)
    BY <1>4 DEF DecideStep
  <2>2. pc[s] = "wait" /\ UNCHANGED proposal
    BY <1>4 DEF DecideStep
  <2>3. proposal[s] # None /\ decision[s] = None
    BY <1>0, <2>2 DEF Progress
  <2>4. decision'[s] = d /\ \A t \in Server : t # s => decision'[t] = decision[t]
    BY <1>0, <2>1 DEF Decide, TypeOK
  <2>enough. Abstract!EnoughProposed
    <3>1. Cardinality(Proposers) >= NMinusF
      BY <1>4 DEF DecideStep
    <3> QED
      BY <3>1, Zenon DEF Abstract!EnoughProposed, Abstract!Cardinality, Cardinality,
                         Proposers, NMinusF, NServers
  <2>5. \A t \in Server : decision[t] \in {None, d}
    <3>1. Agreement'
      BY AgreementFollows, PTL
    <3>2. d # None
      BY Values DEF Object
    <3> QED
      BY <2>3, <2>4, <3>1, <3>2 DEF Agreement
  <2>6. CASE d = Null
    <3>1. NullOnlyWhenContended'
      BY NullOnlyWhenContendedFollows, PTL
    <3>2. Abstract!Contended
      BY <2>2, <2>4, <2>6, <3>1 DEF NullOnlyWhenContended, Abstract!Contended
    <3> QED
      BY <2>1, <2>2, <2>3, <2>5, <2>6, <2>enough, <3>2 DEF Decide, Abstract!Decide, Abstract!Next
  <2>7. CASE d \in Proposal /\ Cardinality(Backers(d)) >= Majority
    <3>1. Cardinality(Backers(d)) \in Nat
      BY SubsetFinite, Backers(d) \in SUBSET Server DEF Backers
    <3>2. 2 * Cardinality(Backers(d)) > NServers
      BY <2>7, <3>1, Thresholds
    <3>3. Abstract!Backed(d)
      BY <3>2, Zenon DEF Abstract!Backed, Abstract!Cardinality, Cardinality, Backers, NServers
    <3> QED
      BY <2>1, <2>2, <2>3, <2>5, <2>7, <2>enough, <3>3 DEF Decide, Abstract!Decide, Abstract!Next
  <2> QED
    BY <2>1, <2>6, <2>7 DEF DecisionBasis
<1> QED
  BY <1>1, <1>2, <1>3, <1>4 DEF Step

(* Weak MVC, as executor.go runs it for one slot, implements the one-slot    *)
(* consensus that the ledger promises.                                       *)
THEOREM RefinesSlotDecision == Spec => ImplementsSlotDecision
<1>1. Init => Abstract!Init
  BY DEF Init, Abstract!Init
<1>2. IndInv /\ IndInv' /\ [Next]_vars => [Abstract!Next]_(Abstract!vars)
  <2>1. ASSUME IndInv, IndInv', Next PROVE [Abstract!Next]_(Abstract!vars)
    BY <2>1, NextIsStep, StepRefines
  <2>2. UNCHANGED vars => UNCHANGED Abstract!vars
    BY DEF vars, Abstract!vars
  <2> QED
    BY <2>1, <2>2
<1> QED
  BY <1>1, <1>2, Invariance, PTL DEF Spec, ImplementsSlotDecision, Abstract!Spec
=============================================================================
