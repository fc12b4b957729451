------------------------------ MODULE WeakMVC ------------------------------
(***************************************************************************)
(* The agreement algorithm of one slot of the ledger (Weak MVC): what the  *)
(* Executor of every server does between getRequest and epilogue, with the *)
(* message layer abstracted to "the messages broadcast so far".            *)
(*                                                                         *)
(* A server that leaves wait() has tallied exactly NMinusF messages of its *)
(* round (MsgHandler ignores the rest), from any NMinusF of the servers    *)
(* that broadcast one.  Crashed servers are servers that take no further   *)
(* step; a message lost with its sender is one that is never sampled.      *)
(* Module SlotEngine adds the handler, the queues, the FIFO links, the     *)
(* proposal requests and the crashes, and implements this module.          *)
(***************************************************************************)
EXTENDS Cluster

VARIABLES
    pc,         \* "idle", "wait", "done", or "panic" (a Go panic of the executor)
    phase,      \* Slot.Phase
    round,      \* Slot.Round (0 until the slot has a proposal)
    proposal,   \* Slot.MyProposal, broadcast when set
    state,      \* state[s][p]: Slot.MyBCMsgs[p][0], broadcast when set
    vote,       \* vote[s][p]:  Slot.MyBCMsgs[p][1], broadcast when set
    decision    \* Slot.Decision, None until Slot.IsDone

vars == <<pc, phase, round, proposal, state, vote, decision>>

Init ==
    /\ pc       = [s \in Server |-> "idle"]
    /\ phase    = [s \in Server |-> 0]
    /\ round    = [s \in Server |-> 0]
    /\ proposal = [s \in Server |-> None]
    /\ state    = [s \in Server |-> [p \in Phase |-> None]]
    /\ vote     = [s \in Server |-> [p \in Phase |-> None]]
    /\ decision = [s \in Server |-> None]

-----------------------------------------------------------------------------
(* Tallies.  A sample of a round is the set of senders tallied in it.       *)

Samples(casters) == {H \in SUBSET casters : Cardinality(H) = NMinusF}

Proposers == {q \in Server : proposal[q] # None}
Backers(m) == {q \in Server : proposal[q] = m}
StateCasters(p) == {q \in Server : state[q][p] # None}
VoteCasters(p) == {q \in Server : vote[q][p] # None}
StatedIn(H, p, v) == {q \in H : state[q][p] = v}
VotedIn(H, p, v) == {q \in H : vote[q][p] = v}

(* What a binary decision b of the slot returns: Null for 0, and for 1 the  *)
(* object that a majority proposed, from the server's own tally or from a   *)
(* peer's reply.                                                            *)
ReturnValue_AnyReceived(b) ==
    IF b = 0 THEN {Null} ELSE {m \in Proposal : Backers(m) # {}}

ReturnValue(b) ==
    IF b = 0 THEN {Null}
    ELSE {m \in Proposal : Cardinality(Backers(m)) >= Majority}

-----------------------------------------------------------------------------
(* getRequest up to the broadcast of the proposal.                          *)
Propose(s, m) ==
    /\ pc[s] = "idle"
    /\ proposal' = [proposal EXCEPT ![s] = m]
    /\ round' = [round EXCEPT ![s] = 1]
    /\ pc' = [pc EXCEPT ![s] = "wait"]
    /\ UNCHANGED <<phase, state, vote, decision>>

(* epilogue: the slot is decided and the executor turns to the next one.    *)
Decide(s, d) ==
    /\ decision' = [decision EXCEPT ![s] = d]
    /\ pc' = [pc EXCEPT ![s] = "done"]

CastVote_RoundNotIncremented(s, v) ==
    /\ vote' = [vote EXCEPT ![s][phase[s]] = v]
    /\ UNCHANGED <<pc, phase, round, proposal, state, decision>>

CastVote(s, v) ==
    /\ vote' = [vote EXCEPT ![s][phase[s]] = v]
    /\ round' = [round EXCEPT ![s] = 2]
    /\ UNCHANGED <<pc, phase, proposal, state, decision>>

(* SetMyBCMsgs(phase + 1, 1, v) and IncrPhaseDecrRound; beyond the last      *)
(* phase the index is out of range and the executor panics.                  *)
CastState(s, v) ==
    /\ UNCHANGED <<proposal, vote, decision>>
    /\ \/ /\ phase[s] + 1 \in Phase
          /\ state' = [state EXCEPT ![s][phase[s] + 1] = v]
          /\ phase' = [phase EXCEPT ![s] = @ + 1]
          /\ round' = [round EXCEPT ![s] = 1]
          /\ UNCHANGED pc
       \/ /\ phase[s] + 1 \notin Phase
          /\ pc' = [pc EXCEPT ![s] = "panic"]
          /\ UNCHANGED <<phase, round, state>>

Phase0Round1_AboveFastPath(s) ==
    /\ pc[s] = "wait" /\ phase[s] = 0 /\ round[s] = 1
    /\ \E H \in Samples(Proposers) : \E v \in {1, Unknown} :
         /\ v = 1 <=> \E m \in Proposal : Cardinality(H \cap Backers(m)) > MajorityPlusF
         /\ CastVote(s, v)

Phase0Round1(s) ==
    /\ pc[s] = "wait" /\ phase[s] = 0 /\ round[s] = 1
    /\ \E H \in Samples(Proposers) :
         LET Tally(m) == Cardinality(H \cap Backers(m)) IN
         \/ \E m \in Proposal :
              /\ Tally(m) >= MajorityPlusF
              /\ Decide(s, m)
              /\ round' = [round EXCEPT ![s] = 2]
              /\ UNCHANGED <<phase, proposal, state, vote>>
         \/ /\ \E m \in Proposal : Tally(m) >= Majority
            /\ \A m \in Proposal : Tally(m) < MajorityPlusF
            /\ CastVote(s, 1)
         \/ /\ \A m \in Proposal : Tally(m) < Majority
            /\ CastVote(s, Unknown)

PhaseNRound1(s) ==
    /\ pc[s] = "wait" /\ phase[s] > 0 /\ round[s] = 1
    /\ \E H \in Samples(StateCasters(phase[s])) :
         LET Tally(v) == Cardinality(StatedIn(H, phase[s], v)) IN
         \/ \E v \in Bit : \E d \in ReturnValue(v) :
              /\ Tally(v) >= MajorityPlusF
              /\ Decide(s, d)
              /\ round' = [round EXCEPT ![s] = 2]
              /\ UNCHANGED <<phase, proposal, state, vote>>
         \/ \E v \in Bit :
              /\ Tally(v) >= Majority
              /\ Tally(v) < MajorityPlusF
              /\ CastVote(s, v)
         \/ /\ \A v \in Bit : Tally(v) < Majority
            /\ CastVote(s, Unknown)

(* The votes of a phase: FaultyPlusOne equal bits decide, one bit is         *)
(* adopted, and a sample of "?" alone falls back on the given bit.           *)
Round2(s, fallback) ==
    /\ pc[s] = "wait" /\ round[s] = 2
    /\ \E H \in Samples(VoteCasters(phase[s])) :
         LET Tally(v) == Cardinality(VotedIn(H, phase[s], v))
             MajV == IF Tally(0) > Tally(1) THEN 0 ELSE 1
         IN
         \/ \E d \in ReturnValue(MajV) :
              /\ Tally(MajV) >= FaultyPlusOne
              /\ Decide(s, d)
              /\ round' = [round EXCEPT ![s] = 3]
              /\ UNCHANGED <<phase, proposal, state, vote>>
         \/ /\ Tally(MajV) \in 1 .. NFaulty
            /\ CastState(s, MajV)
         \/ /\ Tally(MajV) = 0
            /\ CastState(s, fallback)

Phase0Round2(s) == phase[s] = 0 /\ Round2(s, 0)
PhaseNRound2(s) == phase[s] > 0 /\ Round2(s, Coin[phase[s]])

(* wait(): a Decision message of a peer ends the slot in any round.          *)
LearnDecision(s) ==
    /\ pc[s] = "wait"
    /\ \E q \in Server : decision[q] # None /\ Decide(s, decision[q])
    /\ UNCHANGED <<phase, round, proposal, state, vote>>

Next ==
    \E s \in Server :
        \/ \E m \in Proposal : Propose(s, m)
        \/ Phase0Round1(s)
        \/ Phase0Round2(s)
        \/ PhaseNRound1(s)
        \/ PhaseNRound2(s)
        \/ LearnDecision(s)

Spec == Init /\ [][Next]_vars
-----------------------------------------------------------------------------
(* Properties.                                                              *)

TypeOK ==
    /\ pc \in [Server -> {"idle", "wait", "done", "panic"}]
    /\ phase \in [Server -> Phase]
    /\ round \in [Server -> 0 .. 3]
    /\ proposal \in [Server -> Proposal \cup {None}]
    /\ state \in [Server -> [Phase -> Bit \cup {None}]]
    /\ vote \in [Server -> [Phase -> Bit \cup {Unknown, None}]]
    /\ decision \in [Server -> Object \cup {None}]

(* No two servers decide the slot differently, whichever samples they took   *)
(* and whichever of the four deciding paths (fast proposal path, F + 1       *)
(* votes, fast state path, Decision message) they came through.              *)
Agreement ==
    \A s, t \in Server :
        decision[s] # None /\ decision[t] # None => decision[s] = decision[t]

(* Once FaultyPlusOne servers voted a bit in a phase (what one of them may   *)
(* decide on, seen or not), no server enters a later phase with the other.   *)
LockedValue ==
    \A p \in Phase : \A v \in Bit :
        Cardinality(VotedIn(Server, p, v)) >= FaultyPlusOne =>
            \A s \in Server : \A r \in p + 1 .. LenBlockArray - 1 :
                state[s][r] \in {v, None}

(* The bits voted in one phase agree: "?" is the only other vote.            *)
VotesAgree ==
    \A p \in Phase : \A s, t \in Server :
        vote[s][p] \in Bit /\ vote[t][p] \in Bit => vote[s][p] = vote[t][p]

(* A binary 1 always stands for an object a majority proposed, so that       *)
(* findReturnValue has something to return: the coin never makes up a 1.     *)
OneIsBacked ==
    \A s \in Server : \A p \in Phase :
        state[s][p] = 1 \/ vote[s][p] = 1 =>
            \E m \in Proposal : Cardinality(Backers(m)) >= Majority

(* A slot is wasted on Null only when the servers proposed different objects *)
NullOnlyWhenContended ==
    (\E s \in Server : decision[s] = Null) =>
        \E s, t \in Server :
            /\ proposal[s] # None /\ proposal[t] # None
            /\ proposal[s] # proposal[t]

(* The slot implements the abstract one-slot consensus.                      *)
Abstract == INSTANCE SlotDecision
ImplementsSlotDecision == Abstract!Spec

-----------------------------------------------------------------------------
(* The inductive invariant behind these properties: every message and every  *)
(* decision rests on a sample its sender took, and every sample is still     *)
(* there to be counted, since nothing broadcast is ever changed.             *)

Fallback(p) == IF p = 0 THEN 0 ELSE Coin[p]

VoteBasis(p, v) ==
    IF p = 0
    THEN \/ v = 1 /\ \E m \in Proposal : Cardinality(Backers(m)) >= Majority
         \/ v = Unknown /\ \E H \in Samples(Proposers) :
                \A m \in Proposal : Cardinality(H \cap Backers(m)) < Majority
    ELSE \/ v \in Bit /\ Cardinality(StatedIn(Server, p, v)) >= Majority
         \/ v = Unknown /\ \E H \in Samples(StateCasters(p)) :
                \A b \in Bit : Cardinality(StatedIn(H, p, b)) < Majority

(* The state of the phase after p.                                           *)
StateBasis(p, v) ==
    \E H \in Samples(VoteCasters(p)) :
        \/ \E h \in H : vote[h][p] = v
        \/ v = Fallback(p) /\ \A h \in H : vote[h][p] = Unknown

(* What a server that decides the bit v in phase p has seen.                 *)
Commit(p, v) ==
    \/ Cardinality(VotedIn(Server, p, v)) >= FaultyPlusOne
    \/ p > 0 /\ Cardinality(StatedIn(Server, p, v)) >= MajorityPlusF
    \/ /\ p = 0 /\ v = 1
       /\ \E m \in Proposal : Cardinality(Backers(m)) >= MajorityPlusF

DecisionBasis(d) ==
    \/ d = Null /\ \E p \in Phase : Commit(p, 0)
    \/ /\ d \in Proposal /\ Cardinality(Backers(d)) >= Majority
       /\ \E p \in Phase : Commit(p, 1)

Founded ==
    \A s \in Server :
        /\ \A p \in Phase : vote[s][p] # None => VoteBasis(p, vote[s][p])
        /\ \A p \in Phase \ {0} : state[s][p] # None => StateBasis(p - 1, state[s][p])
        /\ decision[s] # None => DecisionBasis(decision[s])

(* A bit that reached some phase was somebody's state in every phase before. *)
StateTrace ==
    \A s \in Server : \A p \in Phase : \A r \in 1 .. p :
        state[s][p] # None => \E t \in Server : state[t][r] = state[s][p]

(* A server has broadcast exactly up to its phase and round.                 *)
Progress ==
    \A s \in Server :
        /\ pc[s] = "idle" <=> proposal[s] = None
        /\ pc[s] = "idle" => round[s] = 0 /\ phase[s] = 0
        /\ pc[s] # "done" => decision[s] = None
        /\ state[s][0] = None
        /\ round[s] <= 1 => vote[s][phase[s]] = None
        /\ \A p \in Phase : p > phase[s] => state[s][p] = None /\ vote[s][p] = None

(* Nobody votes or decides before a complete sample of proposals was taken.  *)
EnoughProposed ==
    (\E s \in Server : decision[s] # None \/ \E p \in Phase : vote[s][p] # None) =>
        Cardinality(Proposers) >= NMinusF

IndInv == TypeOK /\ Progress /\ Founded /\ StateTrace /\ EnoughProposed
=============================================================================
