---------------------------- MODULE SlotDecision ----------------------------
(***************************************************************************)
(* What one slot of the ledger promises: every server that decides it      *)
(* decides the same, once, either an object that a majority of the servers *)
(* proposed or, when they proposed different objects, Null, and not before *)
(* all but NFaulty servers have proposed.                                  *)
(***************************************************************************)
EXTENDS Integers, FiniteSets

CONSTANTS Server, NFaulty, Proposal, Null, None

VARIABLES proposal, decision

vars == <<proposal, decision>>

Init ==
    /\ proposal = [s \in Server |-> None]
    /\ decision = [s \in Server |-> None]

Propose(s, m) ==
    /\ proposal[s] = None
    /\ proposal' = [proposal EXCEPT ![s] = m]
    /\ UNCHANGED decision

EnoughProposed ==
    Cardinality({s \in Server : proposal[s] # None}) >= Cardinality(Server) - NFaulty

Backed(m) == 2 * Cardinality({s \in Server : proposal[s] = m}) > Cardinality(Server)

Contended ==
    \E s, t \in Server :
        proposal[s] # None /\ proposal[t] # None /\ proposal[s] # proposal[t]

Decide(s, d) ==
    /\ proposal[s] # None /\ decision[s] = None
    /\ EnoughProposed
    /\ \A t \in Server : decision[t] \in {None, d}
    /\ \/ d \in Proposal /\ Backed(d)
       \/ d = Null /\ Contended
    /\ decision' = [decision EXCEPT ![s] = d]
    /\ UNCHANGED proposal

Next ==
    \E s \in Server :
        \/ \E m \in Proposal : Propose(s, m)
        \/ \E d \in Proposal \cup {Null} : Decide(s, d)

Spec == Init /\ [][Next]_vars
=============================================================================
