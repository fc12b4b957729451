---------------------------- MODULE MCSlotEngine ----------------------------
(* Instances of SlotEngine for TLC.                                         *)
EXTENDS SlotEngine, TLC

(* The phases' coins: the first flips of the source seeded with 42.         *)
MCCoin == [p \in 1 .. LenBlockArray - 1 |-> 1]

Lone == CHOOSE s \in Server : TRUE
LoneHead == CHOOSE m \in Proposal : TRUE

(* What heads the pending queues: any object; one object at Lone and others *)
(* elsewhere; at each server its own object, or another's at Lone.          *)
AnyHead == [s \in Server |-> Proposal]
SplitHead ==
    [s \in Server |-> IF s = Lone THEN {LoneHead} ELSE Proposal \ {LoneHead}]
OwnHead ==
    LET own == CHOOSE f \in [Server -> Proposal] :
                  \A s, t \in Server : f[s] = f[t] => s = t
        other == CHOOSE s \in Server : s # Lone
    IN  [s \in Server |-> IF s = Lone THEN {own[Lone], own[other]} ELSE {own[s]}]

(* Three reductions of SlotEngineLive.  Its properties excuse for good what   *)
(* follows a panic or the crash of a server that had decided: they are not    *)
(* followed any further.                                                      *)
NotExcused == ~OutOfPhases /\ ~DecisionLost

(* The steps that only the server itself can see, and that commute with all   *)
(* that may come between, go first: a start, which differs from a slow server *)
(* in nothing, a discarded notice, and the rest of what a handler does with a *)
(* message.                                                                   *)
Discards(s) ==
    hasRecvDec[s] /\ pc[s] = "wait" /\ queue[s] # << >> /\ Head(queue[s]).type # "Decision"
GoesOn(s) == handler[s] = Mark \/ (handler[s] # Free /\ Len(queue[s]) < QueueCap)
InwardFirst ==
    LET before == {s \in Server : Alive(s) /\ (pc[s] = "idle" \/ Discards(s) \/ GoesOn(s))} IN
    before = {} \/ \E s \in before :
        \/ pc[s] = "idle" /\ pc'[s] # "idle"
        \/ Discards(s) /\ queue'[s] = Tail(queue[s])
        \/ GoesOn(s) /\ handler'[s] # handler[s]

(* States that differ in nothing that a later step or one of the properties   *)
(* reads are one: of a crashed server what it sent and whether its tally of   *)
(* proposals holds a majority is left, of a decided executor that it is done, *)
(* and the states and votes are those in the messages.                        *)
LiveView ==
    LET Live(f) == [s \in Server |-> IF s \in crashed THEN 0 ELSE f[s]] IN
    <<crashed, OutOfPhases, sent,
      [s \in Server |->
         IF s \in crashed THEN MajProposals(s, Majority) # {} ELSE recvProposal[s]],
      [s \in Server |-> IF s \in crashed \/ IsDone(s) THEN IsDone(s) ELSE
         <<pc[s], phase[s], round[s], recvState[s], recvVote[s]>>],
       Live(queue), Live(handler), Live(hasRecvDec), Live(requests), Live(replies)>>

(* The servers other than Lone are interchangeable under SplitHead.         *)
Symmetry == Permutations(Server \ {Lone})
=============================================================================
