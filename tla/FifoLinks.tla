------------------------------ MODULE FifoLinks ------------------------------
(***************************************************************************)
(* What the network layer promises to the routines above it: a link from   *)
(* every routine of a server to every server, on which messages are        *)
(* neither lost, repeated nor reordered, and no order between the links of *)
(* different routines, not even of one server.  A crash of a server may    *)
(* end its links early.                                                    *)
(***************************************************************************)
EXTENDS Naturals

CONSTANTS Server, Routine

VARIABLES
    issued,     \* issued[s][t][r]: how many messages for t routine r of s has sent
    handled     \* handled[s][t][r]: how many of them have been taken at t

vars == <<issued, handled>>

NoneYet == [s \in Server |-> [t \in Server |-> [r \in Routine |-> 0]]]

Init == issued = NoneYet /\ handled = NoneYet

Send(s, r) ==
    /\ \E T \in (SUBSET Server) \ {{}} :
          issued' = [issued EXCEPT ![s] =
              [t \in Server |-> IF t \in T THEN [issued[s][t] EXCEPT ![r] = @ + 1]
                                         ELSE issued[s][t]]]
    /\ UNCHANGED handled

Take(s, t, r) ==
    /\ handled[s][t][r] < issued[s][t][r]
    /\ handled' = [handled EXCEPT ![s][t][r] = @ + 1]
    /\ UNCHANGED issued

(* A routine may take a message and send another one in the same step.       *)
TakeAndSend(s, t, r) ==
    /\ handled[s][t][r] < issued[s][t][r]
    /\ handled' = [handled EXCEPT ![s][t][r] = @ + 1]
    /\ \E q \in Server, o \in Routine :
          issued' = [issued EXCEPT ![t][q][o] = @ + 1]

Next ==
    \E s \in Server, r \in Routine :
        Send(s, r) \/ \E t \in Server : Take(s, t, r) \/ TakeAndSend(s, t, r)

Spec == Init /\ [][Next]_vars
=============================================================================
