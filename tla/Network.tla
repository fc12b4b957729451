------------------------------- MODULE Network -------------------------------
(***************************************************************************)
(* The network layer of all servers: the connections of NetTCP, MsgRouter, *)
(* MsgSerializer, the channels to and from the other layers, and the links *)
(* between the servers.                                                    *)
(*                                                                         *)
(* The layers above are seen through their channels: the proxy broadcasts  *)
(* ClientRequests, the executor asks for proposals and waits for a reply,  *)
(* the handler may or may not answer.                                      *)
(***************************************************************************)
EXTENDS Integers, Sequences, SequencesExt, FiniteSets

CONSTANTS
    Peers,      \* Conf.Peers: the servers, in the order of their ids
    LenChannel, \* Conf.LenChannel
    NRequests,  \* NRequests[s]: bound on what the proxy of s broadcasts
    NAsks,      \* NAsks[s]: bound on the proposal requests of its executor
    MaxCrash,   \* bound on crashes
    None

Server == ToSet(Peers)
Routine == {"proxy", "executor", "handler"}

ASSUME PeersAssumption == Peers \in Seq(Server) /\ IsInjective(Peers)
ASSUME LengthAssumption == LenChannel \in Nat \ {0}
ASSUME LoadAssumption ==
    NRequests \in [Server -> Nat] /\ NAsks \in [Server -> Nat] /\ MaxCrash \in Nat

VARIABLES
    started,    \* the servers whose process has started
    dialed,     \* dialed[s]: how many peers s has dialed
    accepted,   \* accepted[s]: the peers in RecvConn of s
    out,        \* out[s][r]: the channel of routine r of s to the network layer
    routed,     \* routed[s]: the message MsgRouter is blocked with, or None
    queue,      \* queue[s][d]: where MsgRouter and MsgSerializer send, see Dest
    served,     \* served[s]: how many peers have the head of ToSerializer
    seq,        \* seq[s]: the last slot the executor of s asked for, 0 if none
    asking,     \* the servers whose executor waits for a reply
    answer,     \* answer[s]: the slot of the reply it took last
    crashed,
    issued, handled \* see FifoLinks

connectVars == <<started, dialed, accepted>>
executorVars == <<seq, asking, answer>>
vars == <<connectVars, out, routed, queue, served, executorVars, crashed, issued, handled>>

(* The channels of a server that the network layer sends to.  That to a peer t *)
(* is everything from SendChan[t] to MsgRouter of t: SendChan, SendHandler,   *)
(* the buffers of the TCP connection, RecvHandler, its part of RecvChan.      *)
(* MsgSerializer holds the head of ToSerializer.                             *)
Dest == {"ToSerializer", "ToMsgHandler", "ToConExecutor"} \cup Server

ASSUME ChannelAssumption == Server \cap {"ToSerializer", "ToMsgHandler", "ToConExecutor"} = {}

(* A message: its number n is its place on the link from routine by of from.   *)
Msg ==
    [type : {"ClientRequest", "ProposalRequest", "ProposalReply"}, from : Server, by : Routine,
     n : Nat, slot : Nat, to : Server \cup {Server}]

ASSUME NoneAssumption == None \notin [dest : Dest, msg : Msg]

Links == INSTANCE FifoLinks

Init ==
    /\ started = {}
    /\ dialed = [s \in Server |-> 0] /\ accepted = [s \in Server |-> {}]
    /\ out = [s \in Server |-> [r \in Routine |-> << >>]]
    /\ routed = [s \in Server |-> None]
    /\ queue = [s \in Server |-> [d \in Dest |-> << >>]] /\ served = [s \in Server |-> 0]
    /\ seq = [s \in Server |-> 0] /\ asking = {} /\ answer = [s \in Server |-> 0]
    /\ crashed = {}
    /\ Links!Init

HasRoom(channel) == Len(channel) < LenChannel

-----------------------------------------------------------------------------
(* NetTCP.Connect: dialing and accepting run side by side.                   *)

(* The listener is there as soon as the process has started.                 *)
StartServer(s) ==
    /\ s \notin started
    /\ started' = started \cup {s}
    /\ UNCHANGED <<dialed, accepted, out, routed, queue, served, executorVars, crashed,
                   issued, handled>>

DialNext_AfterAccepting(s) ==
    /\ s \in started /\ dialed[s] < Len(Peers)
    /\ accepted[s] = Server
    /\ Peers[dialed[s] + 1] \in started
    /\ dialed' = [dialed EXCEPT ![s] = @ + 1]
    /\ UNCHANGED <<started, accepted, out, routed, queue, served, executorVars, crashed,
                   issued, handled>>

(* A peer that does not listen yet is dialed again later.                    *)
DialNext(s) ==
    /\ s \in started /\ dialed[s] < Len(Peers)
    /\ Peers[dialed[s] + 1] \in started
    /\ dialed' = [dialed EXCEPT ![s] = @ + 1]
    /\ UNCHANGED <<started, accepted, out, routed, queue, served, executorVars, crashed,
                   issued, handled>>

HasDialed(t, s) == \E i \in 1 .. dialed[t] : Peers[i] = s
Accept(s, t) ==
    /\ s \in started /\ HasDialed(t, s) /\ t \notin accepted[s]
    /\ accepted' = [accepted EXCEPT ![s] = @ \cup {t}]
    /\ UNCHANGED <<started, dialed, out, routed, queue, served, executorVars, crashed,
                   issued, handled>>

Connected(s) == dialed[s] = Len(Peers) /\ accepted[s] = Server
Runs(s) == Connected(s) /\ s \notin crashed

-----------------------------------------------------------------------------
(* The layers above.                                                         *)
Message(type, s, r, n, slot, to) ==
    [type |-> type, from |-> s, by |-> r, n |-> n, slot |-> slot, to |-> to]

(* The next message of routine r of s, for all servers.                      *)
Broadcast(type, s, r, slot) ==
    /\ HasRoom(out[s][r])
    /\ out' = [out EXCEPT ![s][r] =
          Append(@, Message(type, s, r, issued[s][s][r] + 1, slot, Server))]
    /\ issued' = [issued EXCEPT ![s] =
          [t \in Server |-> [issued[s][t] EXCEPT ![r] = @ + 1]]]

Submit(s) ==
    /\ Runs(s) /\ issued[s][s]["proxy"] < NRequests[s]
    /\ Broadcast("ClientRequest", s, "proxy", 0)
    /\ UNCHANGED <<connectVars, routed, queue, served, executorVars, crashed, handled>>

(* requestProposalAndWait, for a later slot each time.                       *)
Ask(s) ==
    /\ Runs(s) /\ s \notin asking /\ seq[s] < NAsks[s]
    /\ Broadcast("ProposalRequest", s, "executor", seq[s] + 1)
    /\ seq' = [seq EXCEPT ![s] = @ + 1]
    /\ asking' = asking \cup {s}
    /\ UNCHANGED <<connectVars, routed, queue, served, answer, crashed, handled>>

Taken(m, t) == handled' = [handled EXCEPT ![m.from][t][m.by] = m.n]

(* A reply to an earlier request is skipped.                                 *)
TakeReply_Any(s) ==
    /\ Runs(s) /\ s \in asking /\ queue[s]["ToConExecutor"] # << >>
    /\ queue' = [queue EXCEPT ![s]["ToConExecutor"] = Tail(@)]
    /\ Taken(Head(queue[s]["ToConExecutor"]), s)
    /\ asking' = asking \ {s}
    /\ answer' = [answer EXCEPT ![s] = Head(queue[s]["ToConExecutor"]).slot]
    /\ UNCHANGED <<connectVars, out, routed, served, seq, crashed, issued>>

TakeReply(s) ==
    /\ Runs(s) /\ s \in asking /\ queue[s]["ToConExecutor"] # << >>
    /\ queue' = [queue EXCEPT ![s]["ToConExecutor"] = Tail(@)]
    /\ LET m == Head(queue[s]["ToConExecutor"]) IN
       /\ Taken(m, s)
       /\ IF m.slot < seq[s]
          THEN UNCHANGED <<asking, answer>>
          ELSE /\ asking' = asking \ {s}
               /\ answer' = [answer EXCEPT ![s] = m.slot]
    /\ UNCHANGED <<connectVars, out, routed, served, seq, crashed, issued>>

(* MsgHandler: what it does with a message is SlotEngine's matter.  It may     *)
(* answer a request of another server, if its tally allows.  If there is no   *)
(* room for the reply it blocks: the reply is then the one too many in its    *)
(* channel.                                                                  *)
Handle(s) ==
    /\ Runs(s) /\ queue[s]["ToMsgHandler"] # << >>
    /\ Len(out[s]["handler"]) <= LenChannel
    /\ LET m == Head(queue[s]["ToMsgHandler"])
           n == issued[s][m.from]["handler"] + 1
       IN  /\ Taken(m, s)
           /\ \/ UNCHANGED <<out, issued>>
              \/ /\ m.type = "ProposalRequest" /\ m.from # s
                 /\ out' = [out EXCEPT ![s]["handler"] =
                       Append(@, Message("ProposalReply", s, "handler", n, m.slot, m.from))]
                 /\ issued' = [issued EXCEPT ![s][m.from]["handler"] = n]
    /\ queue' = [queue EXCEPT ![s]["ToMsgHandler"] = Tail(@)]
    /\ UNCHANGED <<connectVars, routed, served, executorVars, crashed>>

-----------------------------------------------------------------------------
(* MsgRouter and MsgSerializer.                                              *)

(* Message m is sent to d, q being the channels without m.  The connection to *)
(* a crashed peer fails, but SendHandler drops the error of WriteFlush and     *)
(* goes on with the next message.                                            *)
SendTo(q, s, d, m) ==
    /\ HasRoom(q[s][d])
    /\ queue' = IF d \in crashed THEN q ELSE [q EXCEPT ![s][d] = Append(@, m)]

(* The router sends what it has taken from one of its channels.  If there is  *)
(* no room it blocks with the message and takes nothing else.                *)
Route(q, s, d, m) ==
    \/ SendTo(q, s, d, m) /\ UNCHANGED routed
    \/ /\ ~HasRoom(q[s][d])
       /\ queue' = q
       /\ routed' = [routed EXCEPT ![s] = [dest |-> d, msg |-> m]]

(* A message of the layers above: replies go to the asking server, all other  *)
(* messages to all servers through the serializer.                           *)
RouteOut(s, r) ==
    /\ Runs(s) /\ routed[s] = None /\ out[s][r] # << >>
    /\ out' = [out EXCEPT ![s][r] = Tail(@)]
    /\ LET m == Head(out[s][r]) IN
       Route(queue, s, IF m.type = "ProposalReply" THEN m.to ELSE "ToSerializer", m)
    /\ UNCHANGED <<connectVars, served, executorVars, crashed, issued, handled>>

(* A message of a peer.                                                      *)
RouteIn_AnyOrder(s, t) ==
    /\ Runs(s) /\ routed[s] = None
    /\ \E i \in DOMAIN queue[t][s] :
          LET m == queue[t][s][i] IN
          Route([queue EXCEPT ![t][s] = RemoveAt(@, i)], s,
                IF m.type = "ProposalReply" THEN "ToConExecutor" ELSE "ToMsgHandler", m)
    /\ UNCHANGED <<connectVars, out, served, executorVars, crashed, issued, handled>>

RouteIn(s, t) ==
    /\ Runs(s) /\ routed[s] = None /\ queue[t][s] # << >>
    /\ LET m == Head(queue[t][s]) IN
       Route([queue EXCEPT ![t][s] = Tail(@)], s,
             IF m.type = "ProposalReply" THEN "ToConExecutor" ELSE "ToMsgHandler", m)
    /\ UNCHANGED <<connectVars, out, served, executorVars, crashed, issued, handled>>

Unblock(s) ==
    /\ Runs(s) /\ routed[s] # None
    /\ SendTo(queue, s, routed[s].dest, routed[s].msg)
    /\ routed' = [routed EXCEPT ![s] = None]
    /\ UNCHANGED <<connectVars, out, served, executorVars, crashed, issued, handled>>

MsgRouter(s) ==
    \/ \E r \in Routine : RouteOut(s, r)
    \/ \E t \in Server : RouteIn(s, t)
    \/ Unblock(s)

(* MsgSerializer gives the head of ToSerializer to the peers in turn.         *)
Advance(s) == served' = [served EXCEPT ![s] = (@ + 1) % Len(Peers)]
WithoutServed(s) ==
    IF served[s] + 1 < Len(Peers) THEN queue
    ELSE [queue EXCEPT ![s]["ToSerializer"] = Tail(@)]

MsgSerializer(s) ==
    /\ Runs(s) /\ queue[s]["ToSerializer"] # << >>
    /\ SendTo(WithoutServed(s), s, Peers[served[s] + 1], Head(queue[s]["ToSerializer"]))
    /\ Advance(s)
    /\ UNCHANGED <<connectVars, out, routed, executorVars, crashed, issued, handled>>

-----------------------------------------------------------------------------
(* A server crashes, once Connect has succeeded everywhere (see the README).  *)
(* What it had sent and not yet been written to a connection is lost.        *)
Crash(s) ==
    /\ \A t \in Server : Connected(t)
    /\ s \notin crashed /\ Cardinality(crashed) < MaxCrash
    /\ crashed' = crashed \cup {s}
    /\ \E kept \in [Server -> 0 .. LenChannel] :
          /\ \A t \in Server : kept[t] <= Len(queue[s][t])
          /\ queue' = [t \in Server |-> [d \in Dest |->
                IF t # s THEN IF d = s THEN << >> ELSE queue[t][d]
                ELSE IF d \in Server \ {s} THEN SubSeq(queue[s][d], 1, kept[d])
                ELSE << >>]]
    /\ out' = [out EXCEPT ![s] = [r \in Routine |-> << >>]]
    /\ UNCHANGED <<connectVars, routed, served, executorVars, issued, handled>>

Routines ==
    \E s \in Server :
        \/ StartServer(s) \/ DialNext(s) \/ \E t \in Server : Accept(s, t)
        \/ Submit(s) \/ TakeReply(s) \/ Handle(s) \/ MsgRouter(s) \/ MsgSerializer(s)

Next == Routines \/ \E s \in Server : Ask(s) \/ Crash(s)

Spec == Init /\ [][Next]_vars

(* The processes are started and the routines of servers that stay up run.    *)
(* Every step brings a message further, so it is enough that one is taken     *)
(* whenever one can be.  The executors need not ask.                         *)
FairSpec == Spec /\ WF_vars(Routines)

-----------------------------------------------------------------------------
(* Properties.                                                               *)

Channels == UNION {{queue[s][d] : d \in Dest} : s \in Server}
TypeOK ==
    /\ dialed \in [Server -> 0 .. Len(Peers)] /\ accepted \in [Server -> SUBSET Server]
    /\ \A c \in Channels : Len(c) <= LenChannel
    /\ served \in [Server -> 0 .. Len(Peers) - 1]
    /\ asking \subseteq Server /\ crashed \subseteq Server

(* Between the routines of the servers the network layer is a set of FIFO     *)
(* links (see FifoLinks): a full channel or a dead peer delays messages but    *)
(* never drops, repeats or reorders those of another.                         *)
ImplementsFifoLinks == Links!Spec

(* The executor goes on with the reply to the request it is waiting on, never *)
(* with one to an earlier request that a second server answered late.        *)
AnswersMatch ==
    \A s \in Server : s \notin asking => answer[s] = seq[s]

(* Whatever order the processes start in, all servers connect, and from then  *)
(* on every broadcast of a server that stays up reaches every server that     *)
(* stays up, whichever peer crashes.                                         *)
AllServed ==
    \A s \in Server :
        /\ Connected(s)
        /\ s \notin crashed =>
              /\ issued[s][s]["proxy"] = NRequests[s]
              /\ \A t \in Server \ crashed, r \in {"proxy", "executor"} :
                    handled[s][t][r] = issued[s][t][r]
PeersServed == <>[]AllServed
=============================================================================
