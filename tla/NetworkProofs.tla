---------------------------- MODULE NetworkProofs ----------------------------
(***************************************************************************)
(* Proofs about Network, for every number of servers, length of the        *)
(* channels, load and number of crashes: an executor goes on only with the *)
(* reply to the request it is waiting on, and between the routines of the  *)
(* servers the network layer is a set of FIFO links.                       *)
(*                                                                         *)
(* For the second, LinkInv says of every link which of its messages are    *)
(* where: what its receiver has not taken yet is in order in the channels  *)
(* from the receiver's end back to the routine that sends, none missing    *)
(* and none twice.  First come lemmas about a sequence that carries a      *)
(* range of numbers, then what the steps do to a chain of such sequences,  *)
(* then the actions of Network.                                            *)
(***************************************************************************)
EXTENDS Network, SequenceTheorems, TLAPS

(* A request is for a slot its executor has come to, and so is a reply, which *)
(* a handler sends and which has one addressee.                              *)
Sound ==
    {m \in Msg :
        /\ m.type = "ProposalReply" <=> m.by = "handler"
        /\ m.type = "ProposalRequest" => m.slot <= seq[m.from]
        /\ m.type = "ProposalReply" => m.to \in Server /\ m.slot <= seq[m.to]}

(* What a channel of s to d may hold: a reply only on the way to its          *)
(* addressee, only replies to s on the way to the executor of s, and only     *)
(* what s has sent on the way to the servers.                                *)
Fitting(s, d) ==
    {m \in Sound :
        /\ d \in Server \cup {"ToSerializer"} => m.from = s
        /\ m.type = "ProposalReply" => d \in {m.to, "ToConExecutor"}
        /\ d = "ToConExecutor" => m.type = "ProposalReply" /\ m.to = s}

Counters ==
    /\ seq \in [Server -> Nat] /\ answer \in [Server -> Nat] /\ asking \subseteq Server
    /\ served \in [Server -> 0 .. Len(Peers) - 1]
    /\ issued \in [Server -> [Server -> [Routine -> Nat]]]

(* What the routines of a server give to its router is their own.            *)
Own(s, r) == {m \in Sound : m.from = s /\ m.by = r}
AllOwn(o) ==
    /\ o \in [Server -> [Routine -> Seq(Msg)]]
    /\ \A s \in Server, r \in Routine : o[s][r] \in Seq(Own(s, r))

(* The channels q hold what fits.                                            *)
AllFit(q) ==
    /\ q \in [Server -> [Dest -> Seq(Msg)]]
    /\ \A s \in Server, d \in Dest : q[s][d] \in Seq(Fitting(s, d))

RoutedFits ==
    /\ routed \in [Server -> {None} \cup [dest : Dest, msg : Msg]]
    /\ \A s \in Server : routed[s] # None =>
          routed[s].dest \in Dest /\ routed[s].msg \in Fitting(s, routed[s].dest)

IInv == Counters /\ AllOwn(out) /\ AllFit(queue) /\ RoutedFits /\ AnswersMatch

-----------------------------------------------------------------------------
LEMMA PeersAreServers ==
    ASSUME NEW s \in Server
    PROVE  Len(Peers) \in Nat \ {0} /\ \A n \in 1 .. Len(Peers) : Peers[n] \in Server
<1>1. /\ Peers \in Seq(Server) /\ Len(Peers) \in Nat /\ DOMAIN Peers = 1 .. Len(Peers)
      /\ \E n \in DOMAIN Peers : Peers[n] = s
  BY PeersAssumption DEF Server, ToSet
<1> QED
  BY <1>1

LEMMA WiderSeq ==
    ASSUME NEW A, NEW B, A \subseteq B, NEW c \in Seq(A)
    PROVE  c \in Seq(B)
<1>1. \A n \in 1 .. Len(c) : c[n] \in B
  OBVIOUS
<1> QED
  BY <1>1, SeqDef

LEMMA Prefix ==
    ASSUME NEW A, NEW c \in Seq(A), NEW k \in Nat, k <= Len(c)
    PROVE  SubSeq(c, 1, k) \in Seq(A)
BY SubSeqProperties

(* A channel of q is replaced by one that fits.                              *)
LEMMA Replace ==
    ASSUME NEW q, AllFit(q), NEW s \in Server, NEW d \in Dest, NEW c \in Seq(Fitting(s, d))
    PROVE  AllFit([q EXCEPT ![s][d] = c])
<1>1. c \in Seq(Msg)
  BY WiderSeq DEF Fitting, Sound
<1>2. [q EXCEPT ![s][d] = c] \in [Server -> [Dest -> Seq(Msg)]]
  BY <1>1 DEF AllFit
<1>3. ASSUME NEW t \in Server, NEW e \in Dest
      PROVE  [q EXCEPT ![s][d] = c][t][e] \in Seq(Fitting(t, e))
  BY DEF AllFit
<1> QED
  BY <1>2, <1>3 DEF AllFit

LEMMA ReplaceOwn ==
    ASSUME NEW o, AllOwn(o), NEW s \in Server, NEW r \in Routine, NEW c \in Seq(Own(s, r))
    PROVE  AllOwn([o EXCEPT ![s][r] = c])
<1>1. c \in Seq(Msg)
  BY WiderSeq DEF Own, Sound
<1>2. [o EXCEPT ![s][r] = c] \in [Server -> [Routine -> Seq(Msg)]]
  BY <1>1 DEF AllOwn
<1>3. ASSUME NEW t \in Server, NEW e \in Routine
      PROVE  [o EXCEPT ![s][r] = c][t][e] \in Seq(Own(t, e))
  BY DEF AllOwn
<1> QED
  BY <1>2, <1>3 DEF AllOwn

LEMMA SendFits ==
    ASSUME NEW q, AllFit(q), NEW s \in Server, NEW d \in Dest, NEW m \in Fitting(s, d),
           SendTo(q, s, d, m), UNCHANGED seq
    PROVE  AllFit(queue)'
<1>1. Append(q[s][d], m) \in Seq(Fitting(s, d))
  BY DEF AllFit
<1>2. AllFit([q EXCEPT ![s][d] = Append(q[s][d], m)])
  BY <1>1, Replace
<1>3. queue' = q \/ queue' = [q EXCEPT ![s][d] = Append(q[s][d], m)]
  BY DEF SendTo
<1>4. AllFit(queue')
  BY <1>2, <1>3
<1> QED
  BY <1>4 DEF AllFit, Fitting, Sound

LEMMA RouteFits ==
    ASSUME RoutedFits, NEW q, AllFit(q), NEW s \in Server, NEW d \in Dest, NEW m \in Fitting(s, d),
           Route(q, s, d, m), UNCHANGED seq
    PROVE  AllFit(queue)' /\ RoutedFits'
<1>1. CASE SendTo(q, s, d, m) /\ UNCHANGED routed
  <2>1. AllFit(queue)'
    BY <1>1, SendFits
  <2> QED
    BY <1>1, <2>1 DEF RoutedFits, Fitting, Sound
<1>2. CASE queue' = q /\ routed' = [routed EXCEPT ![s] = [dest |-> d, msg |-> m]]
  <2>1. AllFit(queue)'
    BY <1>2 DEF AllFit, Fitting, Sound
  <2>2. m \in Msg
    BY DEF Fitting, Sound
  <2>3. routed' \in [Server -> {None} \cup [dest : Dest, msg : Msg]]
    BY <1>2, <2>2 DEF RoutedFits
  <2>4. ASSUME NEW t \in Server, routed'[t] # None
        PROVE  (routed[t].dest \in Dest /\ routed[t].msg \in Fitting(t, routed[t].dest))'
    <3>1. CASE t = s
      BY <1>2, <3>1 DEF RoutedFits, Fitting, Sound
    <3>2. CASE t # s
      BY <1>2, <2>4, <3>2 DEF RoutedFits, Fitting, Sound
    <3> QED
      BY <3>1, <3>2
  <2> QED
    BY <2>1, <2>3, <2>4 DEF RoutedFits
<1> QED
  BY <1>1, <1>2 DEF Route

LEMMA HeadFits ==
    ASSUME AllFit(queue), NEW s \in Server, NEW d \in Dest, queue[s][d] # << >>
    PROVE  /\ Head(queue[s][d]) \in Fitting(s, d)
           /\ AllFit([queue EXCEPT ![s][d] = Tail(queue[s][d])])
<1>1. queue[s][d] \in Seq(Fitting(s, d))
  BY DEF AllFit
<1>2. Head(queue[s][d]) \in Fitting(s, d) /\ Tail(queue[s][d]) \in Seq(Fitting(s, d))
  BY <1>1
<1> QED
  BY <1>2, Replace

(* What fits depends on the slots asked for only.                            *)
LEMMA SameFit ==
    ASSUME UNCHANGED seq
    PROVE  /\ Sound' = Sound
           /\ AllFit(queue') => AllFit(queue)'
           /\ AllOwn(out') => AllOwn(out)'
           /\ RoutedFits /\ UNCHANGED routed => RoutedFits'
<1>1. Sound' = Sound
  BY DEF Sound
<1>2. \A s, d : Fitting(s, d)' = Fitting(s, d)
  BY <1>1 DEF Fitting
<1>3. AllFit(queue') => AllFit(queue)'
  BY <1>2 DEF AllFit
<1>4. RoutedFits /\ UNCHANGED routed => RoutedFits'
  BY <1>2 DEF RoutedFits
<1>5. AllOwn(out') => AllOwn(out)'
  BY <1>1 DEF AllOwn, Own
<1> QED
  BY <1>1, <1>3, <1>4, <1>5

(* What is in the channels keeps fitting when an executor goes on to a later   *)
(* slot.                                                                     *)
LEMMA LaterSlot ==
    ASSUME IInv, \A s \in Server : seq[s] <= seq'[s], seq' \in [Server -> Nat],
           UNCHANGED <<queue, routed>>
    PROVE  /\ Sound \subseteq Sound'
           /\ AllFit(queue)' /\ RoutedFits'
<1>1. ASSUME NEW m \in Sound PROVE m \in Sound'
  <2>1. m \in Msg /\ m.from \in Server /\ m.slot \in Nat
    BY DEF Sound, Msg
  <2>2. ASSUME NEW t \in Server, m.slot <= seq[t] PROVE m.slot <= seq'[t]
    <3>1. seq[t] \in Nat /\ seq'[t] \in Nat /\ seq[t] <= seq'[t]
      BY DEF IInv, Counters
    <3> DEFINE a == m.slot
               b == seq[t]
               c == seq'[t]
    <3>2. a \in Nat /\ b \in Nat /\ c \in Nat /\ a <= b /\ b <= c
      BY <2>1, <2>2, <3>1
    <3> HIDE DEF a, b, c
    <3>3. a <= c
      BY <3>2
    <3> QED
      BY <3>3 DEF a, c
  <2> QED
    BY <2>1, <2>2 DEF Sound
<1>2. ASSUME NEW s \in Server, NEW d \in Dest PROVE Fitting(s, d) \subseteq Fitting(s, d)'
  BY <1>1 DEF Fitting
<1>3. ASSUME NEW s \in Server, NEW d \in Dest PROVE queue[s][d] \in Seq(Fitting(s, d)')
  <2>1. queue[s][d] \in Seq(Fitting(s, d))
    BY DEF IInv, AllFit
  <2> QED
    BY <1>2, <2>1, WiderSeq
<1>4. AllFit(queue)'
  BY <1>3 DEF IInv, AllFit
<1>5. RoutedFits'
  BY <1>2 DEF IInv, RoutedFits
<1> QED
  BY <1>1, <1>4, <1>5

-----------------------------------------------------------------------------
LEMMA InitHolds == Init => IInv
<1> SUFFICES ASSUME Init PROVE IInv
  OBVIOUS
<1>1. \A s \in Server : 0 \in 0 .. Len(Peers) - 1
  BY PeersAreServers
<1>2. Counters
  BY <1>1 DEF Init, Counters, Links!Init, Links!NoneYet
<1>3. AllOwn(out)
  BY DEF Init, AllOwn
<1>4. AllFit(queue)
  BY DEF Init, AllFit
<1>5. RoutedFits /\ AnswersMatch
  BY DEF Init, RoutedFits, AnswersMatch
<1> QED
  BY <1>2, <1>3, <1>4, <1>5 DEF IInv

LEMMA ConnectStep ==
    ASSUME IInv, UNCHANGED <<out, routed, queue, served, executorVars, issued>>
    PROVE  IInv'
<1>1. UNCHANGED <<seq, asking, answer>>
  BY DEF executorVars
<1>2. Counters' /\ AnswersMatch'
  BY <1>1 DEF IInv, Counters, AnswersMatch
<1>3. AllFit(queue)' /\ AllOwn(out)' /\ RoutedFits'
  BY <1>1, SameFit DEF IInv
<1> QED
  BY <1>2, <1>3 DEF IInv

LEMMA BroadcastKeeps ==
    ASSUME IInv, NEW s \in Server, NEW r \in {"proxy", "executor"}, NEW k \in Nat,
           NEW ty \in {"ClientRequest", "ProposalRequest"}, Broadcast(ty, s, r, k),
           Sound \subseteq Sound', ty = "ProposalRequest" => k <= seq'[s]
    PROVE  AllOwn(out)' /\ issued' \in [Server -> [Server -> [Routine -> Nat]]]
<1>1. issued \in [Server -> [Server -> [Routine -> Nat]]] /\ r \in Routine /\ r # "handler"
  BY DEF IInv, Counters, Routine
<1> DEFINE m == Message(ty, s, r, issued[s][s][r] + 1, k, Server)
<1>2. /\ m \in Msg /\ m.type = ty /\ m.slot = k /\ m.from = s /\ m.by = r
  BY <1>1 DEF Message, Msg
<1> HIDE DEF m
<1>3. m \in Own(s, r)'
  BY <1>1, <1>2 DEF Sound, Own
<1>4. out' = [out EXCEPT ![s][r] = Append(out[s][r], m)]
  BY DEF Broadcast, m
<1>5. ASSUME NEW t \in Server, NEW o \in Routine PROVE out[t][o] \in Seq(Own(t, o)')
  <2>1. out[t][o] \in Seq(Own(t, o))
    BY DEF IInv, AllOwn
  <2>2. Own(t, o) \subseteq Own(t, o)'
    BY DEF Own
  <2> QED
    BY <2>1, <2>2, WiderSeq
<1>6. AllOwn(out)'
  <2>1. Append(out[s][r], m) \in Seq(Own(s, r)')
    BY <1>1, <1>3, <1>5
  <2>2. out \in [Server -> [Routine -> Seq(Msg)]] /\ Append(out[s][r], m) \in Seq(Msg)
    BY <1>1, <1>2 DEF IInv, AllOwn
  <2>3. out' \in [Server -> [Routine -> Seq(Msg)]]
    BY <1>1, <1>4, <2>2
  <2>4. ASSUME NEW t \in Server, NEW o \in Routine PROVE out'[t][o] \in Seq(Own(t, o)')
    BY <1>1, <1>4, <1>5, <2>1, <2>2
  <2> QED
    BY <2>3, <2>4 DEF AllOwn
<1>9. [t \in Server |-> [issued[s][t] EXCEPT ![r] = @ + 1]] \in [Server -> [Routine -> Nat]]
  BY <1>1
<1>10. issued' \in [Server -> [Server -> [Routine -> Nat]]]
  <2> DEFINE f == [t \in Server |-> [issued[s][t] EXCEPT ![r] = @ + 1]]
  <2>1. issued' = [issued EXCEPT ![s] = f]
    BY DEF Broadcast
  <2> HIDE DEF f
  <2>2. f \in [Server -> [Routine -> Nat]]
    BY <1>9 DEF f
  <2> QED
    BY <1>1, <2>1, <2>2
<1> QED
  BY <1>6, <1>10

LEMMA SubmitStep ==
    ASSUME IInv, NEW s \in Server, Submit(s)
    PROVE  IInv'
<1>1. UNCHANGED <<routed, queue, served, seq, asking, answer>>
  BY DEF Submit, executorVars
<1>2. Sound \subseteq Sound' /\ AllFit(queue)' /\ RoutedFits'
  BY <1>1, SameFit DEF IInv
<1>3. 0 \in Nat /\ Broadcast("ClientRequest", s, "proxy", 0)
  BY DEF Submit, Routine
<1>4. AllOwn(out)' /\ issued' \in [Server -> [Server -> [Routine -> Nat]]]
  BY <1>2, <1>3, BroadcastKeeps
<1> QED
  BY <1>1, <1>2, <1>4 DEF IInv, Counters, AnswersMatch

LEMMA AskStep ==
    ASSUME IInv, NEW s \in Server, Ask(s)
    PROVE  IInv'
<1>1. /\ UNCHANGED <<routed, queue, served, answer>>
      /\ seq' = [seq EXCEPT ![s] = @ + 1] /\ asking' = asking \cup {s}
      /\ seq \in [Server -> Nat]
  BY DEF Ask, IInv, Counters
<1>2. seq' \in [Server -> Nat] /\ seq'[s] = seq[s] + 1 /\ \A t \in Server : seq[t] <= seq'[t]
  BY <1>1
<1>3. Sound \subseteq Sound' /\ AllFit(queue)' /\ RoutedFits'
  BY <1>1, <1>2, LaterSlot
<1>4. Broadcast("ProposalRequest", s, "executor", seq[s] + 1)
  BY DEF Ask, Routine
<1>5. seq[s] + 1 \in Nat /\ seq[s] + 1 <= seq'[s]
  BY <1>1, <1>2
<1>6. AllOwn(out)' /\ issued' \in [Server -> [Server -> [Routine -> Nat]]]
  BY <1>3, <1>4, <1>5, BroadcastKeeps
<1>7. Counters' /\ AnswersMatch'
  BY <1>1, <1>2, <1>6 DEF IInv, Counters, AnswersMatch
<1> QED
  BY <1>3, <1>6, <1>7 DEF IInv

(* The step the theorem is about: the reply that is not skipped is for a slot  *)
(* not below the one asked for, and not above it either, as it fits.         *)
LEMMA TakeReplyStep ==
    ASSUME IInv, NEW s \in Server, TakeReply(s)
    PROVE  IInv'
<1> DEFINE m == Head(queue[s]["ToConExecutor"])
<1>1. "ToConExecutor" \in Dest
  BY DEF Dest
<1>2. /\ UNCHANGED <<out, routed, served, seq, issued>>
      /\ s \in asking /\ queue[s]["ToConExecutor"] # << >>
      /\ queue' = [queue EXCEPT ![s]["ToConExecutor"] = Tail(@)]
      /\ \/ UNCHANGED <<asking, answer>>
         \/ ~(m.slot < seq[s]) /\ asking' = asking \ {s} /\ answer' = [answer EXCEPT ![s] = m.slot]
  BY DEF TakeReply
<1>3. m \in Fitting(s, "ToConExecutor") /\ AllFit(queue')
  BY <1>1, <1>2, HeadFits DEF IInv
<1>4. m.slot \in Nat /\ m.slot <= seq[s]
  BY <1>3 DEF Fitting, Sound, Msg
<1> HIDE DEF m
<1>5. AllFit(queue)' /\ RoutedFits' /\ AllOwn(out)'
  BY <1>2, <1>3, SameFit DEF IInv
<1>6. seq \in [Server -> Nat] /\ answer \in [Server -> Nat] /\ seq[s] \in Nat
  BY DEF IInv, Counters
<1>7. CASE UNCHANGED <<asking, answer>>
  BY <1>2, <1>5, <1>7 DEF IInv, Counters, AnswersMatch
<1>8. CASE ~(m.slot < seq[s]) /\ asking' = asking \ {s} /\ answer' = [answer EXCEPT ![s] = m.slot]
  <2>1. m.slot = seq[s]
    BY <1>4, <1>6, <1>8
  <2>2. answer' \in [Server -> Nat] /\ answer'[s] = seq[s]
        /\ \A t \in Server \ {s} : answer'[t] = answer[t]
    BY <1>6, <1>8, <2>1
  <2>3. Counters'
    BY <1>2, <1>8, <2>2 DEF IInv, Counters
  <2>4. AnswersMatch'
    BY <1>2, <1>8, <2>2 DEF IInv, AnswersMatch
  <2> QED
    BY <1>5, <2>3, <2>4 DEF IInv
<1> QED
  BY <1>2, <1>7, <1>8

LEMMA HandleStep ==
    ASSUME IInv, NEW s \in Server, Handle(s)
    PROVE  IInv'
<1> DEFINE m == Head(queue[s]["ToMsgHandler"])
           n == issued[s][m.from]["handler"] + 1
           reply == Message("ProposalReply", s, "handler", n, m.slot, m.from)
<1>1. "ToMsgHandler" \in Dest /\ "handler" \in Routine
  BY DEF Dest, Routine
<1>2. /\ UNCHANGED <<routed, served, seq, asking, answer>>
      /\ queue[s]["ToMsgHandler"] # << >>
      /\ queue' = [queue EXCEPT ![s]["ToMsgHandler"] = Tail(@)]
      /\ \/ UNCHANGED <<out, issued>>
         \/ /\ m.type = "ProposalRequest"
            /\ out' = [out EXCEPT ![s]["handler"] = Append(@, reply)]
            /\ issued' = [issued EXCEPT ![s][m.from]["handler"] = n]
  BY DEF Handle, executorVars
<1>3. m \in Fitting(s, "ToMsgHandler") /\ AllFit(queue')
  BY <1>1, <1>2, HeadFits DEF IInv
<1>4. /\ m.from \in Server /\ m.slot \in Nat
      /\ m.type = "ProposalRequest" => m.slot <= seq[m.from]
  BY <1>3 DEF Fitting, Sound, Msg
<1>5. AllFit(queue)' /\ RoutedFits' /\ Sound' = Sound
  <2>1. UNCHANGED seq /\ UNCHANGED routed
    BY <1>2
  <2> QED
    BY <1>3, <2>1, SameFit DEF IInv
<1>6. issued \in [Server -> [Server -> [Routine -> Nat]]] /\ n \in Nat
  <2>1. issued \in [Server -> [Server -> [Routine -> Nat]]]
    BY DEF IInv, Counters
  <2>2. issued[s][m.from] \in [Routine -> Nat]
    BY <1>4, <2>1
  <2>3. issued[s][m.from]["handler"] \in Nat
    BY <1>1, <2>2
  <2> QED
    BY <2>1, <2>3
<1>7. m.type = "ProposalRequest" => reply \in Own(s, "handler")
  <2>1. /\ reply \in Msg /\ reply.type = "ProposalReply" /\ reply.to = m.from
        /\ reply.slot = m.slot /\ reply.from = s /\ reply.by = "handler"
    BY <1>1, <1>4, <1>6 DEF Message, Msg
  <2> QED
    BY <1>4, <2>1 DEF Sound, Own
<1> HIDE DEF m, n, reply
<1>8. AllOwn(out)'
  <2> DEFINE c == Append(out[s]["handler"], reply)
  <2>1. m.type = "ProposalRequest" => c \in Seq(Own(s, "handler"))
    BY <1>1, <1>7 DEF IInv, AllOwn
  <2>2. out' = out \/ (c \in Seq(Own(s, "handler")) /\ out' = [out EXCEPT ![s]["handler"] = c])
    BY <1>2, <2>1
  <2> HIDE DEF c
  <2>3. AllOwn(out')
    BY <1>1, <2>2, ReplaceOwn DEF IInv
  <2> QED
    BY <1>2, <2>3, SameFit
<1>9. issued' \in [Server -> [Server -> [Routine -> Nat]]]
  <2>1. [issued[s][m.from] EXCEPT !["handler"] = n] \in [Routine -> Nat]
    BY <1>4, <1>6
  <2> DEFINE f == [issued[s] EXCEPT ![m.from] = [issued[s][m.from] EXCEPT !["handler"] = n]]
  <2>2. f \in [Server -> [Routine -> Nat]]
    BY <1>4, <1>6, <2>1
  <2>3. issued' = issued \/ issued' = [issued EXCEPT ![s] = f]
    BY <1>2, <1>6
  <2> HIDE DEF f
  <2> QED
    BY <1>6, <2>2, <2>3
<1> QED
  BY <1>2, <1>5, <1>8, <1>9 DEF IInv, Counters, AnswersMatch

(* The router: what it takes fits where it sends it.                         *)
LEMMA RouterStep ==
    ASSUME IInv, NEW s \in Server, MsgRouter(s)
    PROVE  IInv'
<1>1. UNCHANGED <<served, seq, asking, answer, issued>>
  BY DEF MsgRouter, RouteOut, RouteIn, Unblock, executorVars
<1>2. Counters' /\ AnswersMatch' /\ Sound' = Sound
  BY <1>1 DEF IInv, Counters, AnswersMatch, Sound
<1>3. /\ {"ToSerializer", "ToMsgHandler", "ToConExecutor"} \subseteq Dest /\ Server \subseteq Dest
      /\ \A t \in Server : t # "ToSerializer" /\ t # "ToMsgHandler" /\ t # "ToConExecutor"
  BY ChannelAssumption DEF Dest
<1>4. ASSUME NEW r \in Routine, RouteOut(s, r) PROVE AllOwn(out)' /\ AllFit(queue)' /\ RoutedFits'
  <2> DEFINE m == Head(out[s][r])
             d == IF m.type = "ProposalReply" THEN m.to ELSE "ToSerializer"
  <2>1. /\ out[s][r] # << >> /\ out' = [out EXCEPT ![s][r] = Tail(@)]
        /\ Route(queue, s, d, m)
    BY <1>4 DEF RouteOut
  <2>2. out[s][r] \in Seq(Own(s, r))
    BY DEF IInv, AllOwn
  <2>3. m \in Own(s, r) /\ Tail(out[s][r]) \in Seq(Own(s, r))
    BY <2>1, <2>2
  <2> HIDE DEF m
  <2>4. d \in Dest /\ m \in Fitting(s, d)
    BY <1>3, <2>3 DEF Fitting, Sound, Own
  <2>5. AllFit(queue)' /\ RoutedFits'
    BY <1>1, <2>1, <2>4, RouteFits DEF IInv
  <2>6. AllOwn(out)'
    BY <1>1, <2>1, <2>3, ReplaceOwn, SameFit DEF IInv
  <2> QED
    BY <2>5, <2>6
<1>5. ASSUME NEW t \in Server, RouteIn(s, t) PROVE AllOwn(out)' /\ AllFit(queue)' /\ RoutedFits'
  <2> DEFINE m == Head(queue[t][s])
             q == [queue EXCEPT ![t][s] = Tail(@)]
             d == IF m.type = "ProposalReply" THEN "ToConExecutor" ELSE "ToMsgHandler"
  <2>1. queue[t][s] # << >> /\ Route(q, s, d, m) /\ UNCHANGED out
    BY <1>5 DEF RouteIn
  <2>2. m \in Fitting(t, s) /\ AllFit(q)
    BY <1>3, <2>1, HeadFits DEF IInv
  <2> HIDE DEF m, q
  <2>3. d \in Dest /\ m \in Fitting(s, d)
    BY <1>3, <2>2 DEF Fitting
  <2>4. AllFit(queue)' /\ RoutedFits'
    BY <1>1, <2>1, <2>2, <2>3, RouteFits DEF IInv
  <2>5. AllOwn(out)'
    BY <1>1, <2>1, SameFit DEF IInv
  <2> QED
    BY <2>4, <2>5
<1>6. CASE Unblock(s)
  <2> DEFINE d == routed[s].dest
             m == routed[s].msg
  <2>1. /\ routed[s] # None /\ SendTo(queue, s, d, m) /\ routed' = [routed EXCEPT ![s] = None]
        /\ UNCHANGED out
    BY <1>6 DEF Unblock
  <2>2. d \in Dest /\ m \in Fitting(s, d)
    BY <2>1 DEF IInv, RoutedFits
  <2>3. AllFit(queue)'
    BY <1>1, <2>1, <2>2, SendFits DEF IInv
  <2>4. RoutedFits'
    <3>1. routed' \in [Server -> {None} \cup [dest : Dest, msg : Msg]]
      BY <2>1 DEF IInv, RoutedFits
    <3>2. ASSUME NEW t \in Server, routed'[t] # None
          PROVE  (routed[t].dest \in Dest /\ routed[t].msg \in Fitting(t, routed[t].dest))'
      <4>1. t # s /\ routed'[t] = routed[t]
        BY <2>1, <3>2 DEF IInv, RoutedFits
      <4> QED
        BY <1>1, <3>2, <4>1 DEF IInv, RoutedFits, Fitting, Sound
    <3> QED
      BY <3>1, <3>2 DEF RoutedFits
  <2> QED
    BY <1>1, <1>2, <2>1, <2>3, <2>4, SameFit DEF IInv
<1> QED
  BY <1>2, <1>4, <1>5, <1>6 DEF IInv, MsgRouter

LEMMA SerializerStep ==
    ASSUME IInv, NEW s \in Server, MsgSerializer(s)
    PROVE  IInv'
<1> DEFINE m == Head(queue[s]["ToSerializer"])
           d == Peers[served[s] + 1]
<1>1. /\ UNCHANGED <<out, routed, seq, asking, answer, issued>>
      /\ queue[s]["ToSerializer"] # << >>
      /\ SendTo(WithoutServed(s), s, d, m)
      /\ served' = [served EXCEPT ![s] = (@ + 1) % Len(Peers)]
  BY DEF MsgSerializer, Advance, executorVars
<1>2. served \in [Server -> 0 .. Len(Peers) - 1] /\ Len(Peers) \in Nat \ {0}
  BY PeersAreServers DEF IInv, Counters
<1>3. d \in Server
  <2>1. served[s] + 1 \in 1 .. Len(Peers)
    BY <1>2
  <2> QED
    BY <2>1, PeersAreServers
<1>4. /\ "ToSerializer" \in Dest /\ d \in Dest
      /\ \A t \in Server : t # "ToSerializer" /\ t # "ToConExecutor"
  BY <1>3, ChannelAssumption DEF Dest
<1>5. /\ m \in Fitting(s, "ToSerializer")
      /\ AllFit([queue EXCEPT ![s]["ToSerializer"] = Tail(queue[s]["ToSerializer"])])
  BY <1>1, <1>4, HeadFits DEF IInv
<1>6. AllFit(WithoutServed(s))
  BY <1>5 DEF IInv, WithoutServed
<1> HIDE DEF m
<1>7. m.type # "ProposalReply"
  BY <1>4, <1>5 DEF Fitting, Sound
<1>8. m \in Fitting(s, d)
  BY <1>3, <1>4, <1>5, <1>7 DEF Fitting
<1> HIDE DEF d
<1>9. AllFit(queue)'
  BY <1>1, <1>4, <1>6, <1>8, SendFits
<1>10. served' \in [Server -> 0 .. Len(Peers) - 1]
  <2>1. (served[s] + 1) % Len(Peers) \in 0 .. Len(Peers) - 1
    BY <1>2
  <2> QED
    BY <1>1, <1>2, <2>1
<1>11. Counters' /\ AnswersMatch'
  BY <1>1, <1>10 DEF IInv, Counters, AnswersMatch
<1>12. AllOwn(out)' /\ RoutedFits'
  BY <1>1, SameFit DEF IInv
<1> QED
  BY <1>9, <1>11, <1>12 DEF IInv

LEMMA CrashStep ==
    ASSUME IInv, NEW s \in Server, Crash(s)
    PROVE  IInv'
<1>1. /\ UNCHANGED <<routed, served, seq, asking, answer, issued>>
      /\ out' = [out EXCEPT ![s] = [r \in Routine |-> << >>]]
  BY DEF Crash, executorVars
<1>2. Counters' /\ AnswersMatch' /\ Sound' = Sound
  BY <1>1 DEF IInv, Counters, AnswersMatch, Sound
<1>3. AllOwn(out)'
  <2>1. ASSUME NEW t \in Server, NEW r \in Routine PROVE out'[t][r] \in Seq(Own(t, r))
    BY <1>1 DEF IInv, AllOwn
  <2>2. out' \in [Server -> [Routine -> Seq(Msg)]]
    BY <1>1 DEF IInv, AllOwn
  <2>3. AllOwn(out')
    BY <2>1, <2>2 DEF AllOwn
  <2> QED
    BY <1>1, <2>3, SameFit
<1>4. RoutedFits'
  BY <1>1, SameFit DEF IInv
<1>5. PICK kept \in [Server -> 0 .. LenChannel] :
        /\ \A t \in Server : kept[t] <= Len(queue[s][t])
        /\ queue' = [t \in Server |-> [d \in Dest |->
              IF t # s THEN IF d = s THEN << >> ELSE queue[t][d]
              ELSE IF d \in Server \ {s} THEN SubSeq(queue[s][d], 1, kept[d])
              ELSE << >>]]
  BY DEF Crash
<1>6. ASSUME NEW t \in Server, NEW d \in Dest PROVE queue'[t][d] \in Seq(Fitting(t, d))
  <2>1. queue[t][d] \in Seq(Fitting(t, d)) /\ << >> \in Seq(Fitting(t, d))
    BY DEF IInv, AllFit
  <2>2. CASE t = s /\ d \in Server \ {s}
    <3>1. kept[d] \in Nat /\ kept[d] <= Len(queue[s][d])
      BY <1>5, <2>2, LengthAssumption
    <3> QED
      BY <1>5, <2>1, <2>2, <3>1, Prefix
  <2>3. CASE ~(t = s /\ d \in Server \ {s})
    BY <1>5, <2>1, <2>3
  <2> QED
    BY <2>2, <2>3
<1>7. ASSUME NEW t \in Server, NEW d \in Dest PROVE queue'[t][d] \in Seq(Msg)
  <2>1. Fitting(t, d) \subseteq Msg
    BY DEF Fitting, Sound
  <2> QED
    BY <1>6, <2>1, WiderSeq
<1>8. queue' \in [Server -> [Dest -> Seq(Msg)]]
  BY <1>5, <1>7
<1>9. AllFit(queue)'
  BY <1>1, <1>6, <1>8 DEF AllFit, Fitting, Sound
<1> QED
  BY <1>2, <1>3, <1>4, <1>9 DEF IInv

LEMMA StepHolds == IInv /\ [Next]_vars => IInv'
<1> SUFFICES ASSUME IInv, [Next]_vars PROVE IInv'
  OBVIOUS
<1>1. ASSUME NEW s \in Server, StartServer(s) \/ DialNext(s) \/ \E t \in Server : Accept(s, t)
      PROVE  IInv'
  BY <1>1, ConnectStep DEF StartServer, DialNext, Accept
<1>2. ASSUME NEW s \in Server,
             Submit(s) \/ TakeReply(s) \/ Handle(s) \/ MsgRouter(s) \/ MsgSerializer(s) \/ Ask(s) \/ Crash(s)
      PROVE  IInv'
  BY <1>2, SubmitStep, TakeReplyStep, HandleStep, RouterStep, SerializerStep, AskStep, CrashStep
<1>3. CASE UNCHANGED vars
  BY <1>3, ConnectStep DEF vars
<1> QED
  BY <1>1, <1>2, <1>3 DEF Next, Routines

(* The invariant holds of every reachable state, for every number of servers, *)
(* length of the channels, load and number of crashes.                       *)
THEOREM Invariance == Spec => []IInv
<1>1. Init => IInv
  BY InitHolds
<1>2. IInv /\ [Next]_vars => IInv'
  BY StepHolds
<1> QED
  BY <1>1, <1>2, PTL DEF Spec

(* requestProposalAndWait: the executor goes on with the reply to the request *)
(* it is waiting on, however late the replies to its earlier ones are.       *)
THEOREM AnswersMatchHolds == Spec => []AnswersMatch
<1>1. IInv => AnswersMatch
  BY DEF IInv
<1> QED
  BY <1>1, Invariance, PTL

-----------------------------------------------------------------------------
(* Sequences that carry a range of numbers.                                  *)

(* The messages of set P that channel c holds are numbers of x + 1 .. y, from *)
(* x + 1 on without a gap and in order; if it carries all, up to y.          *)
CarriesSome(P, c, x, y) ==
    /\ x <= y
    /\ \A i \in 1 .. Len(c) : c[i] \in P => c[i].n \in x + 1 .. y
    /\ \A i \in 1 .. Len(c), k \in x + 1 .. y :
          c[i] \in P /\ k <= c[i].n => \E j \in 1 .. i : c[j] \in P /\ c[j].n = k
    /\ \A i, j \in 1 .. Len(c) : i < j /\ c[i] \in P /\ c[j] \in P => c[i].n < c[j].n
Carries(P, c, x, y) ==
    /\ CarriesSome(P, c, x, y)
    /\ \A k \in x + 1 .. y : \E i \in 1 .. Len(c) : c[i] \in P /\ c[i].n = k

LEMMA CarriesNone ==
    ASSUME NEW P, NEW x \in Nat, NEW y \in Nat
    PROVE  Carries(P, << >>, x, y) <=> x = y
<1>1. Carries(P, << >>, x, x)
  BY DEF Carries, CarriesSome
<1>2. ASSUME x < y PROVE ~Carries(P, << >>, x, y)
  <2>1. x + 1 \in x + 1 .. y
    BY <1>2
  <2> QED
    BY <2>1 DEF Carries
<1>3. ASSUME y < x PROVE ~Carries(P, << >>, x, y)
  BY <1>3 DEF Carries, CarriesSome
<1> QED
  BY <1>1, <1>2, <1>3

(* The first message of P is the next one.                                   *)
LEMMA TakesNext ==
    ASSUME NEW M, \A m \in M : m.n \in Nat, NEW P, NEW c \in Seq(M), c # << >>,
           NEW x \in Nat, NEW y \in Nat, Head(c) \in P, CarriesSome(P, c, x, y)
    PROVE  /\ Head(c).n = x + 1 /\ x < y
           /\ CarriesSome(P, Tail(c), x + 1, y)
           /\ Carries(P, c, x, y) => Carries(P, Tail(c), x + 1, y)
<1> DEFINE t == Tail(c)
<1>1. /\ Len(c) \in Nat \ {0} /\ Head(c) = c[1] /\ Len(t) = Len(c) - 1
      /\ \A i \in 1 .. Len(t) : t[i] = c[i + 1]
      /\ \A i \in 1 .. Len(c) : c[i].n \in Nat
  <2>1. Len(c) \in Nat \ {0} /\ Head(c) = c[1] /\ \A i \in 1 .. Len(c) : c[i] \in M
    OBVIOUS
  <2> QED
    BY <2>1, HeadTailProperties
<1> HIDE DEF t
<1>2. c[1].n \in x + 1 .. y
  BY <1>1 DEF CarriesSome
<1>3. c[1].n = x + 1
  <2>1. PICK j \in 1 .. 1 : c[j] \in P /\ c[j].n = x + 1
    BY <1>1, <1>2 DEF CarriesSome
  <2> QED
    BY <2>1
<1>4. \A i \in 1 .. Len(t) : i + 1 \in 1 .. Len(c) /\ 1 < i + 1
  BY <1>1
<1>5. \A i \in 1 .. Len(t) : t[i] \in P => t[i].n \in x + 2 .. y
  <2> TAKE i \in 1 .. Len(t)
  <2>1. t[i] \in P => c[i + 1].n \in x + 1 .. y /\ c[1].n < c[i + 1].n
    BY <1>1, <1>4 DEF CarriesSome
  <2> QED
    BY <1>1, <1>3, <2>1
<1>6. ASSUME NEW i \in 1 .. Len(t), NEW k \in x + 2 .. y, t[i] \in P, k <= t[i].n
      PROVE  \E j \in 1 .. i : t[j] \in P /\ t[j].n = k
  <2>0. i + 1 \in 1 .. Len(c) /\ k \in x + 1 .. y /\ c[i + 1] \in P /\ k <= c[i + 1].n
    BY <1>1, <1>4, <1>6
  <2>1. PICK j \in 1 .. i + 1 : c[j] \in P /\ c[j].n = k
    BY <2>0 DEF CarriesSome
  <2>2. j # 1
    BY <1>3, <2>1
  <2>3. j - 1 \in 1 .. i /\ j - 1 \in 1 .. Len(t) /\ (j - 1) + 1 = j
    BY <1>1, <2>2
  <2>4. t[j - 1] = c[j]
    BY <1>1, <2>3
  <2> QED
    BY <2>1, <2>3, <2>4
<1>7. ASSUME NEW i \in 1 .. Len(t), NEW j \in 1 .. Len(t), i < j, t[i] \in P, t[j] \in P
      PROVE  t[i].n < t[j].n
  <2>1. i + 1 \in 1 .. Len(c) /\ j + 1 \in 1 .. Len(c) /\ i + 1 < j + 1
    BY <1>4, <1>7
  <2> QED
    BY <1>1, <1>7, <2>1 DEF CarriesSome
<1>8. CarriesSome(P, t, x + 1, y)
  <2>1. x + 1 <= y /\ (x + 1) + 1 = x + 2
    BY <1>2
  <2> QED
    BY <1>5, <1>6, <1>7, <2>1 DEF CarriesSome
<1>9. ASSUME Carries(P, c, x, y), NEW k \in x + 2 .. y
      PROVE  \E i \in 1 .. Len(t) : t[i] \in P /\ t[i].n = k
  <2>1. PICK i \in 1 .. Len(c) : c[i] \in P /\ c[i].n = k
    BY <1>9 DEF Carries
  <2>2. i # 1
    BY <1>3, <2>1
  <2>3. i - 1 \in 1 .. Len(t) /\ t[i - 1] = c[i]
    BY <1>1, <2>2
  <2> QED
    BY <2>1, <2>3
<1>10. Carries(P, c, x, y) => Carries(P, t, x + 1, y)
  <2>1. (x + 1) + 1 = x + 2
    OBVIOUS
  <2> QED
    BY <1>8, <1>9, <2>1 DEF Carries
<1> QED
  BY <1>1, <1>2, <1>3, <1>8, <1>10 DEF t

LEMMA TakesOther ==
    ASSUME NEW M, \A m \in M : m.n \in Nat, NEW P, NEW c \in Seq(M), c # << >>,
           NEW x \in Nat, NEW y \in Nat, Head(c) \notin P, CarriesSome(P, c, x, y)
    PROVE  /\ CarriesSome(P, Tail(c), x, y)
           /\ Carries(P, c, x, y) => Carries(P, Tail(c), x, y)
<1> DEFINE t == Tail(c)
<1>1. /\ Len(c) \in Nat \ {0} /\ Head(c) = c[1] /\ Len(t) = Len(c) - 1
      /\ \A i \in 1 .. Len(t) : t[i] = c[i + 1]
  BY HeadTailProperties
<1> HIDE DEF t
<1>2. \A i \in 1 .. Len(t) : i + 1 \in 1 .. Len(c)
  BY <1>1
<1>3. \A i \in 1 .. Len(c) : c[i] \in P => i - 1 \in 1 .. Len(t) /\ t[i - 1] = c[i]
  <2> TAKE i \in 1 .. Len(c)
  <2>1. c[i] \in P => i # 1
    BY <1>1
  <2> QED
    BY <1>1, <2>1
<1>4. ASSUME NEW i \in 1 .. Len(t), NEW k \in x + 1 .. y, t[i] \in P, k <= t[i].n
      PROVE  \E j \in 1 .. i : t[j] \in P /\ t[j].n = k
  <2>1. PICK j \in 1 .. i + 1 : c[j] \in P /\ c[j].n = k
    BY <1>1, <1>2, <1>4 DEF CarriesSome
  <2>2. j \in 1 .. Len(c)
    BY <1>2
  <2>3. j - 1 \in 1 .. i /\ t[j - 1] = c[j]
    BY <1>3, <2>1, <2>2
  <2> QED
    BY <2>1, <2>3
<1>5. \A i \in 1 .. Len(t) : t[i] \in P => t[i].n \in x + 1 .. y
  BY <1>1, <1>2 DEF CarriesSome
<1>6. ASSUME NEW i \in 1 .. Len(t), NEW j \in 1 .. Len(t), i < j, t[i] \in P, t[j] \in P
      PROVE  t[i].n < t[j].n
  <2>1. i + 1 \in 1 .. Len(c) /\ j + 1 \in 1 .. Len(c) /\ i + 1 < j + 1
    BY <1>2, <1>6
  <2> QED
    BY <1>1, <1>6, <2>1 DEF CarriesSome
<1>7. CarriesSome(P, t, x, y)
  <2>1. x <= y
    BY DEF CarriesSome
  <2> QED
    BY <1>4, <1>5, <1>6, <2>1 DEF CarriesSome
<1>8. Carries(P, c, x, y) => Carries(P, t, x, y)
  <2> SUFFICES ASSUME Carries(P, c, x, y), NEW k \in x + 1 .. y
               PROVE  \E i \in 1 .. Len(t) : t[i] \in P /\ t[i].n = k
    BY <1>7 DEF Carries
  <2>1. PICK i \in 1 .. Len(c) : c[i] \in P /\ c[i].n = k
    BY DEF Carries
  <2> QED
    BY <1>3, <2>1
<1> QED
  BY <1>7, <1>8 DEF t

(* A message that is not of P changes nothing, wherever it is at the end.    *)
LEMMA AppendsOther ==
    ASSUME NEW M, NEW P, NEW c \in Seq(M), NEW m \in M, m \notin P,
           NEW x \in Nat, NEW y \in Nat
    PROVE  Carries(P, Append(c, m), x, y) <=> Carries(P, c, x, y)
<1> DEFINE d == Append(c, m)
<1>1. /\ Len(c) \in Nat /\ Len(d) = Len(c) + 1 /\ d[Len(c) + 1] = m
      /\ \A i \in 1 .. Len(c) : d[i] = c[i]
  OBVIOUS
<1> HIDE DEF d
<1>2. \A i \in 1 .. Len(d) : d[i] \in P => i \in 1 .. Len(c)
  <2> TAKE i \in 1 .. Len(d)
  <2>1. i = Len(c) + 1 => d[i] \notin P
    BY <1>1
  <2> QED
    BY <1>1, <2>1
<1>3. \A i \in 1 .. Len(c) : i \in 1 .. Len(d)
  BY <1>1
<1>4. \A i \in 1 .. Len(c) : \A j \in 1 .. i : d[j] = c[j]
  BY <1>1
<1>5. CarriesSome(P, d, x, y) <=> CarriesSome(P, c, x, y)
  <2>1. ASSUME CarriesSome(P, d, x, y) PROVE CarriesSome(P, c, x, y)
    <3>1. ASSUME NEW i \in 1 .. Len(c), NEW k \in x + 1 .. y, c[i] \in P, k <= c[i].n
          PROVE  \E j \in 1 .. i : c[j] \in P /\ c[j].n = k
      <4>1. i \in 1 .. Len(d) /\ d[i] \in P /\ k <= d[i].n
        BY <1>1, <1>3, <3>1
      <4>2. PICK j \in 1 .. i : d[j] \in P /\ d[j].n = k
        BY <2>1, <4>1 DEF CarriesSome
      <4> QED
        BY <1>4, <4>2
    <3> QED
      BY <1>1, <1>3, <2>1, <3>1 DEF CarriesSome
  <2>2. ASSUME CarriesSome(P, c, x, y) PROVE CarriesSome(P, d, x, y)
    <3>1. ASSUME NEW i \in 1 .. Len(d), NEW k \in x + 1 .. y, d[i] \in P, k <= d[i].n
          PROVE  \E j \in 1 .. i : d[j] \in P /\ d[j].n = k
      <4>1. i \in 1 .. Len(c) /\ c[i] \in P /\ k <= c[i].n
        BY <1>1, <1>2, <3>1
      <4>2. PICK j \in 1 .. i : c[j] \in P /\ c[j].n = k
        BY <2>2, <4>1 DEF CarriesSome
      <4> QED
        BY <1>4, <4>1, <4>2
    <3>2. \A i \in 1 .. Len(d) : d[i] \in P => i \in 1 .. Len(c) /\ d[i] = c[i]
      BY <1>1, <1>2
    <3> QED
      BY <2>2, <3>1, <3>2 DEF CarriesSome
  <2> QED
    BY <2>1, <2>2
<1>6. (\A k \in x + 1 .. y : \E i \in 1 .. Len(d) : d[i] \in P /\ d[i].n = k)
      <=> (\A k \in x + 1 .. y : \E i \in 1 .. Len(c) : c[i] \in P /\ c[i].n = k)
  BY <1>1, <1>2, <1>3
<1> QED
  BY <1>5, <1>6 DEF Carries, d

LEMMA AppendsNext ==
    ASSUME NEW M, \A m \in M : m.n \in Nat, NEW P, NEW c \in Seq(M), NEW m \in M, m \in P,
           NEW x \in Nat, NEW y \in Nat, m.n = y + 1, Carries(P, c, x, y)
    PROVE  Carries(P, Append(c, m), x, y + 1)
<1> DEFINE d == Append(c, m)
           l == Len(c) + 1
<1>1. /\ Len(c) \in Nat /\ Len(d) = l /\ d[l] = m
      /\ \A i \in 1 .. Len(c) : d[i] = c[i] /\ c[i].n \in Nat
  OBVIOUS
<1>2. x <= y /\ \A i \in 1 .. Len(c) : d[i] \in P => d[i].n \in x + 1 .. y
  BY <1>1 DEF Carries, CarriesSome
<1> HIDE DEF d
<1>3. \A i \in 1 .. l : i \in 1 .. Len(c) \/ i = l
  BY <1>1
<1>4. ASSUME NEW k \in x + 1 .. y PROVE \E i \in 1 .. Len(c) : d[i] \in P /\ d[i].n = k
  BY <1>1 DEF Carries
<1>5. \A i \in 1 .. l : d[i] \in P => d[i].n \in x + 1 .. y + 1
  <2> TAKE i \in 1 .. l
  <2>1. CASE i \in 1 .. Len(c)
    BY <1>2, <2>1
  <2>2. CASE i = l
    BY <1>1, <1>2, <2>2
  <2> QED
    BY <1>3, <2>1, <2>2
<1>6. ASSUME NEW i \in 1 .. l, NEW k \in x + 1 .. y + 1, d[i] \in P, k <= d[i].n
      PROVE  \E j \in 1 .. i : d[j] \in P /\ d[j].n = k
  <2>1. CASE i \in 1 .. Len(c)
    <3>1. k \in x + 1 .. y /\ k <= c[i].n /\ c[i] \in P
      BY <1>1, <1>2, <1>6, <2>1
    <3>2. PICK j \in 1 .. i : c[j] \in P /\ c[j].n = k
      BY <2>1, <3>1 DEF Carries, CarriesSome
    <3> QED
      BY <1>1, <2>1, <3>2
  <2>2. CASE i = l /\ k = y + 1
    BY <1>1, <2>2
  <2>3. CASE i = l /\ k # y + 1
    <3>1. k \in x + 1 .. y
      BY <2>3
    <3>2. PICK j \in 1 .. Len(c) : d[j] \in P /\ d[j].n = k
      BY <1>4, <3>1
    <3> QED
      BY <1>1, <2>3, <3>2
  <2> QED
    BY <1>3, <2>1, <2>2, <2>3
<1>7. ASSUME NEW i \in 1 .. l, NEW j \in 1 .. l, i < j, d[i] \in P, d[j] \in P
      PROVE  d[i].n < d[j].n
  <2>1. i \in 1 .. Len(c)
    BY <1>1, <1>7
  <2>2. CASE j \in 1 .. Len(c)
    BY <1>1, <1>7, <2>1, <2>2 DEF Carries, CarriesSome
  <2>3. CASE j = l
    BY <1>1, <1>2, <1>7, <2>1, <2>3
  <2> QED
    BY <1>3, <2>2, <2>3
<1>8. ASSUME NEW k \in x + 1 .. y + 1 PROVE \E i \in 1 .. l : d[i] \in P /\ d[i].n = k
  <2>1. CASE k = y + 1
    BY <1>1, <2>1
  <2>2. CASE k # y + 1
    <3>1. k \in x + 1 .. y
      BY <2>2
    <3>2. PICK i \in 1 .. Len(c) : d[i] \in P /\ d[i].n = k
      BY <1>4, <3>1
    <3> QED
      BY <1>1, <3>2
  <2> QED
    BY <2>1, <2>2
<1>9. CarriesSome(P, d, x, y + 1)
  <2>1. x <= y + 1
    BY <1>2
  <2> QED
    BY <1>1, <1>5, <1>6, <1>7, <2>1 DEF CarriesSome
<1> QED
  BY <1>1, <1>8, <1>9 DEF Carries, d

(* The last message of P is the last one.                                    *)
LEMMA WithoutLast ==
    ASSUME NEW M, \A m \in M : m.n \in Nat, NEW P, NEW c \in Seq(M), NEW m \in M, m \in P,
           NEW x \in Nat, NEW y \in Nat, Carries(P, Append(c, m), x, y)
    PROVE  y > 0 /\ m.n = y /\ Carries(P, c, x, y - 1)
<1> DEFINE d == Append(c, m)
           l == Len(c) + 1
<1>1. /\ Len(c) \in Nat /\ Len(d) = l /\ d[l] = m /\ m.n \in Nat
      /\ \A i \in 1 .. Len(c) : d[i] = c[i] /\ c[i].n \in Nat
  OBVIOUS
<1>2. /\ x <= y /\ m.n \in x + 1 .. y
      /\ \A i \in 1 .. Len(c) : c[i] \in P => c[i].n \in x + 1 .. m.n - 1
  <2>1. l \in 1 .. Len(d) /\ \A i \in 1 .. Len(c) : i \in 1 .. Len(d) /\ i < l
    BY <1>1
  <2>2. x <= y /\ m.n \in x + 1 .. y
    BY <1>1, <2>1 DEF Carries, CarriesSome
  <2>3. \A i \in 1 .. Len(c) : c[i] \in P => c[i].n \in x + 1 .. y /\ c[i].n < m.n
    BY <1>1, <2>1 DEF Carries, CarriesSome
  <2> QED
    BY <2>2, <2>3
<1>3. \A k \in x + 1 .. y : \E i \in 1 .. l : d[i] \in P /\ d[i].n = k
  BY <1>1 DEF Carries
<1>4. \A i \in 1 .. l : i \in 1 .. Len(c) \/ i = l
  BY <1>1
<1> HIDE DEF d
<1>5. m.n = y
  <2>1. y \in x + 1 .. y
    BY <1>2
  <2>2. PICK i \in 1 .. l : d[i] \in P /\ d[i].n = y
    BY <1>3, <2>1
  <2>3. i \in 1 .. Len(c) => c[i].n <= m.n - 1
    BY <1>1, <1>2, <2>2
  <2> QED
    BY <1>1, <1>2, <1>4, <2>2, <2>3
<1>6. y > 0 /\ y - 1 \in Nat /\ x <= y - 1
  BY <1>2, <1>5
<1>7. ASSUME NEW k \in x + 1 .. y - 1 PROVE \E i \in 1 .. Len(c) : c[i] \in P /\ c[i].n = k
  <2>1. PICK i \in 1 .. l : d[i] \in P /\ d[i].n = k
    BY <1>3
  <2>2. i # l
    BY <1>1, <1>5, <2>1
  <2> QED
    BY <1>1, <1>4, <2>1, <2>2
<1>8. ASSUME NEW i \in 1 .. Len(c), NEW k \in x + 1 .. y - 1, c[i] \in P, k <= c[i].n
      PROVE  \E j \in 1 .. i : c[j] \in P /\ c[j].n = k
  <2>1. i \in 1 .. Len(d) /\ k \in x + 1 .. y /\ d[i] \in P /\ k <= d[i].n
    BY <1>1, <1>8
  <2>2. PICK j \in 1 .. i : d[j] \in P /\ d[j].n = k
    BY <2>1 DEF Carries, CarriesSome, d
  <2>3. j \in 1 .. Len(c)
    BY <1>1
  <2> QED
    BY <1>1, <2>2, <2>3
<1>9. ASSUME NEW i \in 1 .. Len(c), NEW j \in 1 .. Len(c), i < j, c[i] \in P, c[j] \in P
      PROVE  c[i].n < c[j].n
  <2>1. i \in 1 .. Len(d) /\ j \in 1 .. Len(d) /\ d[i] = c[i] /\ d[j] = c[j]
    BY <1>1
  <2> QED
    BY <1>9, <2>1 DEF Carries, CarriesSome, d
<1>10. CarriesSome(P, c, x, y - 1)
  BY <1>2, <1>5, <1>6, <1>8, <1>9 DEF CarriesSome
<1> QED
  BY <1>5, <1>6, <1>7, <1>10 DEF Carries

LEMMA CarriesPrefix ==
    ASSUME NEW M, NEW P, NEW c \in Seq(M), NEW k \in 0 .. Len(c),
           NEW x \in Nat, NEW y \in Nat, CarriesSome(P, c, x, y)
    PROVE  CarriesSome(P, SubSeq(c, 1, k), x, y)
<1> DEFINE d == SubSeq(c, 1, k)
<1>1. Len(d) = k /\ \A i \in 1 .. k : d[i] = c[i] /\ i \in 1 .. Len(c)
  BY SubSeqProperties
<1>2. \A i \in 1 .. k : \A j \in 1 .. i : d[j] = c[j]
  BY <1>1
<1> HIDE DEF d
<1>3. ASSUME NEW i \in 1 .. k, NEW n \in x + 1 .. y, d[i] \in P, n <= d[i].n
      PROVE  \E j \in 1 .. i : d[j] \in P /\ d[j].n = n
  <2>1. PICK j \in 1 .. i : c[j] \in P /\ c[j].n = n
    BY <1>1, <1>3 DEF CarriesSome
  <2> QED
    BY <1>2, <2>1
<1>4. CarriesSome(P, d, x, y)
  BY <1>1, <1>3 DEF CarriesSome
<1> QED
  BY <1>4 DEF d

-----------------------------------------------------------------------------
(* Chains of them.                                                           *)

(* A link: the receiver has handled h messages, the rest up to i is in order  *)
(* in the channels from E, at the receiver, to O, at the sending routine; of  *)
(* a crashed sender only the connection C is left.                           *)
LinkUp(P, E, C, U, O, h, i) ==
    \E x, y, z \in Nat :
        Carries(P, E, h, x) /\ Carries(P, C, x, y) /\ Carries(P, U, y, z) /\ Carries(P, O, z, i)
LinkDown(P, E, C, h, i) ==
    \E x, y \in Nat : Carries(P, E, h, x) /\ CarriesSome(P, C, x, y) /\ y <= i

(* The head of a channel goes to the end of the next one.                    *)
LEMMA Moves ==
    ASSUME NEW M, \A m \in M : m.n \in Nat, NEW P, NEW c \in Seq(M), NEW d \in Seq(M), c # << >>,
           NEW x \in Nat, NEW y \in Nat, NEW z \in Nat,
           Carries(P, d, x, y), CarriesSome(P, c, y, z)
    PROVE  \E w \in Nat :
              /\ Carries(P, Append(d, Head(c)), x, w)
              /\ CarriesSome(P, Tail(c), w, z)
              /\ Carries(P, c, y, z) => Carries(P, Tail(c), w, z)
<1>1. Head(c) \in M
  OBVIOUS
<1>2. CASE Head(c) \in P
  <2>1. Head(c).n = y + 1 /\ CarriesSome(P, Tail(c), y + 1, z)
        /\ (Carries(P, c, y, z) => Carries(P, Tail(c), y + 1, z))
    BY <1>2, TakesNext
  <2>2. Carries(P, Append(d, Head(c)), x, y + 1)
    BY <1>1, <1>2, <2>1, AppendsNext
  <2>3. y + 1 \in Nat
    OBVIOUS
  <2> QED
    BY <2>1, <2>2, <2>3
<1>3. CASE Head(c) \notin P
  <2>1. CarriesSome(P, Tail(c), y, z) /\ (Carries(P, c, y, z) => Carries(P, Tail(c), y, z))
    BY <1>3, TakesOther
  <2>2. Carries(P, Append(d, Head(c)), x, y)
    BY <1>1, <1>3, AppendsOther
  <2> QED
    BY <2>1, <2>2
<1> QED
  BY <1>2, <1>3

(* A message that is not of P may overtake any, and one of P may overtake one *)
(* that is not.                                                              *)
LEMMA Overtakes ==
    ASSUME NEW M, \A m \in M : m.n \in Nat, NEW P, NEW c \in Seq(M), NEW b \in M, NEW m \in M,
           m \notin P, NEW x \in Nat, NEW y \in Nat, Carries(P, Append(c, b), x, y)
    PROVE  Carries(P, Append(Append(c, m), b), x, y)
<1>1. Append(c, m) \in Seq(M)
  OBVIOUS
<1>2. CASE b \notin P
  <2>1. Carries(P, Append(c, m), x, y)
    BY <1>2, AppendsOther
  <2> QED
    BY <1>1, <1>2, <2>1, AppendsOther
<1>3. CASE b \in P
  <2>1. y > 0 /\ b.n = y /\ Carries(P, c, x, y - 1)
    BY <1>3, WithoutLast
  <2>2. y - 1 \in Nat /\ (y - 1) + 1 = y
    BY <2>1
  <2>3. Carries(P, Append(c, m), x, y - 1)
    BY <2>1, <2>2, AppendsOther
  <2>4. Carries(P, Append(Append(c, m), b), x, (y - 1) + 1)
    BY <1>1, <1>3, <2>1, <2>2, <2>3, AppendsNext
  <2> QED
    BY <2>2, <2>4
<1> QED
  BY <1>2, <1>3

LEMMA MovesPast ==
    ASSUME NEW M, \A m \in M : m.n \in Nat, NEW P, NEW c \in Seq(M), NEW d \in Seq(M), c # << >>,
           NEW b \in M, b \notin P, NEW x \in Nat, NEW y \in Nat, NEW z \in Nat,
           Carries(P, Append(d, b), x, y), Carries(P, c, y, z)
    PROVE  \E w \in Nat :
              Carries(P, Append(Append(d, Head(c)), b), x, w) /\ Carries(P, Tail(c), w, z)
<1>1. Head(c) \in M /\ Append(d, Head(c)) \in Seq(M)
  OBVIOUS
<1>2. Carries(P, d, x, y)
  BY AppendsOther
<1>3. PICK w \in Nat : Carries(P, Append(d, Head(c)), x, w) /\ Carries(P, Tail(c), w, z)
  <2>1. CarriesSome(P, c, y, z)
    BY DEF Carries
  <2> QED
    BY <1>2, <2>1, Moves
<1>4. Carries(P, Append(Append(d, Head(c)), b), x, w)
  BY <1>1, <1>3, AppendsOther
<1> QED
  BY <1>3, <1>4

-----------------------------------------------------------------------------
(* What the steps do to a link.                                              *)
LEMMA LinkIssues ==
    ASSUME NEW M, \A m \in M : m.n \in Nat, NEW P, NEW E, NEW C, NEW U, NEW O \in Seq(M),
           NEW h \in Nat, NEW i \in Nat, LinkUp(P, E, C, U, O, h, i),
           NEW m \in M, m \in P, m.n = i + 1
    PROVE  LinkUp(P, E, C, U, Append(O, m), h, i + 1)
<1>1. PICK x, y, z \in Nat :
        Carries(P, E, h, x) /\ Carries(P, C, x, y) /\ Carries(P, U, y, z) /\ Carries(P, O, z, i)
  BY DEF LinkUp
<1>2. Carries(P, Append(O, m), z, i + 1)
  BY <1>1, AppendsNext
<1> QED
  BY <1>1, <1>2 DEF LinkUp

LEMMA LinkBounds ==
    ASSUME NEW P, NEW E, NEW C, NEW U, NEW O, NEW h \in Nat, NEW i \in Nat,
           NEW x \in Nat, NEW y \in Nat, NEW z \in Nat,
           Carries(P, C, x, y), Carries(P, U, y, z), Carries(P, O, z, i)
    PROVE  x <= i /\ y <= i
BY DEF Carries, CarriesSome

(* The receiver takes the head of E.                                         *)
LEMMA LinkTakesUp ==
    ASSUME NEW M, \A m \in M : m.n \in Nat, NEW P, NEW E \in Seq(M), NEW C, NEW U, NEW O,
           NEW h \in Nat, NEW i \in Nat, E # << >>, Head(E) \in P, LinkUp(P, E, C, U, O, h, i)
    PROVE  /\ Head(E).n = h + 1 /\ h < i
           /\ LinkUp(P, Tail(E), C, U, O, h + 1, i)
<1>1. PICK x, y, z \in Nat :
        Carries(P, E, h, x) /\ Carries(P, C, x, y) /\ Carries(P, U, y, z) /\ Carries(P, O, z, i)
  BY DEF LinkUp
<1>2. CarriesSome(P, E, h, x)
  BY <1>1 DEF Carries
<1>3. Head(E).n = h + 1 /\ h < x /\ Carries(P, Tail(E), h + 1, x)
  BY <1>1, <1>2, TakesNext
<1>4. x <= i
  BY <1>1, LinkBounds
<1> QED
  BY <1>1, <1>3, <1>4 DEF LinkUp

LEMMA LinkTakesDown ==
    ASSUME NEW M, \A m \in M : m.n \in Nat, NEW P, NEW E \in Seq(M), NEW C,
           NEW h \in Nat, NEW i \in Nat, E # << >>, Head(E) \in P, LinkDown(P, E, C, h, i)
    PROVE  /\ Head(E).n = h + 1 /\ h < i
           /\ LinkDown(P, Tail(E), C, h + 1, i)
<1>1. PICK x, y \in Nat : Carries(P, E, h, x) /\ CarriesSome(P, C, x, y) /\ y <= i
  BY DEF LinkDown
<1>2. CarriesSome(P, E, h, x)
  BY <1>1 DEF Carries
<1>3. Head(E).n = h + 1 /\ h < x /\ Carries(P, Tail(E), h + 1, x)
  BY <1>1, <1>2, TakesNext
<1>4. x <= y
  BY <1>1 DEF CarriesSome
<1>5. h < i
  BY <1>1, <1>3, <1>4
<1> QED
  BY <1>1, <1>3, <1>5 DEF LinkDown

(* The receiver takes a message of another link.                             *)
LEMMA LinkSkips ==
    ASSUME NEW M, \A m \in M : m.n \in Nat, NEW P, NEW E \in Seq(M), NEW C, NEW U, NEW O,
           NEW h \in Nat, NEW i \in Nat, E # << >>, Head(E) \notin P
    PROVE  /\ LinkUp(P, E, C, U, O, h, i) => LinkUp(P, Tail(E), C, U, O, h, i)
           /\ LinkDown(P, E, C, h, i) => LinkDown(P, Tail(E), C, h, i)
<1>1. ASSUME NEW x \in Nat, Carries(P, E, h, x) PROVE Carries(P, Tail(E), h, x)
  <2>1. CarriesSome(P, E, h, x)
    BY <1>1 DEF Carries
  <2> QED
    BY <1>1, <2>1, TakesOther
<1> QED
  BY <1>1 DEF LinkUp, LinkDown

(* What is not of the link comes and goes.                                   *)
LEMMA LinkPasses ==
    ASSUME NEW M, \A m \in M : m.n \in Nat, NEW P, NEW E \in Seq(M), NEW C \in Seq(M),
           NEW U \in Seq(M), NEW O \in Seq(M), NEW h \in Nat, NEW i \in Nat,
           NEW m \in M, m \notin P
    PROVE  LinkUp(P, E, C, U, O, h, i) =>
              /\ LinkUp(P, Append(E, m), C, U, O, h, i)
              /\ LinkUp(P, E, Append(C, m), U, O, h, i)
              /\ LinkUp(P, E, C, Append(U, m), O, h, i)
              /\ LinkUp(P, E, C, U, Append(O, m), h, i)
<1>1. \A c \in Seq(M), x, y \in Nat : Carries(P, c, x, y) => Carries(P, Append(c, m), x, y)
  BY AppendsOther
<1>2. ASSUME LinkUp(P, E, C, U, O, h, i)
      PROVE  /\ LinkUp(P, Append(E, m), C, U, O, h, i)
             /\ LinkUp(P, E, Append(C, m), U, O, h, i)
             /\ LinkUp(P, E, C, Append(U, m), O, h, i)
             /\ LinkUp(P, E, C, U, Append(O, m), h, i)
  <2>1. PICK x, y, z \in Nat :
          Carries(P, E, h, x) /\ Carries(P, C, x, y) /\ Carries(P, U, y, z) /\ Carries(P, O, z, i)
    BY <1>2 DEF LinkUp
  <2>2. /\ Carries(P, Append(E, m), h, x) /\ Carries(P, Append(C, m), x, y)
        /\ Carries(P, Append(U, m), y, z) /\ Carries(P, Append(O, m), z, i)
    BY <1>1, <2>1
  <2> QED
    BY <2>1, <2>2 DEF LinkUp
<1> QED
  BY <1>2

LEMMA LinkPassesDown ==
    ASSUME NEW M, NEW P, NEW E \in Seq(M), NEW C, NEW h \in Nat, NEW i \in Nat,
           NEW m \in M, m \notin P, LinkDown(P, E, C, h, i)
    PROVE  LinkDown(P, Append(E, m), C, h, i)
BY AppendsOther DEF LinkDown

LEMMA LinkLoses ==
    ASSUME NEW M, \A m \in M : m.n \in Nat, NEW P, NEW E, NEW C \in Seq(M), NEW U, NEW O \in Seq(M),
           NEW h \in Nat, NEW i \in Nat, LinkUp(P, E, C, U, O, h, i)
    PROVE  /\ C # << >> /\ Head(C) \notin P => LinkUp(P, E, Tail(C), U, O, h, i)
           /\ O # << >> /\ Head(O) \notin P => LinkUp(P, E, C, U, Tail(O), h, i)
<1>1. \A c \in Seq(M), x, y \in Nat :
        c # << >> /\ Head(c) \notin P /\ Carries(P, c, x, y) => Carries(P, Tail(c), x, y)
  <2> SUFFICES ASSUME NEW c \in Seq(M), NEW x \in Nat, NEW y \in Nat,
                      c # << >>, Head(c) \notin P, Carries(P, c, x, y)
               PROVE  Carries(P, Tail(c), x, y)
    OBVIOUS
  <2>1. CarriesSome(P, c, x, y)
    BY DEF Carries
  <2> QED
    BY <2>1, TakesOther
<1> QED
  BY <1>1 DEF LinkUp

LEMMA LinkLosesDown ==
    ASSUME NEW M, \A m \in M : m.n \in Nat, NEW P, NEW E, NEW C \in Seq(M),
           NEW h \in Nat, NEW i \in Nat, C # << >>, Head(C) \notin P, LinkDown(P, E, C, h, i)
    PROVE  LinkDown(P, E, Tail(C), h, i)
<1>1. \A x, y \in Nat : CarriesSome(P, C, x, y) => CarriesSome(P, Tail(C), x, y)
  BY TakesOther
<1> QED
  BY <1>1 DEF LinkDown

(* A message moves on along the link.                                        *)
LEMMA LinkMoves ==
    ASSUME NEW M, \A m \in M : m.n \in Nat, NEW P, NEW E \in Seq(M), NEW C \in Seq(M),
           NEW U \in Seq(M), NEW O \in Seq(M), NEW h \in Nat, NEW i \in Nat
    PROVE  /\ C # << >> /\ LinkUp(P, E, C, U, O, h, i) =>
                LinkUp(P, Append(E, Head(C)), Tail(C), U, O, h, i)
           /\ U # << >> /\ LinkUp(P, E, C, U, O, h, i) =>
                LinkUp(P, E, Append(C, Head(U)), Tail(U), O, h, i)
           /\ O # << >> /\ LinkUp(P, E, C, U, O, h, i) =>
                LinkUp(P, E, C, Append(U, Head(O)), Tail(O), h, i)
<1>1. ASSUME NEW c \in Seq(M), NEW d \in Seq(M), c # << >>,
             NEW x \in Nat, NEW y \in Nat, NEW z \in Nat,
             Carries(P, d, x, y), Carries(P, c, y, z)
      PROVE  \E w \in Nat : Carries(P, Append(d, Head(c)), x, w) /\ Carries(P, Tail(c), w, z)
  <2>1. CarriesSome(P, c, y, z)
    BY <1>1 DEF Carries
  <2> QED
    BY <1>1, <2>1, Moves
<1>2. ASSUME LinkUp(P, E, C, U, O, h, i)
      PROVE  /\ C # << >> => LinkUp(P, Append(E, Head(C)), Tail(C), U, O, h, i)
             /\ U # << >> => LinkUp(P, E, Append(C, Head(U)), Tail(U), O, h, i)
             /\ O # << >> => LinkUp(P, E, C, Append(U, Head(O)), Tail(O), h, i)
  <2>1. PICK x, y, z \in Nat :
          Carries(P, E, h, x) /\ Carries(P, C, x, y) /\ Carries(P, U, y, z) /\ Carries(P, O, z, i)
    BY <1>2 DEF LinkUp
  <2>2. ASSUME C # << >> PROVE LinkUp(P, Append(E, Head(C)), Tail(C), U, O, h, i)
    <3>1. PICK w \in Nat : Carries(P, Append(E, Head(C)), h, w) /\ Carries(P, Tail(C), w, y)
      BY <1>1, <2>1, <2>2
    <3> QED
      BY <2>1, <3>1 DEF LinkUp
  <2>3. ASSUME U # << >> PROVE LinkUp(P, E, Append(C, Head(U)), Tail(U), O, h, i)
    <3>1. PICK w \in Nat : Carries(P, Append(C, Head(U)), x, w) /\ Carries(P, Tail(U), w, z)
      BY <1>1, <2>1, <2>3
    <3> QED
      BY <2>1, <3>1 DEF LinkUp
  <2>4. ASSUME O # << >> PROVE LinkUp(P, E, C, Append(U, Head(O)), Tail(O), h, i)
    <3>1. PICK w \in Nat : Carries(P, Append(U, Head(O)), y, w) /\ Carries(P, Tail(O), w, i)
      BY <1>1, <2>1, <2>4
    <3> QED
      BY <2>1, <3>1 DEF LinkUp
  <2> QED
    BY <2>2, <2>3, <2>4
<1> QED
  BY <1>2

LEMMA LinkMovesDown ==
    ASSUME NEW M, \A m \in M : m.n \in Nat, NEW P, NEW E \in Seq(M), NEW C \in Seq(M),
           NEW h \in Nat, NEW i \in Nat, C # << >>, LinkDown(P, E, C, h, i)
    PROVE  LinkDown(P, Append(E, Head(C)), Tail(C), h, i)
<1>1. PICK x, y \in Nat : Carries(P, E, h, x) /\ CarriesSome(P, C, x, y) /\ y <= i
  BY DEF LinkDown
<1>2. PICK w \in Nat : Carries(P, Append(E, Head(C)), h, w) /\ CarriesSome(P, Tail(C), w, y)
  BY <1>1, Moves
<1> QED
  BY <1>1, <1>2 DEF LinkDown

(* A reply goes from the handler's channel to the connection at once.         *)
LEMMA LinkReplies ==
    ASSUME NEW M, \A m \in M : m.n \in Nat, NEW P, NEW E, NEW C \in Seq(M), NEW O \in Seq(M),
           NEW h \in Nat, NEW i \in Nat, O # << >>, LinkUp(P, E, C, << >>, O, h, i)
    PROVE  LinkUp(P, E, Append(C, Head(O)), << >>, Tail(O), h, i)
<1>1. PICK x, y, z \in Nat :
        Carries(P, E, h, x) /\ Carries(P, C, x, y) /\ Carries(P, << >>, y, z) /\ Carries(P, O, z, i)
  BY DEF LinkUp
<1>2. y = z
  BY <1>1, CarriesNone
<1>3. PICK w \in Nat : Carries(P, Append(C, Head(O)), x, w) /\ Carries(P, Tail(O), w, i)
  <2>1. Carries(P, O, y, i) /\ CarriesSome(P, O, y, i)
    BY <1>1, <1>2 DEF Carries
  <2> QED
    BY <1>1, <2>1, Moves
<1>4. Carries(P, << >>, w, w)
  BY CarriesNone
<1> QED
  BY <1>1, <1>3, <1>4 DEF LinkUp

(* The serializer sends while the router holds back message b.               *)
LEMMA LinkOvertakes ==
    ASSUME NEW M, \A m \in M : m.n \in Nat, NEW P, NEW E, NEW C \in Seq(M), NEW U \in Seq(M), NEW O,
           NEW h \in Nat, NEW i \in Nat, NEW b \in M, LinkUp(P, E, Append(C, b), U, O, h, i)
    PROVE  /\ b \notin P /\ U # << >> =>
                LinkUp(P, E, Append(Append(C, Head(U)), b), Tail(U), O, h, i)
           /\ \A m \in M \ P : LinkUp(P, E, Append(Append(C, m), b), U, O, h, i)
<1>1. PICK x, y, z \in Nat :
        /\ Carries(P, E, h, x) /\ Carries(P, Append(C, b), x, y)
        /\ Carries(P, U, y, z) /\ Carries(P, O, z, i)
  BY DEF LinkUp
<1>2. ASSUME b \notin P, U # << >>
      PROVE  LinkUp(P, E, Append(Append(C, Head(U)), b), Tail(U), O, h, i)
  <2>1. PICK w \in Nat :
          Carries(P, Append(Append(C, Head(U)), b), x, w) /\ Carries(P, Tail(U), w, z)
    BY <1>1, <1>2, MovesPast
  <2> QED
    BY <1>1, <2>1 DEF LinkUp
<1>3. ASSUME NEW m \in M \ P PROVE LinkUp(P, E, Append(Append(C, m), b), U, O, h, i)
  <2>1. Carries(P, Append(Append(C, m), b), x, y)
    BY <1>1, Overtakes
  <2> QED
    BY <1>1, <2>1 DEF LinkUp
<1> QED
  BY <1>2, <1>3

(* The sender crashes, with message b not sent and only the first k of C.      *)
LEMMA LinkCrashes ==
    ASSUME NEW M, \A m \in M : m.n \in Nat, NEW P, NEW E, NEW C \in Seq(M), NEW U, NEW O,
           NEW h \in Nat, NEW i \in Nat, NEW k \in 0 .. Len(C),
           \/ LinkUp(P, E, C, U, O, h, i)
           \/ \E b \in M : LinkUp(P, E, Append(C, b), U, O, h, i)
    PROVE  LinkDown(P, E, SubSeq(C, 1, k), h, i)
<1>1. PICK x, y \in Nat : Carries(P, E, h, x) /\ Carries(P, C, x, y) /\ y <= i
  <2>1. CASE LinkUp(P, E, C, U, O, h, i)
    BY <2>1, LinkBounds DEF LinkUp
  <2>2. CASE \E b \in M : LinkUp(P, E, Append(C, b), U, O, h, i)
    <3>1. PICK b \in M : LinkUp(P, E, Append(C, b), U, O, h, i)
      BY <2>2
    <3>2. PICK x, y, z \in Nat :
            /\ Carries(P, E, h, x) /\ Carries(P, Append(C, b), x, y)
            /\ Carries(P, U, y, z) /\ Carries(P, O, z, i)
      BY <3>1 DEF LinkUp
    <3>3. y <= i
      BY <3>2, LinkBounds
    <3>4. CASE b \notin P
      BY <3>2, <3>3, <3>4, AppendsOther
    <3>5. CASE b \in P
      <4>1. y > 0 /\ Carries(P, C, x, y - 1)
        BY <3>2, <3>5, WithoutLast
      <4>2. y - 1 \in Nat /\ y - 1 <= i
        BY <3>3, <4>1
      <4> QED
        BY <3>2, <4>1, <4>2
    <3> QED
      BY <3>4, <3>5
  <2> QED
    BY <2>1, <2>2
<1>2. CarriesSome(P, SubSeq(C, 1, k), x, y)
  BY <1>1, CarriesPrefix DEF Carries
<1> QED
  BY <1>1, <1>2 DEF LinkDown

-----------------------------------------------------------------------------
(* The links of the network layer.                                           *)

Queues == [Server -> [Dest -> Seq(Msg)]]

(* The messages of the link from routine r of a to t.                        *)
Mine(a, r, t) == {m \in Msg : m.from = a /\ m.by = r /\ (r = "handler" => m.to = t)}

(* A channel with the message the router is blocked with.                    *)
Blocked(s, d) == s \notin crashed /\ routed[s] # None /\ routed[s].dest = d
ChannelOf(q, s, d) == IF Blocked(s, d) THEN Append(q[s][d], routed[s].msg) ELSE q[s][d]
Channel(s, d) == ChannelOf(queue, s, d)

(* Where the messages of the routines r of all servers arrive, and what of the *)
(* channel to the serializer of s it has not given to t yet.                 *)
Entry(r) == IF r = "handler" THEN "ToConExecutor" ELSE "ToMsgHandler"
Served(s, t) == \E n \in 1 .. served[s] : Peers[n] = t
Unserved(s, r, t) ==
    IF r = "handler" THEN << >>
    ELSE IF Served(s, t) THEN Tail(Channel(s, "ToSerializer")) ELSE Channel(s, "ToSerializer")

LinkHolds(a, r, t) ==
    IF a \in crashed
    THEN LinkDown(Mine(a, r, t), Channel(t, Entry(r)), Channel(a, t),
                  handled[a][t][r], issued[a][t][r])
    ELSE LinkUp(Mine(a, r, t), Channel(t, Entry(r)), Channel(a, t), Unserved(a, r, t),
                out[a][r], handled[a][t][r], issued[a][t][r])
AllLinks == \A a \in Server, r \in Routine, t \in Server \ crashed : LinkHolds(a, r, t)

(* A broadcast is for all servers, the serializer has what it is serving, and  *)
(* only a reply is blocked on the way to a server.                           *)
Orderly ==
    /\ handled \in [Server -> [Server -> [Routine -> Nat]]] /\ crashed \subseteq Server
    /\ \A s, t \in Server, r \in {"proxy", "executor"} : issued[s][t][r] = issued[s][s][r]
    /\ \A s \in Server \ crashed : served[s] # 0 => queue[s]["ToSerializer"] # << >>
    /\ \A s \in Server :
          routed[s] # None /\ routed[s].dest \in Server => routed[s].msg.type = "ProposalReply"

LinkInv == IInv /\ Orderly /\ AllLinks

LEMMA Numbers == \A m \in Msg : m.n \in Nat
BY DEF Msg

LEMMA Places ==
    /\ {"ToSerializer", "ToMsgHandler", "ToConExecutor"} \subseteq Dest /\ Server \subseteq Dest
    /\ \A t \in Server : t # "ToSerializer" /\ t # "ToMsgHandler" /\ t # "ToConExecutor"
    /\ \A r : Entry(r) \in {"ToMsgHandler", "ToConExecutor"} /\ Entry(r) \in Dest \ Server
BY ChannelAssumption DEF Dest, Entry

LEMMA BeingServed ==
    ASSUME IInv, Orderly, NEW a \in Server \ crashed, NEW t, Served(a, t)
    PROVE  Channel(a, "ToSerializer") # << >>
<1> DEFINE c == queue[a]["ToSerializer"]
<1>1. served[a] # 0
  BY DEF Served
<1>2. c # << >> /\ c \in Seq(Msg)
  BY <1>1, Places DEF Orderly, IInv, AllFit
<1>3. Blocked(a, "ToSerializer") => routed[a].msg \in Msg
  BY DEF IInv, RoutedFits, Fitting, Sound, Blocked
<1> QED
  BY <1>2, <1>3, AppendProperties DEF Channel, ChannelOf

(* The types of the parts of a link.                                         *)
LEMMA LinkTypes ==
    ASSUME IInv, Orderly, NEW a \in Server, NEW r \in Routine, NEW t \in Server
    PROVE  /\ \A s \in Server, d \in Dest :
                queue[s][d] \in Seq(Msg) /\ Channel(s, d) \in Seq(Msg)
                /\ (Blocked(s, d) => routed[s].msg \in Msg)
           /\ a \notin crashed => Unserved(a, r, t) \in Seq(Msg)
           /\ out[a][r] \in Seq(Msg)
           /\ handled[a][t][r] \in Nat /\ issued[a][t][r] \in Nat
<1>1. ASSUME NEW s \in Server, NEW d \in Dest
      PROVE  queue[s][d] \in Seq(Msg) /\ Channel(s, d) \in Seq(Msg)
             /\ (Blocked(s, d) => routed[s].msg \in Msg)
  <2>1. queue[s][d] \in Seq(Msg)
    BY DEF IInv, AllFit
  <2>2. Blocked(s, d) => routed[s].msg \in Msg
    BY DEF IInv, RoutedFits, Fitting, Sound, Blocked
  <2> QED
    BY <2>1, <2>2 DEF Channel, ChannelOf
<1>2. ASSUME a \notin crashed PROVE Unserved(a, r, t) \in Seq(Msg)
  <2>1. Channel(a, "ToSerializer") \in Seq(Msg) /\ queue[a]["ToSerializer"] \in Seq(Msg)
    BY <1>1, Places
  <2>2. Served(a, t) => Channel(a, "ToSerializer") # << >>
    BY <1>2, BeingServed
  <2> QED
    BY <2>1, <2>2 DEF Unserved
<1>3. out[a][r] \in Seq(Msg) /\ handled[a][t][r] \in Nat /\ issued[a][t][r] \in Nat
  BY DEF IInv, AllOwn, Counters, Orderly
<1> QED
  BY <1>1, <1>2, <1>3

(* A link is unchanged when its parts are.                                   *)
LEMMA SameLink ==
    ASSUME NEW a \in Server, NEW r \in Routine, NEW t \in Server, LinkHolds(a, r, t),
           (a \in crashed) = (a \in crashed'),
           Channel(t, Entry(r))' = Channel(t, Entry(r)), Channel(a, t)' = Channel(a, t),
           a \notin crashed => Unserved(a, r, t)' = Unserved(a, r, t),
           out'[a][r] = out[a][r], handled'[a][t][r] = handled[a][t][r],
           issued'[a][t][r] = issued[a][t][r]
    PROVE  LinkHolds(a, r, t)'
BY DEF LinkHolds, Mine, Entry

(* Steps that leave the channels alone.                                      *)
LEMMA QuietStep ==
    ASSUME LinkInv, UNCHANGED <<out, routed, queue, served, crashed, issued, handled>>
    PROVE  Orderly' /\ AllLinks'
<1>1. Orderly'
  BY DEF LinkInv, Orderly
<1>2. ASSUME NEW a \in Server, NEW r \in Routine, NEW t \in Server \ crashed
      PROVE  LinkHolds(a, r, t)'
  <2>1. LinkHolds(a, r, t)
    BY DEF LinkInv, AllLinks
  <2>2. \A s, d : Channel(s, d)' = Channel(s, d)
    BY DEF Channel, ChannelOf, Blocked
  <2>3. Unserved(a, r, t)' = Unserved(a, r, t)
    BY <2>2 DEF Unserved, Served
  <2> QED
    BY <2>1, <2>2, <2>3, SameLink DEF Entry
<1> QED
  BY <1>1, <1>2 DEF AllLinks

-----------------------------------------------------------------------------
(* The steps of the routines above the network layer.                        *)

(* A broadcast goes to the end of the links of its routine.                  *)
LEMMA BroadcastLinks ==
    ASSUME LinkInv, NEW s \in Server \ crashed, NEW r \in {"proxy", "executor"}, NEW k \in Nat,
           NEW ty \in {"ClientRequest", "ProposalRequest"}, Broadcast(ty, s, r, k),
           UNCHANGED <<routed, queue, served, crashed, handled>>
    PROVE  Orderly' /\ AllLinks'
<1> DEFINE m == Message(ty, s, r, issued[s][s][r] + 1, k, Server)
           f == [t \in Server |-> [issued[s][t] EXCEPT ![r] = @ + 1]]
<1>1. issued \in [Server -> [Server -> [Routine -> Nat]]] /\ r \in Routine /\ r # "handler"
  BY DEF LinkInv, IInv, Counters, Routine
<1>2. /\ out \in [Server -> [Routine -> Seq(Msg)]]
      /\ out' = [out EXCEPT ![s][r] = Append(out[s][r], m)]
      /\ issued' = [issued EXCEPT ![s] = f]
  BY DEF LinkInv, IInv, AllOwn, Broadcast
<1>3. m \in Msg /\ m.from = s /\ m.by = r /\ m.n = issued[s][s][r] + 1
  BY <1>1 DEF Message, Msg
<1> HIDE DEF m
<1>4. ASSUME NEW a \in Server, NEW t \in Server, NEW o \in Routine
      PROVE  /\ out'[a][o] = IF a = s /\ o = r THEN Append(out[s][r], m) ELSE out[a][o]
             /\ issued'[a][t][o] = IF a = s /\ o = r THEN issued[s][t][r] + 1 ELSE issued[a][t][o]
  <2>1. out'[a][o] = IF a = s /\ o = r THEN Append(out[s][r], m) ELSE out[a][o]
    BY <1>1, <1>2
  <2>2. f[t] = [issued[s][t] EXCEPT ![r] = @ + 1]
    OBVIOUS
  <2>3. issued[s][t] \in [Routine -> Nat]
    BY <1>1
  <2>4. issued'[a] = IF a = s THEN f ELSE issued[a]
    BY <1>1, <1>2
  <2> HIDE DEF f
  <2> QED
    BY <1>1, <2>1, <2>2, <2>3, <2>4
<1>5. Orderly'
  <2>1. ASSUME NEW a \in Server, NEW t \in Server, NEW o \in {"proxy", "executor"}
        PROVE  issued'[a][t][o] = issued'[a][a][o]
    <3>1. o \in Routine /\ issued[a][t][o] = issued[a][a][o]
      BY DEF LinkInv, Orderly, Routine
    <3> QED
      BY <1>4, <3>1
  <2> QED
    BY <2>1 DEF LinkInv, Orderly
<1>6. ASSUME NEW a \in Server, NEW o \in Routine, NEW t \in Server \ crashed
      PROVE  LinkHolds(a, o, t)'
  <2>1. LinkHolds(a, o, t)
    BY DEF LinkInv, AllLinks
  <2>2. \A q, d : Channel(q, d)' = Channel(q, d)
    BY DEF Channel, ChannelOf, Blocked
  <2>3. Unserved(a, o, t)' = Unserved(a, o, t)
    BY <2>2 DEF Unserved, Served
  <2>4. CASE ~(a = s /\ o = r)
    BY <1>4, <2>1, <2>2, <2>3, <2>4, SameLink DEF Entry
  <2>5. CASE a = s /\ o = r
    <3> DEFINE P == Mine(a, o, t)
               E == Channel(t, Entry(o))
               C == Channel(a, t)
               U == Unserved(a, o, t)
               O == out[a][o]
               h == handled[a][t][o]
               i == issued[a][t][o]
    <3>1. /\ LinkUp(P, E, C, U, O, h, i)
          /\ h \in Nat /\ i \in Nat /\ O \in Seq(Msg)
      BY <2>1, <2>5, LinkTypes DEF LinkHolds, LinkInv
    <3>2. m \in P /\ m.n = i + 1
      BY <1>1, <1>3, <2>5 DEF Mine, LinkInv, Orderly
    <3>3. /\ LinkHolds(a, o, t)' = LinkUp(P, E, C, U, out'[a][o], h, issued'[a][t][o])
          /\ out'[a][o] = Append(O, m) /\ issued'[a][t][o] = i + 1
      BY <1>4, <2>2, <2>3, <2>5 DEF LinkHolds, Mine, Entry
    <3> HIDE DEF P, E, C, U, O, h, i
    <3>4. LinkUp(P, E, C, U, Append(O, m), h, i + 1)
      BY <1>3, <3>1, <3>2, LinkIssues, Numbers
    <3> QED
      BY <3>3, <3>4
  <2> QED
    BY <2>4, <2>5
<1> QED
  BY <1>5, <1>6 DEF AllLinks

(* A counter of issued or handled is set.                                    *)
Counts == [Server -> [Server -> [Routine -> Nat]]]
Put(F, a, t, r, v) == [F EXCEPT ![a][t][r] = v]

LEMMA PutTyped ==
    ASSUME NEW F \in Counts, NEW a \in Server, NEW t \in Server, NEW r \in Routine, NEW v \in Nat
    PROVE  Put(F, a, t, r, v) \in Counts
<1> DEFINE g == [F[a][t] EXCEPT ![r] = v]
           f == [F[a] EXCEPT ![t] = g]
<1>1. g \in [Routine -> Nat]
  BY DEF Counts
<1>2. Put(F, a, t, r, v) = [F EXCEPT ![a] = f]
  BY DEF Put
<1> HIDE DEF g
<1>3. f \in [Server -> [Routine -> Nat]]
  BY <1>1 DEF Counts
<1> HIDE DEF f
<1> QED
  BY <1>2, <1>3 DEF Counts

LEMMA PutIs ==
    ASSUME NEW F \in Counts, NEW a \in Server, NEW t \in Server, NEW r \in Routine, NEW v,
           NEW b \in Server, NEW u \in Server, NEW o \in Routine
    PROVE  /\ b = a /\ u = t /\ o = r => Put(F, a, t, r, v)[b][u][o] = v
           /\ ~(b = a /\ u = t /\ o = r) => Put(F, a, t, r, v)[b][u][o] = F[b][u][o]
<1> DEFINE g == [F[a][t] EXCEPT ![r] = v]
           f == [F[a] EXCEPT ![t] = g]
           G == Put(F, a, t, r, v)
<1>1. (o = r => g[o] = v) /\ (o # r => g[o] = F[a][t][o])
  BY DEF Counts
<1>2. G = [F EXCEPT ![a] = f]
  BY DEF Put
<1> HIDE DEF g, G
<1>3. (u = t => f[u] = g) /\ (u # t => f[u] = F[a][u])
  BY DEF Counts
<1> HIDE DEF f
<1>4. (b = a => G[b] = f) /\ (b # a => G[b] = F[b])
  BY <1>2 DEF Counts
<1> QED
  BY <1>1, <1>3, <1>4 DEF G

(* A routine of s takes the head of its channel.                             *)
TakenFrom(s, d) ==
    /\ queue[s][d] # << >>
    /\ Taken(Head(queue[s][d]), s)
    /\ queue' = [queue EXCEPT ![s][d] = Tail(@)]
    /\ UNCHANGED <<routed, served, crashed>>

(* What a routine of s takes from the router is the next message of its link, *)
(* and the other links go on.                                                *)
LEMMA TakenInTurn ==
    ASSUME LinkInv, NEW s \in Server \ crashed, NEW d \in {"ToMsgHandler", "ToConExecutor"},
           queue[s][d] # << >>
    PROVE  LET m == Head(queue[s][d]) IN
           /\ m \in Msg /\ m.from \in Server /\ m.by \in Routine
           /\ Entry(m.by) = d /\ m \in Mine(m.from, m.by, s)
           /\ m.n = handled[m.from][s][m.by] + 1
           /\ handled[m.from][s][m.by] < issued[m.from][s][m.by]
<1> DEFINE m == Head(queue[s][d])
<1>1. d \in Dest
  BY Places
<1>2. m \in Fitting(s, d)
  BY <1>1, HeadFits DEF LinkInv, IInv
<1>3. /\ m \in Msg /\ m.from \in Server /\ m.by \in Routine
      /\ m.type = "ProposalReply" <=> m.by = "handler"
      /\ m.type = "ProposalReply" => d = "ToConExecutor" /\ m.to \in Server
      /\ d = "ToConExecutor" => m.type = "ProposalReply" /\ m.to = s
  BY <1>2, Places DEF Fitting, Sound, Msg
<1>4. Entry(m.by) = d /\ m \in Mine(m.from, m.by, s)
  BY <1>3 DEF Entry, Mine
<1>5. Channel(s, d) # << >> /\ Head(Channel(s, d)) = m
  <2>1. queue[s][d] \in Seq(Msg) /\ (Blocked(s, d) => routed[s].msg \in Msg)
    BY <1>1, <1>3, LinkTypes DEF LinkInv
  <2> QED
    BY <2>1 DEF Channel, ChannelOf
<1> HIDE DEF m
<1> DEFINE a == m.from
           r == m.by
           P == Mine(a, r, s)
           E == Channel(s, d)
           C == Channel(a, s)
           U == Unserved(a, r, s)
           O == out[a][r]
           h == handled[a][s][r]
           i == issued[a][s][r]
<1>6. LinkUp(P, E, C, U, O, h, i) \/ LinkDown(P, E, C, h, i)
  BY <1>3, <1>4 DEF LinkInv, AllLinks, LinkHolds
<1>7. E \in Seq(Msg) /\ h \in Nat /\ i \in Nat
  BY <1>1, <1>3, LinkTypes DEF LinkInv
<1>8. Head(E) = m /\ E # << >> /\ m \in P
  BY <1>4, <1>5
<1> HIDE DEF a, r, P, E, C, U, O, h, i
<1>9. m.n = h + 1 /\ h < i
  BY <1>6, <1>7, <1>8, LinkTakesUp, LinkTakesDown, Numbers
<1> QED
  BY <1>3, <1>4, <1>9 DEF m, a, r, h, i

(* The receiver's end of the links to s when one of its routines takes m.    *)
LEMMA TakeLinks ==
    ASSUME LinkInv, NEW s \in Server \ crashed, NEW d \in {"ToMsgHandler", "ToConExecutor"},
           TakenFrom(s, d),
           NEW a \in Server, NEW r \in Routine, NEW t \in Server
    PROVE  LET m == Head(queue[s][d])
               mine == t = s /\ m.from = a /\ m.by = r
           IN  /\ Channel(t, Entry(r))' =
                    IF t = s /\ Entry(r) = d THEN Tail(Channel(s, d)) ELSE Channel(t, Entry(r))
               /\ t = s /\ Entry(r) = d =>
                    Channel(s, d) # << >> /\ Head(Channel(s, d)) = m /\ (m \in Mine(a, r, s) <=> mine)
               /\ handled'[a][t][r] = IF mine THEN handled[a][t][r] + 1 ELSE handled[a][t][r]
               /\ Channel(a, t)' = Channel(a, t)
               /\ \A q : Channel(q, "ToSerializer")' = Channel(q, "ToSerializer")
<1> DEFINE m == Head(queue[s][d])
<1>0. /\ queue[s][d] # << >> /\ queue' = [queue EXCEPT ![s][d] = Tail(@)]
      /\ UNCHANGED <<routed, crashed>>
      /\ handled' = Put(handled, m.from, s, m.by, m.n)
  BY DEF TakenFrom, Taken, Put
<1>1. /\ m \in Msg /\ m.from \in Server /\ m.by \in Routine
      /\ Entry(m.by) = d /\ m \in Mine(m.from, m.by, s)
      /\ m.n = handled[m.from][s][m.by] + 1
  BY <1>0, TakenInTurn
<1>2. /\ d \in Dest /\ d # "ToSerializer" /\ t # d /\ t \in Dest
      /\ Entry(r) \in Dest /\ "ToSerializer" \in Dest
  BY Places
<1>3. queue \in [Server -> [Dest -> Seq(Msg)]] /\ queue[s][d] \in Seq(Msg)
      /\ (Blocked(s, d) => routed[s].msg \in Msg)
  BY <1>2, LinkTypes DEF LinkInv, IInv, AllFit
<1>4. Channel(s, d) # << >> /\ Head(Channel(s, d)) = m /\ Channel(s, d)' = Tail(Channel(s, d))
  <2>1. queue'[s][d] = Tail(queue[s][d]) /\ (Blocked(s, d)' <=> Blocked(s, d))
    BY <1>0, <1>2, <1>3 DEF Blocked
  <2>2. CASE Blocked(s, d)
    <3> DEFINE b == routed[s].msg
               c == queue[s][d]
    <3>1. Channel(s, d) = Append(c, b) /\ Channel(s, d)' = Append(Tail(c), b)
      BY <1>0, <2>1, <2>2 DEF Channel, ChannelOf
    <3>2. c \in Seq(Msg) /\ c # << >> /\ b \in Msg
      BY <1>0, <1>3, <2>2
    <3> HIDE DEF b, c
    <3>3. Append(c, b) # << >> /\ Head(Append(c, b)) = Head(c) /\ Tail(Append(c, b)) = Append(Tail(c), b)
      BY <3>2, HeadTailAppend, AppendProperties
    <3> QED
      BY <3>1, <3>3 DEF c
  <2>3. CASE ~Blocked(s, d)
    BY <1>0, <1>3, <2>1, <2>3 DEF Channel, ChannelOf
  <2> QED
    BY <2>2, <2>3
<1>5. \A q, e : e # d \/ q # s => Channel(q, e)' = Channel(q, e)
  <2> SUFFICES ASSUME NEW q, NEW e, e # d \/ q # s PROVE queue'[q][e] = queue[q][e]
    BY <1>0 DEF Channel, ChannelOf, Blocked
  <2> QED
    BY <1>0, <1>2, <1>3
<1>6. handled \in Counts /\ m.n \in Nat
  BY <1>1, Numbers DEF LinkInv, Orderly, Counts
<1> HIDE DEF m
<1>7. handled'[a][t][r] = IF t = s /\ m.from = a /\ m.by = r THEN m.n ELSE handled[a][t][r]
  <2> DEFINE b == m.from
             o == m.by
             v == m.n
  <2>1. handled' = Put(handled, b, s, o, v) /\ b \in Server /\ o \in Routine /\ v \in Nat
    BY <1>0, <1>1, <1>6
  <2> HIDE DEF b, o, v
  <2>2. Put(handled, b, s, o, v)[a][t][r] = IF a = b /\ t = s /\ r = o THEN v ELSE handled[a][t][r]
    BY <1>6, <2>1, PutIs
  <2>3. handled'[a][t][r] = IF a = b /\ t = s /\ r = o THEN v ELSE handled[a][t][r]
    BY <2>1, <2>2
  <2> QED
    BY <2>3 DEF b, o, v
<1>8. t = s /\ Entry(r) = d => (m \in Mine(a, r, s) <=> m.from = a /\ m.by = r)
  BY <1>1 DEF Mine
<1> QED
  BY <1>1, <1>2, <1>4, <1>5, <1>7, <1>8 DEF m, Entry

(* The same at the level of the link, O and i being what its sender has then. *)
LEMMA ReceiverLink ==
    ASSUME LinkInv, NEW s \in Server \ crashed, NEW d \in {"ToMsgHandler", "ToConExecutor"},
           TakenFrom(s, d),
           NEW a \in Server, NEW r \in Routine, NEW t \in Server \ crashed, NEW i \in Nat,
           out'[a][r] \in Seq(Msg), issued'[a][t][r] = i,
           IF a \in crashed
           THEN LinkDown(Mine(a, r, t), Channel(t, Entry(r)), Channel(a, t), handled[a][t][r], i)
           ELSE LinkUp(Mine(a, r, t), Channel(t, Entry(r)), Channel(a, t), Unserved(a, r, t),
                       out'[a][r], handled[a][t][r], i)
    PROVE  LinkHolds(a, r, t)'
<1> DEFINE m == Head(queue[s][d])
           P == Mine(a, r, t)
           E == Channel(t, Entry(r))
           C == Channel(a, t)
           U == Unserved(a, r, t)
           O == out'[a][r]
           h == handled[a][t][r]
           e == Channel(t, Entry(r))'
           g == handled'[a][t][r]
           mine == t = s /\ m.from = a /\ m.by = r
<1>1. /\ e = IF t = s /\ Entry(r) = d THEN Tail(Channel(s, d)) ELSE E
      /\ t = s /\ Entry(r) = d =>
           Channel(s, d) # << >> /\ Head(Channel(s, d)) = m /\ (m \in Mine(a, r, s) <=> mine)
      /\ g = IF mine THEN h + 1 ELSE h
      /\ Channel(a, t)' = C
      /\ \A q : Channel(q, "ToSerializer")' = Channel(q, "ToSerializer")
  BY TakeLinks
<1>2. Unserved(a, r, t)' = U /\ UNCHANGED crashed
  BY <1>1 DEF Unserved, Served, TakenFrom
<1>3. LinkHolds(a, r, t)' = IF a \in crashed THEN LinkDown(P, e, C, g, i) ELSE LinkUp(P, e, C, U, O, g, i)
  BY <1>1, <1>2 DEF LinkHolds, Mine, Entry
<1>4. Entry(m.by) = d
  BY TakenInTurn DEF TakenFrom
<1>5. mine => t = s /\ Entry(r) = d
  BY <1>4
<1>6. E \in Seq(Msg) /\ h \in Nat
  BY Places, LinkTypes DEF LinkInv
<1>7. IF a \in crashed THEN LinkDown(P, E, C, h, i) ELSE LinkUp(P, E, C, U, O, h, i)
  OBVIOUS
<1>8. CASE ~(t = s /\ Entry(r) = d)
  <2>1. e = E /\ g = h
    BY <1>1, <1>5, <1>8
  <2> QED
    BY <1>3, <1>7, <2>1
<1>9. CASE t = s /\ Entry(r) = d
  <2>1. e = Tail(E) /\ E # << >> /\ Head(E) = m /\ (m \in P <=> mine)
    BY <1>1, <1>9
  <2> HIDE DEF P, E, C, U, O, h, e, g, m
  <2>2. CASE m \in P
    <3>1. IF a \in crashed THEN LinkDown(P, Tail(E), C, h + 1, i)
          ELSE LinkUp(P, Tail(E), C, U, O, h + 1, i)
      <4>1. CASE a \in crashed
        BY <1>6, <1>7, <2>1, <2>2, <4>1, LinkTakesDown, Numbers
      <4>2. CASE a \notin crashed
        BY <1>6, <1>7, <2>1, <2>2, <4>2, LinkTakesUp, Numbers
      <4> QED
        BY <4>1, <4>2
    <3> QED
      BY <1>1, <1>3, <2>1, <2>2, <3>1
  <2>3. CASE m \notin P
    BY <1>1, <1>3, <1>6, <1>7, <2>1, <2>3, LinkSkips, Numbers
  <2> QED
    BY <2>2, <2>3
<1> QED
  BY <1>8, <1>9

(* What a take leaves in order.                                              *)
LEMMA ReceiverOrderly ==
    ASSUME LinkInv, NEW s \in Server \ crashed, NEW d \in {"ToMsgHandler", "ToConExecutor"},
           TakenFrom(s, d),
           \A a, t \in Server, r \in {"proxy", "executor"} : issued'[a][t][r] = issued[a][t][r]
    PROVE  Orderly'
<1> DEFINE a == Head(queue[s][d]).from
           r == Head(queue[s][d]).by
           v == Head(queue[s][d]).n
<1>1. a \in Server /\ r \in Routine /\ v \in Nat
  BY TakenInTurn, Numbers DEF TakenFrom
<1>2. handled' = Put(handled, a, s, r, v) /\ handled \in Counts
  BY DEF Taken, TakenFrom, Put, LinkInv, Orderly, Counts
<1> HIDE DEF a, r, v
<1>3. handled' \in Counts
  BY <1>1, <1>2, PutTyped
<1>4. ASSUME NEW q \in Server \ crashed, served[q] # 0 PROVE queue'[q]["ToSerializer"] # << >>
  <2>1. queue'[q]["ToSerializer"] = queue[q]["ToSerializer"]
    BY Places DEF LinkInv, IInv, AllFit, TakenFrom
  <2> QED
    BY <1>4, <2>1 DEF LinkInv, Orderly
<1>5. ASSUME NEW q \in Server, NEW t \in Server, NEW o \in {"proxy", "executor"}
      PROVE  issued'[q][t][o] = issued'[q][q][o]
  <2>1. issued'[q][t][o] = issued[q][t][o] /\ issued'[q][q][o] = issued[q][q][o]
    OBVIOUS
  <2> QED
    BY <2>1 DEF LinkInv, Orderly
<1> QED
  BY <1>3, <1>4, <1>5 DEF LinkInv, Orderly, TakenFrom, Counts

(* The executor takes a reply.                                               *)
LEMMA TakeReplyLinks ==
    ASSUME LinkInv, NEW s \in Server, TakeReply(s)
    PROVE  Orderly' /\ AllLinks'
<1> DEFINE d == "ToConExecutor"
<1>1. /\ s \in Server \ crashed /\ TakenFrom(s, d) /\ UNCHANGED <<out, issued, crashed>>
      /\ d \in {"ToMsgHandler", "ToConExecutor"}
  BY DEF TakeReply, Runs, TakenFrom
<1> HIDE DEF d
<1>2. Orderly'
  BY <1>1, ReceiverOrderly
<1>3. ASSUME NEW a \in Server, NEW r \in Routine, NEW t \in Server \ crashed
      PROVE  LinkHolds(a, r, t)'
  <2>1. /\ LinkHolds(a, r, t) /\ out'[a][r] \in Seq(Msg)
        /\ issued[a][t][r] \in Nat /\ issued'[a][t][r] = issued[a][t][r] /\ out'[a][r] = out[a][r]
    BY <1>1, LinkTypes DEF LinkInv, AllLinks
  <2> DEFINE i == issued[a][t][r]
  <2>2. IF a \in crashed
        THEN LinkDown(Mine(a, r, t), Channel(t, Entry(r)), Channel(a, t), handled[a][t][r], i)
        ELSE LinkUp(Mine(a, r, t), Channel(t, Entry(r)), Channel(a, t), Unserved(a, r, t),
                    out'[a][r], handled[a][t][r], i)
    BY <2>1 DEF LinkHolds
  <2> HIDE DEF i
  <2>3. i \in Nat /\ issued'[a][t][r] = i
    BY <2>1 DEF i
  <2> QED
    BY <1>1, <2>1, <2>2, <2>3, ReceiverLink
<1> QED
  BY <1>1, <1>2, <1>3 DEF AllLinks

(* The handler takes a message and may reply, at the end of its own link.     *)
LEMMA HandleLinks ==
    ASSUME LinkInv, NEW s \in Server, Handle(s)
    PROVE  Orderly' /\ AllLinks'
<1> DEFINE d == "ToMsgHandler"
           m == Head(queue[s][d])
           q == m.from
           n == issued[s][q]["handler"] + 1
           reply == Message("ProposalReply", s, "handler", n, m.slot, q)
<1>1. /\ s \in Server \ crashed /\ TakenFrom(s, d) /\ UNCHANGED crashed
      /\ \/ UNCHANGED <<out, issued>>
         \/ /\ out' = [out EXCEPT ![s]["handler"] = Append(@, reply)]
            /\ issued' = Put(issued, s, q, "handler", n)
      /\ d \in {"ToMsgHandler", "ToConExecutor"} /\ "handler" \in Routine
  BY DEF Handle, Runs, Routine, TakenFrom, Put
<1>2. m \in Msg /\ q \in Server
  BY <1>1, TakenInTurn DEF TakenFrom
<1>3. /\ issued \in Counts /\ n \in Nat
      /\ out \in [Server -> [Routine -> Seq(Msg)]]
  <2>1. issued[s][q]["handler"] \in Nat
    BY <1>1, <1>2, LinkTypes DEF LinkInv
  <2>2. n \in Nat
    BY <2>1
  <2> HIDE DEF n
  <2> QED
    BY <2>2 DEF LinkInv, IInv, Counters, AllOwn, Counts
<1>4. reply \in Msg /\ reply.from = s /\ reply.by = "handler" /\ reply.n = n /\ reply.to = q
  BY <1>1, <1>2, <1>3 DEF Message, Msg
<1>5. n = issued[s][q]["handler"] + 1
  OBVIOUS
<1> HIDE DEF d, m, q, n, reply
<1>6. ASSUME NEW a \in Server, NEW r \in Routine, NEW t \in Server
      PROVE  \/ issued'[a][t][r] = issued[a][t][r] /\ out'[a][r] = out[a][r]
             \/ /\ a = s /\ r = "handler" /\ out'[a][r] = Append(out[a][r], reply)
                /\ issued'[a][t][r] = IF t = q THEN n ELSE issued[a][t][r]
  <2>1. CASE UNCHANGED <<out, issued>>
    BY <2>1
  <2>2. CASE /\ out' = [out EXCEPT ![s]["handler"] = Append(@, reply)]
             /\ issued' = Put(issued, s, q, "handler", n)
    <3>1. issued'[a][t][r] =
            IF a = s /\ t = q /\ r = "handler" THEN n ELSE issued[a][t][r]
      <4>1. Put(issued, s, q, "handler", n)[a][t][r] =
              IF a = s /\ t = q /\ r = "handler" THEN n ELSE issued[a][t][r]
        BY <1>1, <1>2, <1>3, PutIs
      <4> QED
        BY <2>2, <4>1
    <3>2. out'[a][r] = IF a = s /\ r = "handler" THEN Append(out[a][r], reply) ELSE out[a][r]
      BY <1>1, <1>3, <2>2
    <3> QED
      BY <3>1, <3>2
  <2> QED
    BY <1>1, <2>1, <2>2
<1>7. Orderly'
  <2>1. ASSUME NEW a \in Server, NEW t \in Server, NEW r \in {"proxy", "executor"}
        PROVE  issued'[a][t][r] = issued[a][t][r]
    BY <1>6 DEF Routine
  <2> QED
    BY <1>1, <2>1, ReceiverOrderly
<1>8. ASSUME NEW a \in Server, NEW r \in Routine, NEW t \in Server \ crashed
      PROVE  LinkHolds(a, r, t)'
  <2> DEFINE i == issued'[a][t][r]
             P == Mine(a, r, t)
             E == Channel(t, Entry(r))
             C == Channel(a, t)
             U == Unserved(a, r, t)
             h == handled[a][t][r]
  <2>1. /\ E \in Seq(Msg) /\ C \in Seq(Msg) /\ (a \notin crashed => U \in Seq(Msg))
        /\ out[a][r] \in Seq(Msg) /\ h \in Nat /\ issued[a][t][r] \in Nat
    BY Places, LinkTypes DEF LinkInv
  <2>2. IF a \in crashed THEN LinkDown(P, E, C, h, issued[a][t][r])
        ELSE LinkUp(P, E, C, U, out[a][r], h, issued[a][t][r])
    BY DEF LinkInv, AllLinks, LinkHolds
  <2>3. /\ IF a \in crashed THEN LinkDown(P, E, C, h, i) ELSE LinkUp(P, E, C, U, out'[a][r], h, i)
        /\ i \in Nat /\ out'[a][r] \in Seq(Msg)
    <3>1. CASE issued'[a][t][r] = issued[a][t][r] /\ out'[a][r] = out[a][r]
      BY <2>1, <2>2, <3>1
    <3>2. CASE /\ a = s /\ r = "handler" /\ out'[a][r] = Append(out[a][r], reply)
               /\ issued'[a][t][r] = IF t = q THEN n ELSE issued[a][t][r]
      <4> DEFINE O == out[a][r]
                 j == issued[a][t][r]
      <4>1. a \notin crashed /\ LinkUp(P, E, C, U, O, h, j) /\ reply \in Msg
        BY <1>1, <1>4, <2>2, <3>2
      <4>2. IF t = q THEN reply \in P /\ reply.n = j + 1 /\ i = j + 1 ELSE reply \notin P /\ i = j
        BY <1>4, <1>5, <3>2 DEF Mine
      <4>3. Append(O, reply) \in Seq(Msg) /\ i \in Nat /\ j \in Nat /\ O \in Seq(Msg)
        BY <2>1, <4>1, <4>2
      <4> HIDE DEF P, E, C, U, O, h, j, i
      <4>4. LinkUp(P, E, C, U, Append(O, reply), h, i)
        <5>1. CASE t = q
          BY <2>1, <4>1, <4>2, <4>3, <5>1, LinkIssues, Numbers
        <5>2. CASE t # q
          BY <2>1, <4>1, <4>2, <4>3, <5>2, LinkPasses, Numbers
        <5> QED
          BY <5>1, <5>2
      <4> QED
        BY <3>2, <4>1, <4>3, <4>4 DEF O
    <3> QED
      BY <1>6, <3>1, <3>2
  <2> QED
    BY <1>1, <2>3, ReceiverLink
<1> QED
  BY <1>1, <1>7, <1>8 DEF AllLinks

-----------------------------------------------------------------------------
(* The steps of MsgRouter.                                                   *)

(* The router sends m to d, q being the channels without m: whether there is   *)
(* room or not, m is then at the end of the channel to d.  What is on the way  *)
(* to a crashed server does not matter.                                      *)
LEMMA RouteChannel ==
    ASSUME LinkInv, NEW s \in Server \ crashed, routed[s] = None,
           NEW q \in Queues, NEW d \in Dest, NEW m \in Msg, Route(q, s, d, m), UNCHANGED crashed,
           NEW u \in Server, NEW e \in Dest \ crashed
    PROVE  Channel(u, e)' = IF u = s /\ e = d THEN Append(q[s][d], m) ELSE ChannelOf(q, u, e)
<1>1. \A x : ~Blocked(s, x)
  BY DEF Blocked
<1>2. CASE SendTo(q, s, d, m) /\ UNCHANGED routed
  <2>1. IF d \in crashed THEN queue' = q ELSE queue' = [q EXCEPT ![s][d] = Append(@, m)]
    BY <1>2 DEF SendTo
  <2>2. queue'[u][e] = IF u = s /\ e = d THEN Append(q[s][d], m) ELSE q[u][e]
    <3>1. CASE d \in crashed
      BY <2>1, <3>1
    <3>2. CASE d \notin crashed
      <4>1. queue' = [q EXCEPT ![s][d] = Append(q[s][d], m)]
        BY <2>1, <3>2
      <4> QED
        BY <4>1 DEF Queues
    <3> QED
      BY <3>1, <3>2
  <2>3. routed'[u] = routed[u] /\ (Blocked(u, e)' <=> Blocked(u, e))
    BY <1>2 DEF Blocked
  <2> QED
    BY <1>1, <2>2, <2>3 DEF Channel, ChannelOf
<1>3. CASE queue' = q /\ routed' = [routed EXCEPT ![s] = [dest |-> d, msg |-> m]]
  <2> DEFINE b == [dest |-> d, msg |-> m]
  <2>1. b # None /\ b.dest = d /\ b.msg = m
    BY NoneAssumption
  <2> HIDE DEF b
  <2>2. routed \in [Server -> {None} \cup [dest : Dest, msg : Msg]]
    BY DEF LinkInv, IInv, RoutedFits
  <2>3. routed'[u] = IF u = s THEN b ELSE routed[u]
    BY <1>3, <2>2 DEF b
  <2>4. CASE u = s
    <3>1. Blocked(s, e)' <=> e = d
      BY <2>1, <2>3, <2>4 DEF Blocked
    <3> QED
      BY <1>1, <1>3, <2>1, <2>3, <2>4, <3>1 DEF Channel, ChannelOf
  <2>5. CASE u # s
    <3>1. Blocked(u, e)' <=> Blocked(u, e)
      BY <2>3, <2>5 DEF Blocked
    <3> QED
      BY <1>3, <2>3, <2>5, <3>1 DEF Channel, ChannelOf
  <2> QED
    BY <2>4, <2>5
<1> QED
  BY <1>2, <1>3 DEF Route

LEMMA RouteOrderly ==
    ASSUME LinkInv, NEW s \in Server,
           NEW q \in Queues, NEW d \in Dest, NEW m \in Msg,
           Route(q, s, d, m), UNCHANGED <<served, crashed, issued, handled>>,
           d \in Server => m.type = "ProposalReply",
           \A u \in Server : q[u]["ToSerializer"] = queue[u]["ToSerializer"]
    PROVE  Orderly'
<1>1. ASSUME NEW u \in Server \ crashed, served[u] # 0 PROVE queue'[u]["ToSerializer"] # << >>
  <2>1. /\ q[u]["ToSerializer"] = queue[u]["ToSerializer"] /\ queue[u]["ToSerializer"] # << >>
        /\ "ToSerializer" \in Dest
    BY <1>1, Places DEF LinkInv, Orderly
  <2>2. CASE queue' = q
    BY <2>1, <2>2
  <2>3. CASE queue' = [q EXCEPT ![s][d] = Append(@, m)]
    <3>1. \/ queue'[u]["ToSerializer"] = q[u]["ToSerializer"]
          \/ queue'[u]["ToSerializer"] = Append(q[s][d], m)
      BY <2>1, <2>3 DEF Queues
    <3>2. Append(q[s][d], m) # << >>
      BY AppendProperties DEF Queues
    <3> QED
      BY <2>1, <3>1, <3>2
  <2> QED
    BY <2>2, <2>3 DEF Route, SendTo
<1>2. ASSUME NEW u \in Server, routed'[u] # None, routed'[u].dest \in Server
      PROVE  routed'[u].msg.type = "ProposalReply"
  <2>1. CASE UNCHANGED routed
    BY <1>2, <2>1 DEF LinkInv, Orderly
  <2>2. CASE routed' = [routed EXCEPT ![s] = [dest |-> d, msg |-> m]]
    <3>1. routed'[u] = IF u = s THEN [dest |-> d, msg |-> m] ELSE routed[u]
      BY <2>2 DEF LinkInv, IInv, RoutedFits
    <3> QED
      BY <1>2, <3>1 DEF LinkInv, Orderly
  <2> QED
    BY <2>1, <2>2 DEF Route
<1> QED
  BY <1>1, <1>2 DEF LinkInv, Orderly

(* A message of the layers above.                                            *)
LEMMA RouteOutLinks ==
    ASSUME LinkInv, NEW s \in Server, NEW o \in Routine, RouteOut(s, o)
    PROVE  Orderly' /\ AllLinks'
<1> DEFINE m == Head(out[s][o])
           d == IF m.type = "ProposalReply" THEN m.to ELSE "ToSerializer"
           c == Tail(out[s][o])
<1>1. /\ s \in Server \ crashed /\ routed[s] = None /\ out[s][o] # << >>
      /\ Route(queue, s, d, m) /\ out' = [out EXCEPT ![s][o] = Tail(@)]
      /\ UNCHANGED <<served, crashed, issued, handled>>
  BY DEF RouteOut, Runs
<1>2. /\ queue \in Queues /\ out[s][o] \in Seq(Own(s, o))
      /\ out \in [Server -> [Routine -> Seq(Msg)]]
  BY DEF LinkInv, IInv, AllFit, AllOwn, Queues
<1>3. m \in Own(s, o)
  BY <1>1, <1>2
<1>4. /\ m \in Msg /\ m.from = s /\ m.by = o
      /\ o = "handler" => m.type = "ProposalReply" /\ d = m.to /\ m.to \in Server
      /\ o # "handler" => m.type # "ProposalReply" /\ d = "ToSerializer"
      /\ d \in Dest
  BY <1>3, Places DEF Own, Sound
<1>5. \A a \in Server, r \in Routine : out'[a][r] = IF a = s /\ r = o THEN c ELSE out[a][r]
  BY <1>1, <1>2
<1>6. Orderly'
  <2>1. d \in Server => m.type = "ProposalReply"
    BY <1>4, Places
  <2> HIDE DEF m, d
  <2> QED
    BY <1>1, <1>2, <1>4, <2>1, RouteOrderly
<1> HIDE DEF m, d, c
<1>7. ASSUME NEW u \in Server, NEW e \in Dest \ crashed
      PROVE  Channel(u, e)' = IF u = s /\ e = d THEN Append(Channel(s, d), m) ELSE Channel(u, e)
  <2>1. Channel(s, d) = queue[s][d]
    BY <1>1 DEF Channel, ChannelOf, Blocked
  <2>2. Channel(u, e)' = IF u = s /\ e = d THEN Append(queue[s][d], m) ELSE ChannelOf(queue, u, e)
    BY <1>1, <1>2, <1>4, RouteChannel
  <2> QED
    BY <2>1, <2>2 DEF Channel
<1>8. "ToSerializer" \in Dest \ crashed
  BY Places DEF LinkInv, Orderly
<1>9. ASSUME NEW a \in Server \ crashed, NEW r \in Routine, NEW t \in Server
      PROVE  Unserved(a, r, t)' = IF a = s /\ o # "handler" /\ r # "handler"
                                  THEN Append(Unserved(a, r, t), m) ELSE Unserved(a, r, t)
  <2> DEFINE x == Channel(a, "ToSerializer")
  <2>1. x' = IF a = s /\ o # "handler" THEN Append(x, m) ELSE x
    BY <1>4, <1>7, <1>8, Places
  <2>2. Served(a, t)' <=> Served(a, t)
    BY <1>1 DEF Served
  <2>3. Served(a, t) => x # << >>
    BY BeingServed DEF LinkInv
  <2>4. x \in Seq(Msg)
    BY <1>8, LinkTypes DEF LinkInv
  <2>5. Served(a, t) => Tail(Append(x, m)) = Append(Tail(x), m)
    BY <2>3, <2>4, <1>4, HeadTailAppend
  <2> QED
    BY <2>1, <2>2, <2>5 DEF Unserved
<1>10. ASSUME NEW a \in Server, NEW r \in Routine, NEW t \in Server \ crashed
       PROVE  LinkHolds(a, r, t)'
  <2> DEFINE P == Mine(a, r, t)
             E == Channel(t, Entry(r))
             C == Channel(a, t)
             U == Unserved(a, r, t)
             O == out[a][r]
             h == handled[a][t][r]
             i == issued[a][t][r]
  <2>1. /\ E \in Seq(Msg) /\ C \in Seq(Msg) /\ (a \notin crashed => U \in Seq(Msg))
        /\ O \in Seq(Msg) /\ h \in Nat /\ i \in Nat
    BY Places, LinkTypes DEF LinkInv
  <2>2. LinkHolds(a, r, t) /\ (a = s => LinkUp(P, E, C, U, O, h, i))
    BY <1>1 DEF LinkInv, AllLinks, LinkHolds
  <2>3. Channel(t, Entry(r))' = E
    <3>1. Entry(r) \in Dest \ crashed /\ Entry(r) # d
      BY <1>4, Places DEF LinkInv, Orderly
    <3> QED
      BY <1>7, <3>1
  <2>4. Channel(a, t)' = IF a = s /\ t = d THEN Append(C, m) ELSE C
    BY <1>7, Places
  <2>5. CASE a # s
    BY <1>1, <1>5, <1>9, <2>2, <2>3, <2>4, <2>5, SameLink
  <2>6. CASE a = s
    <3>1. LinkHolds(a, r, t)' = LinkUp(P, E, Channel(a, t)', Unserved(a, r, t)', out'[a][r], h, i)
      BY <1>1, <2>3, <2>6 DEF LinkHolds, Mine, Entry
    <3>2. m \in P <=> r = o /\ (r = "handler" => t = d)
      BY <1>4, <2>6 DEF Mine
    <3>3. r = o => O # << >> /\ m = Head(O) /\ out'[a][r] = Tail(O)
      BY <1>1, <1>5, <2>6 DEF m, c
    <3>4. r # o => out'[a][r] = O
      BY <1>5
    <3>5. r = "handler" => U = << >>
      BY DEF Unserved
    <3>6. Unserved(a, r, t)' = IF o # "handler" /\ r # "handler" THEN Append(U, m) ELSE U
      BY <1>1, <1>9, <2>6
    <3>7. t = d => o = "handler"
      BY <1>4, Places
    <3> HIDE DEF P, E, C, U, O, h, i
    <3>8. CASE o # "handler" /\ r = o
      <4>1. LinkUp(P, E, C, Append(U, Head(O)), Tail(O), h, i)
        BY <1>1, <2>1, <2>2, <2>6, <3>3, <3>8, LinkMoves, Numbers
      <4> QED
        BY <2>4, <2>6, <3>1, <3>3, <3>6, <3>7, <3>8, <4>1
    <3>9. CASE o # "handler" /\ r # o /\ r # "handler"
      BY <1>4, <2>1, <2>2, <2>4, <2>6, <1>1, <3>1, <3>2, <3>4, <3>6, <3>7, <3>9, LinkPasses, Numbers
    <3>10. CASE o # "handler" /\ r = "handler"
      BY <2>2, <2>4, <2>6, <3>1, <3>4, <3>6, <3>7, <3>10
    <3>11. CASE o = "handler" /\ r = "handler" /\ t = d
      BY <2>1, <2>2, <2>4, <2>6, <3>1, <3>3, <3>5, <3>6, <3>11, LinkReplies, Numbers
    <3>12. CASE o = "handler" /\ r = "handler" /\ t # d
      <4>1. LinkUp(P, E, C, U, Tail(O), h, i)
        BY <2>1, <2>2, <2>6, <3>2, <3>3, <3>12, LinkLoses, Numbers
      <4> QED
        BY <2>4, <2>6, <3>1, <3>3, <3>6, <3>12, <4>1
    <3>13. CASE o = "handler" /\ r # "handler" /\ t = d
      <4>1. LinkUp(P, E, Append(C, m), U, O, h, i)
        BY <1>1, <1>4, <2>1, <2>2, <2>6, <3>2, <3>13, LinkPasses, Numbers
      <4> QED
        BY <2>4, <2>6, <3>1, <3>4, <3>6, <3>13, <4>1
    <3>14. CASE o = "handler" /\ r # "handler" /\ t # d
      BY <2>2, <2>4, <2>6, <3>1, <3>4, <3>6, <3>14
    <3> QED
      BY <3>8, <3>9, <3>10, <3>11, <3>12, <3>13, <3>14
  <2> QED
    BY <2>5, <2>6
<1> QED
  BY <1>1, <1>6, <1>10 DEF AllLinks

(* A message of a peer.                                                      *)
LEMMA RouteInLinks ==
    ASSUME LinkInv, NEW s \in Server, NEW u \in Server, RouteIn(s, u)
    PROVE  Orderly' /\ AllLinks'
<1> DEFINE m == Head(queue[u][s])
           q == [queue EXCEPT ![u][s] = Tail(queue[u][s])]
           d == IF m.type = "ProposalReply" THEN "ToConExecutor" ELSE "ToMsgHandler"
<1>1. /\ s \in Server \ crashed /\ routed[s] = None /\ queue[u][s] # << >>
      /\ Route(q, s, d, m)
      /\ UNCHANGED <<out, served, crashed, issued, handled>>
  BY DEF RouteIn, Runs
<1>2. queue \in Queues /\ s \in Dest /\ queue[u][s] \in Seq(Msg)
  BY Places DEF LinkInv, IInv, AllFit, Queues
<1>3. m \in Fitting(u, s)
  BY <1>1, <1>2, HeadFits DEF LinkInv, IInv
<1>4. /\ m \in Msg /\ m.from = u /\ d = Entry(m.by) /\ d \in Dest \ Server /\ d # "ToSerializer"
  BY <1>3, Places DEF Fitting, Sound, Entry
<1>5. /\ q \in Queues
      /\ \A v \in Server, e \in Dest :
            q[v][e] = IF v = u /\ e = s THEN Tail(queue[u][s]) ELSE queue[v][e]
  <2> DEFINE c == Tail(queue[u][s])
  <2>1. c \in Seq(Msg)
    BY <1>1, <1>2
  <2> DEFINE f == [queue[u] EXCEPT ![s] = c]
  <2>2. q = [queue EXCEPT ![u] = f]
    OBVIOUS
  <2> HIDE DEF q, c
  <2>3. /\ f \in [Dest -> Seq(Msg)]
        /\ \A e \in Dest : f[e] = IF e = s THEN c ELSE queue[u][e]
    BY <1>2, <2>1 DEF Queues
  <2> HIDE DEF f
  <2>4. q \in Queues
    BY <1>2, <2>2, <2>3 DEF Queues
  <2>5. \A v \in Server : q[v] = IF v = u THEN f ELSE queue[v]
    BY <1>2, <2>2 DEF Queues
  <2> QED
    BY <2>3, <2>4, <2>5 DEF c
<1> HIDE DEF m, q, d
<1>6. Orderly'
  <2>1. \A v \in Server : q[v]["ToSerializer"] = queue[v]["ToSerializer"]
    BY <1>5, Places
  <2>2. d \in Server => m.type = "ProposalReply"
    BY <1>4
  <2> QED
    BY <1>1, <1>4, <1>5, <2>1, <2>2, RouteOrderly
<1>7. Channel(u, s) # << >> /\ Head(Channel(u, s)) = m /\ ChannelOf(q, u, s) = Tail(Channel(u, s))
  <2> DEFINE c == queue[u][s]
             b == routed[u].msg
  <2>1. q[u][s] = Tail(c) /\ c \in Seq(Msg) /\ c # << >> /\ m = Head(c)
    BY <1>1, <1>2, <1>5 DEF m
  <2>2. Blocked(u, s) => b \in Msg
    BY DEF LinkInv, IInv, RoutedFits, Fitting, Sound, Blocked
  <2> HIDE DEF c, b
  <2>3. CASE Blocked(u, s)
    <3>1. Append(c, b) # << >> /\ Head(Append(c, b)) = m /\ Tail(Append(c, b)) = Append(Tail(c), b)
      BY <2>1, <2>2, <2>3, HeadTailAppend, AppendProperties
    <3>2. Channel(u, s) = Append(c, b) /\ ChannelOf(q, u, s) = Append(Tail(c), b)
      BY <2>1, <2>3 DEF Channel, ChannelOf, c, b
    <3> QED
      BY <3>1, <3>2
  <2>4. CASE ~Blocked(u, s)
    BY <2>1, <2>4 DEF Channel, ChannelOf, c
  <2> QED
    BY <2>3, <2>4
<1>8. ASSUME NEW v \in Server, NEW e \in Dest \ crashed
      PROVE  Channel(v, e)' = IF v = s /\ e = d THEN Append(Channel(s, d), m)
                              ELSE IF v = u /\ e = s THEN Tail(Channel(u, s)) ELSE Channel(v, e)
  <2>1. Channel(v, e)' = IF v = s /\ e = d THEN Append(q[s][d], m) ELSE ChannelOf(q, v, e)
    BY <1>1, <1>4, <1>5, RouteChannel
  <2>2. q[s][d] = Channel(s, d)
    <3>1. q[s][d] = queue[s][d]
      BY <1>4, <1>5
    <3> QED
      BY <1>1, <3>1 DEF Channel, ChannelOf, Blocked
  <2>3. ~(v = u /\ e = s) => ChannelOf(q, v, e) = Channel(v, e)
    BY <1>5 DEF Channel, ChannelOf
  <2> QED
    BY <1>7, <2>1, <2>2, <2>3
<1>9. ASSUME NEW a \in Server, NEW r \in Routine, NEW t \in Server \ crashed
      PROVE  LinkHolds(a, r, t)'
  <2> DEFINE P == Mine(a, r, t)
             E == Channel(t, Entry(r))
             C == Channel(a, t)
             U == Unserved(a, r, t)
             O == out[a][r]
             h == handled[a][t][r]
             i == issued[a][t][r]
             e == Channel(t, Entry(r))'
             c == Channel(a, t)'
  <2>1. /\ E \in Seq(Msg) /\ C \in Seq(Msg) /\ (a \notin crashed => U \in Seq(Msg))
        /\ O \in Seq(Msg) /\ h \in Nat /\ i \in Nat
    BY Places, LinkTypes DEF LinkInv
  <2>2. LinkHolds(a, r, t)
    BY DEF LinkInv, AllLinks
  <2>3. /\ e = IF t = s /\ Entry(r) = d THEN Append(E, m) ELSE E
        /\ c = IF a = u /\ t = s THEN Tail(C) ELSE C
        /\ a = u /\ t = s => C # << >> /\ Head(C) = m
    <3>1. Entry(r) \in Dest \ crashed /\ Entry(r) # s /\ t # d /\ t \in Dest
      BY <1>4, Places DEF LinkInv, Orderly
    <3> QED
      BY <1>7, <1>8, <3>1
  <2>4. Unserved(a, r, t)' = U
    <3>1. Channel(a, "ToSerializer")' = Channel(a, "ToSerializer")
      <4>1. "ToSerializer" \in Dest \ crashed /\ "ToSerializer" # s
        BY Places DEF LinkInv, Orderly
      <4> QED
        BY <1>4, <1>8, <4>1
    <3> QED
      BY <1>1, <3>1 DEF Unserved, Served
  <2>5. LinkHolds(a, r, t)' = IF a \in crashed THEN LinkDown(P, e, c, h, i) ELSE LinkUp(P, e, c, U, O, h, i)
    BY <1>1, <2>4 DEF LinkHolds, Mine, Entry
  <2>6. IF a \in crashed THEN LinkDown(P, E, C, h, i) ELSE LinkUp(P, E, C, U, O, h, i)
    BY <2>2 DEF LinkHolds
  <2>7. m \in P => a = u /\ Entry(r) = d
    BY <1>4 DEF Mine
  <2> HIDE DEF P, E, C, U, O, h, i, e, c
  <2>8. CASE t # s
    BY <2>3, <2>5, <2>6, <2>8
  <2>9. CASE t = s /\ a = u /\ Entry(r) = d
    <3>1. IF a \in crashed THEN LinkDown(P, Append(E, Head(C)), Tail(C), h, i)
          ELSE LinkUp(P, Append(E, Head(C)), Tail(C), U, O, h, i)
      <4>1. CASE a \in crashed
        BY <2>1, <2>3, <2>6, <2>9, <4>1, LinkMovesDown, Numbers
      <4>2. CASE a \notin crashed
        BY <2>1, <2>3, <2>6, <2>9, <4>2, LinkMoves, Numbers
      <4> QED
        BY <4>1, <4>2
    <3> QED
      BY <2>3, <2>5, <2>9, <3>1
  <2>10. CASE t = s /\ a = u /\ Entry(r) # d
    <3>1. IF a \in crashed THEN LinkDown(P, E, Tail(C), h, i)
          ELSE LinkUp(P, E, Tail(C), U, O, h, i)
      <4>1. CASE a \in crashed
        BY <2>1, <2>3, <2>6, <2>7, <2>10, <4>1, LinkLosesDown, Numbers
      <4>2. CASE a \notin crashed
        BY <2>1, <2>3, <2>6, <2>7, <2>10, <4>2, LinkLoses, Numbers
      <4> QED
        BY <4>1, <4>2
    <3> QED
      BY <2>3, <2>5, <2>10, <3>1
  <2>11. CASE t = s /\ a # u /\ Entry(r) = d
    <3>1. IF a \in crashed THEN LinkDown(P, Append(E, m), C, h, i)
          ELSE LinkUp(P, Append(E, m), C, U, O, h, i)
      <4>1. CASE a \in crashed
        BY <1>4, <2>1, <2>6, <2>7, <2>11, <4>1, LinkPassesDown, Numbers
      <4>2. CASE a \notin crashed
        BY <1>4, <2>1, <2>6, <2>7, <2>11, <4>2, LinkPasses, Numbers
      <4> QED
        BY <4>1, <4>2
    <3> QED
      BY <2>3, <2>5, <2>11, <3>1
  <2>12. CASE t = s /\ a # u /\ Entry(r) # d
    BY <2>3, <2>5, <2>6, <2>12
  <2> QED
    BY <2>8, <2>9, <2>10, <2>11, <2>12
<1> QED
  BY <1>1, <1>6, <1>9 DEF AllLinks

(* The router gets rid of the message it was blocked with.                   *)
LEMMA UnblockLinks ==
    ASSUME LinkInv, NEW s \in Server, Unblock(s)
    PROVE  Orderly' /\ AllLinks'
<1> DEFINE d == routed[s].dest
           m == routed[s].msg
<1>1. /\ s \in Server \ crashed /\ routed[s] # None
      /\ queue' = IF d \in crashed THEN queue ELSE [queue EXCEPT ![s][d] = Append(@, m)]
      /\ routed' = [routed EXCEPT ![s] = None]
      /\ UNCHANGED <<out, served, crashed, issued, handled>>
  BY DEF Unblock, Runs, SendTo
<1>2. /\ queue \in Queues /\ d \in Dest /\ m \in Msg
      /\ routed \in [Server -> {None} \cup [dest : Dest, msg : Msg]]
  BY <1>1 DEF LinkInv, IInv, AllFit, Queues, RoutedFits, Fitting, Sound
<1> HIDE DEF d, m
<1>3. ASSUME NEW u \in Server, NEW e \in Dest
      PROVE  queue'[u][e] = IF u = s /\ e = d /\ d \notin crashed THEN Append(queue[s][d], m)
                            ELSE queue[u][e]
  <2>1. CASE d \in crashed
    BY <1>1, <2>1
  <2>2. CASE d \notin crashed
    <3>1. queue' = [queue EXCEPT ![s][d] = Append(queue[s][d], m)]
      BY <1>1, <2>2
    <3> QED
      BY <2>2, <3>1, <1>2 DEF Queues
  <2> QED
    BY <2>1, <2>2
<1>4. ASSUME NEW u \in Server PROVE routed'[u] = IF u = s THEN None ELSE routed[u]
  BY <1>1, <1>2
<1>5. ASSUME NEW u \in Server, NEW e \in Dest \ crashed PROVE Channel(u, e)' = Channel(u, e)
  <2>1. CASE u = s
    <3>1. ~Blocked(s, e)' /\ (Blocked(s, e) <=> e = d)
      BY <1>1, <1>4 DEF Blocked, d
    <3>2. queue'[s][e] = IF e = d THEN Append(queue[s][e], m) ELSE queue[s][e]
      BY <1>3
    <3> QED
      BY <2>1, <3>1, <3>2 DEF Channel, ChannelOf, m
  <2>2. CASE u # s
    <3>1. queue'[u][e] = queue[u][e] /\ routed'[u] = routed[u]
      BY <1>3, <1>4, <2>2
    <3> QED
      BY <1>1, <3>1 DEF Channel, ChannelOf, Blocked
  <2> QED
    BY <2>1, <2>2
<1>6. Orderly'
  <2>1. ASSUME NEW u \in Server \ crashed, served[u] # 0 PROVE queue'[u]["ToSerializer"] # << >>
    <3> DEFINE c == queue[s][d]
    <3>1. queue[u]["ToSerializer"] # << >> /\ "ToSerializer" \in Dest
      BY <2>1, Places DEF LinkInv, Orderly
    <3>2. Append(c, m) # << >>
      <4>1. c \in Seq(Msg)
        BY <1>2 DEF Queues
      <4> HIDE DEF c
      <4> QED
        BY <1>2, <4>1, AppendProperties
    <3>3. queue'[u]["ToSerializer"] \in {Append(c, m), queue[u]["ToSerializer"]}
      BY <1>3, <3>1
    <3> QED
      BY <3>1, <3>2, <3>3
  <2>2. \A u \in Server : routed'[u] # None => routed'[u] = routed[u]
    BY <1>4
  <2> QED
    BY <1>1, <2>1, <2>2 DEF LinkInv, Orderly
<1>7. ASSUME NEW a \in Server, NEW r \in Routine, NEW t \in Server \ crashed
      PROVE  LinkHolds(a, r, t)'
  <2>1. LinkHolds(a, r, t)
    BY DEF LinkInv, AllLinks
  <2>2. Entry(r) \in Dest \ crashed /\ "ToSerializer" \in Dest \ crashed /\ t \in Dest \ crashed
    BY Places DEF LinkInv, Orderly
  <2>3. /\ Channel(t, Entry(r))' = Channel(t, Entry(r)) /\ Channel(a, t)' = Channel(a, t)
        /\ Channel(a, "ToSerializer")' = Channel(a, "ToSerializer")
    BY <1>5, <2>2
  <2>4. Unserved(a, r, t)' = Unserved(a, r, t)
    BY <1>1, <2>3 DEF Unserved, Served
  <2> QED
    BY <1>1, <2>1, <2>3, <2>4, SameLink
<1> QED
  BY <1>1, <1>6, <1>7 DEF AllLinks

-----------------------------------------------------------------------------
(* The steps of MsgSerializer.                                               *)

(* The peers are served in turn: when the last one has the message, all do.   *)
LEMMA ServedInTurn ==
    ASSUME NEW k \in 0 .. Len(Peers) - 1, NEW j, j = (k + 1) % Len(Peers), NEW t \in Server
    PROVE  LET p == Peers[k + 1]
               before == \E n \in 1 .. k : Peers[n] = t
               after == \E n \in 1 .. j : Peers[n] = t
           IN  /\ p \in Server /\ j \in 0 .. Len(Peers) - 1
               /\ t = p => ~before
               /\ k + 1 < Len(Peers) => j # 0 /\ (after <=> before \/ t = p)
               /\ ~(k + 1 < Len(Peers)) => j = 0 /\ ~after /\ (before \/ t = p)
<1> DEFINE L == Len(Peers)
<1>1. /\ L \in Nat \ {0} /\ k \in Nat /\ k < L
      /\ \A n \in 1 .. L : Peers[n] \in Server
  BY PeersAreServers
<1>2. /\ \A n, i \in 1 .. L : Peers[n] = Peers[i] => n = i
      /\ \E n \in 1 .. L : Peers[n] = t
  <2>1. Peers \in Seq(Server) /\ IsInjective(Peers) /\ DOMAIN Peers = 1 .. L /\ t \in ToSet(Peers)
    BY PeersAssumption DEF Server
  <2>2. \A n, i \in DOMAIN Peers : Peers[n] = Peers[i] => n = i
    BY <2>1 DEF IsInjective
  <2>3. \E n \in DOMAIN Peers : Peers[n] = t
    BY <2>1 DEF ToSet
  <2> QED
    BY <2>1, <2>2, <2>3
<1>3. j = (k + 1) % L
  OBVIOUS
<1> HIDE DEF L
<1>4. CASE k + 1 < L
  <2>1. j = k + 1
    BY <1>1, <1>3, <1>4
  <2> QED
    BY <1>1, <1>2, <1>4, <2>1 DEF L
<1>5. CASE ~(k + 1 < L)
  <2>1. k + 1 = L
    BY <1>1, <1>5
  <2>2. j = 0
    BY <1>1, <1>3, <2>1
  <2> QED
    BY <1>1, <1>2, <1>5, <2>1, <2>2 DEF L
<1> QED
  BY <1>4, <1>5 DEF L

(* What the serializer leaves in the channels: the head of its own one goes to *)
(* the next peer, and leaves when that is the last one.                      *)
LEMMA SerializerChannels ==
    ASSUME LinkInv, NEW s \in Server, MsgSerializer(s)
    PROVE  LET p == Peers[served[s] + 1]
               c == queue[s]["ToSerializer"]
           IN  \A u \in Server, e \in Dest \ crashed :
                  /\ u = s /\ e = "ToSerializer" =>
                        queue'[u][e] = IF served[s] + 1 < Len(Peers) THEN c ELSE Tail(c)
                  /\ u = s /\ e = p => queue'[u][e] = Append(queue[s][p], Head(c))
                  /\ ~(u = s /\ e \in {"ToSerializer", p}) => queue'[u][e] = queue[u][e]
<1> DEFINE p == Peers[served[s] + 1]
           c == queue[s]["ToSerializer"]
           m == Head(c)
           q == WithoutServed(s)
           x == IF served[s] + 1 < Len(Peers) THEN c ELSE Tail(c)
<1>1. p \in Server /\ p \in Dest /\ p # "ToSerializer" /\ "ToSerializer" \in Dest
  <2>1. served[s] \in 0 .. Len(Peers) - 1
    BY DEF LinkInv, IInv, Counters
  <2>2. Len(Peers) \in Nat \ {0} /\ \A n \in 1 .. Len(Peers) : Peers[n] \in Server
    BY PeersAreServers
  <2>3. served[s] + 1 \in 1 .. Len(Peers)
    BY <2>1, <2>2
  <2>4. p \in Server
    BY <2>2, <2>3
  <2> HIDE DEF p
  <2> QED
    BY <2>4, Places
<1>2. /\ queue \in Queues /\ c # << >> /\ c \in Seq(Msg)
      /\ queue' = IF p \in crashed THEN q ELSE [q EXCEPT ![s][p] = Append(@, m)]
  BY <1>1 DEF LinkInv, IInv, AllFit, Queues, MsgSerializer, SendTo
<1>3. (q = queue /\ x = c) \/ q = [queue EXCEPT ![s]["ToSerializer"] = x]
  BY DEF WithoutServed
<1>4. x \in Seq(Msg)
  BY <1>2
<1> HIDE DEF x, q, m, p
<1>5. /\ q \in Queues
      /\ \A u \in Server, e \in Dest : q[u][e] = IF u = s /\ e = "ToSerializer" THEN x ELSE queue[u][e]
  <2>1. CASE q = queue /\ x = c
    BY <1>2, <2>1
  <2>2. CASE q = [queue EXCEPT ![s]["ToSerializer"] = x]
    <3> DEFINE f == [queue[s] EXCEPT !["ToSerializer"] = x]
    <3>1. q = [queue EXCEPT ![s] = f]
      BY <2>2
    <3>2. /\ f \in [Dest -> Seq(Msg)]
          /\ \A e \in Dest : f[e] = IF e = "ToSerializer" THEN x ELSE queue[s][e]
      BY <1>1, <1>2, <1>4 DEF Queues
    <3> HIDE DEF f
    <3>3. q \in Queues
      BY <1>2, <3>1, <3>2 DEF Queues
    <3>4. \A u \in Server : q[u] = IF u = s THEN f ELSE queue[u]
      BY <1>2, <3>1 DEF Queues
    <3> QED
      BY <3>2, <3>3, <3>4
  <2> QED
    BY <1>3, <2>1, <2>2
<1>6. ASSUME NEW u \in Server, NEW e \in Dest \ crashed
      PROVE  queue'[u][e] = IF u = s /\ e = p THEN Append(q[s][p], m) ELSE q[u][e]
  <2>1. CASE p \in crashed
    BY <1>2, <1>6, <2>1
  <2>2. CASE p \notin crashed
    <3>1. queue' = [q EXCEPT ![s][p] = Append(q[s][p], m)]
      BY <1>2, <2>2
    <3> QED
      BY <1>5, <3>1 DEF Queues
  <2> QED
    BY <2>1, <2>2
<1>7. q[s][p] = queue[s][p]
  BY <1>1, <1>5
<1>8. ASSUME NEW u \in Server, NEW e \in Dest \ crashed
      PROVE  /\ u = s /\ e = "ToSerializer" => queue'[u][e] = x
             /\ u = s /\ e = p => queue'[u][e] = Append(queue[s][p], m)
             /\ ~(u = s /\ e \in {"ToSerializer", p}) => queue'[u][e] = queue[u][e]
  <2>1. q[u][e] = IF u = s /\ e = "ToSerializer" THEN x ELSE queue[u][e]
    BY <1>5
  <2> QED
    BY <1>1, <1>6, <1>7, <2>1
<1> QED
  BY <1>8 DEF x, m, p

(* The serializer gives its message to the next peer.                        *)
LEMMA SerializerLinks ==
    ASSUME LinkInv, NEW s \in Server, MsgSerializer(s)
    PROVE  Orderly' /\ AllLinks'
<1> DEFINE p == Peers[served[s] + 1]
           d == "ToSerializer"
           c == queue[s][d]
           m == Head(c)
           X == Channel(s, d)
           last == ~(served[s] + 1 < Len(Peers))
<1>1. /\ s \in Server \ crashed /\ c # << >>
      /\ UNCHANGED <<out, routed, crashed, issued, handled>>
      /\ served' = [served EXCEPT ![s] = (@ + 1) % Len(Peers)]
  BY DEF MsgSerializer, Runs, Advance
<1>2. /\ served \in [Server -> 0 .. Len(Peers) - 1] /\ c \in Seq(Msg)
      /\ d \in Dest \ crashed /\ crashed \subseteq Server
  BY Places DEF LinkInv, IInv, Counters, AllFit, Orderly
<1>3. ASSUME NEW t \in Server
      PROVE  /\ p \in Server /\ (t = p => ~Served(s, t))
             /\ ~last => served'[s] # 0 /\ (Served(s, t)' <=> Served(s, t) \/ t = p)
             /\ last => served'[s] = 0 /\ ~Served(s, t)' /\ (Served(s, t) \/ t = p)
  <2> DEFINE k == served[s]
             j == served'[s]
  <2>1. k \in 0 .. Len(Peers) - 1 /\ j = (k + 1) % Len(Peers)
    BY <1>1, <1>2
  <2>2. Peers' = Peers
    OBVIOUS
  <2> HIDE DEF k, j
  <2>3. /\ Peers[k + 1] \in Server /\ (t = Peers[k + 1] => ~(\E n \in 1 .. k : Peers[n] = t))
        /\ k + 1 < Len(Peers) =>
              j # 0 /\ ((\E n \in 1 .. j : Peers[n] = t) <=>
                        (\E n \in 1 .. k : Peers[n] = t) \/ t = Peers[k + 1])
        /\ ~(k + 1 < Len(Peers)) =>
              j = 0 /\ ~(\E n \in 1 .. j : Peers[n] = t)
              /\ ((\E n \in 1 .. k : Peers[n] = t) \/ t = Peers[k + 1])
    BY <2>1, ServedInTurn
  <2> QED
    BY <2>3 DEF k, j, Served
<1>4. p \in Server /\ p \in Dest /\ p # d
  BY <1>3, Places
<1>5. m \in Msg /\ m.by # "handler" /\ m.from = s
  <2>1. m \in Fitting(s, d)
    BY <1>1, <1>2, HeadFits DEF LinkInv, IInv
  <2> QED
    BY <2>1, Places DEF Fitting, Sound
<1>6. ASSUME NEW u \in Server, NEW e \in Dest \ crashed
      PROVE  /\ u = s /\ e = d => queue'[u][e] = IF last THEN Tail(c) ELSE c
             /\ u = s /\ e = p => queue'[u][e] = Append(queue[s][p], m)
             /\ ~(u = s /\ e \in {d, p}) => queue'[u][e] = queue[u][e]
  BY SerializerChannels
<1>7. X # << >> /\ Head(X) = m /\ X' = IF last THEN Tail(X) ELSE X
  <2>1. queue'[s][d] = IF last THEN Tail(c) ELSE c
    BY <1>2, <1>6
  <2>2. CASE Blocked(s, d)
    <3> DEFINE b == routed[s].msg
    <3>1. b \in Msg
      BY <2>2 DEF LinkInv, IInv, RoutedFits, Fitting, Sound, Blocked
    <3>2. X = Append(c, b) /\ X' = IF last THEN Append(Tail(c), b) ELSE Append(c, b)
      BY <1>1, <2>1, <2>2 DEF Channel, ChannelOf, Blocked
    <3> HIDE DEF b, c, X
    <3>3. Append(c, b) # << >> /\ Head(Append(c, b)) = Head(c) /\ Tail(Append(c, b)) = Append(Tail(c), b)
      BY <1>1, <1>2, <3>1, HeadTailAppend, AppendProperties
    <3> QED
      BY <3>2, <3>3
  <2>3. CASE ~Blocked(s, d)
    BY <1>1, <2>1, <2>3 DEF Channel, ChannelOf, Blocked
  <2> QED
    BY <2>2, <2>3
<1> HIDE DEF c, m, X, p, last
<1>8. Orderly'
  <2>1. ASSUME NEW u \in Server \ crashed, served'[u] # 0 PROVE queue'[u][d] # << >>
    <3>1. CASE u = s
      BY <1>1, <1>2, <1>3, <1>6, <2>1, <3>1
    <3>2. CASE u # s
      <4>1. queue'[u][d] = queue[u][d] /\ served'[u] = served[u]
        BY <1>1, <1>2, <1>6, <3>2
      <4> QED
        BY <2>1, <4>1 DEF LinkInv, Orderly
    <3> QED
      BY <3>1, <3>2
  <2> QED
    BY <1>1, <2>1 DEF LinkInv, Orderly
<1>9. ASSUME NEW a \in Server, NEW r \in Routine, NEW t \in Server
      PROVE  /\ Unserved(a, r, t)' = IF a = s /\ t = p /\ r # "handler"
                                     THEN Tail(Unserved(a, r, t)) ELSE Unserved(a, r, t)
             /\ a = s /\ t = p /\ r # "handler" => Unserved(a, r, t) = X
  <2>1. CASE a = s
    BY <1>3, <1>7, <2>1 DEF Unserved, X
  <2>2. CASE a # s
    <3>1. queue'[a][d] = queue[a][d] /\ served'[a] = served[a]
      BY <1>1, <1>2, <1>6, <2>2
    <3> QED
      BY <1>1, <2>2, <3>1 DEF Unserved, Served, Channel, ChannelOf, Blocked
  <2> QED
    BY <2>1, <2>2
<1>10. ASSUME NEW a \in Server, NEW r \in Routine, NEW t \in Server \ crashed
       PROVE  LinkHolds(a, r, t)'
  <2> DEFINE P == Mine(a, r, t)
             E == Channel(t, Entry(r))
             C == Channel(a, t)
             U == Unserved(a, r, t)
             O == out[a][r]
             h == handled[a][t][r]
             i == issued[a][t][r]
  <2>1. /\ E \in Seq(Msg) /\ C \in Seq(Msg) /\ (a \notin crashed => U \in Seq(Msg))
        /\ O \in Seq(Msg) /\ h \in Nat /\ i \in Nat /\ queue[a][t] \in Seq(Msg)
    BY Places, LinkTypes DEF LinkInv
  <2>2. LinkHolds(a, r, t)
    BY DEF LinkInv, AllLinks
  <2>3. t \in Dest \ crashed /\ t # d /\ Entry(r) \in Dest \ crashed /\ Entry(r) \notin {d, p}
    BY <1>2, <1>4, Places DEF Entry
  <2>4. Channel(t, Entry(r))' = E
    BY <1>1, <1>6, <2>3 DEF Channel, ChannelOf, Blocked
  <2>5. CASE ~(a = s /\ t = p)
    <3>1. Channel(a, t)' = C
      BY <1>1, <1>6, <2>3, <2>5 DEF Channel, ChannelOf, Blocked
    <3> QED
      BY <1>1, <1>9, <2>2, <2>4, <2>5, <3>1, SameLink
  <2>6. CASE a = s /\ t = p
    <3> DEFINE x == queue[a][t]
               b == routed[a].msg
               u == Unserved(a, r, t)'
               y == Channel(a, t)'
    <3>1. x \in Seq(Msg) /\ y = ChannelOf(queue, a, t)'
      BY <2>1 DEF Channel
    <3>2. IF Blocked(a, t) THEN C = Append(x, b) /\ y = Append(Append(x, m), b)
          ELSE C = x /\ y = Append(x, m)
      <4>1. queue'[a][t] = Append(x, m) /\ (Blocked(a, t)' <=> Blocked(a, t))
        BY <1>1, <1>6, <2>3, <2>6 DEF Blocked
      <4> QED
        BY <1>1, <4>1 DEF Channel, ChannelOf
    <3>3. Blocked(a, t) => b \in Msg /\ b.by = "handler"
      BY <1>4 DEF LinkInv, IInv, Orderly, RoutedFits, Fitting, Sound, Blocked
    <3>4. /\ u = IF r # "handler" THEN Tail(U) ELSE U
          /\ r # "handler" => U # << >> /\ Head(U) = m
      BY <1>7, <1>9, <2>6
    <3>5. /\ Blocked(a, t) /\ r # "handler" => b \notin P
          /\ r = "handler" => m \notin P
      BY <1>5, <3>3 DEF Mine
    <3>6. LinkUp(P, E, C, U, O, h, i) /\ LinkHolds(a, r, t)' = LinkUp(P, E, y, u, O, h, i)
      BY <1>1, <2>2, <2>4, <2>6 DEF LinkHolds, Mine, Entry
    <3> HIDE DEF P, E, C, U, O, h, i, x, b, u, y
    <3>7. CASE Blocked(a, t)
      <4>1. /\ b \notin P /\ U # << >> => LinkUp(P, E, Append(Append(x, Head(U)), b), Tail(U), O, h, i)
            /\ \A n \in Msg \ P : LinkUp(P, E, Append(Append(x, n), b), U, O, h, i)
        <5>1. LinkUp(P, E, Append(x, b), U, O, h, i) /\ b \in Msg /\ U \in Seq(Msg)
          BY <1>1, <2>1, <2>6, <3>2, <3>3, <3>6, <3>7
        <5> QED
          BY <2>1, <3>1, <5>1, LinkOvertakes, Numbers
      <4> QED
        BY <1>5, <3>2, <3>4, <3>5, <3>6, <3>7, <4>1
    <3>8. CASE ~Blocked(a, t)
      <4>1. U \in Seq(Msg) /\ C = x /\ y = Append(C, m)
        BY <1>1, <2>1, <2>6, <3>2, <3>8
      <4>2. CASE r # "handler"
        <5>1. LinkUp(P, E, Append(C, Head(U)), Tail(U), O, h, i)
          BY <2>1, <3>4, <3>6, <4>1, <4>2, LinkMoves, Numbers
        <5> QED
          BY <3>4, <3>6, <4>1, <4>2, <5>1
      <4>3. CASE r = "handler"
        <5>1. LinkUp(P, E, Append(C, m), U, O, h, i)
          BY <1>5, <2>1, <3>5, <3>6, <4>1, <4>3, LinkPasses, Numbers
        <5> QED
          BY <3>4, <3>6, <4>1, <4>3, <5>1
      <4> QED
        BY <4>2, <4>3
    <3> QED
      BY <3>7, <3>8
  <2> QED
    BY <2>5, <2>6
<1> QED
  BY <1>1, <1>8, <1>10 DEF AllLinks

-----------------------------------------------------------------------------
(* Crashes.                                                                  *)

(* A crash leaves of the links from s what was on the connections.            *)
LEMMA CrashLinks ==
    ASSUME LinkInv, NEW s \in Server, Crash(s)
    PROVE  Orderly' /\ AllLinks'
<1>1. /\ s \notin crashed /\ crashed' = crashed \cup {s} /\ crashed \subseteq Server
      /\ UNCHANGED <<routed, served, issued, handled>>
      /\ out' = [out EXCEPT ![s] = [r \in Routine |-> << >>]]
  BY DEF Crash, LinkInv, Orderly
<1>2. PICK kept \in [Server -> 0 .. LenChannel] :
        /\ \A t \in Server : kept[t] <= Len(queue[s][t])
        /\ queue' = [t \in Server |-> [d \in Dest |->
              IF t # s THEN IF d = s THEN << >> ELSE queue[t][d]
              ELSE IF d \in Server \ {s} THEN SubSeq(queue[s][d], 1, kept[d])
              ELSE << >>]]
  BY DEF Crash
<1>3. ASSUME NEW u \in Server, NEW e \in Dest, e # s
      PROVE  /\ u # s => queue'[u][e] = queue[u][e]
             /\ u = s /\ e \in Server => queue'[u][e] = SubSeq(queue[s][e], 1, kept[e])
  BY <1>2, <1>3
<1>4. ASSUME NEW u \in Server, NEW e \in Dest, e # s, u # s PROVE Channel(u, e)' = Channel(u, e)
  <2>1. queue'[u][e] = queue[u][e] /\ (Blocked(u, e)' <=> Blocked(u, e))
    BY <1>1, <1>3, <1>4 DEF Blocked
  <2> QED
    BY <1>1, <2>1 DEF Channel, ChannelOf
<1>5. Orderly'
  <2>1. ASSUME NEW u \in Server \ crashed', served[u] # 0 PROVE queue'[u]["ToSerializer"] # << >>
    <3>1. u # s /\ u \notin crashed /\ "ToSerializer" \in Dest /\ "ToSerializer" # s
      BY <1>1, Places
    <3>2. queue'[u]["ToSerializer"] = queue[u]["ToSerializer"]
      BY <1>3, <3>1
    <3> QED
      BY <2>1, <3>1, <3>2 DEF LinkInv, Orderly
  <2> QED
    BY <1>1, <2>1 DEF LinkInv, Orderly
<1>6. ASSUME NEW a \in Server, NEW r \in Routine, NEW t \in Server \ crashed'
      PROVE  LinkHolds(a, r, t)'
  <2>1. /\ LinkHolds(a, r, t) /\ t \in Server \ crashed /\ t # s
    BY <1>1 DEF LinkInv, AllLinks
  <2>2. /\ Entry(r) \in Dest /\ Entry(r) # s /\ t \in Dest
        /\ "ToSerializer" \in Dest /\ "ToSerializer" # s
    BY Places
  <2>3. Channel(t, Entry(r))' = Channel(t, Entry(r))
    BY <1>4, <2>1, <2>2
  <2>4. CASE a # s
    <3>1. Channel(a, t)' = Channel(a, t) /\ Channel(a, "ToSerializer")' = Channel(a, "ToSerializer")
      BY <1>4, <2>1, <2>2, <2>4
    <3>2. Unserved(a, r, t)' = Unserved(a, r, t)
      BY <1>1, <3>1 DEF Unserved, Served
    <3>3. out'[a][r] = out[a][r] /\ (a \in crashed) = (a \in crashed')
      BY <1>1, <2>4 DEF LinkInv, IInv, AllOwn
    <3> QED
      BY <1>1, <2>1, <2>3, <3>1, <3>2, <3>3, SameLink
  <2>5. CASE a = s
    <3> DEFINE P == Mine(a, r, t)
               E == Channel(t, Entry(r))
               C == queue[a][t]
               U == Unserved(a, r, t)
               O == out[a][r]
               h == handled[a][t][r]
               i == issued[a][t][r]
               k == kept[t]
               b == routed[a].msg
    <3>1. LinkUp(P, E, Channel(a, t), U, O, h, i)
      BY <1>1, <2>1, <2>5 DEF LinkHolds
    <3>2. C \in Seq(Msg) /\ h \in Nat /\ i \in Nat /\ (Blocked(a, t) => b \in Msg)
      BY <2>2, LinkTypes DEF LinkInv
    <3>3. k \in 0 .. Len(C)
      <4>1. k \in 0 .. LenChannel /\ k <= Len(C)
        BY <1>2, <2>1, <2>5
      <4>2. Len(C) \in Nat
        BY <3>2
      <4> HIDE DEF k, C
      <4> QED
        BY <4>1, <4>2, LengthAssumption
    <3>4. Channel(a, t) = IF Blocked(a, t) THEN Append(C, b) ELSE C
      BY DEF Channel, ChannelOf
    <3>5. LinkHolds(a, r, t)' = LinkDown(P, E, SubSeq(C, 1, k), h, i)
      <4>1. Channel(a, t)' = SubSeq(C, 1, k)
        <5>1. queue'[a][t] = SubSeq(C, 1, k)
          BY <1>3, <2>1, <2>2, <2>5
        <5>2. ~Blocked(a, t)'
          BY <1>1, <2>5 DEF Blocked
        <5> QED
          BY <5>1, <5>2 DEF Channel, ChannelOf
      <4> QED
        BY <1>1, <2>3, <2>5, <4>1 DEF LinkHolds, Mine, Entry
    <3> HIDE DEF P, E, C, U, O, h, i, k, b
    <3>6. LinkUp(P, E, C, U, O, h, i) \/ \E n \in Msg : LinkUp(P, E, Append(C, n), U, O, h, i)
      BY <3>1, <3>2, <3>4
    <3>7. LinkDown(P, E, SubSeq(C, 1, k), h, i)
      BY <3>2, <3>3, <3>6, LinkCrashes, Numbers
    <3> QED
      BY <3>5, <3>7
  <2> QED
    BY <2>4, <2>5
<1> QED
  BY <1>1, <1>5, <1>6 DEF AllLinks

-----------------------------------------------------------------------------
(* All steps.                                                                *)

LEMMA InitLinks == Init => LinkInv
<1> SUFFICES ASSUME Init PROVE LinkInv
  OBVIOUS
<1>1. IInv
  BY InitHolds
<1>2. handled \in Counts
  BY DEF Init, Links!Init, Links!NoneYet, Counts
<1>3. Orderly
  <2>1. \A s, t \in Server, r \in {"proxy", "executor"} : issued[s][t][r] = issued[s][s][r]
    BY DEF Init, Links!Init, Links!NoneYet, Routine
  <2> QED
    BY <1>2, <2>1 DEF Init, Orderly, Counts
<1>4. ASSUME NEW a \in Server, NEW r \in Routine, NEW t \in Server PROVE LinkHolds(a, r, t)
  <2>1. \A s \in Server, d \in Dest : Channel(s, d) = << >>
    BY DEF Init, Channel, ChannelOf, Blocked
  <2>2. Channel(t, Entry(r)) = << >> /\ Channel(a, t) = << >> /\ Unserved(a, r, t) = << >>
    <3>1. Entry(r) \in Dest /\ t \in Dest /\ "ToSerializer" \in Dest
      BY Places
    <3>2. ~Served(a, t)
      BY DEF Init, Served
    <3> QED
      BY <2>1, <3>1, <3>2 DEF Unserved
  <2>3. a \notin crashed /\ out[a][r] = << >> /\ handled[a][t][r] = 0 /\ issued[a][t][r] = 0
    BY DEF Init, Links!Init, Links!NoneYet
  <2>4. Carries(Mine(a, r, t), << >>, 0, 0)
    BY CarriesNone
  <2>5. LinkUp(Mine(a, r, t), << >>, << >>, << >>, << >>, 0, 0)
    BY <2>4 DEF LinkUp
  <2> QED
    BY <2>2, <2>3, <2>5 DEF LinkHolds
<1> QED
  BY <1>1, <1>3, <1>4 DEF LinkInv, AllLinks

LEMMA StepLinks == LinkInv /\ [Next]_vars => LinkInv'
<1> SUFFICES ASSUME LinkInv, [Next]_vars PROVE LinkInv'
  OBVIOUS
<1>1. IInv'
  BY StepHolds DEF LinkInv
<1>2. ASSUME NEW s \in Server, StartServer(s) \/ DialNext(s) \/ \E t \in Server : Accept(s, t)
      PROVE  Orderly' /\ AllLinks'
  BY <1>2, QuietStep DEF StartServer, DialNext, Accept
<1>3. ASSUME NEW s \in Server, Submit(s) PROVE Orderly' /\ AllLinks'
  <2>1. /\ s \in Server \ crashed /\ Broadcast("ClientRequest", s, "proxy", 0)
        /\ UNCHANGED <<routed, queue, served, crashed, handled>>
    BY <1>3 DEF Submit, Runs
  <2> QED
    BY <2>1, BroadcastLinks
<1>4. ASSUME NEW s \in Server, Ask(s) PROVE Orderly' /\ AllLinks'
  <2>1. /\ s \in Server \ crashed /\ Broadcast("ProposalRequest", s, "executor", seq[s] + 1)
        /\ UNCHANGED <<routed, queue, served, crashed, handled>>
    BY <1>4 DEF Ask, Runs
  <2>2. seq[s] + 1 \in Nat
    BY DEF LinkInv, IInv, Counters
  <2> QED
    BY <2>1, <2>2, BroadcastLinks
<1>5. ASSUME NEW s \in Server, TakeReply(s) \/ Handle(s) PROVE Orderly' /\ AllLinks'
  BY <1>5, TakeReplyLinks, HandleLinks
<1>6. ASSUME NEW s \in Server, MsgRouter(s) PROVE Orderly' /\ AllLinks'
  BY <1>6, RouteOutLinks, RouteInLinks, UnblockLinks DEF MsgRouter
<1>7. ASSUME NEW s \in Server, MsgSerializer(s) \/ Crash(s) PROVE Orderly' /\ AllLinks'
  BY <1>7, SerializerLinks, CrashLinks
<1>8. CASE UNCHANGED vars
  <2>1. UNCHANGED <<out, routed, queue, served, crashed, issued, handled>>
    BY <1>8 DEF vars
  <2> QED
    BY <1>1, <2>1, QuietStep DEF LinkInv
<1> QED
  BY <1>1, <1>2, <1>3, <1>4, <1>5, <1>6, <1>7, <1>8 DEF Next, Routines, LinkInv

-----------------------------------------------------------------------------
(* Every step is one of the links.                                           *)
LEMMA BroadcastSends ==
    ASSUME NEW s \in Server, NEW r, NEW ty, NEW k, Broadcast(ty, s, r, k), UNCHANGED handled
    PROVE  Links!Send(s, r)
<1>1. Server \in (SUBSET Server) \ {{}}
  <2>1. Server # {}
    OBVIOUS
  <2> QED
    BY <2>1
<1>2. [t \in Server |-> [issued[s][t] EXCEPT ![r] = @ + 1]] =
      [t \in Server |-> IF t \in Server THEN [issued[s][t] EXCEPT ![r] = @ + 1] ELSE issued[s][t]]
  OBVIOUS
<1>3. issued' = [issued EXCEPT ![s] = [t \in Server |-> IF t \in Server
                     THEN [issued[s][t] EXCEPT ![r] = @ + 1] ELSE issued[s][t]]]
  BY <1>2 DEF Broadcast
<1>4. \E T \in (SUBSET Server) \ {{}} :
        issued' = [issued EXCEPT ![s] = [t \in Server |-> IF t \in T
                     THEN [issued[s][t] EXCEPT ![r] = @ + 1] ELSE issued[s][t]]]
  <2> WITNESS Server \in (SUBSET Server) \ {{}}
  <2> QED
    BY <1>3
<1> QED
  BY <1>4 DEF Links!Send

LEMMA StepSimulates == LinkInv /\ [Next]_vars => [Links!Next]_(Links!vars)
<1> SUFFICES ASSUME LinkInv, [Next]_vars PROVE Links!Next \/ UNCHANGED <<issued, handled>>
  BY DEF Links!vars
<1>1. ASSUME NEW s \in Server, Submit(s) \/ Ask(s) PROVE Links!Next
  <2>1. \E r \in Routine : Links!Send(s, r)
    BY <1>1, BroadcastSends DEF Submit, Ask, Routine
  <2> QED
    BY <2>1 DEF Links!Next
<1>2. ASSUME NEW s \in Server, NEW d \in {"ToMsgHandler", "ToConExecutor"},
             s \notin crashed, queue[s][d] # << >>, Taken(Head(queue[s][d]), s)
      PROVE  LET m == Head(queue[s][d]) IN
             /\ m.from \in Server /\ m.by \in Routine
             /\ handled[m.from][s][m.by] < issued[m.from][s][m.by]
             /\ handled' = [handled EXCEPT ![m.from][s][m.by] = @ + 1]
  <2> DEFINE m == Head(queue[s][d])
  <2>1. /\ m.from \in Server /\ m.by \in Routine
        /\ m.n = handled[m.from][s][m.by] + 1
        /\ handled[m.from][s][m.by] < issued[m.from][s][m.by]
    BY <1>2, TakenInTurn
  <2>2. handled' = [handled EXCEPT ![m.from][s][m.by] = m.n]
    BY <1>2 DEF Taken
  <2> HIDE DEF m
  <2>3. handled' = [handled EXCEPT ![m.from][s][m.by] = @ + 1]
    BY <2>1, <2>2
  <2> QED
    BY <2>1, <2>3 DEF m
<1>3. ASSUME NEW s \in Server, TakeReply(s) PROVE Links!Next
  <2> DEFINE m == Head(queue[s]["ToConExecutor"])
  <2>1. /\ s \notin crashed /\ queue[s]["ToConExecutor"] # << >> /\ Taken(m, s)
        /\ UNCHANGED issued
    BY <1>3 DEF TakeReply, Runs
  <2>2. /\ m.from \in Server /\ m.by \in Routine
        /\ handled[m.from][s][m.by] < issued[m.from][s][m.by]
        /\ handled' = [handled EXCEPT ![m.from][s][m.by] = @ + 1]
    BY <1>2, <2>1
  <2> HIDE DEF m
  <2>3. Links!Take(m.from, s, m.by)
    BY <2>1, <2>2 DEF Links!Take
  <2> QED
    BY <2>2, <2>3 DEF Links!Next
<1>4. ASSUME NEW s \in Server, Handle(s) PROVE Links!Next
  <2> DEFINE m == Head(queue[s]["ToMsgHandler"])
  <2>1. /\ s \notin crashed /\ queue[s]["ToMsgHandler"] # << >> /\ Taken(m, s)
        /\ \/ UNCHANGED issued
           \/ issued' = [issued EXCEPT ![s][m.from]["handler"] = issued[s][m.from]["handler"] + 1]
    BY <1>4 DEF Handle, Runs
  <2>2. /\ m.from \in Server /\ m.by \in Routine
        /\ handled[m.from][s][m.by] < issued[m.from][s][m.by]
        /\ handled' = [handled EXCEPT ![m.from][s][m.by] = @ + 1]
    BY <1>2, <2>1
  <2> HIDE DEF m
  <2>3. "handler" \in Routine
    BY DEF Routine
  <2>4. Links!Take(m.from, s, m.by) \/ Links!TakeAndSend(m.from, s, m.by)
    <3>1. CASE UNCHANGED issued
      BY <2>2, <3>1 DEF Links!Take
    <3>2. CASE issued' = [issued EXCEPT ![s][m.from]["handler"] = issued[s][m.from]["handler"] + 1]
      <4>1. issued' = [issued EXCEPT ![s][m.from]["handler"] = @ + 1]
        BY <3>2
      <4> QED
        BY <2>2, <2>3, <4>1 DEF Links!TakeAndSend
    <3> QED
      BY <2>1, <3>1, <3>2
  <2> QED
    BY <2>2, <2>4 DEF Links!Next
<1>5. ASSUME NEW s \in Server,
             \/ StartServer(s) \/ DialNext(s) \/ \E t \in Server : Accept(s, t)
             \/ MsgRouter(s) \/ MsgSerializer(s) \/ Crash(s)
      PROVE  UNCHANGED <<issued, handled>>
  BY <1>5 DEF StartServer, DialNext, Accept, MsgRouter, RouteOut, RouteIn, Unblock,
              MsgSerializer, Crash
<1>6. CASE UNCHANGED vars
  BY <1>6 DEF vars
<1> QED
  BY <1>1, <1>3, <1>4, <1>5, <1>6 DEF Next, Routines

(* Between the routines the network layer is a set of FIFO links, for every    *)
(* number of servers, length of the channels, load and number of crashes: no  *)
(* full channel, blocked router or crashed peer loses, repeats or reorders    *)
(* the messages of a link between two servers that are up, nor makes a routine *)
(* take one that was not sent.                                               *)
THEOREM RefinesFifoLinks == Spec => ImplementsFifoLinks
<1>1. Init => LinkInv /\ Links!Init
  BY InitLinks DEF Init
<1>2. LinkInv /\ [Next]_vars => LinkInv'
  BY StepLinks
<1>3. LinkInv /\ [Next]_vars => [Links!Next]_(Links!vars)
  BY StepSimulates
<1> QED
  BY <1>1, <1>2, <1>3, PTL DEF Spec, ImplementsFifoLinks, Links!Spec
==============================================================================
