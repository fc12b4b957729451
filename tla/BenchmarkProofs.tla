--------------------------- MODULE BenchmarkProofs ---------------------------
(***************************************************************************)
(* Proofs about Benchmark, for every set of servers and clients: the two   *)
(* barriers of the controller hold, and the proxy never sends a reply to a *)
(* client that has no channel yet.                                         *)
(***************************************************************************)
EXTENDS Benchmark, TLAPS

Types ==
    /\ spc \in [Server -> {"init", "prologue", "main", "waitProxy", "waitRoutines"} \cup Dead]
    /\ pc \in [Client -> {"init", "wait", "run", "epilogue", "close"} \cup Dead]
    /\ taken \in [Client -> Nat] /\ turn \in Nat

(* What the controller knows: those it has registered are ready, all are once *)
(* it has left connect, and a client is past its wait only after that.  Only   *)
(* a signal closes Done of a client that waits.                              *)
Admitted ==
    /\ \A p \in registered : p \in Server \cup Client /\ Ready(p)
    /\ cpc # "connect" => AllConnected(registered)
    /\ \A c \in Client : pc[c] \notin {"init", "wait"} => cpc # "connect"
    /\ \A c \in Client : pc[c] \in {"init", "wait"} /\ c \in done => c \in signalled

(* The clients whose reply it has are gone, and it stops servers only when it  *)
(* has the replies of all.                                                   *)
Ended ==
    /\ cpc = "wait" => \A n \in 1 .. turn : n <= Len(Clients) => pc[Clients[n]] = "exited"
    /\ cpc \in {"stop", "exited"} => \A c \in Client : pc[c] = "exited"
    /\ stopped # {} => cpc \in {"stop", "exited"}

(* A request comes from a RecvHandler, which starts after its SendHandler.    *)
Handlers ==
    /\ handlers \subseteq sendChans /\ holding \subseteq handlers
    /\ \A c \in Client : taken[c] > 0 => c \in sendChans

IInv == Types /\ Admitted /\ Ended /\ Handlers

-----------------------------------------------------------------------------
LEMMA InitHolds == Init => IInv
<1> SUFFICES ASSUME Init PROVE IInv
  OBVIOUS
<1>1. Types
  BY DEF Init, Types
<1>2. Admitted /\ Ended
  BY DEF Init, Admitted, Ended
<1>3. Handlers
  BY DEF Init, Handlers
<1> QED
  BY <1>1, <1>2, <1>3 DEF IInv

(* A step of the processes that the controller does not see, which leaves none *)
(* less ready than before.                                                   *)
LEMMA UnseenStep ==
    ASSUME IInv, Types', Handlers',
           UNCHANGED <<controllerVars, stopped, signalled>>,
           \A s \in Server : spc[s] \notin {"init", "prologue"} => spc'[s] \notin {"init", "prologue"},
           \A c \in Client : pc[c] # "init" => pc'[c] # "init",
           \A c \in Client : pc[c] \in {"init", "wait"} /\ pc'[c] \notin {"init", "wait"} => cpc # "connect",
           \A c \in Client : pc'[c] \in {"init", "wait"} /\ c \in done' =>
                pc[c] \in {"init", "wait"} /\ c \in done,
           \A c \in Client : pc[c] = "exited" => pc'[c] = "exited"
    PROVE  IInv'
<1>1. UNCHANGED <<cpc, registered, turn, stopped, signalled>>
  BY DEF controllerVars
<1>2. \A p \in registered : p \in Server \cup Client /\ Ready(p)'
  BY DEF IInv, Admitted, Ready
<1>3. Admitted'
  BY <1>1, <1>2 DEF IInv, Admitted, AllConnected
<1>4. Ended'
  <2>1. ASSUME cpc = "wait", NEW n \in 1 .. turn, n <= Len(Clients)
        PROVE  pc'[Clients[n]] = "exited"
    <3>1. n \in DOMAIN Clients
      BY <2>1, ClientAssumption DEF IInv, Types
    <3>2. Clients[n] \in Client
      BY <3>1 DEF Client, ToSet
    <3> QED
      BY <2>1, <3>2 DEF IInv, Ended
  <2> QED
    BY <1>1, <2>1 DEF IInv, Ended
<1> QED
  BY <1>3, <1>4 DEF IInv

LEMMA ServerStep ==
    ASSUME IInv, NEW s \in Server, RunServer(s) \/ AskForProposal(s)
    PROVE  IInv'
<1> DEFINE L == {"init", "prologue", "main", "waitProxy", "waitRoutines"} \cup Dead
<1>1. UNCHANGED <<timely, controllerVars, stopped, conns, sendChans, handlers, holding>>
  BY DEF RunServer, ServerInit, ServerMain, StopSelf, RoutineReturns, GetReply, CloseProxy,
         CloseNetwork, ServerExit, ServerPanics, AskForProposal, proxyVars
<1>2. UNCHANGED <<clientVars, link, taken, signalled>>
  BY DEF RunServer, ServerInit, ServerMain, StopSelf, RoutineReturns, GetReply, CloseProxy,
         CloseNetwork, ServerExit, ServerPanics, AskForProposal
<1>3. done' \subseteq done \cup {s}
  BY DEF RunServer, ServerInit, ServerMain, StopSelf, Signal, RoutineReturns, GetReply, CloseProxy,
         CloseNetwork, ServerExit, ServerPanics, AskForProposal
<1>4. spc \in [Server -> L]
  BY DEF IInv, Types
<1>5. \/ spc' = spc
      \/ \E l \in L \ {"init"} : spc' = [spc EXCEPT ![s] = l] /\ (l = "prologue" => spc[s] = "init")
  BY DEF RunServer, ServerInit, ServerMain, StopSelf, Signal, RoutineReturns, GetReply, CloseProxy,
         CloseNetwork, ServerExit, MsgToController, ServerPanics, AskForProposal, Dead
<1>6. /\ spc' \in [Server -> L]
      /\ \A t \in Server : spc[t] \notin {"init", "prologue"} => spc'[t] \notin {"init", "prologue"}
  <2>1. CASE spc' = spc
    BY <1>4, <2>1
  <2>2. ASSUME NEW l \in L \ {"init"}, spc' = [spc EXCEPT ![s] = l],
               l = "prologue" => spc[s] = "init"
        PROVE  <1>6!1 /\ <1>6!2
    BY <1>4, <2>2
  <2> QED
    BY <1>5, <2>1, <2>2
<1>7. Types'
  BY <1>1, <1>2, <1>6 DEF IInv, Types, controllerVars, clientVars
<1>8. Handlers'
  BY <1>1, <1>2 DEF IInv, Handlers
<1>9. pc' = pc /\ \A c \in Client : c \in done' => c \in done
  BY <1>2, <1>3, ProcessAssumption DEF clientVars
<1> QED
  BY <1>1, <1>2, <1>6, <1>7, <1>8, <1>9, UnseenStep

LEMMA ProxyStep ==
    ASSUME IInv, NEW c \in Client, ProxyTCP(c)
    PROVE  IInv'
<1>1. UNCHANGED <<controllerVars, serverVars, clientVars, done, signalled>>
  BY DEF ProxyTCP, AcceptClient, StartHandlers, ReadRequest, HandlerReturns, TakeRequest
<1>2. UNCHANGED <<spc, pc, turn, stopped>>
  BY <1>1 DEF controllerVars, serverVars, clientVars
<1>3. taken \in [Client -> Nat]
  BY DEF IInv, Types
<1>4. taken' \in [Client -> Nat] /\ Handlers'
  <2>1. CASE AcceptClient(c)
    BY <1>3, <2>1 DEF IInv, Handlers, AcceptClient
  <2>2. CASE StartHandlers(c)
    BY <1>3, <2>2 DEF IInv, Handlers, StartHandlers
  <2>3. CASE ReadRequest(c)
    BY <1>3, <2>3 DEF IInv, Handlers, ReadRequest
  <2>4. CASE HandlerReturns(c)
    BY <1>3, <2>4 DEF IInv, Handlers, HandlerReturns
  <2>5. CASE TakeRequest(c)
    BY <1>3, <2>5 DEF IInv, Handlers, TakeRequest
  <2> QED
    BY <2>1, <2>2, <2>3, <2>4, <2>5 DEF ProxyTCP
<1>5. Types'
  BY <1>2, <1>4 DEF IInv, Types
<1> QED
  BY <1>1, <1>2, <1>4, <1>5, UnseenStep

LEMMA ClientStep ==
    ASSUME IInv, NEW c \in Client, RunClient(c)
    PROVE  IInv'
<1> DEFINE L == {"init", "wait", "run", "epilogue", "close"} \cup Dead
<1>1. UNCHANGED <<controllerVars, stopped, conns, sendChans, handlers, holding>>
  BY DEF RunClient, Register, Connect, WaitController, SendRequest, TestEnds, Epilogue, Close,
         serverVars, proxyVars
<1>2. UNCHANGED <<spc, turn, taken, signalled>>
  BY DEF RunClient, Register, Connect, WaitController, SendRequest, TestEnds, Epilogue, Close,
         serverVars, controllerVars
<1>3. pc \in [Client -> L]
  BY DEF IInv, Types
<1>4. \/ pc' = pc /\ done' = done
      \/ /\ \E l \in L \ {"init"} :
               /\ pc' = [pc EXCEPT ![c] = l]
               /\ l = "wait" => pc[c] = "init"
               /\ pc[c] = "init" => l = "wait"
               /\ pc[c] = "wait" => cpc # "connect"
         /\ pc[c] # "exited"
         /\ done' = done \/ (pc[c] = "epilogue" /\ done' = done \cup {c})
  <2>1. CASE Register(c)
    BY <2>1 DEF Register, Goto
  <2>2. CASE Connect(c) \/ SendRequest(c)
    BY <2>2 DEF Connect, SendRequest
  <2>3. CASE WaitController(c)
    BY <2>3 DEF WaitController, Goto, Started
  <2>4. CASE TestEnds(c)
    BY <2>4 DEF TestEnds, Goto
  <2>5. CASE Epilogue(c)
    <3>1. PICK l \in {"panic", "close"} : pc' = [pc EXCEPT ![c] = l]
      BY <2>5 DEF Epilogue, Goto
    <3> QED
      BY <2>5, <3>1 DEF Epilogue, Dead
  <2>6. CASE Close(c)
    <3>1. PICK l \in {"panic", "exited"} : pc' = [pc EXCEPT ![c] = l]
      BY <2>6 DEF Close, Goto, MsgToController
    <3> QED
      BY <2>6, <3>1 DEF Close, Dead
  <2> QED
    BY <2>1, <2>2, <2>3, <2>4, <2>5, <2>6 DEF RunClient
<1>5. /\ pc' \in [Client -> L]
      /\ \A d \in Client : pc[d] # "init" => pc'[d] # "init"
      /\ \A d \in Client : pc[d] \in {"init", "wait"} /\ pc'[d] \notin {"init", "wait"} => cpc # "connect"
      /\ \A d \in Client : pc[d] = "exited" => pc'[d] = "exited"
      /\ \A d \in Client : pc'[d] \in {"init", "wait"} => pc[d] \in {"init", "wait"}
  BY <1>3, <1>4
<1>6. ASSUME NEW d \in Client, pc'[d] \in {"init", "wait"}, d \in done'
      PROVE  pc[d] \in {"init", "wait"} /\ d \in done
  BY <1>3, <1>4, <1>5, <1>6
<1>7. Types'
  BY <1>2, <1>5 DEF IInv, Types
<1>8. Handlers'
  BY <1>1, <1>2 DEF IInv, Handlers
<1> QED
  BY <1>1, <1>2, <1>5, <1>6, <1>7, <1>8, UnseenStep

LEMMA ControllerStep ==
    ASSUME IInv, Controller
    PROVE  IInv'
<1>1. UNCHANGED <<spc, pc, taken, sendChans, handlers, holding, done, signalled>>
  BY DEF Controller, AcceptRegistration, StartClient, WaitReply, StopServer, serverVars, proxyVars, clientVars
<1>2. turn \in Nat /\ Len(Clients) \in Nat
  BY ClientAssumption DEF IInv, Types
<1>3. ASSUME NEW c \in Client PROVE \E n \in 1 .. Len(Clients) : Clients[n] = c
  BY ClientAssumption DEF Client, ToSet
<1>4. Handlers'
  BY <1>1 DEF IInv, Handlers
<1>5. \A p \in Server \cup Client : Ready(p)' = Ready(p)
  BY <1>1 DEF Ready
<1>6. ASSUME NEW p \in Server \cup Client, AcceptRegistration(p) PROVE IInv'
  <2>1. /\ cpc = "connect" /\ Ready(p) /\ registered' = registered \cup {p} /\ turn' = turn
        /\ cpc' = IF AllConnected(registered') THEN "start" ELSE "connect"
        /\ stopped' = stopped
    BY <1>6 DEF AcceptRegistration, serverVars
  <2>2. Types'
    BY <1>1, <2>1 DEF IInv, Types
  <2>3. Admitted'
    BY <1>1, <1>5, <2>1 DEF IInv, Admitted, AllConnected
  <2>4. Ended'
    BY <1>1, <2>1 DEF IInv, Ended
  <2> QED
    BY <1>4, <2>2, <2>3, <2>4 DEF IInv
<1>7. CASE StartClient
  <2>1. /\ cpc = "start" /\ UNCHANGED <<registered, stopped>>
        /\ \/ turn' = turn + 1 /\ cpc' = cpc
           \/ turn' = 0 /\ cpc' = "wait"
    BY <1>7 DEF StartClient, NextTurn, serverVars
  <2>2. Types'
    BY <1>1, <1>2, <2>1 DEF IInv, Types
  <2>3. Admitted'
    BY <1>1, <1>5, <2>1 DEF IInv, Admitted
  <2>4. Ended'
    BY <1>1, <2>1 DEF IInv, Ended
  <2> QED
    BY <1>4, <2>2, <2>3, <2>4 DEF IInv
<1>8. CASE WaitReply
  <2>1. /\ cpc = "wait" /\ UNCHANGED <<registered, stopped>>
        /\ \/ cpc' = "panic" /\ turn' = turn
           \/ /\ pc[Clients[turn + 1]] = "exited"
              /\ \/ turn' = turn + 1 /\ cpc' = cpc
                 \/ ~(turn + 1 < Len(Clients)) /\ turn' = 0 /\ cpc' = "stop"
    BY <1>8 DEF WaitReply, NextTurn, serverVars
  <2>2. Types'
    BY <1>1, <1>2, <2>1 DEF IInv, Types
  <2>3. Admitted'
    BY <1>1, <1>5, <2>1 DEF IInv, Admitted
  <2>4. stopped = {}
    BY <2>1 DEF IInv, Ended
  <2>5. \A n \in 1 .. turn : n <= Len(Clients) => pc[Clients[n]] = "exited"
    BY <2>1 DEF IInv, Ended
  <2>6. pc[Clients[turn + 1]] = "exited" =>
            \A n \in 1 .. turn + 1 : n <= Len(Clients) => pc[Clients[n]] = "exited"
    <3> SUFFICES ASSUME pc[Clients[turn + 1]] = "exited", NEW n \in 1 .. turn + 1, n <= Len(Clients)
                 PROVE  pc[Clients[n]] = "exited"
      OBVIOUS
    <3>1. n = turn + 1 \/ n \in 1 .. turn
      BY <1>2
    <3> QED
      BY <2>5, <3>1
  <2>7. ASSUME cpc' = "stop", NEW c \in Client PROVE pc[c] = "exited"
    <3>1. pc[Clients[turn + 1]] = "exited" /\ ~(turn + 1 < Len(Clients))
      BY <2>1, <2>7
    <3>2. PICK n \in 1 .. Len(Clients) : Clients[n] = c
      BY <1>3
    <3>3. n \in 1 .. turn + 1 /\ n <= Len(Clients)
      BY <1>2, <3>1
    <3> QED
      BY <2>6, <3>1, <3>2, <3>3
  <2>8. cpc' = "wait" => \A n \in 1 .. turn' : n <= Len(Clients) => pc[Clients[n]] = "exited"
    BY <2>1, <2>6
  <2>9. Ended'
    BY <1>1, <2>1, <2>4, <2>7, <2>8 DEF Ended
  <2> QED
    BY <1>4, <2>2, <2>3, <2>9 DEF IInv
<1>9. ASSUME NEW s \in Server, StopServer(s) PROVE IInv'
  <2>1. /\ cpc = "stop" /\ UNCHANGED <<registered, turn>> /\ cpc' \in {"stop", "exited"}
    BY <1>9 DEF StopServer
  <2>2. Types'
    BY <1>1, <2>1 DEF IInv, Types
  <2>3. Admitted'
    BY <1>1, <1>5, <2>1 DEF IInv, Admitted
  <2>4. Ended'
    BY <1>1, <2>1 DEF IInv, Ended
  <2> QED
    BY <1>4, <2>2, <2>3, <2>4 DEF IInv
<1> QED
  BY <1>6, <1>7, <1>8, <1>9 DEF Controller

(* The user's signals.  One to a client that waits only closes its Done: a     *)
(* second one would end it.                                                  *)
LEMMA SignalStep ==
    ASSUME IInv, (\E s \in Server : SignalServer(s)) \/ (\E c \in Client : SignalClient(c))
    PROVE  IInv'
<1> DEFINE SL == {"init", "prologue", "main", "waitProxy", "waitRoutines"} \cup Dead
           CL == {"init", "wait", "run", "epilogue", "close"} \cup Dead
<1>1. UNCHANGED <<cpc, registered, turn, stopped, taken, sendChans, handlers, holding>>
  BY DEF SignalServer, SignalClient, controllerVars, serverVars, proxyVars
<1>2. spc \in [Server -> SL] /\ pc \in [Client -> CL] /\ "killed" \in Dead /\ "panic" \in Dead
  BY DEF IInv, Types, Dead
<1>3. Handlers'
  BY <1>1 DEF IInv, Handlers
<1>4. ASSUME NEW s \in Server, SignalServer(s) PROVE IInv'
  <2>1. /\ spc' = spc \/ spc' = [spc EXCEPT ![s] = "killed"]
        /\ UNCHANGED pc /\ signalled \subseteq signalled' /\ done' = done \cup {s}
    BY <1>4 DEF SignalServer, Signal, clientVars
  <2>2. Types'
    BY <1>1, <1>2, <2>1 DEF IInv, Types
  <2>3. ASSUME NEW p \in registered PROVE Ready(p)'
    BY <1>2, <2>1, <2>3 DEF IInv, Admitted, Ready
  <2>4. \A c \in Client : c \in done' => c \in done
    BY <2>1, ProcessAssumption
  <2>5. Admitted'
    BY <1>1, <2>1, <2>3, <2>4 DEF IInv, Admitted
  <2>6. Ended'
    BY <1>1, <2>1 DEF IInv, Ended
  <2> QED
    BY <1>3, <2>2, <2>5, <2>6 DEF IInv
<1>5. ASSUME NEW c \in Client, SignalClient(c) PROVE IInv'
  <2>1. /\ pc[c] \notin {"init"} \cup Dead /\ c \notin signalled /\ signalled' = signalled \cup {c}
        /\ UNCHANGED spc
        /\ \/ c \in done /\ pc' = [pc EXCEPT ![c] = "panic"] /\ done' = done
           \/ pc' = pc /\ done' = done \cup {c}
    BY <1>5 DEF SignalClient, Goto, serverVars
  <2>2. Types'
    BY <1>1, <1>2, <2>1 DEF IInv, Types
  <2>3. ASSUME NEW p \in registered PROVE Ready(p)'
    BY <1>2, <2>1, <2>3 DEF IInv, Admitted, Ready
  <2>4. ASSUME NEW d \in Client, pc'[d] \notin {"init", "wait"} PROVE cpc # "connect"
    <3>1. pc[d] \notin {"init", "wait"}
      BY <1>2, <2>1, <2>4 DEF IInv, Admitted
    <3> QED
      BY <3>1 DEF IInv, Admitted
  <2>5. ASSUME NEW d \in Client, pc'[d] \in {"init", "wait"}, d \in done' PROVE d \in signalled'
    BY <1>2, <2>1, <2>5 DEF IInv, Admitted
  <2>6. Admitted'
    BY <1>1, <2>3, <2>4, <2>5 DEF IInv, Admitted, AllConnected
  <2>7. \A d \in Client : pc[d] = "exited" => pc'[d] = "exited"
    BY <1>2, <2>1 DEF Dead
  <2>8. ASSUME cpc = "wait", NEW n \in 1 .. turn, n <= Len(Clients)
        PROVE  pc'[Clients[n]] = "exited"
    <3>1. n \in DOMAIN Clients
      BY <2>8, ClientAssumption DEF IInv, Types
    <3>2. Clients[n] \in Client
      BY <3>1 DEF Client, ToSet
    <3> QED
      BY <2>7, <2>8, <3>2 DEF IInv, Ended
  <2>9. Ended'
    BY <1>1, <2>7, <2>8 DEF IInv, Ended
  <2> QED
    BY <1>3, <2>2, <2>6, <2>9 DEF IInv
<1> QED
  BY <1>4, <1>5

LEMMA StepHolds == IInv /\ [Next]_vars => IInv'
<1> SUFFICES ASSUME IInv, [Next]_vars PROVE IInv'
  OBVIOUS
<1>1. CASE Next
  <2>1. ASSUME NEW s \in Server, RunServer(s) \/ AskForProposal(s) PROVE IInv'
    BY <2>1, ServerStep
  <2>2. ASSUME NEW c \in Client, RunClient(c) PROVE IInv'
    BY <2>2, ClientStep
  <2>3. ASSUME NEW c \in Client, ProxyTCP(c) PROVE IInv'
    BY <2>3, ProxyStep
  <2> QED
    BY <1>1, <2>1, <2>2, <2>3, ControllerStep, SignalStep DEF Next, Routines
<1>2. CASE UNCHANGED vars
  <2>1. UNCHANGED <<spc, pc, taken, turn, cpc, registered, stopped, done, signalled>>
    BY <1>2 DEF vars, controllerVars, serverVars, clientVars
  <2>2. UNCHANGED <<sendChans, handlers, holding>>
    BY <1>2 DEF vars, proxyVars
  <2>3. Types' /\ Ended' /\ Handlers'
    BY <2>1, <2>2 DEF IInv, Types, Ended, Handlers
  <2>4. Admitted'
    BY <2>1 DEF IInv, Admitted, Ready, AllConnected
  <2> QED
    BY <2>3, <2>4 DEF IInv
<1> QED
  BY <1>1, <1>2

(* The invariant holds of every reachable state, for every set of servers and *)
(* clients.                                                                  *)
THEOREM Invariance == Spec => []IInv
<1>1. Init => IInv
  BY InitHolds
<1>2. IInv /\ [Next]_vars => IInv'
  BY StepHolds
<1> QED
  BY <1>1, <1>2, PTL DEF Spec

-----------------------------------------------------------------------------
(* The controller's barriers: no client starts before all are ready, and no   *)
(* server is stopped before all clients have exited.                         *)
THEOREM BarriersHold == Spec => []Barriers
<1>1. IInv => Barriers
  BY DEF IInv, Admitted, Ended, Barriers, AllConnected
<1> QED
  BY <1>1, Invariance, PTL

(* KVSExecutor's lookup of SendChan, without a lock: a client with a request   *)
(* taken has a channel.                                                      *)
THEOREM NeverSendsOnNilHolds == Spec => []NeverSendsOnNil
<1>1. IInv => NeverSendsOnNil
  BY DEF IInv, Handlers, NeverSendsOnNil
<1> QED
  BY <1>1, Invariance, PTL
==============================================================================
