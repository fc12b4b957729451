------------------------------ MODULE Benchmark ------------------------------
(***************************************************************************)
(* A whole deployment from start to exit: the controller, the processes of *)
(* RunServer and RunClient, and the signals that end them.                 *)
(*                                                                         *)
(* The layers of a server are seen through what its exit depends on: the   *)
(* routines that must see Done, the RecvHandlers of its proxy, which may   *)
(* hold a client's request, and an executor that waits for a proposal      *)
(* reply.  The channels of LenChannel messages never fill up here (see     *)
(* Network for those that do).                                             *)
(***************************************************************************)
EXTENDS Integers, Sequences, SequencesExt, FiniteSets

CONSTANTS
    Server,
    Clients,     \* the clients, in the order of their ids
    ProxyOf,     \* ProxyOf[c]: the server whose proxy c is connected to
    MaxRequests, \* bound on the requests of a client
    MaxSignals   \* bound on the signals the user sends

Client == ToSet(Clients)
(* KVSExecutor and MsgHandler always see Done, and no routine waits for them.  *)
Routine == {"CmdReceiver", "MsgRouter", "MsgSerializer", "Executor"}

ASSUME ClientAssumption == Clients \in Seq(Client) /\ ProxyOf \in [Client -> Server]
ASSUME ProcessAssumption == Server \cap Client = {}
ASSUME BoundAssumption  == MaxRequests \in Nat /\ MaxSignals \in Nat

VARIABLES
    timely,      \* whether the sleeps of the code are long enough, see Settled
    cpc,         \* the controller's next step
    registered,  \* the processes it has accepted
    turn,        \* how many clients its loop has gone through
    spc,         \* spc[s]: the next step of the main routine of server s
    stopped,     \* the servers told to stop by the controller
    interrupted, \* those that have sent themselves SIGINT
    done,        \* the servers and clients whose Done channel is closed
    alive,       \* alive[s]: the routines started by ServerMain that still run
    asks,        \* asks[s]: "no", "awaits" a proposal reply, or "got" it
    conns,       \* the clients in Conns of their proxy's ProxyTCP
    sendChans,   \* those in SendChan
    handlers,    \* those whose RecvHandler runs
    holding,     \* those whose RecvHandler is blocked with a request
    closed,      \* those whose connection the proxy has closed
    pc,          \* pc[c]: the next step of client c
    dialed,      \* the clients that are connected to their proxy's listener
    link,        \* link[c]: how many requests are on the way to the proxy
    sent, taken, \* sent[c], taken[c]: requests of c sent, and taken by CmdReceiver
    signalled    \* the processes that got SIGINT or SIGTERM from the user

controllerVars == <<cpc, registered, turn>>
proxyVars == <<conns, sendChans, handlers, holding, closed>>
serverVars == <<spc, stopped, interrupted, alive, asks>>
clientVars == <<pc, dialed, sent>>
vars == <<timely, controllerVars, serverVars, proxyVars, clientVars, link, taken, done, signalled>>

Init ==
    /\ timely \in BOOLEAN
    /\ cpc = "connect" /\ registered = {} /\ turn = 0
    /\ spc = [s \in Server |-> "init"] /\ stopped = {} /\ interrupted = {} /\ done = {}
    /\ alive = [s \in Server |-> {}] /\ asks = [s \in Server |-> "no"]
    /\ conns = {} /\ sendChans = {} /\ handlers = {} /\ holding = {} /\ closed = {}
    /\ pc = [c \in Client |-> "init"] /\ dialed = {}
    /\ link = [c \in Client |-> 0] /\ sent = [c \in Client |-> 0] /\ taken = [c \in Client |-> 0]
    /\ signalled = {}

-----------------------------------------------------------------------------
(* The controller.                                                           *)

(* connect: servers and clients register in any order, once they are ready.   *)
Ready(p) == IF p \in Server THEN spc[p] \notin {"init", "prologue"} ELSE pc[p] # "init"
AllConnected_Clients(reg) == Client \subseteq reg
AllConnected(reg) == Server \cup Client \subseteq reg

AcceptRegistration(p) ==
    /\ cpc = "connect" /\ p \notin registered /\ Ready(p)
    /\ registered' = registered \cup {p}
    /\ cpc' = IF AllConnected(registered') THEN "start" ELSE "connect"
    /\ UNCHANGED <<timely, turn, serverVars, proxyVars, clientVars, link, taken, done, signalled>>

(* MsgToClients and waitClientReplies go through the clients in order.       *)
NextTurn(last) ==
    IF turn + 1 < Len(Clients) THEN turn' = turn + 1 /\ UNCHANGED cpc
    ELSE turn' = 0 /\ cpc' = last

StartClient ==
    /\ cpc = "start"
    /\ NextTurn("wait")
    /\ UNCHANGED <<timely, registered, serverVars, proxyVars, clientVars, link, taken, done, signalled>>

(* A client that ended without its message is the end of the controller.     *)
WaitReply ==
    /\ cpc = "wait"
    /\ \/ pc[Clients[turn + 1]] = "exited" /\ NextTurn("stop")
       \/ pc[Clients[turn + 1]] = "panic" /\ cpc' = "panic" /\ UNCHANGED turn
    /\ UNCHANGED <<timely, registered, serverVars, proxyVars, clientVars, link, taken, done, signalled>>

(* MsgToServers; that some have exited does not matter.                      *)
StopServer(s) ==
    /\ cpc = "stop" /\ s \notin stopped
    /\ stopped' = stopped \cup {s}
    /\ cpc' = IF stopped' = Server THEN "exited" ELSE "stop"
    /\ UNCHANGED <<timely, registered, turn, spc, interrupted, alive, asks, proxyVars, clientVars, link, taken,
                   done, signalled>>

Controller ==
    \/ \E p \in Server \cup Client : AcceptRegistration(p)
    \/ StartClient \/ WaitReply \/ \E s \in Server : StopServer(s)

Started(c) ==
    \/ cpc \notin {"connect", "start"}
    \/ cpc = "start" /\ \E i \in 1 .. turn : Clients[i] = c

(* The last message of a process to the controller, which sleeps for another   *)
(* ten seconds before it exits: if it is gone, the process may panic.        *)
MsgToController(label) ==
    IF cpc = "panic" \/ (cpc = "exited" /\ ~timely) THEN {label, "panic"} ELSE {label}

-----------------------------------------------------------------------------
(* RunServer.                                                                *)

(* ServerInit allocates the listeners.                                       *)
ServerInit(s) ==
    /\ spc[s] = "init"
    /\ spc' = [spc EXCEPT ![s] = "prologue"]
    /\ UNCHANGED <<timely, controllerVars, stopped, interrupted, alive, asks, proxyVars, clientVars, link, taken,
                   done, signalled>>

(* Prologue ends when the network layers of all servers are connected, and     *)
(* ServerMain follows the message to the controller.                         *)
ServerMain(s) ==
    /\ spc[s] = "prologue" /\ \A t \in Server : spc[t] # "init"
    /\ spc' = [spc EXCEPT ![s] = "main"]
    /\ alive' = [alive EXCEPT ![s] = Routine]
    /\ UNCHANGED <<timely, controllerVars, stopped, interrupted, asks, proxyVars, clientVars, link, taken,
                   done, signalled>>

Dead == {"exited", "killed", "panic"}

(* SigListen closes Done at the first signal; a second one ends the process.  *)
Signal(s) ==
    /\ done' = done \cup {s}
    /\ spc' = IF s \in done THEN [spc EXCEPT ![s] = "killed"] ELSE spc

(* The goroutine of RunServer that waits for the controller.  When the        *)
(* controller died, its read fails and it panics.                            *)
Settled == \A s \in Server : asks[s] # "awaits"
StopSelf(s) ==
    /\ spc[s] \notin {"init", "prologue"} \cup Dead
    /\ \/ /\ s \in stopped \ interrupted /\ (timely => Settled)
          /\ Signal(s)
          /\ interrupted' = interrupted \cup {s}
       \/ /\ cpc = "panic" /\ s \notin stopped
          /\ spc' = [spc EXCEPT ![s] = "panic"]
          /\ UNCHANGED <<done, interrupted>>
    /\ UNCHANGED <<timely, controllerVars, stopped, alive, asks, proxyVars, clientVars, link, taken,
                   signalled>>

(* A routine returns once it sees Done.  MsgSerializer waits for MsgRouter to  *)
(* close its channel; an executor that awaits a reply listens to nothing else.*)
RoutineReturns_SerializerLast(s, r) ==
    /\ spc[s] \notin Dead /\ s \in done /\ r \in alive[s]
    /\ r = "MsgSerializer" => alive[s] = {r}
    /\ r = "MsgRouter" => "MsgSerializer" \notin alive[s]
    /\ r = "Executor" => asks[s] # "awaits"
    /\ alive' = [alive EXCEPT ![s] = @ \ {r}]
    /\ UNCHANGED <<timely, controllerVars, spc, stopped, interrupted, asks, proxyVars, clientVars, link, taken,
                   done, signalled>>

RoutineReturns(s, r) ==
    /\ spc[s] \notin Dead /\ s \in done /\ r \in alive[s]
    /\ r = "MsgSerializer" => "MsgRouter" \notin alive[s]
    /\ r = "Executor" => asks[s] # "awaits"
    /\ alive' = [alive EXCEPT ![s] = @ \ {r}]
    /\ UNCHANGED <<timely, controllerVars, spc, stopped, interrupted, asks, proxyVars, clientVars, link, taken,
                   done, signalled>>

(* requestProposalAndWait: at most one per server here.                      *)
AskForProposal(s) ==
    /\ "Executor" \in alive[s] /\ spc[s] \notin Dead /\ asks[s] = "no"
    /\ \E c \in Client : taken[c] > 0
    /\ timely => done = {}
    /\ asks' = [asks EXCEPT ![s] = "awaits"]
    /\ UNCHANGED <<timely, controllerVars, spc, stopped, interrupted, alive, proxyVars, clientVars, link, taken,
                   done, signalled>>

(* The reply takes a handler of another server and the routers of both.      *)
Routes(s) == spc[s] \in {"main", "waitProxy"} /\ "MsgRouter" \in alive[s]
GetReply(s) ==
    /\ asks[s] = "awaits" /\ Routes(s)
    /\ \E t \in Server \ {s} : Routes(t)
    /\ asks' = [asks EXCEPT ![s] = "got"]
    /\ UNCHANGED <<timely, controllerVars, spc, stopped, interrupted, alive, proxyVars, clientVars, link, taken,
                   done, signalled>>

(* Epilogue: Proxy.Epilogue closes the connections it has and waits for the   *)
(* RecvHandlers, then Network.Epilogue closes its own, then all routines end. *)
ConnsOf(s) == {c \in conns : ProxyOf[c] = s}
CloseProxy(s) ==
    /\ spc[s] = "main" /\ s \in done
    /\ closed' = closed \cup ConnsOf(s)
    /\ spc' = [spc EXCEPT ![s] = "waitProxy"]
    /\ UNCHANGED <<timely, controllerVars, stopped, interrupted, alive, asks, conns, sendChans, handlers,
                   holding, clientVars, link, taken, done, signalled>>

CloseNetwork(s) ==
    /\ spc[s] = "waitProxy" /\ ConnsOf(s) \cap handlers = {}
    /\ spc' = [spc EXCEPT ![s] = "waitRoutines"]
    /\ UNCHANGED <<timely, controllerVars, stopped, interrupted, alive, asks, proxyVars, clientVars, link, taken,
                   done, signalled>>

ServerExit(s) ==
    /\ spc[s] = "waitRoutines" /\ alive[s] = {}
    /\ \E label \in MsgToController("exited") : spc' = [spc EXCEPT ![s] = label]
    /\ UNCHANGED <<timely, controllerVars, stopped, interrupted, alive, asks, proxyVars, clientVars, link, taken,
                   done, signalled>>

(* connect panics on a client whose first message it cannot read: one that    *)
(* died right after it had dialed.                                           *)
Listens(s) == spc[s] \in {"prologue", "main", "waitProxy"}
ServerPanics(s) ==
    /\ Listens(s) /\ ConnsOf(s) \subseteq sendChans
    /\ \E c \in dialed \ conns : ProxyOf[c] = s /\ pc[c] \in Dead
    /\ spc' = [spc EXCEPT ![s] = "panic"]
    /\ UNCHANGED <<timely, controllerVars, stopped, interrupted, alive, asks, proxyVars, clientVars, link, taken,
                   done, signalled>>

RunServer(s) ==
    \/ ServerInit(s) \/ ServerMain(s) \/ StopSelf(s)
    \/ \E r \in Routine : RoutineReturns(s, r)
    \/ GetReply(s) \/ CloseProxy(s) \/ CloseNetwork(s) \/ ServerExit(s) \/ ServerPanics(s)

-----------------------------------------------------------------------------
(* ProxyTCP: connect accepts one client after the other, the last ones perhaps *)
(* when Close has already gone through Conns and before it ends.             *)
AcceptClient_HandlersFirst(c) ==
    /\ Listens(ProxyOf[c]) /\ c \in dialed \ conns
    /\ ConnsOf(ProxyOf[c]) \subseteq sendChans
    /\ conns' = conns \cup {c}
    /\ handlers' = handlers \cup {c}
    /\ UNCHANGED <<timely, controllerVars, serverVars, sendChans, holding, closed, clientVars,
                   link, taken, done, signalled>>

AcceptClient(c) ==
    /\ Listens(ProxyOf[c]) /\ c \in dialed \ conns
    /\ ConnsOf(ProxyOf[c]) \subseteq sendChans
    /\ conns' = conns \cup {c}
    /\ UNCHANGED <<timely, controllerVars, serverVars, sendChans, handlers, holding, closed,
                   clientVars, link, taken, done, signalled>>

StartHandlers(c) ==
    /\ spc[ProxyOf[c]] \notin Dead /\ c \in conns \ sendChans
    /\ sendChans' = sendChans \cup {c}
    /\ handlers' = handlers \cup {c}
    /\ UNCHANGED <<timely, controllerVars, serverVars, conns, holding, closed, clientVars, link,
                   taken, done, signalled>>

(* RecvHandler: it reads a request, which may have been in its buffer when the *)
(* connection was closed, and sends it on a channel without a buffer.        *)
ReadRequest(c) ==
    /\ spc[ProxyOf[c]] \notin Dead /\ c \in handlers \ holding
    /\ link[c] > 0
    /\ link' = [link EXCEPT ![c] = @ - 1]
    /\ holding' = holding \cup {c}
    /\ UNCHANGED <<timely, controllerVars, serverVars, conns, sendChans, handlers, closed,
                   clientVars, taken, done, signalled>>

HandlerReturns(c) ==
    /\ spc[ProxyOf[c]] \notin Dead /\ c \in handlers \ holding
    /\ c \in closed \/ pc[c] \in Dead
    /\ handlers' = handlers \ {c}
    /\ UNCHANGED <<timely, controllerVars, serverVars, conns, sendChans, holding, closed,
                   clientVars, link, taken, done, signalled>>

(* CmdReceiver, which may also see Done instead.                             *)
TakeRequest(c) ==
    /\ spc[ProxyOf[c]] \notin Dead /\ c \in holding /\ "CmdReceiver" \in alive[ProxyOf[c]]
    /\ holding' = holding \ {c}
    /\ taken' = [taken EXCEPT ![c] = @ + 1]
    /\ UNCHANGED <<timely, controllerVars, serverVars, conns, sendChans, handlers, closed,
                   clientVars, link, done, signalled>>

ProxyTCP(c) ==
    \/ AcceptClient(c) \/ StartHandlers(c) \/ ReadRequest(c) \/ HandlerReturns(c) \/ TakeRequest(c)

-----------------------------------------------------------------------------
(* RunClient.                                                                *)
Goto(c, label) == pc' = [pc EXCEPT ![c] = label]

(* Prologue starts the connection in the background; then the message to the   *)
(* controller.                                                               *)
Register(c) ==
    /\ pc[c] = "init" /\ Goto(c, "wait")
    /\ UNCHANGED <<timely, controllerVars, serverVars, proxyVars, dialed, sent, link, taken, done, signalled>>

Connect(c) ==
    /\ pc[c] \notin {"init"} \cup Dead /\ c \notin dialed
    /\ spc[ProxyOf[c]] \in {"prologue", "main"}
    /\ dialed' = dialed \cup {c}
    /\ UNCHANGED <<timely, controllerVars, serverVars, proxyVars, pc, sent, link, taken, done, signalled>>

WaitController(c) ==
    /\ pc[c] = "wait" /\ Started(c) /\ Goto(c, "run")
    /\ UNCHANGED <<timely, controllerVars, serverVars, proxyVars, dialed, sent, link, taken, done, signalled>>

(* OpenLoopClient, which does not listen to Done; what it sends waits for the  *)
(* connection.                                                               *)
SendRequest(c) ==
    /\ pc[c] = "run" /\ sent[c] < MaxRequests
    /\ sent' = [sent EXCEPT ![c] = @ + 1]
    /\ link' = IF c \in closed THEN link ELSE [link EXCEPT ![c] = @ + 1]
    /\ UNCHANGED <<timely, controllerVars, serverVars, proxyVars, pc, dialed, taken, done, signalled>>

(* The test and its 20 seconds for requests in flight are over.              *)
TestEnds(c) ==
    /\ pc[c] = "run"
    /\ timely => sent[c] > 0 /\ taken[c] = sent[c]
    /\ Goto(c, "epilogue")
    /\ UNCHANGED <<timely, controllerVars, serverVars, proxyVars, dialed, sent, link, taken, done, signalled>>

(* Epilogue closes Done, which SigListen may have closed before, and writeToLog*)
(* divides by the number of requests.                                        *)
Epilogue(c) ==
    /\ pc[c] = "epilogue"
    /\ Goto(c, IF c \in done \/ sent[c] = 0 THEN "panic" ELSE "close")
    /\ done' = done \cup {c}
    /\ UNCHANGED <<timely, controllerVars, serverVars, proxyVars, dialed, sent, link, taken, signalled>>

(* TCP.Close needs a connection.                                             *)
Close(c) ==
    /\ pc[c] = "close"
    /\ \E label \in MsgToController("exited") : Goto(c, IF c \in dialed THEN label ELSE "panic")
    /\ UNCHANGED <<timely, controllerVars, serverVars, proxyVars, dialed, sent, link, taken, done, signalled>>

RunClient(c) ==
    \/ Register(c) \/ Connect(c) \/ WaitController(c)
    \/ SendRequest(c) \/ TestEnds(c) \/ Epilogue(c) \/ Close(c)

-----------------------------------------------------------------------------
(* The user presses ctrl+c; not when all is timely.                          *)
SignalServer(s) ==
    /\ ~timely /\ Cardinality(signalled) < MaxSignals
    /\ spc[s] \notin {"init"} \cup Dead /\ s \notin signalled
    /\ Signal(s)
    /\ signalled' = signalled \cup {s}
    /\ UNCHANGED <<timely, controllerVars, stopped, interrupted, alive, asks, proxyVars, clientVars, link, taken>>

SignalClient(c) ==
    /\ ~timely /\ Cardinality(signalled) < MaxSignals
    /\ pc[c] \notin {"init"} \cup Dead /\ c \notin signalled
    /\ IF c \in done THEN Goto(c, "panic") /\ UNCHANGED done
       ELSE done' = done \cup {c} /\ UNCHANGED pc
    /\ signalled' = signalled \cup {c}
    /\ UNCHANGED <<timely, controllerVars, serverVars, proxyVars, dialed, sent, link, taken>>

Routines ==
    \/ Controller
    \/ \E s \in Server : RunServer(s)
    \/ \E c \in Client : RunClient(c) \/ ProxyTCP(c)

Next ==
    \/ Routines
    \/ \E s \in Server : AskForProposal(s) \/ SignalServer(s)
    \/ \E c \in Client : SignalClient(c)

Spec == Init /\ [][Next]_vars

(* Every process and routine that can take a step does so in the end.  Every  *)
(* step is one towards the end, so it is enough to ask for some step.        *)
FairSpec == Spec /\ WF_vars(Routines)

-----------------------------------------------------------------------------
(* Properties.                                                               *)

(* The controller's two barriers: no client starts its test before every      *)
(* process is ready and every proxy accepts connections, and no server is     *)
(* told to stop before every client has closed its connection.               *)
Barriers ==
    /\ \A c \in Client : pc[c] \notin {"init", "wait"} =>
          \A p \in Server \cup Client : p \in registered /\ Ready(p)
    /\ stopped # {} => \A c \in Client : pc[c] = "exited"

(* KVSExecutor sends to SendChan[cid] if Conns[cid] is set, without a lock: a  *)
(* client it may have a reply for, one whose request was taken, is in SendChan*)
(* by then, or it would send on a nil channel for ever.                      *)
NeverSendsOnNil ==
    \A c \in Client : taken[c] > 0 /\ c \in conns => c \in sendChans

(* A server whose Done is closed exits, whoever closed it and when, except    *)
(* when a RecvHandler holds a request that CmdReceiver will not take any more,*)
(* or the executor awaits a reply that may never come.  A connection stored   *)
(* too late for Close holds it no longer than its client runs.               *)
ExitBlocked(s) ==
    \/ "CmdReceiver" \notin alive[s] /\ \E c \in holding : ProxyOf[c] = s
    \/ asks[s] = "awaits"
ServersExit ==
    <>[](\A s \in Server : s \in done => spc[s] \in Dead \/ ExitBlocked(s))

(* When the sleeps are long enough and nobody presses ctrl+c, all processes   *)
(* exit in the end, without a panic.                                         *)
OrderlyExit ==
    timely ~> (/\ cpc = "exited"
               /\ \A s \in Server : spc[s] = "exited"
               /\ \A c \in Client : pc[c] = "exited")
=============================================================================
