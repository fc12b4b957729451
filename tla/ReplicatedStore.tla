-------------------------- MODULE ReplicatedStore --------------------------
(***************************************************************************)
(* The proxies of all servers over the consensus layer: CmdReceiver        *)
(* batches the requests of its clients into consensus objects, the         *)
(* consensus layer puts the objects of all proxies in one log, and         *)
(* KVSExecutor executes the log and answers the clients of its proxy.      *)
(*                                                                         *)
(* The consensus layer is what module TotalOrder promises, with the Null   *)
(* slots between the objects that KVSExecutor has to skip.                 *)
(***************************************************************************)
EXTENDS KeyValue, FiniteSets

CONSTANTS
    Server,
    ProxyOf,        \* ProxyOf[c]: the server whose proxy c is connected to
    ProxyBatchSize, \* Conf.ProxyBatchSize
    StorageModes,   \* the values of Conf.StorageMode: 0 dictionary, 1 GET and SET,
                    \* 2 MGET and MSET
    MaxNull,        \* bound on the slots decided to Null
    Null

ASSUME ProxyAssumption == ProxyOf \in [Client -> Server]
ASSUME BatchAssumption == ProxyBatchSize \in Nat \ {0}
ASSUME ModeAssumption  == StorageModes \subseteq {0, 1, 2}
ASSUME BoundAssumption == MaxNull \in Nat

RequestName == [cli : Client, seq : Nat]
Object == [proId : Server, proSeq : Nat, reqs : Seq(RequestName)]
ASSUME NullAssumption == Null \notin Object

VARIABLES
    StorageMode, \* Conf.StorageMode, the same at every server
    sent,       \* sent[c]: how many requests c has sent
    received,   \* received[c]: how many of them its proxy has taken
    batch,      \* batch[s]: CliIds and CliSqs, the batch under construction
    submitted,  \* submitted[s]: the objects broadcast by the proxy, in order
    log,        \* the decided slots
    decided,    \* decided[s]: how many slots of s are done (Slot.IsDone)
    currSeq,    \* Proxy.CurrSeq: how many slots KVSExecutor has executed
    store,      \* Proxy.KVStore, or the server's Redis
    replies     \* replies[c]: the replies sent to c, in order

proxyVars == <<received, batch, submitted>>
consensusVars == <<log, decided>>
executorVars == <<currSeq, store, replies>>
vars == <<StorageMode, sent, proxyVars, consensusVars, executorVars>>

Init ==
    /\ StorageMode \in StorageModes
    /\ sent      = [c \in Client |-> 0]
    /\ received  = [c \in Client |-> 0]
    /\ batch     = [s \in Server |-> << >>]
    /\ submitted = [s \in Server |-> << >>]
    /\ log       = << >>
    /\ decided   = [s \in Server |-> 0]
    /\ currSeq   = [s \in Server |-> 0]
    /\ store     = [s \in Server |-> Empty]
    /\ replies   = [c \in Client |-> << >>]

-----------------------------------------------------------------------------
(* The client's link is FIFO, and the client does not wait for replies.      *)
SendRequest(c) ==
    /\ sent[c] < Len(Requests[c])
    /\ sent' = [sent EXCEPT ![c] = @ + 1]
    /\ UNCHANGED <<proxyVars, consensusVars, executorVars, StorageMode>>

(* The object made of the requests reqs, the next one of its proxy.          *)
Submit(s, reqs) ==
    /\ submitted' = [submitted EXCEPT ![s] =
          Append(@, [proId |-> s, proSeq |-> Len(@), reqs |-> reqs])]
    /\ batch' = [batch EXCEPT ![s] = << >>]

(* CmdReceiver takes a request; a full batch is broadcast.                   *)
ReceiveRequest(c) ==
    /\ received[c] < sent[c]
    /\ LET s == ProxyOf[c]
           reqs == Append(batch[s], Request(c, received[c]))
       IN  IF Len(reqs) = ProxyBatchSize
           THEN Submit(s, reqs)
           ELSE batch' = [batch EXCEPT ![s] = reqs] /\ UNCHANGED submitted
    /\ received' = [received EXCEPT ![c] = @ + 1]
    /\ UNCHANGED <<sent, consensusVars, executorVars, StorageMode>>

(* The batch clock ticks: a batch that is not empty is broadcast.            *)
BatchTick_NoReset(s) ==
    /\ batch[s] # << >>
    /\ submitted' = [submitted EXCEPT ![s] =
          Append(@, [proId |-> s, proSeq |-> Len(@), reqs |-> batch[s]])]
    /\ UNCHANGED <<batch, received, sent, consensusVars, executorVars, StorageMode>>

BatchTick_FullOnly(s) ==
    /\ Len(batch[s]) = ProxyBatchSize
    /\ Submit(s, batch[s])
    /\ UNCHANGED <<received, sent, consensusVars, executorVars, StorageMode>>

BatchTick(s) ==
    /\ batch[s] # << >>
    /\ Submit(s, batch[s])
    /\ UNCHANGED <<received, sent, consensusVars, executorVars, StorageMode>>

-----------------------------------------------------------------------------
(* The consensus layer.                                                      *)
InLog == {log[i] : i \in DOMAIN log} \ {Null}
NumNulls == Cardinality({i \in DOMAIN log : log[i] = Null})

(* The objects of a proxy are decided in the order of ProSeq.                *)
Decidable ==
    {o \in (UNION {{submitted[s][i] : i \in DOMAIN submitted[s]} : s \in Server}) \ InLog :
        \A i \in 1 .. o.proSeq : submitted[o.proId][i] \in InLog}

DecideSlot ==
    /\ \/ \E o \in Decidable : log' = Append(log, o)
       \/ NumNulls < MaxNull /\ Decidable # {} /\ log' = Append(log, Null)
    /\ UNCHANGED <<sent, proxyVars, decided, executorVars, StorageMode>>

SlotDone(s) ==
    /\ decided[s] < Len(log)
    /\ decided' = [decided EXCEPT ![s] = @ + 1]
    /\ UNCHANGED <<sent, proxyVars, log, executorVars, StorageMode>>

-----------------------------------------------------------------------------
(* KVSExecutor.                                                              *)
ObjectCommands(o) == Flatten(o.reqs)

(* naiveExecuteCmd: one command after the other.                             *)
OneByOne(kv, o) ==
    [i \in DOMAIN o.reqs |->
        Results(After(kv, Flatten(SubSeq(o.reqs, 1, i - 1))), CommandsOf(o.reqs[i]))]

(* redisExecuteCmd: a read gets the fixed key "key2", which no client writes.*)
OneByOneFixedKey(o) ==
    [i \in DOMAIN o.reqs |->
        [j \in DOMAIN CommandsOf(o.reqs[i]) |->
            IF CommandsOf(o.reqs[i])[j].op = "write" THEN "ok" ELSE Missing]]

(* RedisBatchExecuteCmd: MSET of all writes, then MGET of all reads.         *)
WritesFirst_NoStore(kv, o) ==
    [i \in DOMAIN o.reqs |->
        [j \in DOMAIN CommandsOf(o.reqs[i]) |->
            IF CommandsOf(o.reqs[i])[j].op = "write" THEN "ok"
            ELSE Empty[CommandsOf(o.reqs[i])[j].key]]]
WritesFirst(kv, o) ==
    LET final == After(kv, ObjectCommands(o)) IN
    [i \in DOMAIN o.reqs |->
        [j \in DOMAIN CommandsOf(o.reqs[i]) |->
            IF CommandsOf(o.reqs[i])[j].op = "write" THEN "ok"
            ELSE final[CommandsOf(o.reqs[i])[j].key]]]

ResultsOf(kv, o) ==
    CASE StorageMode = 0 -> OneByOne(kv, o)
      [] StorageMode = 1 -> OneByOneFixedKey(o)
      [] StorageMode = 2 -> WritesFirst(kv, o)

(* The replies to the clients that are connected to s.                       *)
RepliesTo_Unconnected(s, c, o) ==
    LET results == ResultsOf(store[s], o)
        mine == PlacesOf(c, o.reqs)
    IN  [n \in DOMAIN mine |->
            [seq |-> o.reqs[mine[n]].seq, results |-> results[mine[n]]]]
RepliesTo(s, c, o) ==
    IF ProxyOf[c] # s THEN << >>
    ELSE LET results == ResultsOf(store[s], o)
             mine == PlacesOf(c, o.reqs)
         IN  [n \in DOMAIN mine |->
                 [seq |-> o.reqs[mine[n]].seq, results |-> results[mine[n]]]]

SkipNull(s) ==
    /\ currSeq[s] < decided[s]
    /\ log[currSeq[s] + 1] = Null
    /\ currSeq' = [currSeq EXCEPT ![s] = @ + 1]
    /\ UNCHANGED <<sent, proxyVars, consensusVars, store, replies, StorageMode>>

ExecuteAndReply(s) ==
    /\ currSeq[s] < decided[s]
    /\ LET o == log[currSeq[s] + 1] IN
       /\ o # Null
       /\ store' = [store EXCEPT ![s] = After(@, ObjectCommands(o))]
       /\ replies' = [c \in Client |-> replies[c] \o RepliesTo(s, c, o)]
    /\ currSeq' = [currSeq EXCEPT ![s] = @ + 1]
    /\ UNCHANGED <<sent, proxyVars, consensusVars, StorageMode>>

Next ==
    \/ DecideSlot
    \/ \E c \in Client : SendRequest(c) \/ ReceiveRequest(c)
    \/ \E s \in Server :
          BatchTick(s) \/ SlotDone(s) \/ SkipNull(s) \/ ExecuteAndReply(s)

Spec == Init /\ [][Next]_vars

(* Every routine runs, the batch clock ticks again and again, and the        *)
(* consensus layer decides what was broadcast.                               *)
FairSpec ==
    /\ Spec
    /\ WF_vars(\E o \in Decidable : log' = Append(log, o) /\ DecideSlot)
    /\ \A c \in Client : WF_vars(SendRequest(c)) /\ WF_vars(ReceiveRequest(c))
    /\ \A s \in Server :
          /\ WF_vars(BatchTick(s))
          /\ WF_vars(SlotDone(s))
          /\ WF_vars(SkipNull(s) \/ ExecuteAndReply(s))

-----------------------------------------------------------------------------
(* Properties.                                                               *)

TypeOK ==
    /\ sent \in [Client -> Nat] /\ received \in [Client -> Nat]
    /\ batch \in [Server -> Seq(RequestName)]
    /\ submitted \in [Server -> Seq(Object)]
    /\ decided \in [Server -> 0 .. Len(log)]
    /\ \A s \in Server : currSeq[s] \in 0 .. decided[s] /\ Len(batch[s]) < ProxyBatchSize
    /\ store \in [Server -> [Key -> Value \cup {Missing}]]
    /\ \A c \in Client : \A i \in DOMAIN replies[c] :
          /\ replies[c][i].seq \in Nat
          /\ replies[c][i].results \in Seq(Value \cup {Missing, "ok"})

(* The requests in the log, in the order they take effect.                   *)
History == FlattenSeq([i \in DOMAIN log |-> IF log[i] = Null THEN << >> ELSE log[i].reqs])

(* In dictionary mode the system is one key-value store (see KVService),      *)
(* whichever servers and proxies a request went through: no request is        *)
(* executed twice or answered by two proxies, and no reply is stale, early or *)
(* out of order.                                                             *)
Service == INSTANCE KVService WITH history <- History
ImplementsKVService ==
    /\ StorageMode = 0 => Service!Init
    /\ [][StorageMode = 0 => Service!Next]_(Service!vars)

(* No request is lost, repeated or overtaken on its way through the batches:  *)
(* what the proxy has taken of a client is in its objects and its batch, in   *)
(* order, whether full batches or ticks of the clock closed them.             *)
BatchesKeepRequests ==
    \A c \in Client :
        LET s == ProxyOf[c]
            taken == FlattenSeq([i \in DOMAIN submitted[s] |-> submitted[s][i].reqs]) \o batch[s]
        IN  Of(c, taken) = [i \in 1 .. received[c] |-> Request(c, i - 1)]

(* Where writes of an object overtake its reads (mode 2), a read may return a *)
(* value written later, but never one overwritten before it.                 *)
NoStaleRead ==
    StorageMode = 2 =>
    LET all == Flatten(History)
        before(r) == LET at == CHOOSE j \in DOMAIN History : History[j] = r
                     IN  Len(Flatten(SubSeq(History, 1, at - 1)))
    IN  \A c \in Client : \A i \in DOMAIN replies[c] :
            LET r == Request(c, replies[c][i].seq)
                cmds == CommandsOf(r)
            IN  \A j \in DOMAIN cmds :
                    cmds[j].op = "read" =>
                        \E n \in before(r) + j - 1 .. Len(all) :
                            replies[c][i].results[j] =
                                After(Empty, SubSeq(all, 1, n))[cmds[j].key]

(* Every request is answered, those of a batch that never fills up included.  *)
AllAnswered == <>(\A c \in Client : Len(replies[c]) = Len(Requests[c]))
=============================================================================
