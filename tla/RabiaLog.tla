------------------------------ MODULE RabiaLog ------------------------------
(***************************************************************************)
(* The log of a consensus instance: how the executor of every server takes *)
(* objects from its pending queue, proposes them slot after slot, and puts *)
(* them back or discards them by what the slots decide.                    *)
(*                                                                         *)
(* A slot decides what module SlotDecision allows, which WeakMVC and, under *)
(* it, SlotEngine implement.  The ring of Slot objects that the slots of   *)
(* this module reuse is left out.                                          *)
(***************************************************************************)
EXTENDS Integers, FiniteSets, Sequences

CONSTANTS
    Server,     \* the servers
    NFaulty,    \* Conf.NFaulty
    NumObjects, \* NumObjects[p]: how many objects the proxy with ProId p makes
    Reliable,   \* the servers assumed never to crash, for the liveness property
    MaxSlot,    \* bound on the sequence numbers of the slots
    Null,       \* the decision ConsensusObj{IsNull: true}
    None        \* "not set yet"

ASSUME ServerAssumption == IsFiniteSet(Server)
ASSUME FaultAssumption  == NFaulty \in Nat /\ 2 * NFaulty < Cardinality(Server)
ASSUME ReliableAssumption ==
    Reliable \subseteq Server /\ Cardinality(Reliable) >= Cardinality(Server) - NFaulty
ASSUME ProxyAssumption  ==
    DOMAIN NumObjects \subseteq Nat /\ NumObjects \in [DOMAIN NumObjects -> Nat]
ASSUME SlotAssumption   == MaxSlot \in Nat

ProxyId == DOMAIN NumObjects
Slot    == 0 .. MaxSlot

(* A consensus object is identified by its ProId and ProSeq.                 *)
Object ==
    UNION {[proId : {p}, proSeq : 0 .. NumObjects[p] - 1] : p \in ProxyId}
ASSUME ValueAssumption == None # Null /\ {None, Null} \cap Object = {}

VARIABLES
    arrived,   \* arrived[s][p]: how many objects of proxy p have come to s
    queue,     \* queue[s]: the pending queue, as the set of its objects
    discard,   \* discard[s]: the keys of the Discard dictionary
    svrSeq,    \* SvrSeq: the slot s works on, -1 before the first
    proposal,  \* proposal[s][k]: Slot.MyProposal
    decision   \* decision[s][k]: Slot.Decision, None until Slot.IsDone

vars == <<arrived, queue, discard, svrSeq, proposal, decision>>

Init ==
    /\ arrived  = [s \in Server |-> [p \in ProxyId |-> 0]]
    /\ queue    = [s \in Server |-> {}]
    /\ discard  = [s \in Server |-> {}]
    /\ svrSeq   = [s \in Server |-> -1]
    /\ proposal = [s \in Server |-> [k \in Slot |-> None]]
    /\ decision = [s \in Server |-> [k \in Slot |-> None]]

(* ProxySeqIdLessThan, the priority of the pending queue.                    *)
LessThan_NewestFirst(a, b) ==
    a.proSeq > b.proSeq \/ (a.proSeq = b.proSeq /\ a.proId < b.proId)
LessThan(a, b) ==
    a.proSeq < b.proSeq \/ (a.proSeq = b.proSeq /\ a.proId < b.proId)

Heads_Unordered(s) == queue[s]
Heads(s) == {o \in queue[s] : \A x \in queue[s] \ {o} : LessThan(o, x)}

Working(s) == svrSeq[s] >= 0 /\ decision[s][svrSeq[s]] = None

-----------------------------------------------------------------------------
(* A ClientRequest of proxy p reaches s: its proxy broadcasts them in order,  *)
(* over a FIFO link to every server.                                         *)
ClientRequest(s, p) ==
    /\ arrived[s][p] < NumObjects[p]
    /\ queue' = [queue EXCEPT ![s] = @ \cup {[proId |-> p, proSeq |-> arrived[s][p]]}]
    /\ arrived' = [arrived EXCEPT ![s][p] = @ + 1]
    /\ UNCHANGED <<discard, svrSeq, proposal, decision>>

(* getRequest and the loop of Executor that calls it: an object already      *)
(* decided is discarded; another is proposed for the next slot.              *)
GetRequest_DiscardStays(s) ==
    /\ ~Working(s)
    /\ \E o \in Heads(s) :
         /\ queue' = [queue EXCEPT ![s] = @ \ {o}]
         /\ \/ o \in discard[s] /\ UNCHANGED <<svrSeq, proposal>>
            \/ /\ o \notin discard[s] /\ svrSeq[s] < MaxSlot
               /\ svrSeq' = [svrSeq EXCEPT ![s] = @ + 1]
               /\ proposal' = [proposal EXCEPT ![s][svrSeq[s] + 1] = o]
    /\ UNCHANGED <<arrived, discard, decision>>
GetRequest(s) ==
    /\ ~Working(s)
    /\ \E o \in Heads(s) :
         /\ queue' = [queue EXCEPT ![s] = @ \ {o}]
         /\ \/ /\ o \in discard[s]
               /\ discard' = [discard EXCEPT ![s] = @ \ {o}]
               /\ UNCHANGED <<svrSeq, proposal>>
            \/ /\ o \notin discard[s]
               /\ svrSeq[s] < MaxSlot
               /\ svrSeq' = [svrSeq EXCEPT ![s] = @ + 1]
               /\ proposal' = [proposal EXCEPT ![s][svrSeq[s] + 1] = o]
               /\ UNCHANGED discard
    /\ UNCHANGED <<arrived, decision>>

(* What slot k may be decided to.                                            *)
AgreedIn(k) ==
    INSTANCE SlotDecision WITH
        Proposal <- Object,
        proposal <- [s \in Server |-> proposal[s][k]],
        decision <- [s \in Server |-> decision[s][k]]

Outcomes(k) ==
    {d \in Object \cup {Null} :
        /\ AgreedIn(k)!EnoughProposed
        /\ \A t \in Server : decision[t][k] \in {None, d}
        /\ IF d = Null THEN AgreedIn(k)!Contended ELSE AgreedIn(k)!Backed(d)}

(* epilogue: what lost is put back, what won elsewhere will be discarded.    *)
Decide_NullNotPutBack(s) ==
    /\ Working(s)
    /\ \E d \in Outcomes(svrSeq[s]) :
         LET own == proposal[s][svrSeq[s]] IN
         /\ decision' = [decision EXCEPT ![s][svrSeq[s]] = d]
         /\ queue' = IF d \in {own, Null} THEN queue ELSE [queue EXCEPT ![s] = @ \cup {own}]
         /\ discard' =
              IF d \in {own, Null} THEN discard ELSE [discard EXCEPT ![s] = @ \cup {d}]
    /\ UNCHANGED <<arrived, svrSeq, proposal>>
Decide(s) ==
    /\ Working(s)
    /\ \E d \in Outcomes(svrSeq[s]) :
         LET own == proposal[s][svrSeq[s]] IN
         /\ decision' = [decision EXCEPT ![s][svrSeq[s]] = d]
         /\ queue' = IF d = own THEN queue ELSE [queue EXCEPT ![s] = @ \cup {own}]
         /\ discard' =
              IF d \in {own, Null} THEN discard ELSE [discard EXCEPT ![s] = @ \cup {d}]
    /\ UNCHANGED <<arrived, svrSeq, proposal>>

Next ==
    \E s \in Server :
        \/ \E p \in ProxyId : ClientRequest(s, p)
        \/ GetRequest(s)
        \/ Decide(s)

Spec == Init /\ [][Next]_vars

(* A slot may be lost to s: a server that may have crashed since took part in *)
(* it.  It may have decided without telling s, or have been the only one that *)
(* could tell s which proposal was decided (DecisionLost and AnswerLost in    *)
(* SlotEngine).                                                              *)
MayBeLost(s) ==
    Working(s) /\ \E t \in Server \ Reliable : proposal[t][svrSeq[s]] # None

(* The proxies' broadcasts reach every server that does not crash, its       *)
(* executor polls its queue, and a slot that reliable servers alone work on   *)
(* is decided once they are enough.  Another server may stop for good at any  *)
(* moment, and nothing is promised of the slots that it took part in.         *)
FairSpec ==
    /\ Spec
    /\ \A s \in Reliable :
          /\ \A p \in ProxyId : WF_vars(ClientRequest(s, p))
          /\ WF_vars(GetRequest(s))
          /\ WF_vars(~MayBeLost(s) /\ Decide(s))

-----------------------------------------------------------------------------
(* Properties.                                                              *)

TypeOK ==
    /\ arrived \in [Server -> [ProxyId -> Nat]]
    /\ queue \in [Server -> SUBSET Object]
    /\ discard \in [Server -> SUBSET Object]
    /\ svrSeq \in [Server -> -1 .. MaxSlot]
    /\ proposal \in [Server -> [Slot -> Object \cup {None}]]
    /\ decision \in [Server -> [Slot -> Object \cup {Null, None}]]

Arrived(s, o) == o.proSeq < arrived[s][o.proId]
Decided(s) == {o \in Object : \E k \in Slot : decision[s][k] = o}

(* Discard holds exactly the objects that were decided before they came off   *)
(* the queue of the server: none is missed and proposed again, none stays     *)
(* behind and swallows an object that is not decided.                         *)
DiscardExact ==
    \A s \in Server :
        discard[s] = {o \in Decided(s) : o \in queue[s] \/ ~Arrived(s, o)}

(* A request that came to a server is pending, being proposed, or decided.    *)
NothingLost ==
    \A s \in Server : \A o \in Object :
        Arrived(s, o) =>
            \/ o \in queue[s]
            \/ Working(s) /\ proposal[s][svrSeq[s]] = o
            \/ o \in Decided(s)

(* No object is decided in two slots, by any two servers.                     *)
NoObjectTwice ==
    \A s, t \in Server : \A k, l \in Slot :
        decision[s][k] \in Object /\ decision[s][k] = decision[t][l] => k = l

(* A slot is contended only while requests are on their way: a server never   *)
(* proposes a larger object for a slot in which a smaller one that it has     *)
(* received was proposed already.                                             *)
ContendsOnlyUnreceived ==
    [][\A s, t \in Server : \A k \in Slot :
          LET mine == proposal[s][k]
              theirs == proposal[t][k]
          IN  mine = None /\ mine' # None /\ theirs # None =>
                  ~(LessThan(theirs, mine') /\ Arrived(s, theirs))]_vars

(* The decided objects of all servers form a total order broadcast.  Of the   *)
(* decisions d of a server the i-th to be delivered is that of the slot up to *)
(* which i objects are decided.                                              *)
ObjectsUpTo(d, k) == {l \in Slot : l <= k /\ d[l] \in Object}
SlotOf(d, i) ==
    CHOOSE k \in ObjectsUpTo(d, MaxSlot) : Cardinality(ObjectsUpTo(d, k)) = i
Delivered(d) ==
    [i \in 1 .. Cardinality(ObjectsUpTo(d, MaxSlot)) |-> d[SlotOf(d, i)]]
Broadcast ==
    INSTANCE TotalOrder WITH
        requested <- {o \in Object : \E s \in Server : Arrived(s, o)},
        delivered <- [s \in Server |-> Delivered(decision[s])]
ImplementsTotalOrder == Broadcast!Spec

(* Every server that does not crash delivers every object, unless so many     *)
(* slots are decided Null that the model has too few for the objects, or one  *)
(* such server stays for ever in a slot that may be lost to it.               *)
NullsUseUpSlots ==
    \E s \in Server :
        Cardinality({k \in Slot : decision[s][k] = Null}) > MaxSlot + 1 - Cardinality(Object)
AllDelivered ==
    \/ <>(NullsUseUpSlots \/ \A s \in Reliable : Decided(s) = Object)
    \/ \E s \in Reliable : \E k \in Slot : <>[](svrSeq[s] = k /\ MayBeLost(s))
=============================================================================
