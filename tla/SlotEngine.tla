----------------------------- MODULE SlotEngine -----------------------------
(***************************************************************************)
(* One slot of the ledger as the servers run it: per server an Executor    *)
(* and a MsgHandler that share the Slot object and a bounded channel of    *)
(* notices, FIFO links between the servers, proposal requests with their   *)
(* replies, and crashes.                                                   *)
(*                                                                         *)
(* One action is what a routine does between two points where it can       *)
(* block.  The tallies of a round do not change once NMinusF messages are  *)
(* in, so the executor reads them as of that moment whenever it runs.      *)
(*                                                                         *)
(* A broadcast goes through one channel (ConExecutorToNet, ToSerializer)   *)
(* into a FIFO link to every server, the sender included: sent[q] is the   *)
(* log of q's broadcasts, and a handler takes the messages of a log in     *)
(* order, dropping on the way those it ignores.  What a crashed sender has *)
(* in flight may arrive or not, prefix by prefix.  A ProposalReply does    *)
(* not use these links: it goes from the replying handler to its peer's    *)
(* executor (MsgHandlerToNet, SendChan, NetToConExecutor).                 *)
(***************************************************************************)
EXTENDS Cluster, Sequences

CONSTANTS
    HeadRequest, \* HeadRequest[s]: the objects that can head the pending queue
                 \* of s when it starts the slot
    QueueCap,    \* capacity of Slot.Queue
    MaxCrash     \* bound on the servers that crash

ASSUME HeadAssumption  == HeadRequest \in [Server -> SUBSET Proposal]
ASSUME QueueAssumption == QueueCap \in Nat \ {0}
ASSUME CrashAssumption == MaxCrash \in 0 .. NFaulty

VARIABLES
    pc, phase, round, proposal, state, vote, decision,    \* as in WeakMVC
    recvProposal,  \* recvProposal[s][q]: q's proposal if s tallied it (RecvProposals)
    recvState,     \* recvState[s][p][q], recvVote[s][p][q]: likewise RecvBCMsgs[p]
    recvVote,
    sent,          \* sent[q]: the messages q broadcast, in order
    requests,      \* requests[s]: the servers whose ProposalRequest s handled
    queue,         \* Slot.Queue: notices from the handler to the executor
    handler,       \* what the handler still does for the message it took
    hasRecvDec,    \* Slot.HasRecvDec
    replies,       \* replies[s]: ProposalReply messages to s
    crashed        \* the servers that stopped

executorVars == <<pc, phase, round, proposal, state, vote, decision, sent>>
tallyVars == <<recvProposal, recvState, recvVote>>
handlerVars == <<requests, handler, hasRecvDec, replies>>
vars == <<executorVars, tallyVars, handlerVars, queue, crashed>>

Message(t, p, v) == [type |-> t, phase |-> p, value |-> v]
Free == Message("Free", 0, None)         \* the handler is in its select
Mark == Message("Mark", 0, None)         \* it is about to set HasRecvDec

NoTally == [q \in Server |-> None]

Init ==
    /\ pc       = [s \in Server |-> "idle"]
    /\ phase    = [s \in Server |-> 0]
    /\ round    = [s \in Server |-> 0]
    /\ proposal = [s \in Server |-> None]
    /\ state    = [s \in Server |-> [p \in Phase |-> None]]
    /\ vote     = [s \in Server |-> [p \in Phase |-> None]]
    /\ decision = [s \in Server |-> None]
    /\ recvProposal = [s \in Server |-> NoTally]
    /\ recvState    = [s \in Server |-> [p \in Phase |-> NoTally]]
    /\ recvVote     = [s \in Server |-> [p \in Phase |-> NoTally]]
    /\ sent     = [s \in Server |-> << >>]
    /\ requests = [s \in Server |-> {}]
    /\ queue    = [s \in Server |-> << >>]
    /\ handler  = [s \in Server |-> Free]
    /\ hasRecvDec = [s \in Server |-> FALSE]
    /\ replies  = [s \in Server |-> {}]
    /\ crashed  = {}

-----------------------------------------------------------------------------
(* Tallies of the Slot object.                                              *)

IsDone(s) == decision[s] # None
Tallied(T) == {q \in Server : T[q] # None}
TallyOf(T, v) == Cardinality({q \in Server : T[q] = v})
HasEnoughMsg_WaitsForAll(T) == Cardinality(Tallied(T)) >= NServers
HasEnoughMsg(T) == Cardinality(Tallied(T)) >= NMinusF

(* RecvProposalsMajT(s) >= k, together with the majority value: k is always  *)
(* at least Majority, where no two objects can tie.                          *)
MajProposals_OffByOne(s, k) == {m \in Proposal : TallyOf(recvProposal[s], m) >= k - 1}
MajProposals(s, k) == {m \in Proposal : TallyOf(recvProposal[s], m) >= k}

(* RecvBCMsgsMajV and RecvBCMsgsMajT of a round's tally: a tie goes to 1.    *)
MajV(T) == IF TallyOf(T, 0) > TallyOf(T, 1) THEN 0 ELSE 1
MajT(T) == TallyOf(T, MajV(T))

(* A complete tally that nothing reads again, and what can still be read of  *)
(* the proposals (by findReturnValue and genProposalReply): these keep the   *)
(* states of the model from differing in what no code can tell apart.        *)
Consumed == [q \in Server |-> Unknown]
Summary(s) ==
    IF ~HasEnoughMsg(recvProposal[s]) THEN NoTally
    ELSE IF MajProposals(s, Majority) = {} THEN [q \in Server |-> Null]
    ELSE [q \in Server |-> CHOOSE m \in MajProposals(s, Majority) : TRUE]

RetireRound(s) ==
    /\ recvProposal' = [recvProposal EXCEPT ![s] = Summary(s)]
    /\ recvState' = [recvState EXCEPT ![s][phase[s]] = Consumed]
    /\ recvVote' =
         IF round[s] = 2 THEN [recvVote EXCEPT ![s][phase[s]] = Consumed] ELSE recvVote

RetireSlot(s) ==
    /\ recvProposal' = [recvProposal EXCEPT ![s] = Summary(s)]
    /\ recvState' = [recvState EXCEPT ![s] = [p \in Phase |-> Consumed]]
    /\ recvVote' = [recvVote EXCEPT ![s] = [p \in Phase |-> Consumed]]

-----------------------------------------------------------------------------
(* The executor.                                                            *)

Alive(s) == s \notin crashed /\ pc[s] # "panic"

Broadcast(s, m) == sent' = [sent EXCEPT ![s] = Append(@, m)]

(* getRequest with a request m at the head of the pending queue, then        *)
(* phase0Round1BeforeWait.                                                   *)
Start(s, m) ==
    /\ Alive(s) /\ pc[s] = "idle" /\ m \in HeadRequest[s]
    /\ proposal' = [proposal EXCEPT ![s] = m]
    /\ round' = [round EXCEPT ![s] = 1]
    /\ pc' = [pc EXCEPT ![s] = "wait"]
    /\ Broadcast(s, Message("Proposal", 0, m))
    /\ UNCHANGED <<phase, state, vote, decision, tallyVars, handlerVars, queue, crashed>>

(* wait() takes a notice off the queue ...                                   *)
TakeNotice(s) ==
    /\ Alive(s) /\ pc[s] = "wait" /\ queue[s] # << >>
    /\ queue' = [queue EXCEPT ![s] = Tail(@)]
    /\ UNCHANGED <<handlerVars, crashed>>

(* ... drops it when a Decision message has been received ...                *)
DiscardNotice(s) ==
    /\ TakeNotice(s)
    /\ Head(queue[s]).type # "Decision" /\ hasRecvDec[s]
    /\ UNCHANGED <<executorVars, tallyVars>>

(* ... or returns: the round it waited for has enough messages.  A notice of *)
(* any other round is one of the assertion failures of wait().               *)
Awaited(s) ==
    IF round[s] = 2 THEN "Vote" ELSE IF phase[s] = 0 THEN "Proposal" ELSE "State"

Proceed(s) ==
    /\ TakeNotice(s)
    /\ ~hasRecvDec[s]
    /\ Head(queue[s]).type = Awaited(s) /\ Head(queue[s]).phase = phase[s]

(* The Decision broadcast and the epilogue, whose round statistics read the  *)
(* incremented Round.                                                        *)
Conclude_RoundTwice(s, d) ==
    /\ decision' = [decision EXCEPT ![s] = d]
    /\ pc' = [pc EXCEPT ![s] = "done"]
    /\ round' = [round EXCEPT ![s] = @ + 2]
    /\ Broadcast(s, Message("Decision", 0, d))
    /\ RetireSlot(s)
    /\ UNCHANGED <<phase, proposal, state, vote>>

Conclude(s, d) ==
    /\ decision' = [decision EXCEPT ![s] = d]
    /\ pc' = [pc EXCEPT ![s] = "done"]
    /\ round' = [round EXCEPT ![s] = @ + 1]
    /\ Broadcast(s, Message("Decision", 0, d))
    /\ RetireSlot(s)
    /\ UNCHANGED <<phase, proposal, state, vote>>

(* requestProposalAndWait up to the reply it waits for.                      *)
RequestProposal(s) ==
    /\ pc' = [pc EXCEPT ![s] = "request"]
    /\ Broadcast(s, Message("ProposalRequest", 0, None))
    /\ UNCHANGED <<phase, round, proposal, state, vote, decision, tallyVars>>

(* findReturnValue for the binary decision b.                                *)
FindReturnValue_OwnProposal(s, b) ==
    \/ b = 0 /\ Conclude(s, Null)
    \/ b = 1 /\ Conclude(s, proposal[s])

FindReturnValue(s, b) ==
    \/ b = 0 /\ Conclude(s, Null)
    \/ b = 1 /\ \E m \in MajProposals(s, Majority) : Conclude(s, m)
    \/ b = 1 /\ MajProposals(s, Majority) = {} /\ RequestProposal(s)

(* The vote of the phase, set in round 1 and broadcast at the start of 2.    *)
CastVote(s, v) ==
    /\ vote' = [vote EXCEPT ![s][phase[s]] = v]
    /\ round' = [round EXCEPT ![s] = 2]
    /\ Broadcast(s, Message("Vote", phase[s], v))
    /\ RetireRound(s)
    /\ UNCHANGED <<pc, phase, proposal, state, decision>>

(* The state of the next phase, set in round 2 and broadcast at the start of *)
(* the phase; setting it for phase LenBlockArray panics.                     *)
CastState(s, v) ==
    \/ /\ phase[s] + 1 \in Phase
       /\ state' = [state EXCEPT ![s][phase[s] + 1] = v]
       /\ phase' = [phase EXCEPT ![s] = @ + 1]
       /\ round' = [round EXCEPT ![s] = 1]
       /\ Broadcast(s, Message("State", phase[s] + 1, v))
       /\ RetireRound(s)
       /\ UNCHANGED <<pc, proposal, vote, decision>>
    \/ /\ phase[s] + 1 \notin Phase
       /\ pc' = [pc EXCEPT ![s] = "panic"]
       /\ UNCHANGED <<phase, round, proposal, state, vote, decision, sent, tallyVars>>

Phase0Round1(s) ==
    /\ Proceed(s) /\ phase[s] = 0 /\ round[s] = 1
    /\ \/ \E m \in MajProposals(s, MajorityPlusF) : Conclude(s, m)
       \/ /\ MajProposals(s, MajorityPlusF) = {}
          /\ MajProposals(s, Majority) # {}
          /\ CastVote(s, 1)
       \/ /\ MajProposals(s, Majority) = {}
          /\ CastVote(s, Unknown)

PhaseNRound1(s) ==
    /\ Proceed(s) /\ phase[s] > 0 /\ round[s] = 1
    /\ LET T == recvState[s][phase[s]] IN
       \/ MajT(T) >= MajorityPlusF /\ FindReturnValue(s, MajV(T))
       \/ MajT(T) \in Majority .. MajorityPlusF - 1 /\ CastVote(s, MajV(T))
       \/ MajT(T) < Majority /\ CastVote(s, Unknown)

Round2(s, fallback) ==
    /\ Proceed(s) /\ round[s] = 2
    /\ LET T == recvVote[s][phase[s]] IN
       \/ MajT(T) >= FaultyPlusOne /\ FindReturnValue(s, MajV(T))
       \/ MajT(T) \in 1 .. NFaulty /\ CastState(s, MajV(T))
       \/ MajT(T) = 0 /\ CastState(s, fallback)

Phase0Round2_CoinInPhase0(s) == phase[s] = 0 /\ Round2(s, 1)

Phase0Round2(s) == phase[s] = 0 /\ Round2(s, 0)
PhaseNRound2(s) == phase[s] > 0 /\ Round2(s, Coin[phase[s]])

(* The rest of requestProposalAndWait: the first reply is the return value.  *)
ReceiveReply(s, r) ==
    /\ Alive(s) /\ pc[s] = "request"
    /\ Conclude(s, r.value)
    /\ UNCHANGED <<handlerVars, queue, crashed>>

(* wait() takes the notice of a Decision message: epilogue, no broadcast.    *)
LearnDecision(s) ==
    /\ TakeNotice(s)
    /\ Head(queue[s]).type = "Decision"
    /\ decision' = [decision EXCEPT ![s] = Head(queue[s]).value]
    /\ pc' = [pc EXCEPT ![s] = "done"]
    /\ RetireSlot(s)
    /\ UNCHANGED <<phase, round, proposal, state, vote, sent>>

Executor(s) ==
    \/ DiscardNotice(s)
    \/ Phase0Round1(s)
    \/ Phase0Round2(s)
    \/ PhaseNRound1(s)
    \/ PhaseNRound2(s)
    \/ LearnDecision(s)

-----------------------------------------------------------------------------
(* The message handler.                                                     *)

(* What an early return of the handler ignores: a decided slot, a complete   *)
(* round, a second Decision.  Once ignored, always ignored.                  *)
Ignores_AnyMessageOnceDone(s, m) ==
    \/ IsDone(s)
    \/ m.type = "Proposal" /\ HasEnoughMsg(recvProposal[s])
    \/ m.type = "State" /\ HasEnoughMsg(recvState[s][m.phase])
    \/ m.type = "Vote" /\ HasEnoughMsg(recvVote[s][m.phase])
    \/ m.type = "Decision" /\ hasRecvDec[s]

Ignores_NotSecondDecision(s, m) ==
    \/ m.type # "ProposalRequest" /\ IsDone(s)
    \/ m.type = "Proposal" /\ HasEnoughMsg(recvProposal[s])
    \/ m.type = "State" /\ HasEnoughMsg(recvState[s][m.phase])
    \/ m.type = "Vote" /\ HasEnoughMsg(recvVote[s][m.phase])

Ignores_NotLateProposals(s, m) ==
    \/ m.type # "ProposalRequest" /\ IsDone(s)
    \/ m.type = "State" /\ HasEnoughMsg(recvState[s][m.phase])
    \/ m.type = "Vote" /\ HasEnoughMsg(recvVote[s][m.phase])
    \/ m.type = "Decision" /\ hasRecvDec[s]

Ignores_NotLateVotes(s, m) ==
    \/ m.type # "ProposalRequest" /\ IsDone(s)
    \/ m.type = "Proposal" /\ HasEnoughMsg(recvProposal[s])
    \/ m.type = "State" /\ HasEnoughMsg(recvState[s][m.phase])
    \/ m.type = "Decision" /\ hasRecvDec[s]

Ignores(s, m) ==
    \/ m.type # "ProposalRequest" /\ IsDone(s)
    \/ m.type = "Proposal" /\ HasEnoughMsg(recvProposal[s])
    \/ m.type = "State" /\ HasEnoughMsg(recvState[s][m.phase])
    \/ m.type = "Vote" /\ HasEnoughMsg(recvVote[s][m.phase])
    \/ m.type = "Decision" /\ hasRecvDec[s]

Passed(s, q, m) ==
    \/ Ignores(s, m)
    \/ m.type = "Proposal" /\ recvProposal[s][q] # None
    \/ m.type = "State" /\ recvState[s][m.phase][q] # None
    \/ m.type = "Vote" /\ recvVote[s][m.phase][q] # None
    \/ m.type = "ProposalRequest" /\ q \in requests[s]

Due_AnyOrder(s, q) == {i \in DOMAIN sent[q] : ~Passed(s, q, sent[q][i])}

Due(s, q) ==
    LET pending == {i \in DOMAIN sent[q] : ~Passed(s, q, sent[q][i])} IN
    {i \in pending : \A j \in pending : i <= j}

(* Pushes a notice, then goes on with rest; blocks while the queue is full.  *)
PushThen(s, n, rest) ==
    IF Len(queue[s]) < QueueCap
    THEN /\ queue' = [queue EXCEPT ![s] = Append(@, n)]
         /\ handler' = [handler EXCEPT ![s] = rest]
    ELSE /\ handler' = [handler EXCEPT ![s] = n]
         /\ UNCHANGED queue

(* The last message a round needs produces the round's notice.               *)
NotifyIfEnough(s, T, n) ==
    IF HasEnoughMsg(T) THEN PushThen(s, n, Free) ELSE UNCHANGED <<queue, handler>>

HandleProposal(s, q, m) ==
    /\ m.type = "Proposal"
    /\ LET T == [recvProposal[s] EXCEPT ![q] = m.value] IN
       /\ recvProposal' = [recvProposal EXCEPT ![s] = T]
       /\ NotifyIfEnough(s, T, Message("Proposal", 0, None))
    /\ UNCHANGED <<recvState, recvVote, hasRecvDec, replies, requests>>

HandleState(s, q, m) ==
    /\ m.type = "State"
    /\ LET T == [recvState[s][m.phase] EXCEPT ![q] = m.value] IN
       /\ recvState' = [recvState EXCEPT ![s][m.phase] = T]
       /\ NotifyIfEnough(s, T, Message("State", m.phase, None))
    /\ UNCHANGED <<recvProposal, recvVote, hasRecvDec, replies, requests>>

HandleVote(s, q, m) ==
    /\ m.type = "Vote"
    /\ LET T == [recvVote[s][m.phase] EXCEPT ![q] = m.value] IN
       /\ recvVote' = [recvVote EXCEPT ![s][m.phase] = T]
       /\ NotifyIfEnough(s, T, Message("Vote", m.phase, None))
    /\ UNCHANGED <<recvProposal, recvState, hasRecvDec, replies, requests>>

HandleDecision(s, q, m) ==
    /\ m.type = "Decision"
    /\ PushThen(s, m, Mark)
    /\ UNCHANGED <<tallyVars, hasRecvDec, replies, requests>>

(* Answered only from a complete tally that holds a majority value.          *)
HandleRequest(s, q, m) ==
    /\ m.type = "ProposalRequest"
    /\ requests' = [requests EXCEPT ![s] = @ \cup {q}]
    /\ replies' = [replies EXCEPT ![q] = @ \cup
          {[from |-> s, value |-> v] : v \in
              IF HasEnoughMsg(recvProposal[s]) THEN MajProposals(s, Majority) ELSE {}}]
    /\ UNCHANGED <<tallyVars, queue, handler, hasRecvDec>>

(* A handler that blocked on the full queue goes on once there is room.      *)
Unblock(s) ==
    /\ Alive(s) /\ handler[s] \notin {Free, Mark}
    /\ Len(queue[s]) < QueueCap
    /\ PushThen(s, handler[s], IF handler[s].type = "Decision" THEN Mark ELSE Free)
    /\ UNCHANGED <<executorVars, tallyVars, hasRecvDec, replies, requests, crashed>>

(* The Decision is in the queue before HasRecvDec is set.                    *)
MarkDecision(s) ==
    /\ Alive(s) /\ handler[s] = Mark
    /\ hasRecvDec' = [hasRecvDec EXCEPT ![s] = TRUE]
    /\ handler' = [handler EXCEPT ![s] = Free]
    /\ UNCHANGED <<executorVars, tallyVars, replies, requests, queue, crashed>>

MsgHandler(s, q) ==
    /\ Alive(s) /\ handler[s] = Free
    /\ \E i \in Due(s, q) :
         LET m == sent[q][i] IN
         \/ HandleProposal(s, q, m)
         \/ HandleState(s, q, m)
         \/ HandleVote(s, q, m)
         \/ HandleDecision(s, q, m)
         \/ HandleRequest(s, q, m)
    /\ UNCHANGED <<executorVars, crashed>>

-----------------------------------------------------------------------------
Crash(s) ==
    /\ s \notin crashed
    /\ Cardinality(crashed) < MaxCrash
    /\ crashed' = crashed \cup {s}
    /\ UNCHANGED <<executorVars, tallyVars, handlerVars, queue>>

Next ==
    \E s \in Server :
        \/ \E m \in Proposal : Start(s, m)
        \/ Executor(s)
        \/ \E r \in replies[s] : ReceiveReply(s, r)
        \/ \E q \in Server : MsgHandler(s, q)
        \/ Unblock(s)
        \/ MarkDecision(s)
        \/ Crash(s)

Spec == Init /\ [][Next]_vars

(* The Go scheduler runs every routine that can run, and a link delivers      *)
(* what a server that stays up sent.  Nothing is promised of a message or a   *)
(* reply whose sender crashed.  Every server gets a request to propose: the   *)
(* proxies broadcast theirs to all servers.                                   *)
FairStep(s) ==
    \/ \E m \in Proposal : Start(s, m)
    \/ Executor(s)
    \/ \E r \in replies[s] : r.from \notin crashed /\ ReceiveReply(s, r)
    \/ Unblock(s)
    \/ MarkDecision(s)
    \/ \E q \in Server \ crashed : MsgHandler(s, q)

(* No step leads back to a former state, so that every behaviour comes to an  *)
(* end: under fairness, where nothing is left that a routine can do.         *)
Fairness == \A s \in Server : WF_vars(FairStep(s))

FairSpec == Spec /\ Fairness

-----------------------------------------------------------------------------
(* Properties.                                                              *)

Sent ==
         [type : {"Proposal"}, phase : {0}, value : Proposal]
    \cup [type : {"State"}, phase : Phase, value : Bit]
    \cup [type : {"Vote"}, phase : Phase, value : Bit \cup {Unknown}]
    \cup [type : {"Decision"}, phase : {0}, value : Object]
    \cup [type : {"ProposalRequest"}, phase : {0}, value : {None}]

Notice ==
         [type : {"Proposal", "State", "Vote"}, phase : Phase, value : {None}]
    \cup [type : {"Decision"}, phase : {0}, value : Object]

TypeOK ==
    /\ pc \in [Server -> {"idle", "wait", "request", "done", "panic"}]
    /\ phase \in [Server -> Phase]
    /\ round \in [Server -> 0 .. 3]
    /\ proposal \in [Server -> Proposal \cup {None}]
    /\ state \in [Server -> [Phase -> Bit \cup {None}]]
    /\ vote \in [Server -> [Phase -> Bit \cup {Unknown, None}]]
    /\ decision \in [Server -> Object \cup {None}]
    /\ recvProposal \in [Server -> [Server -> Object \cup {None}]]
    /\ recvState \in [Server -> [Phase -> [Server -> Bit \cup {Unknown, None}]]]
    /\ recvVote \in [Server -> [Phase -> [Server -> Bit \cup {Unknown, None}]]]
    /\ sent \in [Server -> Seq(Sent)]
    /\ requests \in [Server -> SUBSET Server]
    /\ queue \in [Server -> Seq(Notice)] /\ \A s \in Server : Len(queue[s]) <= QueueCap
    /\ handler \in [Server -> Notice \cup {Free, Mark}]
    /\ hasRecvDec \in [Server -> BOOLEAN]
    /\ replies \in [Server -> SUBSET [from : Server, value : Proposal]]
    /\ crashed \in SUBSET Server

(* The notices reach the executor in the order of the rounds, although the    *)
(* handler pushes them as the rounds complete: the assertions "should not     *)
(* happen 1" to "4" of wait() never fire.                                     *)
NoticesMatch ==
    \A s \in Server :
        Alive(s) /\ pc[s] = "wait" /\ queue[s] # << >> /\ ~hasRecvDec[s] =>
            \/ Head(queue[s]).type = "Decision"
            \/ Head(queue[s]).type = Awaited(s) /\ Head(queue[s]).phase = phase[s]

(* HasRecvDec "guarantees <= 1 Decision msg goes into the Queue", and while   *)
(* wait() discards notices because of it that message is still to come.       *)
DecisionNotices(s) == {i \in DOMAIN queue[s] : queue[s][i].type = "Decision"}
DecisionNoticeKept ==
    \A s \in Server :
        /\ Cardinality(DecisionNotices(s)) <= 1
        /\ hasRecvDec[s] /\ pc[s] = "wait" => DecisionNotices(s) # {}

(* A handler that blocked on the queue of a slot its executor has left is not *)
(* blocked for good: there is room for the notice it holds.                   *)
HandlerNotStuck ==
    \A s \in Server :
        pc[s] = "done" /\ handler[s] \notin {Free, Mark} => Len(queue[s]) < QueueCap

(* A server that asks for the proposal asks for one that some server has      *)
(* already tallied, completely and with a majority.                           *)
RequestAnswerable ==
    \A s \in Server : pc[s] = "request" =>
        \E q \in Server :
            HasEnoughMsg(recvProposal[q]) /\ MajProposals(q, Majority) # {}

(* epilogue's index into NumOfRoundsDist is within its LenBlockArray*2 + 2    *)
(* entries.                                                                   *)
StatIndex(s) ==
    LET n == phase[s] * 2 + round[s] IN
    IF n <= 3 THEN 3 ELSE IF n % 2 = 0 THEN n + 1 ELSE n
StatIndexInRange ==
    \A s \in Server : pc[s] = "done" => StatIndex(s) < LenBlockArray * 2 + 2

(* "the majority value is stable after notifying the Executor": no later      *)
(* message changes what a complete tally of proposals says.                   *)
MajorityStable ==
    [][\A s \in Server : HasEnoughMsg(recvProposal[s]) =>
          MajProposals(s, Majority)' = MajProposals(s, Majority)]_vars

(* Every step of the engine is a step of the algorithm or leaves it alone.    *)
AlgorithmPc == [s \in Server |-> IF pc[s] = "request" THEN "wait" ELSE pc[s]]
Algorithm == INSTANCE WeakMVC WITH pc <- AlgorithmPc
ImplementsWeakMVC == Algorithm!Spec

OutOfPhases == \E s \in Server : pc[s] = "panic"

(* What a crash can take away: the first Decision, or the only tallies that    *)
(* hold the majority, when everybody else was asked for it and had no answer. *)
DecisionLost == \E s \in crashed : IsDone(s)
AnswerLost ==
    /\ \E q \in crashed : MajProposals(q, Majority) # {}
    /\ \E s \in Server \ crashed : pc[s] = "request" /\
          \A q \in Server \ crashed :
              s \in requests[q] /\ \A r \in replies[s] : r.from # q

(* The servers that stay up decide, in whatever phase.  Said of the states in *)
(* which a behaviour of FairSpec ends: when the routines can go no further,   *)
(* all have decided, or one ran out of phases, or a crash took the Decision   *)
(* or the answer that they wait for.                                         *)
SurvivorsDecide ==
    \/ \A s \in Server \ crashed : pc[s] = "done"
    \/ OutOfPhases \/ DecisionLost \/ AnswerLost
    \/ ENABLED (\E s \in Server : FairStep(s))

(* A server that asks for the proposal, once at most, has an answer on the    *)
(* way or to come, from a server that is done as from any other, unless a     *)
(* server crashes: it may have been the only one that could answer.           *)
RequestAnswered ==
    \A s \in Server : pc[s] = "request" =>
        \/ replies[s] # {} \/ crashed # {}
        \/ \E q \in Server :
              /\ HasEnoughMsg(recvProposal[q]) /\ MajProposals(q, Majority) # {}
              /\ ~Passed(q, s, Message("ProposalRequest", 0, None))

(* "Rabia's goal is to let all servers in the cluster agree on the same       *)
(* sequence of decisions eventually": those that did not crash, at least.     *)
EveryServerDecides ==
    <>(\A s \in Server : s \in crashed \/ pc[s] = "done")

(* "sends a proposal request and waits for a respective reply": the wait of a *)
(* server that stays up ends.                                                 *)
RequestEnds ==
    \A s \in Server : pc[s] = "request" ~> (pc[s] = "done" \/ s \in crashed)
=============================================================================
