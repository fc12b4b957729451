----------------------------- MODULE LedgerRing -----------------------------
(***************************************************************************)
(* The Slot objects of one server and their reuse: slot seq % LenLedger    *)
(* serves the slots of the log one after the other, one term each.  The    *)
(* Executor and the MsgHandler both move a slot to its next term, under    *)
(* the slot's lock; KVSExecutor and every other reader take no lock.       *)
(*                                                                         *)
(* The peers are seen through their links, which are FIFO: a peer proposes *)
(* in slot after slot, and leaves a slot decided, with a Decision message  *)
(* if it decided on its own.  What happens in between the proposals and    *)
(* the decision is SlotEngine's matter.                                    *)
(***************************************************************************)
EXTENDS Integers, Sequences, FiniteSets

CONSTANTS
    Server,     \* all servers
    self,       \* the server whose ledger this is
    NFaulty,    \* Conf.NFaulty
    LenLedger,  \* Conf.LenLedger
    MaxSeq,     \* bound on the slots of the log
    Races,      \* the timing issues that may occur, see below
    None

(* "peerAhead": the others get a ring ahead, and the handler reuses the slot  *)
(* the executor still works on.  "lateMessage": the executor reuses a slot    *)
(* while the handler is still busy with a message for its former term.        *)
(* "proxy": a slot is reused before KVSExecutor has executed it.             *)
ASSUME ServerAssumption == IsFiniteSet(Server) /\ self \in Server
ASSUME FaultAssumption  == NFaulty \in Nat /\ 2 * NFaulty < Cardinality(Server)
ASSUME LengthAssumption == LenLedger \in Nat \ {0} /\ MaxSeq \in Nat
ASSUME RacesAssumption  == Races \subseteq {"peerAhead", "lateMessage", "proxy"}
ASSUME NoneAssumption   == None \notin {"executor", "handler"}

Peer == Server \ {self}
Routine == {"executor", "handler"}
Seq0 == 0 .. MaxSeq
NMinusF == Cardinality(Server) - NFaulty

VARIABLES
    TermReads,  \* 2 if the build reads Term anew for its second comparison, or 1
    Ledger,     \* Ledger[x]: the Slot object x
    lock,       \* lock[x]: the routine that holds Slot.Lock, or None
    pc,         \* pc[r]: the next step of routine r
    SvrSeq,     \* the slot the executor works on, -1 before the first
    msg,        \* the message the handler works on
    CurrSeq,    \* Proxy.CurrSeq, the slot KVSExecutor polls or executes
    kpc,        \* KVSExecutor's next step
    executed,   \* the decisions it has executed
    entered,    \* entered[q]: the slot peer q works on
    announced,  \* the slots for which some server has sent a Decision
    link        \* link[q]: the messages of q to this server

executorVars == <<SvrSeq>>
proxyVars == <<CurrSeq, kpc, executed>>
peerVars == <<entered, announced>>
vars == <<TermReads, Ledger, lock, pc, executorVars, msg, proxyVars, peerVars, link>>

Index(seq) == seq % LenLedger
Term(seq) == seq \div LenLedger
SlotOf(seq) == Ledger[Index(seq)]

(* Slot.Reset, which leaves Term as it is.                                   *)
Reset(t) == [Term |-> t, IsDone |-> FALSE, HasRecvDec |-> FALSE, Decision |-> None,
             Queue |-> << >>, MyProposal |-> None, RecvProposals |-> {}]

Message(type, q, seq) == [type |-> type, from |-> q, seq |-> seq]

Init ==
    /\ TermReads \in {1, 2}
    /\ Ledger = [x \in 0 .. LenLedger - 1 |-> Reset(0)]
    /\ lock = [x \in 0 .. LenLedger - 1 |-> None]
    /\ pc = [r \in Routine |-> "idle"]
    /\ SvrSeq = -1 /\ msg = None
    /\ CurrSeq = 0 /\ kpc = "poll" /\ executed = << >>
    /\ entered = [q \in Peer |-> -1] /\ announced = {}
    /\ link = [q \in Server |-> << >>]

Goto(r, label) == pc' = [pc EXCEPT ![r] = label]

-----------------------------------------------------------------------------
(* UpdateTermIfNecessary(seq), by either routine.  It ends at "updated", or   *)
(* without success where Bad(r) says: the executor panics, the handler drops  *)
(* the message.                                                              *)
SeqOf(r) == IF r = "executor" THEN SvrSeq ELSE msg.seq
Bad(r) == IF r = "executor" THEN "panic" ELSE "idle"

ReadTerm_OlderToo(r) ==
    /\ pc[r] = "readTerm"
    /\ LET t == SlotOf(SeqOf(r)).Term IN
       Goto(r, IF Term(SeqOf(r)) = t + 1 THEN "lock" ELSE "updated")
    /\ msg' = IF pc'["handler"] = "idle" THEN None ELSE msg
    /\ UNCHANGED <<TermReads, Ledger, lock, executorVars, proxyVars, peerVars, link>>

(* Term is compared twice without the lock.  The source reads it each time;   *)
(* a build may keep the first value.                                         *)
ReadTerm(r) ==
    /\ pc[r] = "readTerm"
    /\ LET t == SlotOf(SeqOf(r)).Term
           term == Term(SeqOf(r))
       IN  Goto(r, CASE term = t -> "updated"
                     [] term # t /\ TermReads = 2 -> "readTermAgain"
                     [] term = t + 1 /\ TermReads = 1 -> "lock"
                     [] OTHER -> Bad(r))
    /\ msg' = IF pc'["handler"] = "idle" THEN None ELSE msg
    /\ UNCHANGED <<TermReads, Ledger, lock, executorVars, proxyVars, peerVars, link>>

ReadTermAgain(r) ==
    /\ pc[r] = "readTermAgain"
    /\ Goto(r, IF Term(SeqOf(r)) = SlotOf(SeqOf(r)).Term + 1 THEN "lock" ELSE Bad(r))
    /\ msg' = IF pc'["handler"] = "idle" THEN None ELSE msg
    /\ UNCHANGED <<TermReads, Ledger, lock, executorVars, proxyVars, peerVars, link>>

(* With the lock: reset the fields, unless the other routine has done so.     *)
LockAndReset_NoRecheck(r) ==
    /\ pc[r] = "lock"
    /\ LET x == Index(SeqOf(r)) IN
       /\ lock[x] = None
       /\ Ledger' = [Ledger EXCEPT ![x] = Reset(Ledger[x].Term)]
       /\ lock' = [lock EXCEPT ![x] = r]
       /\ Goto(r, "setTerm")
    /\ UNCHANGED <<TermReads, executorVars, msg, proxyVars, peerVars, link>>

LockAndReset_PanicsIfDone(r) ==
    /\ pc[r] = "lock"
    /\ LET x == Index(SeqOf(r)) IN
       /\ lock[x] = None
       /\ IF Term(SeqOf(r)) = Ledger[x].Term + 1
          THEN /\ Ledger' = [Ledger EXCEPT ![x] = Reset(Ledger[x].Term)]
               /\ lock' = [lock EXCEPT ![x] = r]
               /\ Goto(r, "setTerm")
          ELSE /\ Goto(r, Bad(r))
               /\ UNCHANGED <<Ledger, lock>>
    /\ UNCHANGED <<TermReads, executorVars, msg, proxyVars, peerVars, link>>

LockAndReset(r) ==
    /\ pc[r] = "lock"
    /\ LET x == Index(SeqOf(r)) IN
       /\ lock[x] = None
       /\ IF Term(SeqOf(r)) = Ledger[x].Term + 1
          THEN /\ Ledger' = [Ledger EXCEPT ![x] = Reset(Ledger[x].Term)]
               /\ lock' = [lock EXCEPT ![x] = r]
               /\ Goto(r, "setTerm")
          ELSE /\ Goto(r, "updated")
               /\ UNCHANGED <<Ledger, lock>>
    /\ UNCHANGED <<TermReads, executorVars, msg, proxyVars, peerVars, link>>

SetTerm(r) ==
    /\ pc[r] = "setTerm"
    /\ LET x == Index(SeqOf(r)) IN
       /\ Ledger' = [Ledger EXCEPT ![x].Term = Term(SeqOf(r))]
       /\ lock' = [lock EXCEPT ![x] = None]
    /\ Goto(r, "updated")
    /\ UNCHANGED <<TermReads, executorVars, msg, proxyVars, peerVars, link>>

(* What the code trusts its timing for, unless Races says otherwise: no peer   *)
(* proposes in a slot whose former term this server is not through with, the  *)
(* executor does not reuse a slot while the handler has a message of a former *)
(* term for it, and no slot is reused before it was executed.                *)
Concluded(n) == n < SvrSeq \/ (n = SvrSeq /\ pc["executor"] = "idle")
NotAhead(n) == "peerAhead" \notin Races => Concluded(n - LenLedger)
Apart(seq, late) ==
    "lateMessage" \notin Races => ~(Index(late) = Index(seq) /\ late < seq)
ProxyIsDone(seq) == "proxy" \notin Races => seq - LenLedger < CurrSeq
UpdatesTerm == pc["executor"] \in {"readTerm", "readTermAgain", "lock", "setTerm"}

UpdateTerm(r) == ReadTerm(r) \/ ReadTermAgain(r) \/ LockAndReset(r) \/ SetTerm(r)

-----------------------------------------------------------------------------
(* The Executor.                                                             *)

(* getRequest finds a request.                                               *)
GetRequest ==
    /\ pc["executor"] = "idle"
    /\ SvrSeq < MaxSeq
    /\ pc["handler"] # "idle" => Apart(SvrSeq + 1, msg.seq)
    /\ ProxyIsDone(SvrSeq + 1)
    /\ SvrSeq' = SvrSeq + 1
    /\ Goto("executor", "readTerm")
    /\ UNCHANGED <<TermReads, Ledger, lock, msg, proxyVars, peerVars, link>>

(* PanicTermNotMatched(SvrSeq) does not panic.                               *)
InItsTerm == SlotOf(SvrSeq).Term = Term(SvrSeq)

(* The rest of getRequest, and phase0Round1BeforeWait.                       *)
Propose ==
    /\ pc["executor"] = "updated"
    /\ Ledger' = [Ledger EXCEPT ![Index(SvrSeq)].MyProposal = SvrSeq]
    /\ IF InItsTerm
       THEN /\ link' = [link EXCEPT ![self] = Append(@, Message("Proposal", self, SvrSeq))]
            /\ Goto("executor", "wait")
       ELSE Goto("executor", "panic") /\ UNCHANGED link
    /\ UNCHANGED <<TermReads, lock, executorVars, msg, proxyVars, peerVars>>

(* wait: a notice is taken.  The slot is decided right away or by the         *)
(* Decision of a server that decided it.                                     *)
Notice == Head(SlotOf(SvrSeq).Queue)
TakeNotice ==
    /\ pc["executor"] = "wait"
    /\ SlotOf(SvrSeq).Queue # << >>
    /\ Ledger' = [Ledger EXCEPT ![Index(SvrSeq)].Queue = Tail(@)]
    /\ UNCHANGED <<TermReads, lock, executorVars, msg, proxyVars, entered>>

(* A notice that HasRecvDec makes obsolete is dropped; after another one the  *)
(* executor may go on with the rounds of a slot a peer has decided.          *)
DropNotice ==
    /\ TakeNotice
    /\ Notice.type = "Proposal"
    /\ SlotOf(SvrSeq).HasRecvDec \/ SvrSeq \in announced
    /\ Goto("executor", IF SlotOf(SvrSeq).HasRecvDec \/ InItsTerm THEN "wait" ELSE "panic")
    /\ UNCHANGED <<TermReads, announced, link>>

DecideAlone ==
    /\ TakeNotice
    /\ Notice.type = "Proposal" /\ ~SlotOf(SvrSeq).HasRecvDec
    /\ IF InItsTerm
       THEN /\ announced' = announced \cup {SvrSeq}
            /\ link' = [link EXCEPT ![self] = Append(@, Message("Decision", self, SvrSeq))]
            /\ Goto("executor", "epilogue")
       ELSE Goto("executor", "panic") /\ UNCHANGED <<announced, link>>

LearnDecision ==
    /\ TakeNotice
    /\ Notice.type = "Decision"
    /\ Goto("executor", IF SlotOf(SvrSeq).IsDone THEN "panic" ELSE "epilogue")
    /\ UNCHANGED <<TermReads, announced, link>>

(* epilogue: Decision and IsDone are two writes.  The decision of a slot is   *)
(* named by the slot's number.                                               *)
SaveDecision ==
    /\ pc["executor"] = "epilogue"
    /\ IF InItsTerm
       THEN /\ Ledger' = [Ledger EXCEPT ![Index(SvrSeq)].Decision = SvrSeq]
            /\ Goto("executor", "done")
       ELSE Goto("executor", "panic") /\ UNCHANGED Ledger
    /\ UNCHANGED <<TermReads, lock, executorVars, msg, proxyVars, peerVars, link>>

SetIsDone ==
    /\ pc["executor"] = "done"
    /\ Ledger' = [Ledger EXCEPT ![Index(SvrSeq)].IsDone = TRUE]
    /\ Goto("executor", "putBack")
    /\ UNCHANGED <<TermReads, lock, executorVars, msg, proxyVars, peerVars, link>>

(* The rest of epilogue: the decision is compared with MyProposal, which is   *)
(* put back, after another look at Term, if it is not what was decided.       *)
PutBackMyProposal ==
    /\ pc["executor"] = "putBack"
    /\ Goto("executor", IF InItsTerm THEN "idle" ELSE "panic")
    /\ UNCHANGED <<TermReads, Ledger, lock, executorVars, msg, proxyVars, peerVars, link>>

Executor ==
    \/ GetRequest \/ UpdateTerm("executor") \/ Propose
    \/ DropNotice \/ DecideAlone \/ LearnDecision
    \/ SaveDecision \/ SetIsDone \/ PutBackMyProposal

-----------------------------------------------------------------------------
(* The MsgHandler: binConMsgHandling.                                        *)
TakeMessage(q) ==
    /\ pc["handler"] = "idle"
    /\ link[q] # << >>
    /\ UpdatesTerm => Apart(SvrSeq, Head(link[q]).seq)
    /\ msg' = Head(link[q])
    /\ link' = [link EXCEPT ![q] = Tail(@)]
    /\ Goto("handler", "readTerm")
    /\ UNCHANGED <<TermReads, Ledger, lock, executorVars, proxyVars, peerVars>>

HasEnoughMsg(s) == Cardinality(s.RecvProposals) >= NMinusF

HandleProposal(s) ==
    IF HasEnoughMsg(s) THEN s
    ELSE LET t == [s EXCEPT !.RecvProposals = @ \cup {[from |-> msg.from, seq |-> msg.seq]}]
         IN  IF ~HasEnoughMsg(t) THEN t
             ELSE [t EXCEPT !.Queue = Append(@, Message("Proposal", self, msg.seq))]

HandleDecision_OnlyMarks(s) == [s EXCEPT !.HasRecvDec = TRUE]
HandleDecision(s) ==
    IF s.HasRecvDec THEN s
    ELSE [s EXCEPT !.Queue = Append(@, msg), !.HasRecvDec = TRUE]

HandleMessage ==
    /\ pc["handler"] = "updated"
    /\ Ledger' = [Ledger EXCEPT ![Index(msg.seq)] =
          IF @.IsDone THEN @
          ELSE IF msg.type = "Proposal" THEN HandleProposal(@) ELSE HandleDecision(@)]
    /\ Goto("handler", "idle")
    /\ msg' = None
    /\ UNCHANGED <<TermReads, lock, executorVars, proxyVars, peerVars, link>>

Handler == UpdateTerm("handler") \/ HandleMessage \/ \E q \in Server : TakeMessage(q)

-----------------------------------------------------------------------------
(* KVSExecutor: it polls Term, then IsDone, and keeps a pointer to Decision.  *)
PollTerm_Skipped ==
    /\ kpc = "poll" /\ CurrSeq <= MaxSeq
    /\ kpc' = "term"
    /\ UNCHANGED <<TermReads, Ledger, lock, pc, executorVars, msg, CurrSeq, executed, peerVars, link>>

PollTerm ==
    /\ kpc = "poll" /\ CurrSeq <= MaxSeq
    /\ Term(CurrSeq) = SlotOf(CurrSeq).Term
    /\ kpc' = "term"
    /\ UNCHANGED <<TermReads, Ledger, lock, pc, executorVars, msg, CurrSeq, executed, peerVars, link>>

PollIsDone ==
    /\ kpc = "term"
    /\ kpc' = IF SlotOf(CurrSeq).IsDone THEN "done" ELSE "poll"
    /\ UNCHANGED <<TermReads, Ledger, lock, pc, executorVars, msg, CurrSeq, executed, peerVars, link>>

Execute ==
    /\ kpc = "done"
    /\ executed' = Append(executed, SlotOf(CurrSeq).Decision)
    /\ CurrSeq' = CurrSeq + 1
    /\ kpc' = "poll"
    /\ UNCHANGED <<TermReads, Ledger, lock, pc, executorVars, msg, peerVars, link>>

Proxy == PollTerm \/ PollIsDone \/ Execute

-----------------------------------------------------------------------------
(* The peers.  A slot is left when enough servers have proposed in it, by a   *)
(* server that decides it alone or learns the decision: this server need not  *)
(* be one of them.                                                           *)
Position(q) ==
    IF q # self THEN entered[q]
    ELSE IF pc["executor"] \in {"wait", "epilogue", "done", "putBack", "idle"}
         THEN SvrSeq
         ELSE SvrSeq - 1
Leaves(q, n) ==
    n >= 0 => Cardinality({p \in Server : Position(p) >= n}) >= NMinusF

PeerProceeds(q) ==
    LET n == entered[q] + 1
        next == << Message("Proposal", q, n) >>
        last == << Message("Decision", q, n - 1) >>
    IN  /\ n <= MaxSeq
        /\ Leaves(q, n - 1)
        /\ NotAhead(n) /\ ProxyIsDone(n)
        /\ entered' = [entered EXCEPT ![q] = n]
        /\ \/ /\ (n = 0 \/ n - 1 \in announced)
              /\ link' = [link EXCEPT ![q] = @ \o next]
              /\ UNCHANGED announced
           \/ /\ n > 0
              /\ link' = [link EXCEPT ![q] = @ \o last \o next]
              /\ announced' = announced \cup {n - 1}
        /\ UNCHANGED <<TermReads, Ledger, lock, pc, executorVars, msg, proxyVars>>

Next == Executor \/ Handler \/ Proxy \/ \E q \in Peer : PeerProceeds(q)

Spec == Init /\ [][Next]_vars

-----------------------------------------------------------------------------
(* Properties.                                                               *)

Sent == [type : {"Proposal", "Decision"}, from : Server, seq : Seq0]
SlotType ==
    [Term : Nat, IsDone : BOOLEAN, HasRecvDec : BOOLEAN, Decision : Seq0 \cup {None},
     Queue : Seq(Sent), MyProposal : Seq0 \cup {None},
     RecvProposals : SUBSET [from : Server, seq : Seq0]]

TypeOK ==
    /\ TermReads \in {1, 2}
    /\ Ledger \in [0 .. LenLedger - 1 -> SlotType]
    /\ lock \in [0 .. LenLedger - 1 -> Routine \cup {None}]
    /\ pc \in [Routine ->
          {"idle", "readTerm", "readTermAgain", "lock", "setTerm", "updated", "wait",
           "epilogue", "done", "putBack", "panic"}]
    /\ pc["handler"] \notin {"wait", "epilogue", "done", "putBack", "panic"}
    /\ SvrSeq \in -1 .. MaxSeq /\ CurrSeq \in 0 .. MaxSeq + 1
    /\ IF pc["handler"] = "idle" THEN msg = None ELSE msg \in Sent
    /\ kpc \in {"poll", "term", "done"} /\ (kpc # "poll" => CurrSeq <= MaxSeq)
    /\ entered \in [Peer -> -1 .. MaxSeq] /\ announced \subseteq Seq0
    /\ link \in [Server -> Seq(Sent)]

(* No "should not happen" of UpdateTermIfNecessary, PanicTermNotMatched and   *)
(* wait is reached, in a build that loads Term once, and epilogue puts back   *)
(* the proposal of its own slot: the slot an executor works on stays in its   *)
(* term, although the handler moves other slots on, and this one too if it    *)
(* comes first.                                                              *)
NeverPanics ==
    TermReads = 1 =>
        /\ pc["executor"] # "panic"
        /\ pc["executor"] = "putBack" => SlotOf(SvrSeq).MyProposal = SvrSeq

(* A slot's tally counts messages of its own slot of the log only, those of   *)
(* slots LenLedger earlier that arrive late included.                        *)
TalliesOwnSlot ==
    \A x \in DOMAIN Ledger : lock[x] = None =>
        \A m \in Ledger[x].RecvProposals : m.seq = Ledger[x].Term * LenLedger + x

(* A proposal that was handled before its slot was decided is in the tally,   *)
(* unless the tally is complete: whichever routine moves the slot to its term *)
(* and when, nothing counted is wiped out and nothing of the term is dropped, *)
(* if the build loads Term once.                                             *)
HandledIsTallied ==
    TermReads = 1 =>
    \A q \in Server : \A n \in 0 .. Position(q) :
        LET s == SlotOf(n) IN
        (/\ lock[Index(n)] = None
         /\ ~\E i \in DOMAIN link[q] : link[q][i] = Message("Proposal", q, n)
         /\ pc["handler"] = "idle" \/ msg # Message("Proposal", q, n)
         /\ s.Term <= Term(n) /\ ~(s.Term = Term(n) /\ s.IsDone))
        => s.Term = Term(n) /\ (HasEnoughMsg(s) \/ [from |-> q, seq |-> n] \in s.RecvProposals)

(* KVSExecutor executes the decisions of the log one after the other, each    *)
(* once and none empty, although it reads Term, IsDone and Decision without   *)
(* the lock while they are written.                                          *)
ExecutesDecisions == executed = [i \in 1 .. CurrSeq |-> i - 1]

(* consensus.go:59 counts "Two cases where race condition may occur", neither *)
(* in KVSExecutor: a slot should be kept until it was executed.              *)
KeptUntilExecuted == CurrSeq <= MaxSeq => SlotOf(CurrSeq).Term <= Term(CurrSeq)

(* The server never comes to a standstill before every slot is executed: when *)
(* executor, handler and peers have nothing left to do and KVSExecutor polls  *)
(* a slot that is not done, the log is at its end.                            *)
KVSExecutorSpins ==
    /\ kpc \in {"poll", "term"}
    /\ CurrSeq <= MaxSeq => ~(SlotOf(CurrSeq).Term = Term(CurrSeq) /\ SlotOf(CurrSeq).IsDone)
NoStandstill ==
    (/\ KVSExecutorSpins
     /\ ~ENABLED (Executor \/ Handler \/ \E q \in Peer : PeerProceeds(q)))
    => CurrSeq = MaxSeq + 1 \/ pc["executor"] = "panic"
=============================================================================
