-------------------------- MODULE LedgerRingProofs --------------------------
(***************************************************************************)
(* Proofs about LedgerRing, for every number of servers, length of the     *)
(* ledger and number of slots: whichever routine moves a Slot object to    *)
(* its next term, and when, no message is counted in another slot, none    *)
(* that was handled is lost, the executor does not panic, and the log is   *)
(* executed as it was decided.  All of it holds of a server that its peers *)
(* do not get a ring ahead of ("peerAhead" is not in Races); what else it  *)
(* takes, each theorem says.                                               *)
(***************************************************************************)
EXTENDS LedgerRing, TLAPS

(* The slot of the log that Slot object x serves; the first one that the      *)
(* executor is not through with, and the first one it has not decided.       *)
Serves(x) == Ledger[x].Term * LenLedger + x
Current == IF pc["executor"] = "idle" THEN SvrSeq + 1 ELSE SvrSeq
Undecided == IF pc["executor"] \in {"idle", "putBack"} THEN SvrSeq + 1 ELSE SvrSeq

(* Every object serves the last of its slots that the executor is through     *)
(* with, or the next one; no server is a whole ledger ahead of this one.     *)
Bounds ==
    /\ \A x \in DOMAIN Ledger :
          Current - LenLedger <= Serves(x) /\ Serves(x) < Current + LenLedger
    /\ \A q \in Peer : entered[q] < Current + LenLedger
    /\ pc["executor"] # "idle" => SvrSeq >= 0

(* The messages on their way from q.                                         *)
MessagesSent ==
    /\ \A q \in Server : \A i \in DOMAIN link[q] :
          link[q][i].from = q /\ link[q][i].seq <= Position(q)
    /\ pc["handler"] # "idle" => msg.seq <= Position(msg.from)

(* How far the routines have brought the object they work on.                *)
ObjectAtHand ==
    /\ pc["executor"] \in {"updated", "wait", "epilogue", "done", "putBack"} =>
          Serves(Index(SvrSeq)) = SvrSeq
    /\ pc["executor"] \in {"wait", "epilogue", "done", "putBack"} =>
          SlotOf(SvrSeq).MyProposal = SvrSeq
    /\ pc["executor"] = "done" => SlotOf(SvrSeq).Decision = SvrSeq
    /\ pc["handler"] = "lock" => Serves(Index(msg.seq)) >= msg.seq - LenLedger
    /\ pc["handler"] = "updated" => Serves(Index(msg.seq)) >= msg.seq

(* Who holds a lock: the object is not done until its term is set.           *)
Locks ==
    /\ \A x \in DOMAIN Ledger : \A r \in Routine :
          lock[x] = r <=> pc[r] = "setTerm" /\ Index(SeqOf(r)) = x
    /\ \A r \in Routine : pc[r] = "setTerm" =>
          /\ Serves(Index(SeqOf(r))) = SeqOf(r) - LenLedger
          /\ ~SlotOf(SeqOf(r)).IsDone

(* An object is done exactly while it serves a decided slot.                 *)
DoneIsConcluded ==
    \A x \in DOMAIN Ledger :
        /\ lock[x] = None => (Ledger[x].IsDone <=> Serves(x) < Undecided)
        /\ Ledger[x].IsDone => Ledger[x].Decision = Serves(x)

(* The notices in a queue: one for the tally, one for a Decision.            *)
FewNotices ==
    \A x \in DOMAIN Ledger :
        Len(Ledger[x].Queue) <= (IF HasEnoughMsg(Ledger[x]) THEN 1 ELSE 0)
                                + (IF Ledger[x].HasRecvDec THEN 1 ELSE 0)

(* In a build that loads Term once, no comparison of terms comes out wrong.  *)
NoRoutineAstray ==
    TermReads = 1 =>
        pc["executor"] # "panic" /\ \A r \in Routine : pc[r] # "readTermAgain"

(* What has been handled of q.                                               *)
Handled(q, n) ==
    /\ ~\E i \in DOMAIN link[q] : link[q][i] = Message("Proposal", q, n)
    /\ pc["handler"] = "idle" \/ msg # Message("Proposal", q, n)
HandledCounts ==
    TermReads = 1 =>
    \A q \in Server : \A n \in 0 .. Position(q) : Handled(q, n) =>
        /\ Serves(Index(n)) >= n
        /\ Serves(Index(n)) = n /\ lock[Index(n)] = None /\ ~SlotOf(n).IsDone =>
              HasEnoughMsg(SlotOf(n)) \/ [from |-> q, seq |-> n] \in SlotOf(n).RecvProposals

RingInv ==
    /\ TypeOK
    /\ Bounds /\ MessagesSent /\ ObjectAtHand /\ Locks /\ DoneIsConcluded
    /\ FewNotices /\ NoRoutineAstray /\ HandledCounts

(* If no message comes late: the handler works on the term of its message.   *)
HandlerInTerm ==
    /\ pc["handler"] # "idle" /\ UpdatesTerm =>
          ~(Index(msg.seq) = Index(SvrSeq) /\ msg.seq < SvrSeq)
    /\ pc["handler"] = "lock" => Serves(Index(msg.seq)) <= msg.seq
    /\ pc["handler"] = "updated" => Serves(Index(msg.seq)) = msg.seq
    /\ \A r \in Routine : pc[r] = "setTerm" => SlotOf(SeqOf(r)).RecvProposals = {}
    /\ \A x \in DOMAIN Ledger : \A m \in Ledger[x].RecvProposals : m.seq = Serves(x)

(* If no object is reused before it is executed: nobody is a whole ledger     *)
(* ahead of KVSExecutor, and what it reads in three steps does not change.   *)
ProxyInTime ==
    /\ SvrSeq < CurrSeq + LenLedger
    /\ \A q \in Peer : entered[q] < CurrSeq + LenLedger
    /\ \A x \in DOMAIN Ledger : Serves(x) < CurrSeq + LenLedger
    /\ kpc \in {"term", "done"} => Serves(Index(CurrSeq)) = CurrSeq
    /\ kpc = "done" => SlotOf(CurrSeq).IsDone
    /\ ExecutesDecisions

-----------------------------------------------------------------------------
(* The slots of the log that an object serves.                               *)
LEMMA IndexAndTerm ==
    ASSUME NEW n \in Nat
    PROVE  /\ Index(n) \in 0 .. LenLedger - 1 /\ Term(n) \in Nat
           /\ n = Term(n) * LenLedger + Index(n)
  BY LengthAssumption DEF Index, Term

LEMMA Served ==
    ASSUME NEW x \in 0 .. LenLedger - 1, NEW t \in Nat
    PROVE  /\ t * LenLedger + x \in Nat
           /\ Index(t * LenLedger + x) = x /\ Term(t * LenLedger + x) = t
           /\ (t + 1) * LenLedger + x = t * LenLedger + x + LenLedger
  BY LengthAssumption DEF Index, Term

LEMMA LaterTerm ==
    ASSUME NEW s \in Nat, NEW t \in Nat, s < t
    PROVE  s * LenLedger + LenLedger <= t * LenLedger
  BY LengthAssumption

(* An object with term t is a whole number of terms away from the slot n.    *)
LEMMA Distance ==
    ASSUME NEW n \in Nat, NEW t \in Nat, NEW s \in Nat, s = t * LenLedger + Index(n)
    PROVE  /\ Term(n) = t <=> n = s
           /\ Term(n) = t + 1 <=> n = s + LenLedger
           /\ Term(n) <= t <=> n <= s
           /\ n < s => n + LenLedger <= s
           /\ s < n => s + LenLedger <= n
           /\ s + LenLedger < n => s + LenLedger + LenLedger <= n
<1>1. /\ Index(n) \in 0 .. LenLedger - 1 /\ Term(n) \in Nat
      /\ n = Term(n) * LenLedger + Index(n) /\ LenLedger \in Nat \ {0}
  BY IndexAndTerm, LengthAssumption
<1>2. CASE Term(n) = t
  BY <1>1, <1>2
<1>3. CASE Term(n) < t
  <2>1. Term(n) * LenLedger + LenLedger <= t * LenLedger
    BY <1>1, <1>3, LaterTerm
  <2> QED
    BY <1>1, <1>3, <2>1
<1>4. CASE Term(n) > t
  <2>1. t * LenLedger + LenLedger <= Term(n) * LenLedger
    BY <1>1, <1>4, LaterTerm
  <2>2. CASE Term(n) = t + 1
    <3>1. (t + 1) * LenLedger + Index(n) = s + LenLedger
      BY <1>1, Served
    <3> QED
      BY <1>1, <2>2, <3>1
  <2>3. CASE Term(n) > t + 1
    <3>1. (t + 1) * LenLedger + LenLedger <= Term(n) * LenLedger
      BY <1>1, <2>3, LaterTerm
    <3>2. (t + 1) * LenLedger + Index(n) = s + LenLedger
      BY <1>1, Served
    <3> QED
      BY <1>1, <1>4, <2>1, <2>3, <3>1, <3>2
  <2> QED
    BY <1>1, <1>4, <2>2, <2>3
<1> QED
  BY <1>1, <1>2, <1>3, <1>4

LEMMA Objects ==
    ASSUME TypeOK, NEW x \in 0 .. LenLedger - 1
    PROVE  /\ DOMAIN Ledger = 0 .. LenLedger - 1 /\ Ledger[x] \in SlotType
           /\ Ledger[x].Term \in Nat /\ Serves(x) \in Nat
<1>1. Ledger[x] \in SlotType /\ Ledger[x].Term \in Nat /\ DOMAIN Ledger = 0 .. LenLedger - 1
  BY DEF TypeOK, SlotType
<1> QED
  BY <1>1, Served DEF Serves

LEMMA SlotServed ==
    ASSUME TypeOK, NEW n \in Nat
    PROVE  /\ Index(n) \in DOMAIN Ledger /\ Serves(Index(n)) \in Nat
           /\ SlotOf(n).Term \in Nat
           /\ Term(n) = SlotOf(n).Term <=> n = Serves(Index(n))
           /\ Term(n) = SlotOf(n).Term + 1 <=> n = Serves(Index(n)) + LenLedger
           /\ SlotOf(n).Term <= Term(n) <=> Serves(Index(n)) <= n
           /\ n < Serves(Index(n)) => n + LenLedger <= Serves(Index(n))
           /\ Serves(Index(n)) < n => Serves(Index(n)) + LenLedger <= n
           /\ Serves(Index(n)) + LenLedger < n =>
                 Serves(Index(n)) + LenLedger + LenLedger <= n
<1> DEFINE x == Index(n)
           t == Ledger[x].Term
           s == t * LenLedger + x
<1>1. x \in 0 .. LenLedger - 1 /\ Term(n) \in Nat
  BY IndexAndTerm
<1>2. x \in DOMAIN Ledger /\ t \in Nat /\ s \in Nat /\ s = Serves(x)
  BY <1>1, Objects DEF Serves
<1>3. /\ Term(n) = t <=> n = s
      /\ Term(n) = t + 1 <=> n = s + LenLedger
      /\ Term(n) <= t <=> n <= s
      /\ n < s => n + LenLedger <= s
      /\ s < n => s + LenLedger <= n
      /\ s + LenLedger < n => s + LenLedger + LenLedger <= n
  BY <1>2, Distance
<1> HIDE DEF x, t, s
<1>4. t <= Term(n) <=> s <= n
  BY <1>1, <1>2, <1>3
<1> QED
  BY <1>2, <1>3, <1>4 DEF x, t, SlotOf

(* Two slots served by different objects are not terms apart.                *)
LEMMA SameObject ==
    ASSUME TypeOK, NEW x \in 0 .. LenLedger - 1, NEW n \in Nat,
           Serves(x) \in {n, n - LenLedger}
    PROVE  x = Index(n)
<1> DEFINE t == Ledger[x].Term
<1>1. t \in Nat /\ Serves(x) = t * LenLedger + x
  BY Objects DEF Serves
<1>2. /\ Index(t * LenLedger + x) = x /\ Index((t + 1) * LenLedger + x) = x
      /\ (t + 1) * LenLedger + x = t * LenLedger + x + LenLedger
      /\ t * LenLedger + x \in Nat
  BY <1>1, Served
<1> HIDE DEF t
<1>3. n = t * LenLedger + x \/ n = (t + 1) * LenLedger + x
  BY <1>1, <1>2, LengthAssumption
<1> QED
  BY <1>2, <1>3

(* Where the routines are.                                                   *)
LEMMA Positions ==
    ASSUME RingInv
    PROVE  /\ LenLedger \in Nat \ {0} /\ MaxSeq \in Nat
           /\ SvrSeq \in Int /\ SvrSeq <= MaxSeq /\ Current \in Nat
           /\ Current \in {SvrSeq, SvrSeq + 1}
           /\ pc["executor"] # "idle" => SvrSeq \in Nat /\ SvrSeq \in Seq0 /\ Current = SvrSeq
           /\ \A q \in Server : Position(q) \in Int /\ Position(q) < Current + LenLedger
           /\ Position(self) <= SvrSeq
           /\ pc["handler"] # "idle" =>
                 msg \in Sent /\ msg.seq \in Nat /\ msg.seq < Current + LenLedger
<1>1. LenLedger \in Nat \ {0} /\ MaxSeq \in Nat
  BY LengthAssumption
<1>2. SvrSeq \in Int /\ SvrSeq <= MaxSeq /\ SvrSeq >= -1 /\ (pc["executor"] # "idle" => SvrSeq >= 0)
  BY <1>1 DEF RingInv, TypeOK, Bounds
<1>3. Current \in Nat /\ Current \in {SvrSeq, SvrSeq + 1}
  BY <1>2 DEF Current
<1>4. \A q \in Peer : entered[q] \in Int /\ entered[q] < Current + LenLedger
  BY <1>1 DEF RingInv, TypeOK, Bounds
<1>5. Position(self) \in {SvrSeq, SvrSeq - 1}
  BY DEF Position
<1>6. \A q \in Server : Position(q) \in Int /\ Position(q) < Current + LenLedger
  BY <1>1, <1>2, <1>3, <1>4, <1>5 DEF Position, Peer
<1>7. pc["handler"] # "idle" =>
        msg \in Sent /\ msg.seq \in Nat /\ msg.seq < Current + LenLedger
  <2> SUFFICES ASSUME pc["handler"] # "idle"
               PROVE  msg \in Sent /\ msg.seq \in Nat /\ msg.seq < Current + LenLedger
    OBVIOUS
  <2>1. msg \in Sent
    BY DEF RingInv, TypeOK
  <2>2. msg.seq \in Nat /\ msg.from \in Server
    BY <1>1, <2>1 DEF Sent, Seq0
  <2>3. msg.seq <= Position(msg.from)
    BY DEF RingInv, MessagesSent
  <2> QED
    BY <1>1, <1>3, <1>6, <2>1, <2>2, <2>3
<1> QED
  BY <1>1, <1>2, <1>3, <1>5, <1>6, <1>7 DEF Current, Seq0

-----------------------------------------------------------------------------
(* The steps that leave the objects alone.                                   *)
LEMMA GetRequestStep ==
    ASSUME RingInv, GetRequest
    PROVE  RingInv'
<1>1. /\ UNCHANGED <<TermReads, Ledger, lock, msg, CurrSeq, kpc, entered, announced, link>>
      /\ pc["executor"] = "idle" /\ SvrSeq < MaxSeq /\ SvrSeq' = SvrSeq + 1
      /\ pc' = [pc EXCEPT !["executor"] = "readTerm"]
  BY DEF GetRequest, Goto, proxyVars, peerVars
<1>2. pc'["executor"] = "readTerm" /\ pc'["handler"] = pc["handler"]
  BY <1>1 DEF RingInv, TypeOK, Routine
<1>3. TypeOK'
  BY <1>1, <1>2, Positions DEF RingInv, TypeOK
<1>4. /\ Current' = Current /\ Undecided' = Undecided
      /\ \A x : Serves(x)' = Serves(x)
      /\ \A q : Position(q)' = Position(q) /\ \A r : pc[r] # "idle" => SeqOf(r)' = SeqOf(r)
  BY <1>1, <1>2, Positions DEF Current, Undecided, Serves, Position, SeqOf
<1>5. Bounds' /\ MessagesSent' /\ ObjectAtHand'
  BY <1>1, <1>2, <1>4, Positions DEF RingInv, Bounds, MessagesSent, ObjectAtHand
<1>6. Locks'
  BY <1>1, <1>2, <1>4 DEF RingInv, Locks, Routine, SlotOf
<1>7. DoneIsConcluded' /\ FewNotices' /\ NoRoutineAstray'
  BY <1>1, <1>2, <1>4 DEF RingInv, DoneIsConcluded, FewNotices, NoRoutineAstray, Routine
<1>8. HandledCounts'
  BY <1>1, <1>2, <1>4 DEF RingInv, HandledCounts, Handled, SlotOf
<1> QED
  BY <1>3, <1>5, <1>6, <1>7, <1>8 DEF RingInv

(* The executor moves within UpdateTermIfNecessary without touching its slot.  *)
LEMMA ExecutorMoves ==
    ASSUME RingInv, NEW label \in {"readTermAgain", "lock", "updated", "panic"},
           pc["executor"] \in {"readTerm", "readTermAgain", "lock"},
           pc' = [pc EXCEPT !["executor"] = label],
           label = "updated" => Serves(Index(SvrSeq)) = SvrSeq,
           TermReads = 1 => label \notin {"readTermAgain", "panic"},
           UNCHANGED <<TermReads, Ledger, lock, SvrSeq, msg, proxyVars, peerVars, link>>
    PROVE  RingInv'
<1>1. UNCHANGED <<TermReads, Ledger, lock, SvrSeq, msg, CurrSeq, kpc, entered, announced, link>>
  BY DEF proxyVars, peerVars
<1>2. pc'["executor"] = label /\ pc'["handler"] = pc["handler"]
  BY <1>1 DEF RingInv, TypeOK, Routine
<1>3. TypeOK'
  BY <1>1, <1>2 DEF RingInv, TypeOK
<1>4. /\ Current' = Current /\ Undecided' = Undecided
      /\ \A x : Serves(x)' = Serves(x)
      /\ \A q : Position(q)' = Position(q) /\ \A r : SeqOf(r)' = SeqOf(r)
  BY <1>1, <1>2 DEF Current, Undecided, Serves, Position, SeqOf
<1>5. Bounds' /\ MessagesSent' /\ ObjectAtHand'
  BY <1>1, <1>2, <1>4 DEF RingInv, Bounds, MessagesSent, ObjectAtHand
<1>6. Locks'
  BY <1>1, <1>2, <1>4 DEF RingInv, Locks, Routine, SlotOf
<1>7. DoneIsConcluded' /\ FewNotices' /\ NoRoutineAstray'
  BY <1>1, <1>2, <1>4 DEF RingInv, DoneIsConcluded, FewNotices, NoRoutineAstray, Routine
<1>8. HandledCounts'
  BY <1>1, <1>2, <1>4 DEF RingInv, HandledCounts, Handled, SlotOf
<1> QED
  BY <1>3, <1>5, <1>6, <1>7, <1>8 DEF RingInv

(* Neither does the handler, and it drops no message whose slot is still to   *)
(* come or being served.                                                     *)
LEMMA HandlerMoves ==
    ASSUME RingInv, NEW label \in {"readTermAgain", "lock", "updated", "idle"},
           pc["handler"] \in {"readTerm", "readTermAgain", "lock"},
           pc' = [pc EXCEPT !["handler"] = label],
           msg' = IF label = "idle" THEN None ELSE msg,
           label = "lock" => Serves(Index(msg.seq)) >= msg.seq - LenLedger,
           label = "updated" => Serves(Index(msg.seq)) >= msg.seq,
           label = "idle" /\ TermReads = 1 => Serves(Index(msg.seq)) > msg.seq,
           TermReads = 1 => label # "readTermAgain",
           UNCHANGED <<TermReads, Ledger, lock, SvrSeq, proxyVars, peerVars, link>>
    PROVE  RingInv'
<1>1. UNCHANGED <<TermReads, Ledger, lock, SvrSeq, CurrSeq, kpc, entered, announced, link>>
  BY DEF proxyVars, peerVars
<1>2. pc'["handler"] = label /\ pc'["executor"] = pc["executor"]
  BY <1>1 DEF RingInv, TypeOK, Routine
<1>3. TypeOK'
  BY <1>1, <1>2 DEF RingInv, TypeOK
<1>4. /\ Current' = Current /\ Undecided' = Undecided
      /\ \A x : Serves(x)' = Serves(x)
      /\ \A q : Position(q)' = Position(q)
      /\ SeqOf("executor")' = SeqOf("executor")
  BY <1>1, <1>2 DEF Current, Undecided, Serves, Position, SeqOf
<1>5. Bounds' /\ MessagesSent' /\ ObjectAtHand'
  <2>1. Bounds'
    BY <1>1, <1>2, <1>4 DEF RingInv, Bounds
  <2>2. label # "idle" => msg' = msg
    OBVIOUS
  <2>3. MessagesSent'
    BY <1>1, <1>2, <1>4, <2>2 DEF RingInv, MessagesSent
  <2>4. ObjectAtHand'
    BY <1>1, <1>2, <1>4, <2>2 DEF RingInv, ObjectAtHand, SlotOf
  <2> QED
    BY <2>1, <2>3, <2>4
<1>6. Locks'
  BY <1>1, <1>2, <1>4 DEF RingInv, Locks, Routine, SlotOf
<1>7. DoneIsConcluded' /\ FewNotices' /\ NoRoutineAstray'
  BY <1>1, <1>2, <1>4 DEF RingInv, DoneIsConcluded, FewNotices, NoRoutineAstray, Routine
<1>8. HandledCounts'
  <2> SUFFICES ASSUME TermReads = 1, NEW q \in Server, NEW n \in 0 .. Position(q),
                      Handled(q, n)'
               PROVE  /\ Serves(Index(n)) >= n
                      /\ Serves(Index(n)) = n /\ lock[Index(n)] = None /\ ~SlotOf(n).IsDone =>
                            \/ HasEnoughMsg(SlotOf(n))
                            \/ [from |-> q, seq |-> n] \in SlotOf(n).RecvProposals
    BY <1>1, <1>4 DEF HandledCounts, SlotOf
  <2>1. CASE Handled(q, n)
    BY <2>1 DEF RingInv, HandledCounts
  <2>2. CASE ~Handled(q, n)
    <3>1. label = "idle" /\ msg = Message("Proposal", q, n)
      BY <1>1, <1>2, <2>2 DEF Handled
    <3>2. msg.seq = n
      BY <3>1 DEF Message
    <3>3. Serves(Index(n)) > n
      BY <3>1, <3>2
    <3>4. n \in Nat /\ Serves(Index(n)) \in Nat
      BY Positions, SlotServed DEF RingInv
    <3> QED
      BY <3>3, <3>4
  <2> QED
    BY <2>1, <2>2
<1> QED
  BY <1>3, <1>5, <1>6, <1>7, <1>8 DEF RingInv

(* The slot and the object of a routine, in terms of the log.                 *)
LEMMA AtHand ==
    ASSUME RingInv, NEW r \in Routine, pc[r] # "idle"
    PROVE  LET n == SeqOf(r)
               x == Index(n)
               s == Serves(x)
           IN  /\ n \in Nat /\ s \in Nat /\ n < Current + LenLedger
               /\ x \in DOMAIN Ledger /\ DOMAIN Ledger = 0 .. LenLedger - 1
               /\ Ledger[x] \in SlotType /\ Ledger[x].Term \in Nat
               /\ Term(n) = Ledger[x].Term <=> n = s
               /\ Term(n) = Ledger[x].Term + 1 <=> n = s + LenLedger
               /\ s < n => s + LenLedger <= n
               /\ n < s => n + LenLedger <= s
               /\ s + LenLedger >= n
               /\ Current - LenLedger <= s /\ s < Current + LenLedger
<1> DEFINE n == SeqOf(r)
           s == Serves(Index(n))
<1>1. n \in Nat /\ n < Current + LenLedger /\ LenLedger \in Nat \ {0} /\ Current \in Nat
  BY Positions DEF Routine, SeqOf
<1>2. Index(n) \in DOMAIN Ledger /\ DOMAIN Ledger = 0 .. LenLedger - 1 /\ s \in Nat
      /\ Ledger[Index(n)] \in SlotType /\ Ledger[Index(n)].Term \in Nat
  BY <1>1, IndexAndTerm, Objects DEF RingInv
<1>3. /\ Term(n) = Ledger[Index(n)].Term <=> n = s
      /\ Term(n) = Ledger[Index(n)].Term + 1 <=> n = s + LenLedger
      /\ s < n => s + LenLedger <= n
      /\ n < s => n + LenLedger <= s
      /\ s + LenLedger < n => s + LenLedger + LenLedger <= n
  BY <1>1, SlotServed DEF RingInv, SlotOf
<1>4. Current - LenLedger <= s /\ s < Current + LenLedger
  BY <1>2 DEF RingInv, Bounds
<1> HIDE DEF n, s
<1>5. s + LenLedger >= n
  BY <1>1, <1>2, <1>3, <1>4
<1> QED
  BY <1>1, <1>2, <1>3, <1>4, <1>5 DEF n, s

(* The comparisons of terms: the routine is done, moves on to the lock, or    *)
(* gives up, in a build that loads Term once only on a message too old.      *)
LEMMA ReadTermOutcome ==
    ASSUME RingInv, NEW r \in Routine, ReadTerm(r) \/ ReadTermAgain(r)
    PROVE  LET n == SeqOf(r)
               s == Serves(Index(n))
           IN  \E label \in {"updated", "lock", "readTermAgain", Bad(r)} :
                  /\ pc' = [pc EXCEPT ![r] = label]
                  /\ label = "updated" => n = s
                  /\ label = "lock" => n = s + LenLedger
                  /\ label \in {"readTermAgain", Bad(r)} /\ TermReads = 1 =>
                        label = Bad(r) /\ r = "handler" /\ s > n
<1> DEFINE n == SeqOf(r)
           s == Serves(Index(n))
<1>1. pc[r] # "idle"
  BY DEF ReadTerm, ReadTermAgain
<1>2. /\ n \in Nat /\ s \in Nat /\ n < Current + LenLedger
      /\ Term(n) = SlotOf(n).Term <=> n = s
      /\ Term(n) = SlotOf(n).Term + 1 <=> n = s + LenLedger
      /\ s < n => s + LenLedger <= n
      /\ n < s => n + LenLedger <= s
      /\ s + LenLedger >= n
      /\ Current - LenLedger <= s /\ s < Current + LenLedger
  BY <1>1, AtHand DEF SlotOf
<1>3. LenLedger \in Nat \ {0} /\ Current \in Nat
  BY Positions
<1>4. TermReads \in {1, 2} /\ (TermReads = 1 => pc[r] # "readTermAgain")
  BY DEF RingInv, TypeOK, NoRoutineAstray
<1>5. r = "executor" => n = Current
  BY <1>1, Positions DEF SeqOf
<1> HIDE DEF n, s
<1>6. n # s /\ n # s + LenLedger => r = "handler" /\ s > n
  BY <1>2, <1>3, <1>5 DEF Routine
<1>7. n = s => n # s + LenLedger
  BY <1>2, <1>3
<1>8. Bad(r) \notin {"updated", "lock", "readTermAgain"}
  BY DEF Bad
<1> SUFFICES \E label \in {"updated", "lock", "readTermAgain", Bad(r)} :
                /\ pc' = [pc EXCEPT ![r] = label]
                /\ label = "updated" => n = s
                /\ label = "lock" => n = s + LenLedger
                /\ label \in {"readTermAgain", Bad(r)} /\ TermReads = 1 =>
                      label = Bad(r) /\ r = "handler" /\ s > n
  BY DEF n, s
<1>9. CASE ReadTerm(r)
  <2>1. pc' = [pc EXCEPT ![r] = CASE n = s -> "updated"
                                  [] n # s /\ TermReads = 2 -> "readTermAgain"
                                  [] n = s + LenLedger /\ TermReads = 1 -> "lock"
                                  [] OTHER -> Bad(r)]
    BY <1>2, <1>9 DEF ReadTerm, Goto, n
  <2>2. CASE n = s
    <3>1. pc' = [pc EXCEPT ![r] = "updated"]
      BY <1>7, <2>1, <2>2
    <3> QED
      BY <1>8, <2>2, <3>1
  <2>3. CASE n # s /\ TermReads = 2
    <3>1. pc' = [pc EXCEPT ![r] = "readTermAgain"]
      BY <2>1, <2>3
    <3> QED
      BY <1>8, <2>3, <3>1
  <2>4. CASE n = s + LenLedger /\ TermReads = 1
    <3>1. pc' = [pc EXCEPT ![r] = "lock"]
      BY <1>7, <2>1, <2>4
    <3> QED
      BY <1>8, <2>4, <3>1
  <2>5. CASE n # s /\ n # s + LenLedger /\ TermReads = 1
    <3>1. pc' = [pc EXCEPT ![r] = Bad(r)]
      BY <2>1, <2>5
    <3> QED
      BY <1>6, <1>8, <2>5, <3>1
  <2> QED
    BY <1>4, <2>2, <2>3, <2>4, <2>5
<1>10. CASE ReadTermAgain(r)
  <2>1. pc' = [pc EXCEPT ![r] = IF n = s + LenLedger THEN "lock" ELSE Bad(r)] /\ TermReads # 1
    BY <1>2, <1>4, <1>10 DEF ReadTermAgain, Goto, n
  <2> QED
    BY <1>8, <2>1
<1> QED
  BY <1>9, <1>10

LEMMA ReadTermStep ==
    ASSUME RingInv, NEW r \in Routine, ReadTerm(r) \/ ReadTermAgain(r)
    PROVE  RingInv'
<1>1. /\ UNCHANGED <<TermReads, Ledger, lock, SvrSeq, proxyVars, peerVars, link>>
      /\ pc[r] \in {"readTerm", "readTermAgain"}
      /\ msg' = IF pc'["handler"] = "idle" THEN None ELSE msg
  BY DEF ReadTerm, ReadTermAgain, executorVars
<1>2. PICK label \in {"updated", "lock", "readTermAgain", Bad(r)} :
         /\ pc' = [pc EXCEPT ![r] = label]
         /\ label = "updated" => SeqOf(r) = Serves(Index(SeqOf(r)))
         /\ label = "lock" => SeqOf(r) = Serves(Index(SeqOf(r))) + LenLedger
         /\ label \in {"readTermAgain", Bad(r)} /\ TermReads = 1 =>
               label = Bad(r) /\ r = "handler" /\ Serves(Index(SeqOf(r))) > SeqOf(r)
  BY ReadTermOutcome
<1>3. CASE r = "executor"
  <2>1. SeqOf(r) = SvrSeq
    BY <1>3 DEF SeqOf
  <2>2. msg' = msg
    BY <1>1, <1>2, <1>3 DEF RingInv, TypeOK, Routine
  <2>3. /\ label \in {"readTermAgain", "lock", "updated", "panic"}
        /\ label = "updated" => Serves(Index(SvrSeq)) = SvrSeq
        /\ TermReads = 1 => label \notin {"readTermAgain", "panic"}
    BY <1>2, <1>3, <2>1 DEF Bad
  <2> QED
    BY <1>1, <1>2, <1>3, <2>2, <2>3, ExecutorMoves
<1>4. CASE r = "handler"
  <2>1. SeqOf(r) = msg.seq /\ msg.seq \in Nat /\ Serves(Index(msg.seq)) \in Nat
    BY <1>1, <1>4, AtHand DEF SeqOf
  <2>2. LenLedger \in Nat
    BY LengthAssumption
  <2>3. /\ label \in {"readTermAgain", "lock", "updated", "idle"}
        /\ label = "lock" => Serves(Index(msg.seq)) >= msg.seq - LenLedger
        /\ label = "updated" => Serves(Index(msg.seq)) >= msg.seq
        /\ label = "idle" /\ TermReads = 1 => Serves(Index(msg.seq)) > msg.seq
        /\ TermReads = 1 => label # "readTermAgain"
    BY <1>2, <1>4, <2>1, <2>2 DEF Bad
  <2>4. pc'["handler"] = label
    BY <1>2, <1>4 DEF RingInv, TypeOK, Routine
  <2> QED
    BY <1>1, <1>2, <1>4, <2>3, <2>4, HandlerMoves
<1> QED
  BY <1>3, <1>4 DEF Routine

LEMMA LockAndResetStep ==
    ASSUME RingInv, NEW r \in Routine, LockAndReset(r)
    PROVE  RingInv'
<1> DEFINE n == SeqOf(r)
           x == Index(n)
           s == Serves(x)
<1>1. /\ UNCHANGED <<TermReads, SvrSeq, msg, CurrSeq, kpc, entered, announced, link>>
      /\ UNCHANGED <<proxyVars, peerVars>>
      /\ pc[r] = "lock" /\ lock[x] = None
  BY DEF LockAndReset, executorVars, proxyVars, peerVars
<1>2. /\ n \in Nat /\ s \in Nat /\ n < Current + LenLedger
      /\ x \in DOMAIN Ledger /\ DOMAIN Ledger = 0 .. LenLedger - 1
      /\ Ledger[x] \in SlotType /\ Ledger[x].Term \in Nat
      /\ Term(n) = Ledger[x].Term + 1 <=> n = s + LenLedger
      /\ s < n => s + LenLedger <= n
      /\ n < s => n + LenLedger <= s
      /\ s + LenLedger >= n
      /\ Current - LenLedger <= s /\ s < Current + LenLedger
  BY <1>1, AtHand
<1>3. LenLedger \in Nat \ {0} /\ Current \in Nat /\ SvrSeq \in Int
  BY Positions
<1>4. r = "executor" => n = SvrSeq /\ n = Current
  BY <1>1, Positions DEF SeqOf
<1>5. r = "handler" => n = msg.seq
  BY DEF SeqOf
<1> HIDE DEF n, x, s
<1>6. CASE Term(n) # Ledger[x].Term + 1
  <2>1. pc' = [pc EXCEPT ![r] = "updated"] /\ UNCHANGED <<Ledger, lock>>
    BY <1>6 DEF LockAndReset, Goto, n, x
  <2>2. s >= n
    BY <1>2, <1>3, <1>6
  <2>3. CASE r = "executor"
    <3>1. s = n
      BY <1>2, <1>3, <1>4, <2>2, <2>3
    <3>2. Serves(Index(SvrSeq)) = SvrSeq
      BY <1>4, <2>3, <3>1 DEF s, x
    <3> QED
      BY <1>1, <2>1, <2>3, <3>2, ExecutorMoves
  <2>4. CASE r = "handler"
    <3>1. Serves(Index(msg.seq)) >= msg.seq
      BY <1>5, <2>2, <2>4 DEF s, x
    <3> QED
      BY <1>1, <2>1, <2>4, <3>1, HandlerMoves
  <2> QED
    BY <2>3, <2>4 DEF Routine
<1>7. CASE Term(n) = Ledger[x].Term + 1
  <2>1. /\ Ledger' = [Ledger EXCEPT ![x] = Reset(Ledger[x].Term)]
        /\ lock' = [lock EXCEPT ![x] = r]
        /\ pc' = [pc EXCEPT ![r] = "setTerm"]
    BY <1>7 DEF LockAndReset, Goto, n, x
  <2>2. pc'[r] = "setTerm" /\ \A o \in Routine \ {r} : pc'[o] = pc[o]
    BY <2>1 DEF RingInv, TypeOK
  <2>3. Reset(Ledger[x].Term) \in SlotType
    <3>1. << >> \in Seq(Sent)
      OBVIOUS
    <3> QED
      BY <1>2, <3>1 DEF SlotType, Reset
  <2>4. TypeOK'
    BY <1>1, <1>2, <2>1, <2>2, <2>3 DEF RingInv, TypeOK, Routine
  <2>5. /\ Ledger'[x] = Reset(Ledger[x].Term)
        /\ \A y \in DOMAIN Ledger \ {x} : Ledger'[y] = Ledger[y]
        /\ DOMAIN Ledger' = DOMAIN Ledger
    BY <1>2, <2>1
  <2>6. \A y \in DOMAIN Ledger : Ledger'[y].Term = Ledger[y].Term /\ Serves(y)' = Serves(y)
    BY <2>5 DEF Serves, Reset
  <2>7. /\ Current' = Current /\ Undecided' = Undecided
        /\ \A q : Position(q)' = Position(q)
        /\ \A o : SeqOf(o)' = SeqOf(o)
    BY <1>1, <2>2 DEF Current, Undecided, Position, SeqOf, Routine
  <2>8. \A o \in Routine : pc[o] # "idle" => Index(SeqOf(o)) \in DOMAIN Ledger
    BY AtHand
  <2>9. pc["executor"] # "idle" /\ Serves(Index(SvrSeq)) = SvrSeq => x # Index(SvrSeq)
    <3> SUFFICES ASSUME pc["executor"] # "idle", Serves(Index(SvrSeq)) = SvrSeq,
                        x = Index(SvrSeq)
                 PROVE  FALSE
      OBVIOUS
    <3>1. s = SvrSeq /\ SvrSeq = Current
      BY Positions DEF s
    <3> QED
      BY <1>2, <1>3, <1>7, <3>1
  <2>10. Bounds' /\ NoRoutineAstray'
    BY <1>1, <1>7, <2>2, <2>5, <2>6, <2>7 DEF RingInv, Bounds, NoRoutineAstray, Routine
  <2>11. MessagesSent'
    BY <1>1, <2>2, <2>7 DEF RingInv, MessagesSent, Routine
  <2>12. ObjectAtHand'
    <3>1. /\ pc'["executor"] \in {"updated", "wait", "epilogue", "done", "putBack"} =>
                pc'["executor"] = pc["executor"]
          /\ pc'["handler"] \in {"lock", "updated"} => pc'["handler"] = pc["handler"]
      BY <2>2 DEF Routine
    <3>2. pc["executor"] # "idle" => Index(SvrSeq) \in DOMAIN Ledger
      BY <2>8 DEF Routine, SeqOf
    <3>3. pc["handler"] # "idle" => Index(msg.seq) \in DOMAIN Ledger
      BY <2>8 DEF Routine, SeqOf
    <3>4. pc["executor"] \in {"wait", "epilogue", "done", "putBack"} =>
             Ledger'[Index(SvrSeq)] = Ledger[Index(SvrSeq)]
      BY <2>5, <2>9, <3>2 DEF RingInv, ObjectAtHand
    <3> QED
      BY <1>1, <2>6, <3>1, <3>2, <3>3, <3>4 DEF RingInv, ObjectAtHand, SlotOf
  <2>13. Locks'
    <3>1. lock'[x] = r /\ \A y \in DOMAIN Ledger \ {x} : lock'[y] = lock[y]
      BY <1>2, <2>1 DEF RingInv, TypeOK
    <3>2. ASSUME NEW y \in DOMAIN Ledger, NEW o \in Routine
          PROVE  lock'[y] = o <=> pc'[o] = "setTerm" /\ Index(SeqOf(o)) = y
      <4>1. lock[y] = o <=> pc[o] = "setTerm" /\ Index(SeqOf(o)) = y
        BY <3>2 DEF RingInv, Locks
      <4>2. None # o
        BY NoneAssumption DEF Routine
      <4> QED
        BY <1>1, <2>2, <3>1, <4>1, <4>2 DEF x, n
    <3>3. ASSUME NEW o \in Routine, pc'[o] = "setTerm"
          PROVE  Serves(Index(SeqOf(o)))' = SeqOf(o) - LenLedger /\ ~SlotOf(SeqOf(o))'.IsDone
      <4>1. CASE o = r
        <5>1. s = n - LenLedger
          BY <1>2, <1>3, <1>7
        <5>2. Serves(Index(SeqOf(o)))' = s /\ SlotOf(SeqOf(o))' = Reset(Ledger[x].Term)
          BY <1>2, <2>5, <2>6, <2>7, <4>1 DEF s, x, n, SlotOf
        <5> QED
          BY <4>1, <5>1, <5>2 DEF Reset, n
      <4>2. CASE o # r
        <5>1. pc[o] = "setTerm" /\ Index(SeqOf(o)) \in DOMAIN Ledger
          BY <2>2, <2>8, <3>3, <4>2
        <5>2. /\ Serves(Index(SeqOf(o))) = SeqOf(o) - LenLedger
              /\ ~SlotOf(SeqOf(o)).IsDone /\ lock[Index(SeqOf(o))] = o
          BY <5>1 DEF RingInv, Locks
        <5>3. Index(SeqOf(o)) # x
          BY <1>1, <5>2, NoneAssumption DEF Routine
        <5> QED
          BY <2>5, <2>6, <2>7, <5>1, <5>2, <5>3 DEF SlotOf
      <4> QED
        BY <4>1, <4>2
    <3> QED
      BY <2>5, <2>7, <3>2, <3>3 DEF Locks
  <2>14. DoneIsConcluded' /\ FewNotices'
    <3>1. lock'[x] # None /\ \A y \in DOMAIN Ledger \ {x} : lock'[y] = lock[y]
      BY <1>2, <2>1, NoneAssumption DEF RingInv, TypeOK, Routine
    <3>2. ~Ledger'[x].IsDone /\ Len(Ledger'[x].Queue) = 0
      BY <2>5 DEF Reset
    <3>3. DoneIsConcluded'
      BY <2>5, <2>6, <2>7, <3>1, <3>2 DEF RingInv, DoneIsConcluded
    <3>4. FewNotices'
      BY <2>5, <3>2 DEF RingInv, FewNotices, HasEnoughMsg
    <3> QED
      BY <3>3, <3>4
  <2>15. HandledCounts'
    <3> SUFFICES ASSUME TermReads = 1, NEW q \in Server, NEW m \in 0 .. Position(q),
                        Handled(q, m)'
                 PROVE  /\ Serves(Index(m))' >= m
                        /\ (Serves(Index(m)) = m /\ lock[Index(m)] = None /\ ~SlotOf(m).IsDone)' =>
                              \/ HasEnoughMsg(SlotOf(m)')
                              \/ [from |-> q, seq |-> m] \in SlotOf(m)'.RecvProposals
      BY <1>1, <2>7 DEF HandledCounts
    <3>1. Handled(q, m)
      BY <1>1, <1>7, <2>2 DEF Handled, Routine, RingInv, TypeOK
    <3>2. Index(m) \in DOMAIN Ledger
      BY IndexAndTerm, <1>2, Positions
    <3>3. lock'[Index(m)] = None => Index(m) # x /\ lock[Index(m)] = None
      BY <2>1, <3>2, NoneAssumption DEF RingInv, TypeOK, Routine
    <3> QED
      BY <2>5, <2>6, <3>1, <3>2, <3>3 DEF RingInv, HandledCounts, SlotOf
  <2> QED
    BY <2>4, <2>10, <2>11, <2>12, <2>13, <2>14, <2>15 DEF RingInv
<1> QED
  BY <1>6, <1>7

(* The object serves its next slot, the one of the routine.  Nothing of that  *)
(* slot has been handled yet, for the object would serve it already.         *)
LEMMA SetTermStep ==
    ASSUME RingInv, NEW r \in Routine, SetTerm(r)
    PROVE  RingInv'
<1> DEFINE n == SeqOf(r)
           x == Index(n)
           s == Serves(x)
<1>1. /\ UNCHANGED <<TermReads, SvrSeq, msg, CurrSeq, kpc, entered, announced, link>>
      /\ pc[r] = "setTerm"
      /\ Ledger' = [Ledger EXCEPT ![x].Term = Term(n)]
      /\ lock' = [lock EXCEPT ![x] = None]
      /\ pc' = [pc EXCEPT ![r] = "updated"]
      /\ executed' = executed
  BY DEF SetTerm, executorVars, proxyVars, peerVars, Goto
<1>2. /\ n \in Nat /\ s \in Nat /\ n < Current + LenLedger
      /\ x \in DOMAIN Ledger /\ DOMAIN Ledger = 0 .. LenLedger - 1
      /\ Ledger[x] \in SlotType /\ Ledger[x].Term \in Nat
      /\ Current - LenLedger <= s /\ s < Current + LenLedger
  BY <1>1, AtHand
<1>3. LenLedger \in Nat \ {0} /\ Current \in Nat /\ SvrSeq \in Int /\ Term(n) \in Nat
      /\ Term(n) * LenLedger + x = n
  BY <1>2, Positions, IndexAndTerm
<1>4. /\ r = "executor" => n = SvrSeq /\ n = Current
      /\ r = "handler" => n = msg.seq
  BY <1>1, Positions DEF SeqOf
<1>5. s = n - LenLedger /\ ~Ledger[x].IsDone /\ lock[x] = r
  BY <1>1, <1>2 DEF RingInv, Locks, SlotOf
<1>6. \A o \in Routine : pc[o] # "idle" => Index(SeqOf(o)) \in DOMAIN Ledger
  BY AtHand
<1> HIDE DEF n, x, s
<1>7. pc["executor"] # "idle" /\ Serves(Index(SvrSeq)) = SvrSeq => x # Index(SvrSeq)
  <2> SUFFICES ASSUME pc["executor"] # "idle", Serves(Index(SvrSeq)) = SvrSeq,
                      x = Index(SvrSeq)
               PROVE  FALSE
    OBVIOUS
  <2>1. s = SvrSeq /\ SvrSeq = Current
    BY Positions DEF s
  <2> QED
    BY <1>2, <1>3, <1>5, <2>1
<1>8. pc'[r] = "updated" /\ \A o \in Routine \ {r} : pc'[o] = pc[o]
  BY <1>1 DEF RingInv, TypeOK
<1>9. /\ Ledger'[x] = [Ledger[x] EXCEPT !.Term = Term(n)]
      /\ \A y \in DOMAIN Ledger \ {x} : Ledger'[y] = Ledger[y]
      /\ DOMAIN Ledger' = DOMAIN Ledger
      /\ Ledger'[x] \in SlotType
  BY <1>1, <1>2, <1>3 DEF SlotType
<1>10. /\ Ledger'[x].Term = Term(n)
       /\ Ledger'[x].IsDone = Ledger[x].IsDone
       /\ Ledger'[x].HasRecvDec = Ledger[x].HasRecvDec
       /\ Ledger'[x].Queue = Ledger[x].Queue
       /\ Ledger'[x].RecvProposals = Ledger[x].RecvProposals
  BY <1>2, <1>9 DEF SlotType
<1>11. /\ \A y \in DOMAIN Ledger : Serves(y)' = IF y = x THEN n ELSE Serves(y)
       /\ \A y \in DOMAIN Ledger : Serves(y)' \in Nat /\ Serves(y) \in Nat /\ Serves(y)' >= Serves(y)
  <2>1. \A y \in DOMAIN Ledger : Serves(y)' = IF y = x THEN n ELSE Serves(y)
    BY <1>3, <1>9, <1>10 DEF Serves
  <2>2. \A y \in DOMAIN Ledger : Serves(y) \in Nat
    BY <1>2, Objects DEF RingInv
  <2>3. n >= s
    BY <1>2, <1>3, <1>5
  <2> QED
    BY <1>2, <2>1, <2>2, <2>3 DEF s
<1>12. /\ Current' = Current /\ Undecided' = Undecided
       /\ \A q : Position(q)' = Position(q)
       /\ \A o : SeqOf(o)' = SeqOf(o)
  BY <1>1, <1>8 DEF Current, Undecided, Position, SeqOf, Routine
<1>13. lock'[x] = None /\ \A y \in DOMAIN Ledger \ {x} : lock'[y] = lock[y]
  BY <1>1, <1>2 DEF RingInv, TypeOK
<1>14. TypeOK'
  BY <1>1, <1>2, <1>8, <1>9 DEF RingInv, TypeOK, Routine
<1>15. Bounds'
  <2>1. Current - LenLedger <= n
    BY <1>2, <1>3, <1>5
  <2> QED
    BY <1>1, <1>2, <1>8, <1>9, <1>11, <1>12, <2>1 DEF RingInv, Bounds, Routine
<1>16. MessagesSent' /\ NoRoutineAstray'
  BY <1>1, <1>8, <1>12 DEF RingInv, MessagesSent, NoRoutineAstray, Routine
<1>17. ObjectAtHand'
  <2>1. CASE r = "executor"
    <3>1. Serves(Index(SvrSeq))' = SvrSeq /\ pc'["executor"] = "updated"
          /\ pc'["handler"] = pc["handler"]
      BY <1>1, <1>2, <1>4, <1>8, <1>11, <2>1 DEF x, Routine
    <3>2. pc["handler"] # "idle" => Index(msg.seq) \in DOMAIN Ledger /\ msg.seq \in Nat
      BY <1>6, Positions DEF Routine, SeqOf
    <3> QED
      BY <1>1, <1>3, <1>11, <3>1, <3>2 DEF RingInv, ObjectAtHand
  <2>2. CASE r = "handler"
    <3>1. pc'["handler"] = "updated" /\ Serves(Index(msg.seq))' = msg.seq /\ msg.seq \in Nat
          /\ pc'["executor"] = pc["executor"]
      BY <1>1, <1>2, <1>4, <1>8, <1>11, <2>2 DEF x, Routine
    <3>2. pc["executor"] # "idle" => Index(SvrSeq) \in DOMAIN Ledger
      BY <1>6 DEF Routine, SeqOf
    <3>3. /\ pc["executor"] \in {"updated", "wait", "epilogue", "done", "putBack"} =>
                Serves(Index(SvrSeq))' = SvrSeq
          /\ pc["executor"] \in {"wait", "epilogue", "done", "putBack"} =>
                SlotOf(SvrSeq)'.MyProposal = SvrSeq
          /\ pc["executor"] = "done" => SlotOf(SvrSeq)'.Decision = SvrSeq
      BY <1>1, <1>7, <1>9, <1>11, <3>2 DEF RingInv, ObjectAtHand, SlotOf
    <3> QED
      BY <1>1, <3>1, <3>3 DEF ObjectAtHand
  <2> QED
    BY <2>1, <2>2 DEF Routine
<1>18. Locks'
  <2>1. ASSUME NEW y \in DOMAIN Ledger, NEW o \in Routine
        PROVE  lock'[y] = o <=> pc'[o] = "setTerm" /\ Index(SeqOf(o)) = y
    <3>1. lock[y] = o <=> pc[o] = "setTerm" /\ Index(SeqOf(o)) = y
      BY <2>1 DEF RingInv, Locks
    <3>2. None # o
      BY NoneAssumption DEF Routine
    <3> QED
      BY <1>1, <1>5, <1>8, <1>13, <3>1, <3>2 DEF x, n
  <2>2. ASSUME NEW o \in Routine, pc'[o] = "setTerm"
        PROVE  Serves(Index(SeqOf(o)))' = SeqOf(o) - LenLedger /\ ~SlotOf(SeqOf(o))'.IsDone
    <3>1. o # r /\ pc[o] = "setTerm" /\ Index(SeqOf(o)) \in DOMAIN Ledger
      BY <1>6, <1>8, <2>2
    <3>2. /\ Serves(Index(SeqOf(o))) = SeqOf(o) - LenLedger
          /\ ~SlotOf(SeqOf(o)).IsDone /\ lock[Index(SeqOf(o))] = o
      BY <3>1 DEF RingInv, Locks
    <3>3. Index(SeqOf(o)) # x
      BY <1>5, <3>1, <3>2
    <3> QED
      BY <1>9, <1>11, <1>12, <3>1, <3>2, <3>3 DEF SlotOf
  <2> QED
    BY <1>9, <1>12, <2>1, <2>2 DEF Locks
<1>19. DoneIsConcluded'
  <2>1. ~(n < Undecided)
    <3>1. CASE pc["executor"] = "putBack"
      <4>1. Serves(Index(SvrSeq)) = SvrSeq /\ Current = SvrSeq /\ Undecided = SvrSeq + 1
        BY <3>1, Positions DEF RingInv, ObjectAtHand, Undecided
      <4>2. n # SvrSeq
        BY <1>3, <1>7, <3>1, <4>1 DEF x
      <4> QED
        BY <1>2, <1>3, <1>5, <4>1, <4>2
    <3>2. CASE pc["executor"] # "putBack"
      <4>1. Undecided = Current
        BY <3>2 DEF Undecided, Current
      <4> QED
        BY <1>2, <1>3, <1>5, <4>1
    <3> QED
      BY <3>1, <3>2
  <2> QED
    BY <1>5, <1>9, <1>10, <1>11, <1>12, <1>13, <2>1 DEF RingInv, DoneIsConcluded
<1>20. FewNotices'
  BY <1>9, <1>10 DEF RingInv, FewNotices, HasEnoughMsg
<1>21. HandledCounts'
  <2> SUFFICES ASSUME TermReads = 1, NEW q \in Server, NEW m \in 0 .. Position(q),
                      Handled(q, m)'
               PROVE  /\ Serves(Index(m))' >= m
                      /\ (Serves(Index(m)) = m /\ lock[Index(m)] = None /\ ~SlotOf(m).IsDone)' =>
                            \/ HasEnoughMsg(SlotOf(m)')
                            \/ [from |-> q, seq |-> m] \in SlotOf(m)'.RecvProposals
    BY <1>1, <1>12 DEF HandledCounts
  <2>1. Handled(q, m)
    BY <1>1, <1>8 DEF Handled, Routine, RingInv, TypeOK
  <2>2. m \in Nat /\ Index(m) \in DOMAIN Ledger
    BY IndexAndTerm, <1>2, Positions
  <2>3. Serves(Index(m)) >= m
    BY <2>1 DEF RingInv, HandledCounts
  <2>4. CASE Index(m) = x
    <3>1. n > m
      BY <1>2, <1>3, <1>5, <2>2, <2>3, <2>4 DEF s
    <3> QED
      BY <1>2, <1>11, <2>2, <2>4, <3>1
  <2>5. CASE Index(m) # x
    BY <1>9, <1>11, <1>13, <2>1, <2>2, <2>5 DEF RingInv, HandledCounts, SlotOf
  <2> QED
    BY <2>4, <2>5
<1> QED
  BY <1>14, <1>15, <1>16, <1>17, <1>18, <1>19, <1>20, <1>21 DEF RingInv

-----------------------------------------------------------------------------
(* The executor's steps on its object, which serves its slot, is not locked   *)
(* and not done: the handler is not a whole ledger ahead.                    *)
Working == pc["executor"] \in {"updated", "wait", "epilogue", "done"}

LEMMA OwnObject ==
    ASSUME RingInv, Working
    PROVE  LET x == Index(SvrSeq)
           IN  /\ SvrSeq \in Seq0 /\ SvrSeq \in Nat /\ Current = SvrSeq
               /\ x \in DOMAIN Ledger /\ DOMAIN Ledger = 0 .. LenLedger - 1
               /\ Ledger[x] \in SlotType /\ Ledger[x].Term = Term(SvrSeq)
               /\ Serves(x) = SvrSeq
               /\ lock[x] = None /\ ~Ledger[x].IsDone
<1> DEFINE x == Index(SvrSeq)
<1>1. pc["executor"] # "idle" /\ pc["executor"] # "setTerm" /\ "executor" \in Routine
  BY DEF Working, Routine
<1>2. SvrSeq \in Nat /\ Current = SvrSeq /\ SvrSeq \in Seq0 /\ LenLedger \in Nat \ {0}
  BY <1>1, Positions
<1>3. /\ x \in DOMAIN Ledger /\ DOMAIN Ledger = 0 .. LenLedger - 1 /\ Ledger[x] \in SlotType
      /\ Term(SvrSeq) = Ledger[x].Term <=> SvrSeq = Serves(x)
  BY <1>1, AtHand DEF SeqOf
<1>4. Serves(x) = SvrSeq
  BY DEF RingInv, ObjectAtHand, Working
<1>5. lock[x] # "handler"
  <2> SUFFICES ASSUME lock[x] = "handler"
               PROVE  FALSE
    OBVIOUS
  <2>1. pc["handler"] = "setTerm" /\ Index(msg.seq) = x /\ Serves(x) = msg.seq - LenLedger
    BY <1>3 DEF RingInv, Locks, Routine, SeqOf
  <2>2. msg.seq \in Nat /\ msg.seq < Current + LenLedger
    BY <2>1, Positions
  <2> QED
    BY <1>2, <1>4, <2>1, <2>2
<1>6. lock[x] # "executor"
  BY <1>1, <1>3 DEF RingInv, Locks
<1>7. lock[x] = None
  BY <1>3, <1>5, <1>6 DEF RingInv, TypeOK, Routine
<1>8. Ledger[x].IsDone <=> SvrSeq < Undecided
  BY <1>3, <1>4, <1>7 DEF RingInv, DoneIsConcluded
<1>9. Undecided = SvrSeq
  BY DEF Undecided, Working
<1> QED
  BY <1>2, <1>3, <1>4, <1>7, <1>8, <1>9

LEMMA OwnObjectStep ==
    ASSUME RingInv, Working,
           NEW o \in SlotType, NEW label \in {"wait", "epilogue", "done", "putBack"},
           NEW sent,
           LET x == Index(SvrSeq)
           IN  /\ Ledger' = [Ledger EXCEPT ![x] = o]
               /\ o.Term = Ledger[x].Term /\ o.HasRecvDec = Ledger[x].HasRecvDec
               /\ o.RecvProposals = Ledger[x].RecvProposals
               /\ Len(o.Queue) <= Len(Ledger[x].Queue)
               /\ o.IsDone <=> label = "putBack"
               /\ o.MyProposal = SvrSeq
               /\ label \in {"done", "putBack"} => o.Decision = SvrSeq,
           pc' = [pc EXCEPT !["executor"] = label],
           sent = << >> \/ \E type \in {"Proposal", "Decision"} : sent = << Message(type, self, SvrSeq) >>,
           pc["executor"] = "updated" => sent = << Message("Proposal", self, SvrSeq) >>,
           link' = [link EXCEPT ![self] = @ \o sent],
           announced' \subseteq Seq0,
           UNCHANGED <<TermReads, lock, SvrSeq, msg, proxyVars, entered>>
    PROVE  RingInv'
<1> DEFINE x == Index(SvrSeq)
<1>1. UNCHANGED <<TermReads, lock, SvrSeq, msg, CurrSeq, kpc, entered>>
  BY DEF proxyVars
<1>2. /\ SvrSeq \in Seq0 /\ SvrSeq \in Nat /\ Current = SvrSeq
      /\ x \in DOMAIN Ledger /\ DOMAIN Ledger = 0 .. LenLedger - 1
      /\ Ledger[x] \in SlotType /\ Serves(x) = SvrSeq
      /\ lock[x] = None /\ ~Ledger[x].IsDone
      /\ LenLedger \in Nat \ {0}
  BY OwnObject, LengthAssumption
<1>3. /\ Ledger'[x] = o /\ \A y \in DOMAIN Ledger \ {x} : Ledger'[y] = Ledger[y]
      /\ DOMAIN Ledger' = DOMAIN Ledger
      /\ o.Term = Ledger[x].Term /\ o.HasRecvDec = Ledger[x].HasRecvDec
      /\ o.RecvProposals = Ledger[x].RecvProposals
      /\ Len(o.Queue) <= Len(Ledger[x].Queue)
      /\ o.IsDone <=> label = "putBack"
      /\ o.MyProposal = SvrSeq
      /\ label \in {"done", "putBack"} => o.Decision = SvrSeq
  BY <1>2
<1>4. x' = x
  BY <1>1
<1> HIDE DEF x
<1>5. pc'["executor"] = label /\ pc'["handler"] = pc["handler"]
  BY DEF RingInv, TypeOK, Routine
<1>6. /\ \A y \in DOMAIN Ledger : Serves(y)' = Serves(y) /\ Serves(y) \in Nat
      /\ \A y \in DOMAIN Ledger : Ledger'[y].Term = Ledger[y].Term
      /\ \A y \in DOMAIN Ledger : Ledger'[y].RecvProposals = Ledger[y].RecvProposals
  BY <1>2, <1>3, Objects DEF Serves, RingInv
<1>7. /\ \A q \in Peer : Position(q)' = Position(q)
      /\ Position(self)' = SvrSeq
      /\ Position(self) = (IF pc["executor"] = "updated" THEN SvrSeq - 1 ELSE SvrSeq)
      /\ \A r : SeqOf(r)' = SeqOf(r)
  BY <1>1, <1>5 DEF Position, Peer, SeqOf, Working
<1>8. Current' = SvrSeq /\ Undecided' = IF label = "putBack" THEN SvrSeq + 1 ELSE SvrSeq
  BY <1>1, <1>5 DEF Current, Undecided
<1>9. /\ link[self] \in Seq(Sent) /\ sent \in Seq(Sent)
      /\ link'[self] = link[self] \o sent /\ \A q \in Peer : link'[q] = link[q]
  <2>1. \A type \in {"Proposal", "Decision"} : Message(type, self, SvrSeq) \in Sent
    BY <1>2, ServerAssumption DEF Message, Sent
  <2>2. sent \in Seq(Sent)
    <3>1. CASE sent = << >>
      BY <3>1
    <3>2. CASE sent # << >>
      <4>1. PICK type \in {"Proposal", "Decision"} : sent = << Message(type, self, SvrSeq) >>
        BY <3>2
      <4> QED
        BY <2>1, <4>1
    <3> QED
      BY <3>1, <3>2
  <2>3. link \in [Server -> Seq(Sent)]
    BY DEF RingInv, TypeOK
  <2> QED
    BY <2>2, <2>3, ServerAssumption DEF Peer
<1>10. \A i \in DOMAIN link'[self] :
          \/ i \in DOMAIN link[self] /\ link'[self][i] = link[self][i]
          \/ link'[self][i].from = self /\ link'[self][i].seq = SvrSeq
  BY <1>9 DEF Message
<1>11. \A i \in DOMAIN link[self] : i \in DOMAIN link'[self] /\ link'[self][i] = link[self][i]
  BY <1>9
<1>12. TypeOK'
  <2>1. Ledger' \in [0 .. LenLedger - 1 -> SlotType]
    BY DEF RingInv, TypeOK
  <2>2. link' \in [Server -> Seq(Sent)]
    <3>1. link[self] \o sent \in Seq(Sent)
      BY <1>9
    <3> QED
      BY <3>1 DEF RingInv, TypeOK
  <2> QED
    BY <1>1, <1>5, <2>1, <2>2 DEF RingInv, TypeOK, Routine
<1>13. Undecided = SvrSeq /\ \A y \in DOMAIN Ledger \ {x} : Serves(y) # SvrSeq
  BY <1>2, SameObject DEF RingInv, x, Undecided, Working
<1>14. Bounds'
  <2>1. \A y \in DOMAIN Ledger : Current' - LenLedger <= Serves(y) /\ Serves(y) < Current' + LenLedger
    BY <1>2, <1>6, <1>8, <1>13 DEF RingInv, Bounds
  <2>2. \A q \in Peer : entered[q] \in Int /\ entered[q] < Current' + LenLedger
    BY <1>2, <1>8 DEF RingInv, Bounds, TypeOK
  <2> QED
    BY <1>1, <1>2, <1>3, <1>6, <2>1, <2>2 DEF Bounds
<1>15. MessagesSent'
  <2>1. ASSUME NEW q \in Server, NEW i \in DOMAIN link'[q]
        PROVE  link'[q][i].from = q /\ link'[q][i].seq <= Position(q)'
    <3>1. CASE q = self
      <4>1. ASSUME i \in DOMAIN link[self]
            PROVE  link[self][i].from = self /\ link[self][i].seq <= SvrSeq
        <5>1. link[self][i] \in Sent
          BY <1>9, <4>1
        <5>2. link[self][i].seq \in Nat
          BY <5>1, LengthAssumption DEF Sent, Seq0
        <5>3. link[self][i].from = self /\ link[self][i].seq <= Position(self)
          BY <4>1, ServerAssumption DEF RingInv, MessagesSent
        <5> QED
          BY <1>2, <1>7, <5>2, <5>3
      <4> QED
        BY <1>2, <1>7, <1>10, <2>1, <3>1, <4>1
    <3>2. CASE q # self
      BY <1>7, <1>9, <2>1, <3>2 DEF RingInv, MessagesSent, Peer
    <3> QED
      BY <3>1, <3>2
  <2>2. pc["handler"] # "idle" => msg.seq <= Position(msg.from)'
    <3> SUFFICES ASSUME pc["handler"] # "idle"
                 PROVE  msg.seq <= Position(msg.from)'
      OBVIOUS
    <3>1. msg.seq \in Nat /\ msg.from \in Server /\ msg.seq <= Position(msg.from)
      BY Positions DEF RingInv, MessagesSent, Sent
    <3> QED
      BY <1>2, <1>7, <3>1 DEF Peer
  <2> QED
    BY <1>1, <1>5, <2>1, <2>2 DEF MessagesSent
<1>16. ObjectAtHand'
  <2>1. pc["handler"] # "idle" => Index(msg.seq) \in DOMAIN Ledger
    BY AtHand DEF Routine, SeqOf
  <2>2. Serves(Index(SvrSeq))' = SvrSeq
    BY <1>1, <1>2, <1>6 DEF x
  <2>3. /\ SlotOf(SvrSeq)'.MyProposal = SvrSeq
        /\ label = "done" => SlotOf(SvrSeq)'.Decision = SvrSeq
    BY <1>1, <1>3 DEF SlotOf, x
  <2> QED
    BY <1>1, <1>5, <1>6, <2>1, <2>2, <2>3 DEF RingInv, ObjectAtHand
<1>17. Locks'
  <2>1. ASSUME NEW r \in Routine, pc'[r] = "setTerm"
        PROVE  Serves(Index(SeqOf(r)))' = SeqOf(r) - LenLedger /\ ~SlotOf(SeqOf(r))'.IsDone
    <3>1. pc[r] = "setTerm" /\ r = "handler"
      BY <1>5, <2>1 DEF Routine
    <3>2. Index(SeqOf(r)) \in DOMAIN Ledger
      BY <3>1, AtHand
    <3>3. /\ Serves(Index(SeqOf(r))) = SeqOf(r) - LenLedger
          /\ ~SlotOf(SeqOf(r)).IsDone /\ lock[Index(SeqOf(r))] = r
      BY <3>1, <3>2 DEF RingInv, Locks
    <3>4. Index(SeqOf(r)) # x
      BY <1>2, <3>1, <3>3, NoneAssumption
    <3> QED
      BY <1>3, <1>6, <1>7, <3>2, <3>3, <3>4 DEF SlotOf
  <2>2. \A r \in Routine : pc'[r] = "setTerm" <=> pc[r] = "setTerm"
    BY <1>5 DEF Routine, Working
  <2> QED
    BY <1>1, <1>3, <1>7, <2>1, <2>2 DEF RingInv, Locks
<1>18. DoneIsConcluded'
  <2>1. /\ lock[x] = None => (Ledger'[x].IsDone <=> Serves(x) < Undecided')
        /\ Ledger'[x].IsDone => Ledger'[x].Decision = Serves(x)
    BY <1>2, <1>3, <1>8
  <2>2. \A y \in DOMAIN Ledger \ {x} :
            /\ lock[y] = None => (Ledger'[y].IsDone <=> Serves(y) < Undecided')
            /\ Ledger'[y].IsDone => Ledger'[y].Decision = Serves(y)
    BY <1>2, <1>3, <1>6, <1>8, <1>13 DEF RingInv, DoneIsConcluded
  <2> QED
    BY <1>1, <1>3, <1>6, <2>1, <2>2 DEF DoneIsConcluded
<1>19. FewNotices' /\ NoRoutineAstray'
  <2>1. Len(o.Queue) <= (IF HasEnoughMsg(o) THEN 1 ELSE 0) + (IF o.HasRecvDec THEN 1 ELSE 0)
    <3>1. Len(Ledger[x].Queue) <= (IF HasEnoughMsg(o) THEN 1 ELSE 0)
                                  + (IF o.HasRecvDec THEN 1 ELSE 0)
      BY <1>2, <1>3 DEF RingInv, FewNotices, HasEnoughMsg
    <3>2. Len(Ledger[x].Queue) \in Nat /\ Len(o.Queue) \in Nat
      BY <1>2 DEF SlotType
    <3> QED
      BY <1>3, <3>1, <3>2
  <2> QED
    BY <1>1, <1>3, <1>5, <2>1 DEF RingInv, FewNotices, NoRoutineAstray, Routine
<1>20. HandledCounts'
  <2> SUFFICES ASSUME TermReads = 1, NEW q \in Server, NEW n \in 0 .. Position(q)',
                      Handled(q, n)'
               PROVE  /\ Serves(Index(n))' >= n
                      /\ (Serves(Index(n)) = n /\ lock[Index(n)] = None /\ ~SlotOf(n).IsDone)' =>
                            \/ HasEnoughMsg(SlotOf(n)')
                            \/ [from |-> q, seq |-> n] \in SlotOf(n)'.RecvProposals
    BY <1>1 DEF HandledCounts
  <2>1. n \in Nat /\ Index(n) \in DOMAIN Ledger
    BY IndexAndTerm, <1>2
  <2>2. CASE q = self /\ n = SvrSeq /\ pc["executor"] = "updated"
    <3>1. sent = << Message("Proposal", q, n) >>
      BY <2>2
    <3>2. \E i \in DOMAIN link'[self] : link'[self][i] = Message("Proposal", q, n)
      BY <1>9, <3>1
    <3> QED
      BY <2>2, <3>2 DEF Handled
  <2>3. CASE ~(q = self /\ n = SvrSeq /\ pc["executor"] = "updated")
    <3>1. n \in 0 .. Position(q)
      BY <1>2, <1>7, <2>1, <2>3 DEF Peer
    <3>2. Handled(q, n)
      BY <1>1, <1>5, <1>9, <1>11 DEF Handled, Peer
    <3>3. Ledger[Index(n)].IsDone => Index(n) # x
      BY <1>2
    <3> QED
      BY <1>1, <1>3, <1>6, <2>1, <3>1, <3>2, <3>3 DEF RingInv, HandledCounts, SlotOf, HasEnoughMsg
  <2> QED
    BY <2>2, <2>3
<1> QED
  BY <1>12, <1>14, <1>15, <1>16, <1>17, <1>18, <1>19, <1>20 DEF RingInv

LEMMA ProposeStep ==
    ASSUME RingInv, Propose
    PROVE  RingInv'
<1> DEFINE x == Index(SvrSeq)
           o == [Ledger[x] EXCEPT !.MyProposal = SvrSeq]
           sent == << Message("Proposal", self, SvrSeq) >>
<1>1. Working /\ pc["executor"] = "updated"
  BY DEF Propose, Working
<1>2. /\ SvrSeq \in Seq0 /\ x \in DOMAIN Ledger /\ Ledger[x] \in SlotType
      /\ Ledger[x].Term = Term(SvrSeq) /\ ~Ledger[x].IsDone
  BY <1>1, OwnObject
<1>3. o \in SlotType /\ o.Term = Ledger[x].Term /\ o.HasRecvDec = Ledger[x].HasRecvDec
      /\ o.RecvProposals = Ledger[x].RecvProposals /\ Len(o.Queue) <= Len(Ledger[x].Queue)
      /\ (o.IsDone <=> "wait" = "putBack") /\ o.MyProposal = SvrSeq
  BY <1>2 DEF SlotType
<1>4. /\ Ledger' = [Ledger EXCEPT ![x] = o]
      /\ pc' = [pc EXCEPT !["executor"] = "wait"]
      /\ UNCHANGED <<TermReads, lock, SvrSeq, msg, proxyVars, entered, announced>>
  BY <1>2 DEF Propose, InItsTerm, Goto, SlotOf, executorVars, peerVars
<1>5. announced' \subseteq Seq0
  BY <1>4 DEF RingInv, TypeOK
<1>6. link' = [link EXCEPT ![self] = @ \o sent]
  <2>1. link[self] \in Seq(Sent) /\ Message("Proposal", self, SvrSeq) \in Sent
    BY <1>2, ServerAssumption DEF RingInv, TypeOK, Sent, Message
  <2>2. Append(link[self], Message("Proposal", self, SvrSeq)) = link[self] \o sent
    BY <2>1
  <2> QED
    BY <1>2, <2>2 DEF Propose, InItsTerm, SlotOf
<1>7. \E type \in {"Proposal", "Decision"} : sent = << Message(type, self, SvrSeq) >>
  OBVIOUS
<1>8. sent = << Message("Proposal", self, SvrSeq) >> /\ "wait" \notin {"done", "putBack"}
      /\ "wait" \in {"wait", "epilogue", "done", "putBack"}
  OBVIOUS
<1> HIDE DEF o, sent
<1> QED
  BY <1>1, <1>3, <1>4, <1>5, <1>6, <1>7, <1>8, OwnObjectStep

(* A notice is taken: the object without it.                                 *)
LEMMA NoticeTaken ==
    ASSUME RingInv, TakeNotice
    PROVE  LET x == Index(SvrSeq)
               o == [Ledger[x] EXCEPT !.Queue = Tail(@)]
           IN  /\ Working /\ pc["executor"] = "wait" /\ ~Ledger[x].IsDone
               /\ o \in SlotType /\ Ledger' = [Ledger EXCEPT ![x] = o]
               /\ o.Term = Ledger[x].Term /\ o.HasRecvDec = Ledger[x].HasRecvDec
               /\ o.RecvProposals = Ledger[x].RecvProposals
               /\ Len(o.Queue) <= Len(Ledger[x].Queue)
               /\ ~o.IsDone /\ o.MyProposal = SvrSeq /\ InItsTerm
               /\ UNCHANGED <<TermReads, lock, SvrSeq, msg, proxyVars, entered>>
<1> DEFINE x == Index(SvrSeq)
           o == [Ledger[x] EXCEPT !.Queue = Tail(@)]
<1>1. Working /\ pc["executor"] = "wait"
  BY DEF TakeNotice, Working
<1>2. /\ x \in DOMAIN Ledger /\ Ledger[x] \in SlotType /\ ~Ledger[x].IsDone
      /\ InItsTerm /\ Ledger[x].MyProposal = SvrSeq
  BY <1>1, OwnObject DEF InItsTerm, RingInv, ObjectAtHand, SlotOf
<1>3. Ledger[x].Queue \in Seq(Sent) /\ Ledger[x].Queue # << >>
  BY <1>2 DEF SlotType, TakeNotice, SlotOf
<1>4. Tail(Ledger[x].Queue) \in Seq(Sent) /\ Len(Tail(Ledger[x].Queue)) <= Len(Ledger[x].Queue)
  BY <1>3
<1>5. o \in SlotType /\ o.Term = Ledger[x].Term /\ o.HasRecvDec = Ledger[x].HasRecvDec
      /\ o.RecvProposals = Ledger[x].RecvProposals /\ o.Queue = Tail(Ledger[x].Queue)
      /\ o.IsDone = Ledger[x].IsDone /\ o.MyProposal = Ledger[x].MyProposal
  BY <1>2, <1>4 DEF SlotType
<1>6. Ledger' = [Ledger EXCEPT ![x] = o]
  BY DEF TakeNotice
<1>7. UNCHANGED <<TermReads, lock, SvrSeq, msg, proxyVars, entered>>
  BY DEF TakeNotice, executorVars
<1> HIDE DEF o
<1> QED
  BY <1>1, <1>2, <1>4, <1>5, <1>6, <1>7 DEF o

LEMMA NoticeStep ==
    ASSUME RingInv, DropNotice \/ DecideAlone \/ LearnDecision
    PROVE  RingInv'
<1> DEFINE x == Index(SvrSeq)
           o == [Ledger[x] EXCEPT !.Queue = Tail(@)]
<1>1. TakeNotice
  BY DEF DropNotice, DecideAlone, LearnDecision
<1>2. /\ Working /\ pc["executor"] = "wait" /\ ~Ledger[x].IsDone
      /\ o \in SlotType /\ Ledger' = [Ledger EXCEPT ![x] = o]
      /\ o.Term = Ledger[x].Term /\ o.HasRecvDec = Ledger[x].HasRecvDec
      /\ o.RecvProposals = Ledger[x].RecvProposals
      /\ Len(o.Queue) <= Len(Ledger[x].Queue)
      /\ ~o.IsDone /\ o.MyProposal = SvrSeq /\ InItsTerm
      /\ UNCHANGED <<TermReads, lock, SvrSeq, msg, proxyVars, entered>>
  BY <1>1, NoticeTaken
<1> HIDE DEF o
<1>3. PICK label \in {"wait", "epilogue"} : pc' = [pc EXCEPT !["executor"] = label]
  <2>1. CASE DropNotice
    BY <1>2, <2>1 DEF DropNotice, Goto
  <2>2. CASE DecideAlone
    BY <1>2, <2>2 DEF DecideAlone, Goto
  <2>3. CASE LearnDecision
    BY <1>2, <2>3 DEF LearnDecision, Goto, SlotOf
  <2> QED
    BY <2>1, <2>2, <2>3
<1>4. PICK sent : /\ sent = << >> \/ sent = << Message("Decision", self, SvrSeq) >>
                  /\ link' = [link EXCEPT ![self] = @ \o sent]
  <2>1. SvrSeq \in Seq0 /\ link \in [Server -> Seq(Sent)] /\ link[self] \in Seq(Sent)
        /\ Message("Decision", self, SvrSeq) \in Sent
    BY <1>2, OwnObject, ServerAssumption DEF RingInv, TypeOK, Sent, Message
  <2>2. CASE link' = link
    <3>1. link[self] \o << >> = link[self]
      BY <2>1
    <3> QED
      BY <2>1, <2>2, <3>1
  <2>3. CASE DecideAlone
    <3>1. Append(link[self], Message("Decision", self, SvrSeq))
             = link[self] \o << Message("Decision", self, SvrSeq) >>
      BY <2>1
    <3> QED
      BY <1>2, <2>3, <3>1 DEF DecideAlone
  <2> QED
    BY <2>2, <2>3 DEF DropNotice, LearnDecision
<1>5. announced' \subseteq Seq0
  BY <1>2, OwnObject DEF DropNotice, DecideAlone, LearnDecision, RingInv, TypeOK
<1>6. /\ o.IsDone <=> label = "putBack"
      /\ label \in {"done", "putBack"} => o.Decision = SvrSeq
      /\ label \in {"wait", "epilogue", "done", "putBack"}
  BY <1>2, <1>3
<1>7. sent = << >> \/ \E type \in {"Proposal", "Decision"} : sent = << Message(type, self, SvrSeq) >>
  BY <1>4
<1>8. pc["executor"] # "updated"
  BY <1>2
<1> QED
  BY <1>2, <1>3, <1>4, <1>5, <1>6, <1>7, <1>8, OwnObjectStep

LEMMA EpilogueStep ==
    ASSUME RingInv, SaveDecision \/ SetIsDone
    PROVE  RingInv'
<1> DEFINE x == Index(SvrSeq)
           o == IF pc["executor"] = "done" THEN [Ledger[x] EXCEPT !.IsDone = TRUE]
                ELSE [Ledger[x] EXCEPT !.Decision = SvrSeq]
           label == IF pc["executor"] = "done" THEN "putBack" ELSE "done"
           sent == << >>
<1>1. Working /\ pc["executor"] \in {"epilogue", "done"}
  BY DEF SaveDecision, SetIsDone, Working
<1>2. /\ SvrSeq \in Seq0 /\ x \in DOMAIN Ledger /\ Ledger[x] \in SlotType
      /\ Ledger[x].Term = Term(SvrSeq) /\ ~Ledger[x].IsDone
  BY <1>1, OwnObject
<1>3. Ledger[x].MyProposal = SvrSeq /\ (pc["executor"] = "done" => Ledger[x].Decision = SvrSeq)
  BY <1>1 DEF RingInv, ObjectAtHand, SlotOf
<1>4. o \in SlotType /\ o.Term = Ledger[x].Term /\ o.HasRecvDec = Ledger[x].HasRecvDec
      /\ o.RecvProposals = Ledger[x].RecvProposals /\ o.Queue = Ledger[x].Queue
      /\ o.Decision = SvrSeq /\ o.MyProposal = SvrSeq
      /\ (o.IsDone <=> label = "putBack")
  BY <1>2, <1>3 DEF SlotType
<1>5. /\ Ledger' = [Ledger EXCEPT ![x] = o]
      /\ pc' = [pc EXCEPT !["executor"] = label]
      /\ UNCHANGED <<TermReads, lock, SvrSeq, msg, proxyVars, entered>>
      /\ link' = link /\ announced' = announced
  BY <1>2 DEF SaveDecision, SetIsDone, InItsTerm, Goto, SlotOf, executorVars, peerVars
<1>6. announced' \subseteq Seq0
  BY <1>5 DEF RingInv, TypeOK
<1>7. link' = [link EXCEPT ![self] = @ \o sent]
  <2>1. link \in [Server -> Seq(Sent)] /\ link[self] \in Seq(Sent)
    BY ServerAssumption DEF RingInv, TypeOK
  <2>2. link[self] \o << >> = link[self]
    BY <2>1
  <2> QED
    BY <1>5, <2>1, <2>2
<1>8. Len(o.Queue) <= Len(Ledger[x].Queue)
  BY <1>2, <1>4 DEF SlotType
<1>9. label \in {"wait", "epilogue", "done", "putBack"} /\ sent = << >> /\ pc["executor"] # "updated"
  BY <1>1
<1> HIDE DEF o, sent, label
<1> QED
  BY <1>1, <1>4, <1>5, <1>6, <1>7, <1>8, <1>9, OwnObjectStep

(* The end of epilogue: the object still serves the slot, so that the         *)
(* executor is through with it, and every other object is a term behind it.  *)
LEMMA PutBackStep ==
    ASSUME RingInv, PutBackMyProposal
    PROVE  RingInv'
<1> DEFINE x == Index(SvrSeq)
<1>1. /\ UNCHANGED <<TermReads, Ledger, lock, SvrSeq, msg, CurrSeq, kpc, entered, announced, link>>
      /\ pc["executor"] = "putBack"
  BY DEF PutBackMyProposal, executorVars, proxyVars, peerVars
<1>2. /\ SvrSeq \in Nat /\ Current = SvrSeq /\ LenLedger \in Nat \ {0}
      /\ x \in DOMAIN Ledger /\ DOMAIN Ledger = 0 .. LenLedger - 1
      /\ Serves(x) = SvrSeq /\ InItsTerm
  BY <1>1, Positions, AtHand DEF Routine, SeqOf, RingInv, ObjectAtHand, InItsTerm, SlotOf
<1>3. pc' = [pc EXCEPT !["executor"] = "idle"]
  BY <1>2 DEF PutBackMyProposal, Goto
<1>4. pc'["executor"] = "idle" /\ pc'["handler"] = pc["handler"]
  BY <1>3 DEF RingInv, TypeOK, Routine
<1>5. TypeOK'
  BY <1>1, <1>3, <1>4 DEF RingInv, TypeOK
<1>6. /\ Current' = SvrSeq + 1 /\ Undecided' = Undecided /\ \A y : Serves(y)' = Serves(y)
      /\ \A q : Position(q)' = Position(q) /\ \A r : SeqOf(r)' = SeqOf(r)
  BY <1>1, <1>4 DEF Current, Undecided, Serves, Position, SeqOf
<1> HIDE DEF x
<1>7. \A y \in DOMAIN Ledger : Serves(y) \in Nat /\ Serves(y) # SvrSeq - LenLedger
  <2>1. \A y \in DOMAIN Ledger : Serves(y) \in Nat
    BY <1>2, Objects DEF RingInv
  <2>2. \A y \in DOMAIN Ledger : Serves(y) = SvrSeq - LenLedger => y = x
    BY <1>2, SameObject DEF RingInv, x
  <2> QED
    BY <1>2, <2>1, <2>2
<1>8. Bounds'
  <2>1. \A y \in DOMAIN Ledger : Current' - LenLedger <= Serves(y) /\ Serves(y) < Current' + LenLedger
    BY <1>2, <1>6, <1>7 DEF RingInv, Bounds
  <2>2. \A q \in Peer : entered[q] \in Int /\ entered[q] < Current' + LenLedger
    BY <1>2, <1>6 DEF RingInv, Bounds, TypeOK
  <2> QED
    BY <1>1, <1>4, <1>6, <2>1, <2>2 DEF Bounds
<1>9. MessagesSent' /\ ObjectAtHand'
  BY <1>1, <1>4, <1>6 DEF RingInv, MessagesSent, ObjectAtHand
<1>10. Locks'
  BY <1>1, <1>4, <1>6 DEF RingInv, Locks, Routine, SlotOf
<1>11. DoneIsConcluded' /\ FewNotices' /\ NoRoutineAstray'
  BY <1>1, <1>4, <1>6 DEF RingInv, DoneIsConcluded, FewNotices, NoRoutineAstray, Routine
<1>12. HandledCounts'
  BY <1>1, <1>4, <1>6 DEF RingInv, HandledCounts, Handled, SlotOf
<1> QED
  BY <1>5, <1>8, <1>9, <1>10, <1>11, <1>12 DEF RingInv

-----------------------------------------------------------------------------
(* The handler's other steps.                                                *)
LEMMA TakeMessageStep ==
    ASSUME RingInv, NEW p \in Server, TakeMessage(p)
    PROVE  RingInv'
<1>1. /\ UNCHANGED <<TermReads, Ledger, lock, SvrSeq, CurrSeq, kpc, executed, entered, announced>>
      /\ pc["handler"] = "idle" /\ link[p] # << >>
      /\ msg' = Head(link[p]) /\ link' = [link EXCEPT ![p] = Tail(@)]
      /\ pc' = [pc EXCEPT !["handler"] = "readTerm"]
  BY DEF TakeMessage, Goto, executorVars, proxyVars, peerVars
<1>2. pc'["handler"] = "readTerm" /\ pc'["executor"] = pc["executor"]
  BY <1>1 DEF RingInv, TypeOK, Routine
<1>3. /\ link[p] \in Seq(Sent) /\ Head(link[p]) \in Sent /\ Tail(link[p]) \in Seq(Sent)
      /\ 1 \in DOMAIN link[p] /\ Head(link[p]) = link[p][1]
      /\ \A i \in DOMAIN Tail(link[p]) : i + 1 \in DOMAIN link[p] /\ Tail(link[p])[i] = link[p][i + 1]
      /\ \A i \in DOMAIN link[p] : i = 1 \/ (i - 1 \in DOMAIN Tail(link[p]) /\ link[p][i] = Tail(link[p])[i - 1])
  <2>1. link[p] \in Seq(Sent)
    BY DEF RingInv, TypeOK
  <2> QED
    BY <1>1, <2>1
<1>4. link'[p] = Tail(link[p]) /\ \A q \in Server \ {p} : link'[q] = link[q]
  BY <1>1 DEF RingInv, TypeOK
<1>5. TypeOK'
  BY <1>1, <1>2, <1>3 DEF RingInv, TypeOK, Routine
<1>6. /\ Current' = Current /\ Undecided' = Undecided
      /\ \A x : Serves(x)' = Serves(x)
      /\ \A q : Position(q)' = Position(q) /\ SeqOf("executor")' = SeqOf("executor")
  BY <1>1, <1>2 DEF Current, Undecided, Serves, Position, SeqOf
<1>7. MessagesSent'
  <2>1. \A i \in DOMAIN link[p] : link[p][i].from = p /\ link[p][i].seq <= Position(p)
    BY DEF RingInv, MessagesSent
  <2>2. msg'.from = p /\ msg'.seq <= Position(p)
    BY <1>1, <1>3, <2>1
  <2>3. \A i \in DOMAIN link'[p] : link'[p][i].from = p /\ link'[p][i].seq <= Position(p)
    BY <1>3, <1>4, <2>1
  <2>4. ASSUME NEW q \in Server, NEW i \in DOMAIN link'[q]
        PROVE  link'[q][i].from = q /\ link'[q][i].seq <= Position(q)
    BY <1>4, <2>3, <2>4 DEF RingInv, MessagesSent
  <2> QED
    BY <1>6, <2>2, <2>4 DEF MessagesSent
<1>8. Bounds' /\ ObjectAtHand' /\ DoneIsConcluded' /\ FewNotices' /\ NoRoutineAstray'
  BY <1>1, <1>2, <1>6
     DEF RingInv, Bounds, ObjectAtHand, DoneIsConcluded, FewNotices, NoRoutineAstray, SlotOf,
         Routine
<1>9. Locks'
  BY <1>1, <1>2, <1>6 DEF RingInv, Locks, Routine, SlotOf
<1>10. HandledCounts'
  <2> SUFFICES ASSUME TermReads = 1, NEW q \in Server, NEW n \in 0 .. Position(q),
                      Handled(q, n)'
               PROVE  Handled(q, n)
    BY <1>1, <1>6 DEF RingInv, HandledCounts, SlotOf
  <2>1. msg' # Message("Proposal", q, n)
    BY <1>2 DEF Handled
  <2>2. ~\E i \in DOMAIN link[q] : link[q][i] = Message("Proposal", q, n)
    <3>1. CASE q = p
      <4> SUFFICES ASSUME NEW i \in DOMAIN link[p], link[p][i] = Message("Proposal", q, n)
                   PROVE  FALSE
        BY <3>1
      <4>1. i # 1
        BY <1>1, <1>3, <2>1
      <4>2. i - 1 \in DOMAIN link'[p] /\ link'[p][i - 1] = Message("Proposal", q, n)
        BY <1>3, <1>4, <4>1
      <4> QED
        BY <3>1, <4>2 DEF Handled
    <3>2. CASE q # p
      BY <1>4, <3>2 DEF Handled
    <3> QED
      BY <3>1, <3>2
  <2> QED
    BY <1>1, <2>2 DEF Handled
<1> QED
  BY <1>5, <1>7, <1>8, <1>9, <1>10 DEF RingInv

(* What HandleMessage leaves of an object: a tally only grows until it is     *)
(* complete, each kind of notice is given once, nothing else changes.        *)
LEMMA ObjectHandled ==
    ASSUME NEW s \in SlotType, msg \in Sent,
           Len(s.Queue) <= (IF HasEnoughMsg(s) THEN 1 ELSE 0) + (IF s.HasRecvDec THEN 1 ELSE 0),
           NEW o, o = IF msg.type = "Proposal" THEN HandleProposal(s) ELSE HandleDecision(s)
    PROVE  /\ o \in SlotType
           /\ o.Term = s.Term /\ o.IsDone = s.IsDone /\ o.Decision = s.Decision
           /\ o.MyProposal = s.MyProposal
           /\ \A e \in s.RecvProposals : HasEnoughMsg(o) \/ e \in o.RecvProposals
           /\ HasEnoughMsg(s) => HasEnoughMsg(o)
           /\ o.RecvProposals \subseteq s.RecvProposals \cup {[from |-> msg.from, seq |-> msg.seq]}
           /\ msg.type = "Proposal" =>
                 HasEnoughMsg(o) \/ [from |-> msg.from, seq |-> msg.seq] \in o.RecvProposals
           /\ Len(o.Queue) <= (IF HasEnoughMsg(o) THEN 1 ELSE 0) + (IF o.HasRecvDec THEN 1 ELSE 0)
<1> DEFINE e == [from |-> msg.from, seq |-> msg.seq]
           notice == Message("Proposal", self, msg.seq)
<1>1. /\ s.Queue \in Seq(Sent) /\ Len(s.Queue) \in Nat /\ e \in [from : Server, seq : Seq0]
      /\ notice \in Sent
  BY ServerAssumption DEF SlotType, Sent, Message
<1>2. Append(s.Queue, notice) \in Seq(Sent) /\ Len(Append(s.Queue, notice)) = Len(s.Queue) + 1
      /\ Append(s.Queue, msg) \in Seq(Sent) /\ Len(Append(s.Queue, msg)) = Len(s.Queue) + 1
  BY <1>1
<1>3. CASE msg.type = "Proposal" /\ HasEnoughMsg(s)
  BY <1>3 DEF HandleProposal
<1>4. CASE msg.type = "Proposal" /\ ~HasEnoughMsg(s)
  <2> DEFINE t == [s EXCEPT !.RecvProposals = @ \cup {e}]
             u == [t EXCEPT !.Queue = Append(@, notice)]
  <2>1. /\ t \in SlotType /\ t.Term = s.Term /\ t.IsDone = s.IsDone /\ t.Decision = s.Decision
        /\ t.MyProposal = s.MyProposal
        /\ t.RecvProposals = s.RecvProposals \cup {e} /\ t.Queue = s.Queue
        /\ t.HasRecvDec = s.HasRecvDec
    BY <1>1 DEF SlotType
  <2>2. /\ u \in SlotType /\ u.Term = s.Term /\ u.IsDone = s.IsDone /\ u.Decision = s.Decision
        /\ u.MyProposal = s.MyProposal
        /\ u.RecvProposals = s.RecvProposals \cup {e} /\ u.Queue = Append(s.Queue, notice)
        /\ u.HasRecvDec = s.HasRecvDec
    BY <1>2, <2>1 DEF SlotType
  <2>3. HasEnoughMsg(u) <=> HasEnoughMsg(t)
    BY <2>1, <2>2 DEF HasEnoughMsg
  <2>4. o = IF ~HasEnoughMsg(t) THEN t ELSE u
    BY <1>4 DEF HandleProposal
  <2> HIDE DEF t, u, e, notice
  <2>5. CASE HasEnoughMsg(t)
    BY <1>2, <1>4, <1>1, <2>2, <2>3, <2>4, <2>5 DEF e
  <2>6. CASE ~HasEnoughMsg(t)
    BY <1>4, <2>1, <2>4, <2>6 DEF e
  <2> QED
    BY <2>5, <2>6
<1>5. CASE msg.type # "Proposal" /\ s.HasRecvDec
  BY <1>5 DEF HandleDecision
<1>6. CASE msg.type # "Proposal" /\ ~s.HasRecvDec
  <2>1. o = [s EXCEPT !.Queue = Append(@, msg), !.HasRecvDec = TRUE]
    BY <1>6 DEF HandleDecision
  <2>2. /\ o \in SlotType /\ o.Term = s.Term /\ o.IsDone = s.IsDone /\ o.Decision = s.Decision
        /\ o.MyProposal = s.MyProposal
        /\ o.RecvProposals = s.RecvProposals /\ o.Queue = Append(s.Queue, msg) /\ o.HasRecvDec
    BY <1>2, <2>1 DEF SlotType
  <2>3. HasEnoughMsg(o) <=> HasEnoughMsg(s)
    BY <2>2 DEF HasEnoughMsg
  <2> QED
    BY <1>1, <1>2, <1>6, <2>2, <2>3
<1> QED
  BY <1>3, <1>4, <1>5, <1>6

LEMMA HandleMessageStep ==
    ASSUME RingInv, HandleMessage
    PROVE  RingInv'
<1> DEFINE x == Index(msg.seq)
           e == [from |-> msg.from, seq |-> msg.seq]
<1>1. /\ UNCHANGED <<TermReads, lock, SvrSeq, CurrSeq, kpc, executed, entered, announced, link>>
      /\ pc["handler"] = "updated" /\ msg' = None
      /\ pc' = [pc EXCEPT !["handler"] = "idle"]
  BY DEF HandleMessage, Goto, executorVars, proxyVars, peerVars
<1>2. pc'["handler"] = "idle" /\ pc'["executor"] = pc["executor"]
  BY <1>1 DEF RingInv, TypeOK, Routine
<1>3. /\ msg \in Sent /\ msg.seq \in Nat
      /\ x \in DOMAIN Ledger /\ DOMAIN Ledger = 0 .. LenLedger - 1 /\ Ledger[x] \in SlotType
      /\ Serves(x) >= msg.seq
  BY <1>1, Positions, AtHand DEF Routine, SeqOf, RingInv, ObjectAtHand
<1> HIDE DEF x
<1>4. PICK o \in SlotType :
        /\ Ledger' = [Ledger EXCEPT ![x] = o]
        /\ o.Term = Ledger[x].Term /\ o.IsDone = Ledger[x].IsDone
        /\ o.Decision = Ledger[x].Decision /\ o.MyProposal = Ledger[x].MyProposal
        /\ \A f \in Ledger[x].RecvProposals : HasEnoughMsg(o) \/ f \in o.RecvProposals
        /\ HasEnoughMsg(Ledger[x]) => HasEnoughMsg(o)
        /\ o.RecvProposals \subseteq Ledger[x].RecvProposals \cup {e}
        /\ msg.type = "Proposal" =>
              Ledger[x].IsDone \/ HasEnoughMsg(o) \/ e \in o.RecvProposals
        /\ Len(o.Queue) <= (IF HasEnoughMsg(o) THEN 1 ELSE 0) + (IF o.HasRecvDec THEN 1 ELSE 0)
  <2> DEFINE s == Ledger[x]
  <2>1. Len(s.Queue) <= (IF HasEnoughMsg(s) THEN 1 ELSE 0) + (IF s.HasRecvDec THEN 1 ELSE 0)
    BY <1>3 DEF RingInv, FewNotices
  <2>2. Ledger' = [Ledger EXCEPT ![x] =
                      IF s.IsDone THEN s
                      ELSE IF msg.type = "Proposal" THEN HandleProposal(s) ELSE HandleDecision(s)]
    BY DEF HandleMessage, x
  <2>3. s \in SlotType
    BY <1>3
  <2> HIDE DEF s
  <2>4. CASE s.IsDone
    BY <2>1, <2>2, <2>3, <2>4 DEF s
  <2>5. CASE ~s.IsDone
    <3> DEFINE o == IF msg.type = "Proposal" THEN HandleProposal(s) ELSE HandleDecision(s)
    <3>1. Ledger' = [Ledger EXCEPT ![x] = o]
      BY <2>2, <2>5
    <3> HIDE DEF o
    <3>2. o = IF msg.type = "Proposal" THEN HandleProposal(s) ELSE HandleDecision(s)
      BY DEF o
    <3> QED
      BY <1>3, <2>1, <2>3, <3>1, <3>2, ObjectHandled DEF s
  <2> QED
    BY <2>4, <2>5
<1>5. /\ Ledger'[x] = o /\ \A y \in DOMAIN Ledger \ {x} : Ledger'[y] = Ledger[y]
      /\ DOMAIN Ledger' = DOMAIN Ledger
  BY <1>3, <1>4
<1>6. TypeOK'
  BY <1>1, <1>2, <1>4 DEF RingInv, TypeOK, Routine
<1>7. /\ Current' = Current /\ Undecided' = Undecided
      /\ \A y \in DOMAIN Ledger : Serves(y)' = Serves(y)
      /\ \A q : Position(q)' = Position(q) /\ SeqOf("executor")' = SeqOf("executor")
      /\ \A y \in DOMAIN Ledger : Ledger'[y].IsDone = Ledger[y].IsDone
                                  /\ Ledger'[y].Decision = Ledger[y].Decision
                                  /\ Ledger'[y].MyProposal = Ledger[y].MyProposal
  BY <1>1, <1>2, <1>4, <1>5 DEF Current, Undecided, Serves, Position, SeqOf
<1>8. pc["executor"] # "idle" => Index(SvrSeq) \in DOMAIN Ledger
  BY AtHand DEF Routine, SeqOf
<1>9. Bounds' /\ MessagesSent' /\ DoneIsConcluded' /\ NoRoutineAstray'
  BY <1>1, <1>2, <1>5, <1>7 DEF RingInv, Bounds, MessagesSent, DoneIsConcluded, NoRoutineAstray, Routine
<1>10. ObjectAtHand'
  BY <1>1, <1>2, <1>7, <1>8 DEF RingInv, ObjectAtHand, SlotOf
<1>11. Locks'
  BY <1>1, <1>2, <1>5, <1>7, <1>8 DEF RingInv, Locks, Routine, SlotOf, SeqOf
<1>12. FewNotices'
  BY <1>4, <1>5 DEF RingInv, FewNotices, HasEnoughMsg
<1>13. HandledCounts'
  <2> SUFFICES ASSUME TermReads = 1, NEW q \in Server, NEW n \in 0 .. Position(q),
                      Handled(q, n)'
               PROVE  /\ Serves(Index(n)) >= n
                      /\ Serves(Index(n)) = n /\ lock[Index(n)] = None /\ ~SlotOf(n)'.IsDone =>
                            \/ HasEnoughMsg(SlotOf(n)')
                            \/ [from |-> q, seq |-> n] \in SlotOf(n)'.RecvProposals
    <3>1. \A n \in Nat : Index(n) \in DOMAIN Ledger
      BY IndexAndTerm, <1>3
    <3>2. \A q \in Server : Position(q) \in Int
      BY Positions
    <3> QED
      BY <1>1, <1>7, <3>1, <3>2 DEF HandledCounts
  <2>1. n \in Nat /\ Index(n) \in DOMAIN Ledger
    BY IndexAndTerm, <1>3, Positions
  <2>2. CASE Handled(q, n)
    <3>1. /\ Serves(Index(n)) >= n
          /\ Serves(Index(n)) = n /\ lock[Index(n)] = None /\ ~SlotOf(n).IsDone =>
                HasEnoughMsg(SlotOf(n)) \/ [from |-> q, seq |-> n] \in SlotOf(n).RecvProposals
      BY <2>2 DEF RingInv, HandledCounts
    <3> QED
      BY <1>4, <1>5, <1>7, <2>1, <3>1 DEF SlotOf
  <2>3. CASE ~Handled(q, n)
    <3>1. msg = Message("Proposal", q, n)
      BY <1>1, <2>3 DEF Handled
    <3>2. msg.type = "Proposal" /\ msg.seq = n /\ e = [from |-> q, seq |-> n] /\ x = Index(n)
      BY <3>1 DEF Message, x
    <3> QED
      BY <1>3, <1>4, <1>5, <3>2 DEF SlotOf
  <2> QED
    BY <2>2, <2>3
<1> QED
  BY <1>6, <1>9, <1>10, <1>11, <1>12, <1>13 DEF RingInv

-----------------------------------------------------------------------------
(* KVSExecutor only reads, and the peers only send.                           *)
LEMMA ProxyStep ==
    ASSUME RingInv, Proxy
    PROVE  RingInv'
<1>1. UNCHANGED <<TermReads, Ledger, lock, pc, SvrSeq, msg, entered, announced, link>>
  BY DEF Proxy, PollTerm, PollIsDone, Execute, executorVars, peerVars
<1>2. /\ CurrSeq' \in 0 .. MaxSeq + 1 /\ kpc' \in {"poll", "term", "done"}
      /\ kpc' # "poll" => CurrSeq' <= MaxSeq
  BY LengthAssumption DEF Proxy, PollTerm, PollIsDone, Execute, RingInv, TypeOK
<1>3. TypeOK'
  BY <1>1, <1>2 DEF RingInv, TypeOK
<1>4. /\ Current' = Current /\ Undecided' = Undecided
      /\ \A x : Serves(x)' = Serves(x)
      /\ \A q : Position(q)' = Position(q) /\ \A r : SeqOf(r)' = SeqOf(r)
  BY <1>1 DEF Current, Undecided, Serves, Position, SeqOf
<1>5. Bounds' /\ MessagesSent' /\ ObjectAtHand'
  BY <1>1, <1>4 DEF RingInv, Bounds, MessagesSent, ObjectAtHand, SlotOf
<1>6. Locks' /\ DoneIsConcluded' /\ FewNotices' /\ NoRoutineAstray'
  BY <1>1, <1>4 DEF RingInv, Locks, DoneIsConcluded, FewNotices, NoRoutineAstray, SlotOf
<1>7. HandledCounts'
  BY <1>1, <1>4 DEF RingInv, HandledCounts, Handled, SlotOf
<1> QED
  BY <1>3, <1>5, <1>6, <1>7 DEF RingInv

LEMMA PeerProceedsStep ==
    ASSUME "peerAhead" \notin Races, RingInv, NEW p \in Peer, PeerProceeds(p)
    PROVE  RingInv'
<1> DEFINE n == entered[p] + 1
<1>1. /\ UNCHANGED <<TermReads, Ledger, lock, pc, SvrSeq, msg, CurrSeq, kpc, executed>>
      /\ n \in Seq0 /\ n < Current + LenLedger
      /\ entered' = [entered EXCEPT ![p] = n]
      /\ p \in Server /\ p # self
  <2>1. /\ UNCHANGED <<TermReads, Ledger, lock, pc, SvrSeq, msg, CurrSeq, kpc, executed>>
        /\ entered' = [entered EXCEPT ![p] = n] /\ p \in Server /\ p # self
        /\ n <= MaxSeq /\ Concluded(n - LenLedger)
    BY DEF PeerProceeds, NotAhead, executorVars, proxyVars, Peer
  <2>2. entered[p] \in -1 .. MaxSeq
    BY DEF RingInv, TypeOK
  <2>3. n \in Seq0
    BY <2>1, <2>2, LengthAssumption DEF Seq0
  <2>4. n < Current + LenLedger
    BY <2>1, <2>2, Positions DEF Concluded, Current
  <2> QED
    BY <2>1, <2>3, <2>4
<1>2. PICK sent \in Seq(Sent) :
        /\ link' = [link EXCEPT ![p] = @ \o sent]
        /\ \A i \in DOMAIN sent : sent[i].from = p /\ sent[i].seq \in Nat /\ sent[i].seq <= n
        /\ \E i \in DOMAIN sent : sent[i] = Message("Proposal", p, n)
        /\ announced' \subseteq Seq0
  <2> DEFINE next == << Message("Proposal", p, n) >>
             last == << Message("Decision", p, n - 1) >>
  <2>1. announced \subseteq Seq0 /\ link[p] \in Seq(Sent)
    BY <1>1 DEF RingInv, TypeOK
  <2>2. Message("Proposal", p, n) \in Sent /\ next \in Seq(Sent)
        /\ Message("Proposal", p, n).from = p /\ Message("Proposal", p, n).seq = n /\ n \in Nat
    BY <1>1, LengthAssumption DEF Message, Sent, Seq0
  <2>3. CASE link' = [link EXCEPT ![p] = @ \o next] /\ UNCHANGED announced
    <3>1. next[1] = Message("Proposal", p, n) /\ 1 \in DOMAIN next /\ \A i \in DOMAIN next : i = 1
      OBVIOUS
    <3>2. \A i \in DOMAIN next : next[i].from = p /\ next[i].seq \in Nat /\ next[i].seq <= n
      BY <2>2, <3>1
    <3> HIDE DEF next
    <3> QED
      BY <2>1, <2>2, <2>3, <3>1, <3>2
  <2>4. CASE /\ n > 0 /\ link' = [link EXCEPT ![p] = @ \o last \o next]
             /\ announced' = announced \cup {n - 1}
    <3>1. /\ Message("Decision", p, n - 1) \in Sent /\ last \in Seq(Sent) /\ n - 1 \in Seq0
          /\ Message("Decision", p, n - 1).from = p /\ Message("Decision", p, n - 1).seq = n - 1
      BY <1>1, <2>4, LengthAssumption DEF Message, Sent, Seq0
    <3> DEFINE sent == << Message("Decision", p, n - 1), Message("Proposal", p, n) >>
    <3>2. link[p] \o last \o next = link[p] \o sent /\ sent \in Seq(Sent)
      BY <2>1, <2>2, <3>1
    <3>3. sent[2] = Message("Proposal", p, n) /\ 2 \in DOMAIN sent
      OBVIOUS
    <3>4. \A i \in DOMAIN sent : i = 1 \/ i = 2
      OBVIOUS
    <3>5. \A i \in DOMAIN sent : sent[i].from = p /\ sent[i].seq \in Nat /\ sent[i].seq <= n
      BY <2>2, <3>1, <3>4, LengthAssumption DEF Seq0
    <3>6. link' = [link EXCEPT ![p] = @ \o sent]
      BY <2>4, <3>2
    <3>7. announced' \subseteq Seq0
      BY <2>1, <2>4, <3>1
    <3> HIDE DEF sent
    <3> QED
      BY <3>2, <3>3, <3>5, <3>6, <3>7
  <2> QED
    BY <2>3, <2>4 DEF PeerProceeds
<1>3. /\ link[p] \in Seq(Sent) /\ link'[p] = link[p] \o sent
      /\ \A q \in Server \ {p} : link'[q] = link[q]
      /\ entered[p] \in Int /\ n = entered[p] + 1 /\ n \in Nat
  BY <1>1, <1>2, LengthAssumption DEF RingInv, TypeOK, Seq0
<1>4. entered'[p] = n /\ \A q \in Peer \ {p} : entered'[q] = entered[q]
  BY <1>1 DEF RingInv, TypeOK
<1> HIDE DEF n
<1>5. \A i \in DOMAIN link'[p] :
         \/ i \in DOMAIN link[p] /\ link'[p][i] = link[p][i]
         \/ link'[p][i].from = p /\ link'[p][i].seq \in Nat /\ link'[p][i].seq <= n
  BY <1>2, <1>3
<1>6. \A i \in DOMAIN link[p] : i \in DOMAIN link'[p] /\ link'[p][i] = link[p][i]
  BY <1>2, <1>3
<1>7. \E i \in DOMAIN link'[p] : link'[p][i] = Message("Proposal", p, n)
  <2>1. PICK i \in DOMAIN sent : sent[i] = Message("Proposal", p, n)
    BY <1>2
  <2>2. Len(link[p]) + i \in DOMAIN link'[p] /\ link'[p][Len(link[p]) + i] = sent[i]
    BY <1>3, <2>1
  <2> QED
    BY <2>1, <2>2
<1>8. TypeOK'
  <2>1. link[p] \o sent \in Seq(Sent)
    BY <1>3
  <2>2. link' \in [Server -> Seq(Sent)]
    BY <1>2, <2>1 DEF RingInv, TypeOK
  <2>3. entered' \in [Peer -> -1 .. MaxSeq]
    BY <1>1, LengthAssumption DEF RingInv, TypeOK, Seq0
  <2> QED
    BY <1>1, <1>2, <2>2, <2>3 DEF RingInv, TypeOK
<1>9. /\ Current' = Current /\ Undecided' = Undecided
      /\ \A x : Serves(x)' = Serves(x)
      /\ \A q \in Server : Position(q)' = IF q = p THEN n ELSE Position(q)
      /\ Position(p) = entered[p]
      /\ \A r : SeqOf(r)' = SeqOf(r)
  BY <1>1, <1>4 DEF Current, Undecided, Serves, Position, SeqOf, Peer
<1>10. Bounds'
  BY <1>1, <1>4, <1>9 DEF RingInv, Bounds
<1>11. MessagesSent'
  <2>1. ASSUME NEW q \in Server, NEW i \in DOMAIN link'[q]
        PROVE  link'[q][i].from = q /\ link'[q][i].seq <= Position(q)'
    <3>1. CASE q = p
      <4>1. ASSUME i \in DOMAIN link[p]
            PROVE  link[p][i].from = p /\ link[p][i].seq <= n
        <5>1. link[p][i] \in Sent
          BY <1>3, <4>1
        <5>2. link[p][i].seq \in Nat
          BY <5>1, LengthAssumption DEF Sent, Seq0
        <5>3. link[p][i].from = p /\ link[p][i].seq <= Position(p)
          BY <1>1, <4>1 DEF RingInv, MessagesSent
        <5> QED
          BY <1>3, <1>9, <5>2, <5>3
      <4> QED
        BY <1>1, <1>5, <1>9, <2>1, <3>1, <4>1
    <3>2. CASE q # p
      BY <1>3, <1>9, <2>1, <3>2 DEF RingInv, MessagesSent
    <3> QED
      BY <3>1, <3>2
  <2>2. pc["handler"] # "idle" => msg.seq <= Position(msg.from)'
    <3> SUFFICES ASSUME pc["handler"] # "idle"
                 PROVE  msg.seq <= Position(msg.from)'
      OBVIOUS
    <3>1. msg.seq \in Nat /\ msg.from \in Server /\ msg.seq <= Position(msg.from)
      BY Positions DEF RingInv, MessagesSent, Sent
    <3>2. Position(msg.from)' = IF msg.from = p THEN n ELSE Position(msg.from)
      BY <1>1, <1>9, <3>1
    <3> QED
      BY <1>3, <1>9, <3>1, <3>2
  <2> QED
    BY <1>1, <2>1, <2>2 DEF MessagesSent
<1>12. ObjectAtHand' /\ Locks'
  BY <1>1, <1>9 DEF RingInv, ObjectAtHand, Locks, SlotOf
<1>13. DoneIsConcluded' /\ FewNotices' /\ NoRoutineAstray'
  BY <1>1, <1>9 DEF RingInv, DoneIsConcluded, FewNotices, NoRoutineAstray
<1>14. HandledCounts'
  <2> SUFFICES ASSUME TermReads = 1, NEW q \in Server, NEW m \in 0 .. Position(q)',
                      Handled(q, m)'
               PROVE  m \in 0 .. Position(q) /\ Handled(q, m)
    BY <1>1, <1>9 DEF RingInv, HandledCounts, SlotOf
  <2>1. ~(q = p /\ m = n)
    BY <1>7 DEF Handled
  <2>2. m \in 0 .. Position(q)
    BY <1>3, <1>9, <2>1
  <2>3. Handled(q, m)
    BY <1>1, <1>3, <1>6 DEF Handled
  <2> QED
    BY <2>2, <2>3
<1> QED
  BY <1>8, <1>10, <1>11, <1>12, <1>13, <1>14 DEF RingInv

-----------------------------------------------------------------------------
LEMMA InitHolds ==
    Init => RingInv
<1> SUFFICES ASSUME Init
             PROVE  RingInv
  OBVIOUS
<1>1. LenLedger \in Nat \ {0} /\ MaxSeq \in Nat
  BY LengthAssumption
<1>2. /\ DOMAIN Ledger = 0 .. LenLedger - 1
      /\ \A x \in DOMAIN Ledger : Ledger[x] = Reset(0) /\ lock[x] = None
      /\ Current = 0 /\ Undecided = 0
      /\ \A q \in Server : link[q] = << >> /\ Position(q) = -1
      /\ \A r \in Routine : pc[r] = "idle"
      /\ pc["executor"] = "idle" /\ pc["handler"] = "idle"
  BY DEF Init, Current, Undecided, Position, Peer, Routine
<1>3. Reset(0) \in SlotType
  <2>1. << >> \in Seq(Sent)
    OBVIOUS
  <2> QED
    BY <2>1 DEF Reset, SlotType
<1>4. TypeOK
  <2>1. << >> \in Seq(Sent)
    OBVIOUS
  <2> QED
    BY <1>1, <1>3, <2>1 DEF Init, TypeOK, Routine
<1>5. \A x \in DOMAIN Ledger : Serves(x) = x /\ x \in Nat /\ x < LenLedger
  BY <1>1, <1>2 DEF Serves, Reset
<1>6. Bounds
  BY <1>1, <1>2, <1>5 DEF Bounds, Init
<1>7. MessagesSent /\ ObjectAtHand
  BY <1>2 DEF MessagesSent, ObjectAtHand
<1>8. Locks
  BY <1>2, NoneAssumption DEF Locks, Routine
<1>9. DoneIsConcluded /\ FewNotices
  BY <1>2, <1>5 DEF DoneIsConcluded, FewNotices, Reset
<1>10. NoRoutineAstray /\ HandledCounts
  BY <1>2 DEF NoRoutineAstray, HandledCounts
<1> QED
  BY <1>4, <1>6, <1>7, <1>8, <1>9, <1>10 DEF RingInv

LEMMA StepHolds ==
    ASSUME "peerAhead" \notin Races, RingInv, [Next]_vars
    PROVE  RingInv'
<1>1. CASE Executor
  <2>1. CASE UpdateTerm("executor")
    <3>1. "executor" \in Routine
      BY DEF Routine
    <3> QED
      BY <2>1, <3>1, ReadTermStep, LockAndResetStep, SetTermStep DEF UpdateTerm
  <2> QED
    BY <1>1, <2>1, GetRequestStep, ProposeStep, NoticeStep, EpilogueStep, PutBackStep DEF Executor
<1>2. CASE Handler
  <2>1. CASE UpdateTerm("handler")
    <3>1. "handler" \in Routine
      BY DEF Routine
    <3> QED
      BY <2>1, <3>1, ReadTermStep, LockAndResetStep, SetTermStep DEF UpdateTerm
  <2> QED
    BY <1>2, <2>1, TakeMessageStep, HandleMessageStep DEF Handler
<1>3. CASE Proxy
  BY <1>3, ProxyStep
<1>4. CASE \E q \in Peer : PeerProceeds(q)
  BY <1>4, PeerProceedsStep
<1>5. CASE UNCHANGED vars
  BY <1>5
     DEF vars, executorVars, proxyVars, peerVars, RingInv, TypeOK, Bounds, MessagesSent,
         ObjectAtHand, Locks, DoneIsConcluded, FewNotices, NoRoutineAstray, HandledCounts,
         Handled, Serves, Current, Undecided, Position, SeqOf, SlotOf
<1> QED
  BY <1>1, <1>2, <1>3, <1>4, <1>5 DEF Next

THEOREM Invariance ==
    ASSUME "peerAhead" \notin Races
    PROVE  Spec => []RingInv
<1>1. RingInv /\ [Next]_vars => RingInv'
  BY StepHolds
<1> QED
  BY <1>1, InitHolds, PTL DEF Spec

(* No "should not happen" of the executor is reached, UpdateTermIfNecessary,  *)
(* PanicTermNotMatched and wait, and the slot is its own to the end of        *)
(* epilogue, however messages and proxy race with it: provided that no peer   *)
(* gets a ring ahead, in a build that loads Term once.                       *)
THEOREM NeverPanicsHolds ==
    ASSUME "peerAhead" \notin Races
    PROVE  Spec => []NeverPanics
<1>1. RingInv => NeverPanics
  BY DEF RingInv, NoRoutineAstray, ObjectAtHand, NeverPanics
<1>2. Spec => []RingInv
  BY Invariance
<1> QED
  BY <1>1, <1>2, PTL

THEOREM TypeCorrect ==
    ASSUME "peerAhead" \notin Races
    PROVE  Spec => []TypeOK
<1>1. RingInv => TypeOK
  BY DEF RingInv
<1>2. Spec => []RingInv
  BY Invariance
<1> QED
  BY <1>1, <1>2, PTL

(* A proposal that was handled before its slot was decided is in the tally of *)
(* that slot, or the tally was complete without it, if no peer gets a ring    *)
(* ahead.                                                                    *)
THEOREM HandledIsTalliedHolds ==
    ASSUME "peerAhead" \notin Races
    PROVE  Spec => []HandledIsTallied
<1>1. RingInv => HandledIsTallied
  <2> SUFFICES ASSUME RingInv, TermReads = 1, NEW q \in Server, NEW n \in 0 .. Position(q),
                      lock[Index(n)] = None,
                      ~\E i \in DOMAIN link[q] : link[q][i] = Message("Proposal", q, n),
                      pc["handler"] = "idle" \/ msg # Message("Proposal", q, n),
                      SlotOf(n).Term <= Term(n), ~(SlotOf(n).Term = Term(n) /\ SlotOf(n).IsDone)
               PROVE  /\ SlotOf(n).Term = Term(n)
                      /\ \/ HasEnoughMsg(SlotOf(n))
                         \/ [from |-> q, seq |-> n] \in SlotOf(n).RecvProposals
    BY DEF HandledIsTallied
  <2>1. n \in Nat
    BY Positions
  <2>2. Serves(Index(n)) \in Nat /\ (SlotOf(n).Term <= Term(n) <=> Serves(Index(n)) <= n)
        /\ (Term(n) = SlotOf(n).Term <=> n = Serves(Index(n)))
    BY <2>1, SlotServed DEF RingInv
  <2>3. Handled(q, n)
    BY DEF Handled
  <2>4. Serves(Index(n)) >= n
    BY <2>3 DEF RingInv, HandledCounts
  <2>5. Serves(Index(n)) = n /\ SlotOf(n).Term = Term(n)
    BY <2>1, <2>2, <2>4
  <2> QED
    BY <2>3, <2>5 DEF RingInv, HandledCounts
<1>2. Spec => []RingInv
  BY Invariance
<1> QED
  BY <1>1, <1>2, PTL

-----------------------------------------------------------------------------
(* No message comes late: every message is counted in its own slot.          *)
LEMMA InTermKept ==
    ASSUME HandlerInTerm, DOMAIN Ledger' = DOMAIN Ledger,
           \A y \in DOMAIN Ledger :
              Serves(y)' = Serves(y) /\ Ledger'[y].RecvProposals = Ledger[y].RecvProposals,
           \A r \in Routine : pc[r] # "idle" => Index(SeqOf(r)) \in DOMAIN Ledger,
           pc'["handler"] = pc["handler"], msg' = msg,
           UpdatesTerm' => UpdatesTerm /\ SvrSeq' = SvrSeq,
           pc'["executor"] = "setTerm" => pc["executor"] = "setTerm"
    PROVE  HandlerInTerm'
<1>1. pc["handler"] # "idle" => Index(msg.seq) \in DOMAIN Ledger
  BY DEF Routine, SeqOf
<1>2. ASSUME NEW r \in Routine, pc'[r] = "setTerm"
      PROVE  SlotOf(SeqOf(r))'.RecvProposals = {}
  <2>1. pc[r] = "setTerm" /\ SeqOf(r)' = SeqOf(r)
    BY <1>2 DEF Routine, SeqOf, UpdatesTerm
  <2> QED
    BY <2>1 DEF HandlerInTerm, SlotOf
<1> QED
  BY <1>1, <1>2 DEF HandlerInTerm

(* The comparisons of terms.                                                 *)
LEMMA ReadTermInTerm ==
    ASSUME RingInv, HandlerInTerm, NEW r \in Routine, ReadTerm(r) \/ ReadTermAgain(r)
    PROVE  HandlerInTerm'
<1>1. /\ UNCHANGED <<Ledger, SvrSeq>>
      /\ pc[r] \in {"readTerm", "readTermAgain"}
      /\ msg' = IF pc'["handler"] = "idle" THEN None ELSE msg
  BY DEF ReadTerm, ReadTermAgain, executorVars
<1>2. PICK label \in {"updated", "lock", "readTermAgain", Bad(r)} :
         /\ pc' = [pc EXCEPT ![r] = label]
         /\ label = "updated" => SeqOf(r) = Serves(Index(SeqOf(r)))
         /\ label = "lock" => SeqOf(r) = Serves(Index(SeqOf(r))) + LenLedger
  BY ReadTermOutcome
<1>3. pc'[r] = label /\ \A o \in Routine \ {r} : pc'[o] = pc[o]
  BY <1>2 DEF RingInv, TypeOK
<1>4. /\ \A y : Serves(y)' = Serves(y)
      /\ \A o \in Routine : pc[o] # "idle" => Index(SeqOf(o)) \in DOMAIN Ledger
  BY <1>1, AtHand DEF Serves
<1>5. CASE r = "executor"
  <2>1. msg' = msg /\ pc'["handler"] = pc["handler"]
    BY <1>1, <1>3, <1>5 DEF RingInv, TypeOK, Routine
  <2>2. UpdatesTerm /\ pc'["executor"] # "setTerm"
    BY <1>1, <1>3, <1>5 DEF UpdatesTerm, Bad
  <2> QED
    BY <1>1, <1>4, <2>1, <2>2, InTermKept
<1>6. CASE r = "handler"
  <2>1. SeqOf(r) = msg.seq /\ Serves(Index(msg.seq)) \in Nat /\ LenLedger \in Nat \ {0}
    BY <1>1, <1>6, AtHand, LengthAssumption DEF SeqOf
  <2>2. label # "idle" => msg' = msg
    BY <1>1, <1>3, <1>6
  <2>3. label \in {"updated", "lock", "readTermAgain", "idle"} /\ pc'["handler"] = label
        /\ pc'["executor"] = pc["executor"]
    BY <1>2, <1>3, <1>6 DEF Bad, Routine
  <2>4. pc'["handler"] # "idle" /\ UpdatesTerm' =>
           ~(Index(msg'.seq) = Index(SvrSeq) /\ msg'.seq < SvrSeq)
    BY <1>1, <1>6, <2>2, <2>3 DEF HandlerInTerm, UpdatesTerm
  <2>5. /\ pc'["handler"] = "lock" => Serves(Index(msg'.seq)) <= msg'.seq
        /\ pc'["handler"] = "updated" => Serves(Index(msg'.seq)) = msg'.seq
    BY <1>2, <2>1, <2>2, <2>3
  <2>6. ASSUME NEW o \in Routine, pc'[o] = "setTerm"
        PROVE  SlotOf(SeqOf(o))'.RecvProposals = {}
    <3>1. o = "executor" /\ pc[o] = "setTerm" /\ SeqOf(o)' = SeqOf(o)
      BY <1>1, <2>3, <2>6 DEF Routine, SeqOf
    <3> QED
      BY <1>1, <3>1 DEF HandlerInTerm, SlotOf
  <2>7. \A y : Serves(y)' = Serves(y)
    BY <1>4
  <2> QED
    BY <1>1, <1>4, <2>4, <2>5, <2>6 DEF HandlerInTerm
<1> QED
  BY <1>5, <1>6 DEF Routine

LEMMA LockAndResetInTerm ==
    ASSUME RingInv, HandlerInTerm, NEW r \in Routine, LockAndReset(r)
    PROVE  HandlerInTerm'
<1> DEFINE n == SeqOf(r)
           x == Index(n)
           s == Serves(x)
<1>1. UNCHANGED <<SvrSeq, msg>> /\ pc[r] = "lock" /\ lock[x] = None
  BY DEF LockAndReset, executorVars
<1>2. /\ n \in Nat /\ s \in Nat /\ x \in DOMAIN Ledger /\ LenLedger \in Nat \ {0}
      /\ Term(n) = Ledger[x].Term + 1 <=> n = s + LenLedger
      /\ s < n => s + LenLedger <= n
      /\ s + LenLedger >= n
  BY <1>1, AtHand, LengthAssumption
<1>3. \A o \in Routine : pc[o] # "idle" => Index(SeqOf(o)) \in DOMAIN Ledger
  BY AtHand
<1>4. SeqOf("executor") = SvrSeq /\ SeqOf("handler") = msg.seq
  BY DEF SeqOf
<1>5. x' = x /\ \A o : SeqOf(o)' = SeqOf(o)
  BY <1>1 DEF SeqOf
<1> HIDE DEF n, x, s
<1>6. PICK label \in {"updated", "setTerm"} : pc' = [pc EXCEPT ![r] = label]
  BY DEF LockAndReset, Goto, n, x
<1>7. pc'[r] = label /\ \A o \in Routine \ {r} : pc'[o] = pc[o]
  BY <1>6 DEF RingInv, TypeOK
<1>8. (pc'["handler"] # "idle" => pc["handler"] # "idle") /\ (UpdatesTerm' => UpdatesTerm)
  BY <1>1, <1>7 DEF UpdatesTerm, Routine
<1>9. CASE Term(n) # Ledger[x].Term + 1
  <2>1. UNCHANGED <<Ledger, lock>> /\ label = "updated"
    <3>1. pc' = [pc EXCEPT ![r] = "updated"] /\ UNCHANGED <<Ledger, lock>>
      BY <1>9 DEF LockAndReset, Goto, n, x
    <3> QED
      BY <1>7, <3>1 DEF RingInv, TypeOK
  <2>2. \A y : Serves(y)' = Serves(y)
    BY <2>1 DEF Serves
  <2>3. CASE r = "executor"
    BY <1>1, <1>3, <1>7, <1>8, <2>1, <2>2, <2>3, InTermKept DEF Routine
  <2>4. CASE r = "handler"
    <3>1. s <= n
      BY <1>1, <1>4, <2>4 DEF HandlerInTerm, s, x, n
    <3>2. s = n
      BY <1>2, <1>9, <3>1
    <3>3. Serves(Index(msg.seq))' = msg.seq
      BY <1>1, <1>4, <2>2, <2>4, <3>2 DEF s, x, n
    <3>4. pc'["handler"] = "updated" /\ pc'["executor"] = pc["executor"]
      BY <1>7, <2>1, <2>4 DEF Routine
    <3>5. ASSUME NEW o \in Routine, pc'[o] = "setTerm"
          PROVE  SlotOf(SeqOf(o))'.RecvProposals = {}
      BY <1>5, <2>1, <3>4, <3>5 DEF HandlerInTerm, SlotOf, Routine
    <3>6. pc["handler"] # "idle" /\ UpdatesTerm =>
             ~(Index(msg.seq) = Index(SvrSeq) /\ msg.seq < SvrSeq)
      BY DEF HandlerInTerm
    <3>7. \A y \in DOMAIN Ledger' : \A m \in Ledger'[y].RecvProposals : m.seq = Serves(y)'
      BY <2>1, <2>2 DEF HandlerInTerm
    <3> QED
      BY <1>1, <1>8, <3>3, <3>4, <3>5, <3>6, <3>7 DEF HandlerInTerm
  <2> QED
    BY <2>3, <2>4 DEF Routine
<1>10. CASE Term(n) = Ledger[x].Term + 1
  <2>1. Ledger' = [Ledger EXCEPT ![x] = Reset(Ledger[x].Term)] /\ label = "setTerm"
    <3>1. /\ pc' = [pc EXCEPT ![r] = "setTerm"]
          /\ Ledger' = [Ledger EXCEPT ![x] = Reset(Ledger[x].Term)]
      BY <1>10 DEF LockAndReset, Goto, n, x
    <3> QED
      BY <1>7, <3>1 DEF RingInv, TypeOK
  <2>2. /\ Ledger'[x] = Reset(Ledger[x].Term)
        /\ \A y \in DOMAIN Ledger \ {x} : Ledger'[y] = Ledger[y]
        /\ DOMAIN Ledger' = DOMAIN Ledger
    BY <1>2, <2>1
  <2>3. Ledger'[x].RecvProposals = {} /\ \A y \in DOMAIN Ledger : Serves(y)' = Serves(y)
    BY <2>2 DEF Serves, Reset
  <2>4. \A y \in DOMAIN Ledger' : \A m \in Ledger'[y].RecvProposals : m.seq = Serves(y)'
    BY <2>2, <2>3 DEF HandlerInTerm
  <2>5. ASSUME NEW o \in Routine, pc'[o] = "setTerm"
        PROVE  SlotOf(SeqOf(o))'.RecvProposals = {}
    <3>1. CASE Index(SeqOf(o)) = x
      BY <1>5, <2>3, <3>1 DEF SlotOf
    <3>2. CASE Index(SeqOf(o)) # x
      <4>1. pc[o] = "setTerm" /\ Index(SeqOf(o)) \in DOMAIN Ledger
        BY <1>3, <1>7, <2>5, <3>2 DEF x, n
      <4> QED
        BY <1>5, <2>2, <3>2, <4>1 DEF SlotOf, HandlerInTerm
    <3> QED
      BY <3>1, <3>2
  <2>6. /\ pc'["handler"] = "lock" => pc["handler"] = "lock"
        /\ pc'["handler"] = "updated" => pc["handler"] = "updated"
    BY <1>7, <2>1 DEF Routine
  <2>7. pc["handler"] # "idle" => Index(msg.seq) \in DOMAIN Ledger
    BY <1>3, <1>4 DEF Routine
  <2> QED
    BY <1>1, <1>8, <2>3, <2>4, <2>5, <2>6, <2>7 DEF HandlerInTerm
<1> QED
  BY <1>9, <1>10

LEMMA SetTermInTerm ==
    ASSUME RingInv, HandlerInTerm, NEW r \in Routine, SetTerm(r)
    PROVE  HandlerInTerm'
<1> DEFINE n == SeqOf(r)
           x == Index(n)
           s == Serves(x)
<1>1. UNCHANGED <<SvrSeq, msg>> /\ pc[r] = "setTerm" /\ pc' = [pc EXCEPT ![r] = "updated"]
      /\ Ledger' = [Ledger EXCEPT ![x].Term = Term(n)]
  BY DEF SetTerm, executorVars, Goto
<1>2. /\ n \in Nat /\ s \in Nat /\ x \in DOMAIN Ledger /\ LenLedger \in Nat \ {0}
      /\ Term(n) * LenLedger + x = n /\ Ledger[x] \in SlotType
  BY <1>1, AtHand, IndexAndTerm, LengthAssumption
<1>3. s = n - LenLedger /\ lock[x] = r /\ Ledger[x].RecvProposals = {}
  BY <1>1, <1>2 DEF RingInv, Locks, HandlerInTerm, SlotOf
<1>4. \A o \in Routine : pc[o] # "idle" => Index(SeqOf(o)) \in DOMAIN Ledger
  BY AtHand
<1>5. SeqOf("executor") = SvrSeq /\ SeqOf("handler") = msg.seq /\ \A o : SeqOf(o)' = SeqOf(o)
  BY <1>1 DEF SeqOf
<1> HIDE DEF n, x, s
<1>6. pc'[r] = "updated" /\ \A o \in Routine \ {r} : pc'[o] = pc[o]
  BY <1>1 DEF RingInv, TypeOK
<1>7. (pc'["handler"] # "idle" => pc["handler"] # "idle") /\ (UpdatesTerm' => UpdatesTerm)
  BY <1>1, <1>6 DEF UpdatesTerm, Routine
<1>8. /\ Ledger'[x].Term = Term(n) /\ Ledger'[x].RecvProposals = {}
      /\ \A y \in DOMAIN Ledger \ {x} : Ledger'[y] = Ledger[y]
      /\ DOMAIN Ledger' = DOMAIN Ledger
  BY <1>1, <1>2, <1>3 DEF SlotType
<1>9. \A y \in DOMAIN Ledger : Serves(y)' = IF y = x THEN n ELSE Serves(y)
  BY <1>2, <1>8 DEF Serves
<1>10. \A y \in DOMAIN Ledger' : \A m \in Ledger'[y].RecvProposals : m.seq = Serves(y)'
  BY <1>8, <1>9 DEF HandlerInTerm
<1>11. ASSUME NEW o \in Routine, pc'[o] = "setTerm"
       PROVE  SlotOf(SeqOf(o))'.RecvProposals = {}
  <2>1. o # r /\ pc[o] = "setTerm" /\ Index(SeqOf(o)) \in DOMAIN Ledger
    BY <1>4, <1>6, <1>11
  <2>2. lock[Index(SeqOf(o))] = o
    BY <2>1 DEF RingInv, Locks
  <2>3. Index(SeqOf(o)) # x
    BY <1>3, <2>1, <2>2
  <2> QED
    BY <1>5, <1>8, <2>1, <2>3 DEF SlotOf, HandlerInTerm
<1>12. pc["handler"] # "idle" => Index(msg.seq) \in DOMAIN Ledger /\ msg.seq \in Nat
  BY <1>4, <1>5, Positions DEF Routine
<1>13. /\ pc'["handler"] = "lock" => (Serves(Index(msg.seq)) <= msg.seq)'
       /\ pc'["handler"] = "updated" => (Serves(Index(msg.seq)) = msg.seq)'
  <2>1. CASE r = "handler"
    BY <1>1, <1>2, <1>5, <1>6, <1>9, <2>1 DEF x, n
  <2>2. CASE r = "executor"
    <3>1. pc'["handler"] = pc["handler"] /\ UpdatesTerm /\ n = SvrSeq /\ x = Index(SvrSeq)
      BY <1>1, <1>5, <1>6, <2>2 DEF Routine, UpdatesTerm, n, x
    <3>2. pc["handler"] # "idle" /\ Index(msg.seq) = x => msg.seq >= n
      BY <1>2, <1>12, <3>1 DEF HandlerInTerm
    <3>3. CASE Index(msg.seq) = x
      <4>1. pc["handler"] = "updated" => s = msg.seq
        BY <3>3 DEF HandlerInTerm, s
      <4>2. pc["handler"] # "updated"
        BY <1>2, <1>3, <1>12, <3>2, <3>3, <4>1
      <4> QED
        BY <1>1, <1>9, <1>12, <3>1, <3>2, <3>3, <4>2
    <3>4. CASE Index(msg.seq) # x
      BY <1>1, <1>9, <1>12, <3>1, <3>4 DEF HandlerInTerm
    <3> QED
      BY <3>3, <3>4
  <2> QED
    BY <2>1, <2>2 DEF Routine
<1> QED
  BY <1>1, <1>7, <1>10, <1>11, <1>13 DEF HandlerInTerm

(* The executor's own steps neither move an object on nor count.             *)
LEMMA OwnStepsKeep ==
    ASSUME RingInv,
           Propose \/ DropNotice \/ DecideAlone \/ LearnDecision \/ SaveDecision \/ SetIsDone
    PROVE  /\ DOMAIN Ledger' = DOMAIN Ledger
           /\ \A y \in DOMAIN Ledger :
                 /\ Serves(y)' = Serves(y) /\ Ledger'[y].RecvProposals = Ledger[y].RecvProposals
                 /\ Ledger[y].IsDone => Ledger'[y].IsDone
           /\ UNCHANGED <<SvrSeq, msg, CurrSeq, kpc, executed, entered>>
           /\ pc'["handler"] = pc["handler"]
           /\ Working /\ pc'["executor"] \in {"wait", "epilogue", "done", "putBack", "panic"}
<1> DEFINE x == Index(SvrSeq)
<1>1. Working
  BY DEF Propose, DropNotice, DecideAlone, LearnDecision, TakeNotice, SaveDecision, SetIsDone,
         Working
<1>2. x \in DOMAIN Ledger /\ Ledger[x] \in SlotType /\ InItsTerm
  BY <1>1, OwnObject DEF InItsTerm, SlotOf
<1>3. UNCHANGED <<SvrSeq, msg, CurrSeq, kpc, executed, entered>>
  BY DEF Propose, DropNotice, DecideAlone, LearnDecision, TakeNotice, SaveDecision, SetIsDone,
         executorVars, proxyVars, peerVars
<1>4. \E v : Ledger' \in { [Ledger EXCEPT ![x].MyProposal = v], [Ledger EXCEPT ![x].Queue = v],
                           [Ledger EXCEPT ![x].Decision = v], [Ledger EXCEPT ![x].IsDone = TRUE] }
  BY <1>2 DEF Propose, DropNotice, DecideAlone, LearnDecision, TakeNotice, SaveDecision, SetIsDone
<1>5. /\ DOMAIN Ledger' = DOMAIN Ledger
      /\ \A y \in DOMAIN Ledger :
            /\ Ledger'[y].Term = Ledger[y].Term
            /\ Ledger'[y].RecvProposals = Ledger[y].RecvProposals
            /\ Ledger[y].IsDone => Ledger'[y].IsDone
  <2> HIDE DEF x
  <2> QED
    BY <1>2, <1>4 DEF SlotType
<1>6. PICK label : pc' = [pc EXCEPT !["executor"] = label]
                   /\ label \in {"wait", "epilogue", "done", "putBack", "panic"}
  BY DEF Propose, DropNotice, DecideAlone, LearnDecision, TakeNotice, SaveDecision, SetIsDone,
         Goto, RingInv, TypeOK
<1>7. pc'["executor"] = label /\ pc'["handler"] = pc["handler"]
  BY <1>6 DEF RingInv, TypeOK, Routine
<1> QED
  BY <1>1, <1>3, <1>5, <1>6, <1>7 DEF Serves

LEMMA PutBackKeeps ==
    ASSUME TypeOK, PutBackMyProposal
    PROVE  /\ UNCHANGED <<Ledger, SvrSeq, msg, CurrSeq, kpc, executed, entered>>
           /\ pc'["executor"] \in {"idle", "panic"} /\ pc'["handler"] = pc["handler"]
<1>1. PICK label \in {"idle", "panic"} : pc' = [pc EXCEPT !["executor"] = label]
  BY DEF PutBackMyProposal, Goto
<1>2. pc'["executor"] = label /\ pc'["handler"] = pc["handler"]
  BY <1>1 DEF TypeOK, Routine
<1> QED
  BY <1>2 DEF PutBackMyProposal, executorVars, proxyVars, peerVars

LEMMA HandleMessageInTerm ==
    ASSUME RingInv, HandlerInTerm, HandleMessage
    PROVE  HandlerInTerm'
<1> DEFINE x == Index(msg.seq)
           e == [from |-> msg.from, seq |-> msg.seq]
<1>1. /\ UNCHANGED SvrSeq /\ pc["handler"] = "updated"
      /\ pc' = [pc EXCEPT !["handler"] = "idle"]
  BY DEF HandleMessage, Goto, executorVars
<1>2. pc'["handler"] = "idle" /\ pc'["executor"] = pc["executor"]
  BY <1>1 DEF RingInv, TypeOK, Routine
<1>3. /\ msg \in Sent /\ x \in DOMAIN Ledger /\ Ledger[x] \in SlotType
      /\ Serves(x) = msg.seq /\ msg.seq \in Nat /\ LenLedger \in Nat \ {0}
  BY <1>1, Positions, AtHand, LengthAssumption DEF Routine, SeqOf, HandlerInTerm
<1> HIDE DEF x
<1>4. PICK o \in SlotType :
        /\ Ledger' = [Ledger EXCEPT ![x] = o] /\ o.Term = Ledger[x].Term
        /\ o.RecvProposals \subseteq Ledger[x].RecvProposals \cup {e}
  <2> DEFINE s == Ledger[x]
             h == IF msg.type = "Proposal" THEN HandleProposal(s) ELSE HandleDecision(s)
  <2>1. Len(s.Queue) <= (IF HasEnoughMsg(s) THEN 1 ELSE 0) + (IF s.HasRecvDec THEN 1 ELSE 0)
    BY <1>3 DEF RingInv, FewNotices
  <2>2. Ledger' = [Ledger EXCEPT ![x] = IF s.IsDone THEN s ELSE h]
    BY DEF HandleMessage, x
  <2>3. s \in SlotType
    BY <1>3
  <2> HIDE DEF s, h
  <2>4. h \in SlotType /\ h.Term = s.Term /\ h.RecvProposals \subseteq s.RecvProposals \cup {e}
    BY <1>3, <2>1, <2>3, ObjectHandled DEF h
  <2>5. CASE s.IsDone
    BY <2>2, <2>3, <2>5 DEF s
  <2>6. CASE ~s.IsDone
    BY <2>2, <2>4, <2>6 DEF s
  <2> QED
    BY <2>5, <2>6
<1>5. /\ Ledger'[x] = o /\ \A y \in DOMAIN Ledger \ {x} : Ledger'[y] = Ledger[y]
      /\ DOMAIN Ledger' = DOMAIN Ledger /\ \A y \in DOMAIN Ledger : Serves(y)' = Serves(y)
  BY <1>3, <1>4 DEF Serves
<1>6. \A y \in DOMAIN Ledger' : \A m \in Ledger'[y].RecvProposals : m.seq = Serves(y)'
  BY <1>3, <1>4, <1>5 DEF HandlerInTerm
<1>7. ASSUME NEW r \in Routine, pc'[r] = "setTerm"
      PROVE  SlotOf(SeqOf(r))'.RecvProposals = {}
  <2>1. r = "executor" /\ pc["executor"] = "setTerm" /\ UpdatesTerm /\ SeqOf(r)' = SvrSeq
        /\ SeqOf(r) = SvrSeq
    BY <1>1, <1>2, <1>7 DEF Routine, UpdatesTerm, SeqOf
  <2>2. Serves(Index(SvrSeq)) = SvrSeq - LenLedger /\ SlotOf(SvrSeq).RecvProposals = {}
    BY <1>7, <2>1 DEF RingInv, Locks, HandlerInTerm
  <2>3. Index(SvrSeq) \in DOMAIN Ledger /\ SvrSeq \in Nat
    BY <2>1, AtHand, Positions
  <2>4. Index(SvrSeq) # x
    BY <1>1, <1>3, <2>1, <2>2, <2>3 DEF HandlerInTerm, x
  <2> QED
    BY <1>1, <1>5, <2>1, <2>2, <2>3, <2>4 DEF SlotOf
<1> QED
  BY <1>2, <1>6, <1>7 DEF HandlerInTerm

LEMMA HandlerInTermStep ==
    ASSUME "lateMessage" \notin Races, RingInv, HandlerInTerm, [Next]_vars
    PROVE  HandlerInTerm'
<1>1. \A o \in Routine : pc[o] # "idle" => Index(SeqOf(o)) \in DOMAIN Ledger
  BY AtHand
<1>2. CASE Propose \/ DropNotice \/ DecideAlone \/ LearnDecision \/ SaveDecision \/ SetIsDone
  <2>1. ~UpdatesTerm' /\ pc'["executor"] # "setTerm"
    BY <1>2, OwnStepsKeep DEF UpdatesTerm
  <2> QED
    BY <1>1, <1>2, <2>1, OwnStepsKeep, InTermKept
<1>3. CASE GetRequest
  <2>1. /\ UNCHANGED <<Ledger, msg>> /\ pc' = [pc EXCEPT !["executor"] = "readTerm"]
        /\ pc["executor"] = "idle" /\ SvrSeq' = SvrSeq + 1
        /\ pc["handler"] # "idle" => Apart(SvrSeq + 1, msg.seq)
    BY <1>3 DEF GetRequest, Goto
  <2>2. pc'["executor"] = "readTerm" /\ pc'["handler"] = pc["handler"]
    BY <2>1 DEF RingInv, TypeOK, Routine
  <2>3. pc["handler"] # "idle" => ~(Index(msg.seq) = Index(SvrSeq') /\ msg.seq < SvrSeq')
    BY <2>1 DEF Apart
  <2>4. \A y : Serves(y)' = Serves(y)
    BY <2>1 DEF Serves
  <2>5. ASSUME NEW o \in Routine, pc'[o] = "setTerm"
        PROVE  SlotOf(SeqOf(o))'.RecvProposals = {}
    <3>1. o = "handler" /\ pc[o] = "setTerm" /\ SeqOf(o)' = SeqOf(o)
      BY <2>1, <2>2, <2>5 DEF Routine, SeqOf
    <3> QED
      BY <2>1, <3>1 DEF HandlerInTerm, SlotOf
  <2> QED
    BY <2>1, <2>2, <2>3, <2>4, <2>5 DEF HandlerInTerm
<1>4. CASE \E q \in Server : TakeMessage(q)
  <2>1. PICK q \in Server : TakeMessage(q)
    BY <1>4
  <2>2. /\ UNCHANGED <<Ledger, SvrSeq>> /\ pc["handler"] = "idle"
        /\ pc' = [pc EXCEPT !["handler"] = "readTerm"]
        /\ UpdatesTerm => Apart(SvrSeq, msg'.seq)
    BY <2>1 DEF TakeMessage, Goto, executorVars
  <2>3. pc'["executor"] = pc["executor"] /\ pc'["handler"] = "readTerm"
    BY <2>2 DEF RingInv, TypeOK, Routine
  <2>4. UpdatesTerm' => ~(Index(msg'.seq) = Index(SvrSeq') /\ msg'.seq < SvrSeq')
    BY <2>2, <2>3 DEF Apart, UpdatesTerm
  <2>5. \A y : Serves(y)' = Serves(y)
    BY <2>2 DEF Serves
  <2>6. ASSUME NEW o \in Routine, pc'[o] = "setTerm"
        PROVE  SlotOf(SeqOf(o))'.RecvProposals = {}
    <3>1. o = "executor" /\ pc[o] = "setTerm" /\ SeqOf(o)' = SeqOf(o)
      BY <2>2, <2>3, <2>6 DEF Routine, SeqOf
    <3> QED
      BY <2>2, <3>1 DEF HandlerInTerm, SlotOf
  <2> QED
    BY <2>2, <2>3, <2>4, <2>5, <2>6 DEF HandlerInTerm
<1>5. CASE Proxy \/ (\E q \in Peer : PeerProceeds(q)) \/ UNCHANGED vars
  <2>1. UNCHANGED <<Ledger, pc, SvrSeq, msg>>
    BY <1>5 DEF Proxy, PollTerm, PollIsDone, Execute, PeerProceeds, vars, executorVars
  <2>2. (UpdatesTerm <=> UpdatesTerm') /\ \A y : Serves(y)' = Serves(y)
    BY <2>1 DEF UpdatesTerm, Serves
  <2> QED
    BY <1>1, <2>1, <2>2, InTermKept
<1>6. CASE \E r \in Routine : UpdateTerm(r)
  BY <1>6, ReadTermInTerm, LockAndResetInTerm, SetTermInTerm DEF UpdateTerm
<1>7. CASE PutBackMyProposal
  <2>1. UNCHANGED <<Ledger, SvrSeq, msg>> /\ pc'["executor"] \in {"idle", "panic"}
        /\ pc'["handler"] = pc["handler"]
    BY <1>7, PutBackKeeps DEF RingInv
  <2>2. ~UpdatesTerm' /\ pc'["executor"] # "setTerm" /\ \A y : Serves(y)' = Serves(y)
    BY <2>1 DEF UpdatesTerm, Serves
  <2> QED
    BY <1>1, <2>1, <2>2, InTermKept
<1> QED
  BY <1>2, <1>3, <1>4, <1>5, <1>6, <1>7, HandleMessageInTerm
     DEF Next, Executor, Handler, Routine

(* A slot's tally counts messages of its own slot of the log only, if no       *)
(* message comes late and no peer gets a ring ahead.                         *)
THEOREM TalliesOwnSlotHolds ==
    ASSUME "peerAhead" \notin Races, "lateMessage" \notin Races
    PROVE  Spec => []TalliesOwnSlot
<1>1. Init => HandlerInTerm
  BY DEF Init, HandlerInTerm, Routine, Reset
<1>2. RingInv /\ HandlerInTerm /\ [Next]_vars => HandlerInTerm'
  BY HandlerInTermStep
<1>3. HandlerInTerm => TalliesOwnSlot
  BY DEF HandlerInTerm, TalliesOwnSlot, Serves
<1>4. Spec => []RingInv
  BY Invariance
<1> QED
  BY <1>1, <1>2, <1>3, <1>4, PTL DEF Spec

-----------------------------------------------------------------------------
(* No object is reused before it is executed: what KVSExecutor reads in three *)
(* steps belongs to one slot.                                                *)
LEMMA InTimeKept ==
    ASSUME ProxyInTime, DOMAIN Ledger' = DOMAIN Ledger, Index(CurrSeq) \in DOMAIN Ledger,
           \A y \in DOMAIN Ledger : Serves(y)' = Serves(y),
           kpc = "done" /\ SlotOf(CurrSeq).IsDone => Ledger'[Index(CurrSeq)].IsDone,
           SvrSeq' < CurrSeq + LenLedger, \A q \in Peer : entered'[q] < CurrSeq + LenLedger,
           UNCHANGED <<CurrSeq, kpc, executed>>
    PROVE  ProxyInTime'
<1>1. kpc \in {"term", "done"} => Serves(Index(CurrSeq))' = CurrSeq
  BY DEF ProxyInTime
<1>2. kpc = "done" => SlotOf(CurrSeq)'.IsDone
  BY DEF ProxyInTime, SlotOf
<1>3. ExecutesDecisions'
  BY DEF ProxyInTime, ExecutesDecisions
<1> QED
  BY <1>1, <1>2, <1>3 DEF ProxyInTime

(* The slot a routine works on is one that KVSExecutor is not a ledger behind. *)
LEMMA ReadersObject ==
    ASSUME RingInv, ProxyInTime
    PROVE  /\ CurrSeq \in Nat /\ Index(CurrSeq) \in DOMAIN Ledger /\ LenLedger \in Nat \ {0}
           /\ \A r \in Routine : pc[r] # "idle" =>
                 /\ SeqOf(r) \in Nat /\ SeqOf(r) < CurrSeq + LenLedger
                 /\ kpc \in {"term", "done"} /\ Serves(Index(SeqOf(r))) = SeqOf(r) - LenLedger =>
                       Index(SeqOf(r)) # Index(CurrSeq)
<1>1. CurrSeq \in Nat /\ Index(CurrSeq) \in DOMAIN Ledger /\ LenLedger \in Nat \ {0}
  <2>1. TypeOK /\ CurrSeq \in Nat /\ LenLedger \in Nat \ {0}
    BY LengthAssumption DEF RingInv, TypeOK
  <2> QED
    BY <2>1, SlotServed
<1>2. ASSUME NEW r \in Routine, pc[r] # "idle"
      PROVE  SeqOf(r) \in Nat /\ SeqOf(r) < CurrSeq + LenLedger
  <2>1. CASE r = "executor"
    BY <1>2, <2>1, Positions DEF SeqOf, ProxyInTime
  <2>2. CASE r = "handler"
    <3>1. /\ msg \in Sent /\ msg.seq \in Nat /\ msg.seq <= Position(msg.from)
          /\ msg.from \in Server
      BY <1>2, <2>2, Positions DEF RingInv, MessagesSent, Sent
    <3>2. Position(msg.from) \in Int /\ Position(msg.from) < CurrSeq + LenLedger
      <4>1. CASE msg.from = self
        <5>1. Position(self) \in Int /\ Position(self) <= SvrSeq /\ SvrSeq \in Int
          BY Positions, ServerAssumption
        <5> QED
          BY <1>1, <4>1, <5>1 DEF ProxyInTime
      <4>2. CASE msg.from # self
        BY <3>1, <4>2, Positions DEF ProxyInTime, Position, Peer
      <4> QED
        BY <4>1, <4>2
    <3> QED
      BY <1>1, <2>2, <3>1, <3>2 DEF SeqOf
  <2> QED
    BY <2>1, <2>2 DEF Routine
<1>3. ASSUME NEW r \in Routine, pc[r] # "idle", kpc \in {"term", "done"},
             Serves(Index(SeqOf(r))) = SeqOf(r) - LenLedger
      PROVE  Index(SeqOf(r)) # Index(CurrSeq)
  <2>1. Serves(Index(CurrSeq)) = CurrSeq
    BY <1>3 DEF ProxyInTime
  <2> QED
    BY <1>1, <1>2, <1>3, <2>1
<1> QED
  BY <1>1, <1>2, <1>3

LEMMA UpdateTermInTime ==
    ASSUME RingInv, ProxyInTime, NEW r \in Routine, UpdateTerm(r)
    PROVE  ProxyInTime'
<1> DEFINE n == SeqOf(r)
           x == Index(n)
<1>1. UNCHANGED <<SvrSeq, entered, CurrSeq, kpc, executed>> /\ pc[r] # "idle"
  BY DEF UpdateTerm, ReadTerm, ReadTermAgain, LockAndReset, SetTerm, executorVars, proxyVars,
         peerVars
<1>2. /\ n \in Nat /\ x \in DOMAIN Ledger /\ Ledger[x] \in SlotType /\ Term(n) \in Nat
      /\ Term(n) * LenLedger + x = n
      /\ Term(n) = Ledger[x].Term + 1 <=> n = Serves(x) + LenLedger
      /\ Serves(x) \in Nat
  BY <1>1, AtHand, IndexAndTerm
<1>3. /\ CurrSeq \in Nat /\ Index(CurrSeq) \in DOMAIN Ledger /\ LenLedger \in Nat \ {0}
      /\ n < CurrSeq + LenLedger
      /\ kpc \in {"term", "done"} /\ Serves(x) = n - LenLedger => x # Index(CurrSeq)
  BY <1>1, ReadersObject
<1>4. SvrSeq' < CurrSeq + LenLedger /\ \A q \in Peer : entered'[q] < CurrSeq + LenLedger
  BY <1>1 DEF ProxyInTime
<1> HIDE DEF n, x
<1>5. CASE UNCHANGED Ledger
  <2>1. \A y : Serves(y)' = Serves(y)
    BY <1>5 DEF Serves
  <2> QED
    BY <1>1, <1>3, <1>4, <1>5, <2>1, InTimeKept DEF SlotOf
<1>6. CASE /\ Term(n) = Ledger[x].Term + 1
           /\ Ledger' = [Ledger EXCEPT ![x] = Reset(Ledger[x].Term)]
  <2>1. Ledger'[x].Term = Ledger[x].Term /\ \A y \in DOMAIN Ledger \ {x} : Ledger'[y] = Ledger[y]
    BY <1>2, <1>6 DEF Reset
  <2>2. \A y \in DOMAIN Ledger : Serves(y)' = Serves(y)
    BY <2>1 DEF Serves
  <2>3. kpc = "done" => Index(CurrSeq) # x
    BY <1>2, <1>3, <1>6
  <2>4. kpc = "done" /\ SlotOf(CurrSeq).IsDone => Ledger'[Index(CurrSeq)].IsDone
    BY <1>3, <2>1, <2>3 DEF SlotOf
  <2>5. DOMAIN Ledger' = DOMAIN Ledger
    BY <1>6
  <2> QED
    BY <1>1, <1>3, <1>4, <2>2, <2>4, <2>5, InTimeKept
<1>7. CASE SetTerm(r)
  <2>1. Serves(x) = n - LenLedger /\ Ledger' = [Ledger EXCEPT ![x].Term = Term(n)]
    BY <1>7 DEF SetTerm, RingInv, Locks, n, x
  <2>2. /\ DOMAIN Ledger' = DOMAIN Ledger
        /\ \A y \in DOMAIN Ledger \ {x} : Ledger'[y] = Ledger[y]
        /\ \A y \in DOMAIN Ledger : Serves(y)' = IF y = x THEN n ELSE Serves(y)
    BY <1>2, <2>1 DEF Serves, SlotType
  <2>3. kpc \in {"term", "done"} => x # Index(CurrSeq)
    BY <1>3, <2>1
  <2>4. \A y \in DOMAIN Ledger' : Serves(y)' < CurrSeq + LenLedger
    BY <1>3, <2>2 DEF ProxyInTime
  <2>5. kpc \in {"term", "done"} => Serves(Index(CurrSeq))' = CurrSeq
    BY <1>1, <1>3, <2>2, <2>3 DEF ProxyInTime
  <2>6. kpc = "done" => SlotOf(CurrSeq)'.IsDone
    BY <1>1, <1>3, <2>2, <2>3 DEF ProxyInTime, SlotOf
  <2>7. ExecutesDecisions'
    BY <1>1 DEF ProxyInTime, ExecutesDecisions
  <2> QED
    BY <1>1, <1>4, <2>4, <2>5, <2>6, <2>7 DEF ProxyInTime
<1> QED
  BY <1>5, <1>6, <1>7 DEF UpdateTerm, ReadTerm, ReadTermAgain, LockAndReset, n, x

LEMMA ProxyStepInTime ==
    ASSUME RingInv, ProxyInTime, Proxy
    PROVE  ProxyInTime'
<1>1. UNCHANGED <<Ledger, pc, SvrSeq, entered>>
  BY DEF Proxy, PollTerm, PollIsDone, Execute, executorVars, peerVars
<1>2. CurrSeq \in Nat /\ Index(CurrSeq) \in DOMAIN Ledger /\ LenLedger \in Nat \ {0}
      /\ (Term(CurrSeq) = SlotOf(CurrSeq).Term <=> CurrSeq = Serves(Index(CurrSeq)))
  BY ReadersObject, SlotServed DEF RingInv
<1>3. \A y : Serves(y)' = Serves(y)
  BY <1>1 DEF Serves
<1>4. CASE PollTerm \/ PollIsDone
  <2>1. UNCHANGED <<CurrSeq, executed>>
    BY <1>4 DEF PollTerm, PollIsDone
  <2>2. /\ kpc' \in {"term", "done"} => Serves(Index(CurrSeq)) = CurrSeq
        /\ kpc' = "done" => SlotOf(CurrSeq).IsDone
    BY <1>2, <1>4 DEF PollTerm, PollIsDone, ProxyInTime
  <2> QED
    BY <1>1, <1>3, <2>1, <2>2 DEF ProxyInTime, ExecutesDecisions, SlotOf
<1>5. CASE Execute
  <2>1. /\ CurrSeq' = CurrSeq + 1 /\ kpc' = "poll" /\ kpc = "done"
        /\ executed' = Append(executed, SlotOf(CurrSeq).Decision)
    BY <1>5 DEF Execute
  <2>2. SlotOf(CurrSeq).Decision = CurrSeq
    BY <1>2, <2>1 DEF RingInv, DoneIsConcluded, ProxyInTime, SlotOf
  <2>3. ExecutesDecisions'
    <3>1. executed = [i \in 1 .. CurrSeq |-> i - 1]
      BY DEF ProxyInTime, ExecutesDecisions
    <3>2. executed \in Seq(Int) /\ Len(executed) = CurrSeq
      BY <1>2, <3>1
    <3>3. Append(executed, CurrSeq) = [i \in 1 .. CurrSeq + 1 |-> i - 1]
      BY <1>2, <3>1, <3>2
    <3> QED
      BY <2>1, <2>2, <3>3 DEF ExecutesDecisions
  <2>4. SvrSeq \in Int /\ \A q \in Peer : entered[q] \in Int
    BY Positions DEF RingInv, TypeOK
  <2>5. \A y \in DOMAIN Ledger : Serves(y) \in Nat
    BY Objects DEF RingInv, TypeOK
  <2> QED
    BY <1>1, <1>2, <1>3, <2>1, <2>3, <2>4, <2>5 DEF ProxyInTime
<1> QED
  BY <1>4, <1>5 DEF Proxy

LEMMA ProxyInTimeStep ==
    ASSUME "proxy" \notin Races, RingInv, ProxyInTime, [Next]_vars
    PROVE  ProxyInTime'
<1>1. /\ CurrSeq \in Nat /\ Index(CurrSeq) \in DOMAIN Ledger /\ LenLedger \in Nat \ {0}
      /\ SvrSeq \in Int /\ SvrSeq < CurrSeq + LenLedger
      /\ \A q \in Peer : entered[q] < CurrSeq + LenLedger
  BY ReadersObject, Positions DEF ProxyInTime
<1>2. CASE Propose \/ DropNotice \/ DecideAlone \/ LearnDecision \/ SaveDecision \/ SetIsDone
  BY <1>1, <1>2, OwnStepsKeep, InTimeKept DEF SlotOf
<1>3. CASE HandleMessage
  <2>1. UNCHANGED <<SvrSeq, CurrSeq, kpc, executed, entered>> /\ pc["handler"] = "updated"
    BY <1>3 DEF HandleMessage, executorVars, proxyVars, peerVars
  <2> DEFINE x == Index(msg.seq)
  <2>2. msg \in Sent /\ x \in DOMAIN Ledger /\ Ledger[x] \in SlotType
    BY <2>1, Positions, AtHand DEF Routine, SeqOf
  <2> HIDE DEF x
  <2>3. /\ DOMAIN Ledger' = DOMAIN Ledger
        /\ \A y \in DOMAIN Ledger :
              Ledger'[y].Term = Ledger[y].Term /\ Ledger'[y].IsDone = Ledger[y].IsDone
    <3> DEFINE s == Ledger[x]
               h == IF msg.type = "Proposal" THEN HandleProposal(s) ELSE HandleDecision(s)
    <3>1. Len(s.Queue) <= (IF HasEnoughMsg(s) THEN 1 ELSE 0) + (IF s.HasRecvDec THEN 1 ELSE 0)
      BY <2>2 DEF RingInv, FewNotices
    <3>2. Ledger' = [Ledger EXCEPT ![x] = IF s.IsDone THEN s ELSE h]
      BY <1>3 DEF HandleMessage, x
    <3>3. s \in SlotType
      BY <2>2
    <3> HIDE DEF s, h
    <3>4. h.Term = s.Term /\ h.IsDone = s.IsDone
      BY <2>2, <3>1, <3>3, ObjectHandled DEF h
    <3> QED
      BY <2>2, <3>2, <3>4 DEF s
  <2>4. \A y \in DOMAIN Ledger : Serves(y)' = Serves(y)
    BY <2>3 DEF Serves
  <2> QED
    BY <1>1, <2>1, <2>3, <2>4, InTimeKept DEF SlotOf
<1>4. CASE GetRequest
  <2>1. /\ UNCHANGED <<Ledger, entered, CurrSeq, kpc, executed>> /\ SvrSeq' = SvrSeq + 1
        /\ SvrSeq + 1 - LenLedger < CurrSeq
    BY <1>1, <1>4 DEF GetRequest, ProxyIsDone, proxyVars, peerVars
  <2>2. \A y : Serves(y)' = Serves(y)
    BY <2>1 DEF Serves
  <2>3. SvrSeq' < CurrSeq + LenLedger
    BY <1>1, <2>1
  <2> QED
    BY <1>1, <2>1, <2>2, <2>3, InTimeKept DEF SlotOf
<1>5. CASE \E q \in Peer : PeerProceeds(q)
  <2>1. PICK p \in Peer : PeerProceeds(p)
    BY <1>5
  <2>2. entered[p] \in Int
    BY DEF RingInv, TypeOK
  <2>3. /\ UNCHANGED <<Ledger, SvrSeq, CurrSeq, kpc, executed>>
        /\ entered' = [entered EXCEPT ![p] = entered[p] + 1]
        /\ entered[p] + 1 - LenLedger < CurrSeq
    BY <1>1, <2>1, <2>2 DEF PeerProceeds, ProxyIsDone, executorVars, proxyVars
  <2>4. \A q \in Peer : entered'[q] < CurrSeq + LenLedger
    BY <1>1, <2>2, <2>3 DEF RingInv, TypeOK
  <2>5. \A y : Serves(y)' = Serves(y)
    BY <2>3 DEF Serves
  <2> QED
    BY <1>1, <2>3, <2>4, <2>5, InTimeKept DEF SlotOf
<1>6. CASE (\E q \in Server : TakeMessage(q)) \/ UNCHANGED vars
  <2>1. UNCHANGED <<Ledger, SvrSeq, entered, CurrSeq, kpc, executed>>
    BY <1>6 DEF TakeMessage, vars, executorVars, proxyVars, peerVars
  <2>2. \A y : Serves(y)' = Serves(y)
    BY <2>1 DEF Serves
  <2> QED
    BY <1>1, <2>1, <2>2, InTimeKept DEF SlotOf
<1>7. CASE \E r \in Routine : UpdateTerm(r)
  BY <1>7, UpdateTermInTime
<1>8. CASE PutBackMyProposal
  <2>1. UNCHANGED <<Ledger, SvrSeq, entered, CurrSeq, kpc, executed>>
    BY <1>8, PutBackKeeps DEF RingInv
  <2>2. \A y : Serves(y)' = Serves(y)
    BY <2>1 DEF Serves
  <2> QED
    BY <1>1, <2>1, <2>2, InTimeKept DEF SlotOf
<1> QED
  BY <1>2, <1>3, <1>4, <1>5, <1>6, <1>7, <1>8, ProxyStepInTime
     DEF Next, Executor, Handler, Routine

(* KVSExecutor executes the decisions of the log one after the other, each    *)
(* once, although it reads Term, IsDone and Decision without the lock, if no  *)
(* object is reused before it was executed and no peer gets a ring ahead.    *)
THEOREM ExecutesDecisionsHolds ==
    ASSUME "peerAhead" \notin Races, "proxy" \notin Races
    PROVE  Spec => []ExecutesDecisions
<1>1. Init => ProxyInTime
  <2> SUFFICES ASSUME Init
               PROVE  ProxyInTime
    OBVIOUS
  <2>1. /\ LenLedger \in Nat \ {0} /\ CurrSeq = 0 /\ SvrSeq = -1 /\ kpc = "poll"
        /\ \A q \in Peer : entered[q] = -1
        /\ \A x \in DOMAIN Ledger : Serves(x) = x /\ x \in Nat /\ x < LenLedger
    BY LengthAssumption DEF Init, Serves, Reset
  <2>2. ExecutesDecisions
    BY <2>1 DEF Init, ExecutesDecisions
  <2>3. /\ SvrSeq < CurrSeq + LenLedger
        /\ \A q \in Peer : entered[q] < CurrSeq + LenLedger
        /\ \A x \in DOMAIN Ledger : Serves(x) < CurrSeq + LenLedger
    BY <2>1
  <2> QED
    BY <2>1, <2>2, <2>3 DEF ProxyInTime
<1>2. RingInv /\ ProxyInTime /\ [Next]_vars => ProxyInTime'
  BY ProxyInTimeStep
<1>3. ProxyInTime => ExecutesDecisions
  BY DEF ProxyInTime
<1>4. Spec => []RingInv
  BY Invariance
<1> QED
  BY <1>1, <1>2, <1>3, <1>4, PTL DEF Spec
=============================================================================
