--------------------------- MODULE RabiaLogProofs ---------------------------
(***************************************************************************)
(* Proofs about RabiaLog: no object is lost, decided twice or wrongly      *)
(* discarded, whatever the order in which requests and decisions come.     *)
(*                                                                         *)
(* DiscardExact depends on NoObjectTwice, and that on the dictionary: an   *)
(* object decided again would have been proposed by a server that decided  *)
(* it before, and DiscardExact keeps that server from it.  So they are     *)
(* proved together.                                                        *)
(***************************************************************************)
EXTENDS RabiaLog, FiniteSetTheorems, SequenceTheorems, TLAPS

(* A server has decided every slot before its own, and works on no later one. *)
InOrder ==
    \A s \in Server : \A k \in Slot :
        /\ k <= svrSeq[s] <=> proposal[s][k] # None
        /\ k < svrSeq[s] => decision[s][k] # None
        /\ k > svrSeq[s] => decision[s][k] = None

(* Servers that decide a slot decide the same.                               *)
SameDecision ==
    \A s, t \in Server : \A k \in Slot :
        decision[s][k] # None /\ decision[t][k] # None => decision[s][k] = decision[t][k]

(* What is decided was proposed for the slot.                                *)
DecidedProposed ==
    \A s \in Server : \A k \in Slot :
        decision[s][k] \in Object => \E t \in Server : proposal[t][k] = decision[s][k]

(* A server proposes nothing that it has decided before.                     *)
ProposedFresh ==
    \A s \in Server : \A k, l \in Slot :
        l < k /\ proposal[s][k] \in Object => decision[s][l] # proposal[s][k]

(* A pending object has arrived, and so has the one being proposed, which is  *)
(* neither pending nor decided.                                              *)
PendingArrived ==
    \A s \in Server :
        /\ \A o \in queue[s] : Arrived(s, o)
        /\ Working(s) =>
              LET own == proposal[s][svrSeq[s]] IN
              Arrived(s, own) /\ own \notin queue[s] /\ own \notin Decided(s)

IInv ==
    /\ TypeOK
    /\ InOrder /\ SameDecision /\ DecidedProposed /\ ProposedFresh
    /\ PendingArrived /\ NothingLost /\ DiscardExact

-----------------------------------------------------------------------------
(* An object is its ProId and ProSeq.                                        *)
LEMMA ObjectIs ==
    /\ \A o \in Object : /\ o.proId \in ProxyId /\ o.proSeq \in Nat
                        /\ o = [proId |-> o.proId, proSeq |-> o.proSeq]
    /\ \A p \in ProxyId : \A n \in Nat :
          n < NumObjects[p] => [proId |-> p, proSeq |-> n] \in Object
BY ProxyAssumption DEF Object, ProxyId

LEMMA ConstantsApart ==
    /\ None \notin Object /\ Null \notin Object /\ None # Null
    /\ Slot \subseteq Nat /\ \A k \in Int : k \in Slot <=> 0 <= k /\ k <= MaxSlot
BY ValueAssumption, SlotAssumption DEF Slot

(* What a majority proposed was proposed by some server.                     *)
LEMMA BackedProposed ==
    ASSUME NEW k \in Slot, NEW d, AgreedIn(k)!Backed(d)
    PROVE  \E t \in Server : proposal[t][k] = d
<1> DEFINE Backers == {t \in Server : [s \in Server |-> proposal[s][k]][t] = d}
<1>1. 2 * Cardinality(Backers) > Cardinality(Server)
  BY DEF AgreedIn!Backed, AgreedIn!Cardinality, Cardinality
<1>2. Cardinality(Server) \in Nat
  BY ServerAssumption, FS_CardinalityType
<1> SUFFICES ASSUME Backers = {} PROVE FALSE
  OBVIOUS
<1> HIDE DEF Backers
<1>3. Cardinality(Backers) = 0
  BY FS_EmptySet
<1> QED
  BY <1>1, <1>2, <1>3

(* What a slot is decided to agrees with what others decided, and was proposed.*)
LEMMA OutcomeIs ==
    ASSUME NEW k \in Slot, NEW d \in Outcomes(k)
    PROVE  /\ d \in Object \cup {Null}
           /\ \A t \in Server : decision[t][k] \in {None, d}
           /\ d \in Object => \E t \in Server : proposal[t][k] = d
BY BackedProposed, ConstantsApart DEF Outcomes

(* No server that decides a slot has decided the same object in another slot. *)
LEMMA DecidedOnce ==
    ASSUME TypeOK, InOrder, SameDecision, DecidedProposed, ProposedFresh
    PROVE  NoObjectTwice
<1> SUFFICES ASSUME NEW s \in Server, NEW t \in Server, NEW k \in Slot, NEW l \in Slot,
                    decision[s][k] \in Object, decision[s][k] = decision[t][l], k < l
             PROVE  FALSE
  BY ConstantsApart DEF NoObjectTwice
<1>1. PICK q \in Server : proposal[q][l] = decision[t][l]
  BY DEF DecidedProposed
<1>2. decision[q][k] # None
  BY <1>1, ConstantsApart DEF InOrder, TypeOK
<1>3. decision[q][k] = decision[s][k]
  BY <1>2, ConstantsApart DEF SameDecision
<1> QED
  BY <1>1, <1>3 DEF ProposedFresh

-----------------------------------------------------------------------------
(* The invariant holds initially, and every action preserves it.             *)
LEMMA InitHolds == Init => IInv
<1> SUFFICES ASSUME Init PROVE IInv
  OBVIOUS
<1>1. \A s \in Server : ~Working(s) /\ Decided(s) = {} /\ queue[s] = {} /\ discard[s] = {}
  BY ConstantsApart DEF Init, Working, Decided
<1>2. \A s \in Server : \A o \in Object : ~Arrived(s, o)
  BY ObjectIs DEF Init, Arrived
<1>3. TypeOK
  BY SlotAssumption DEF Init, TypeOK
<1>4. InOrder /\ SameDecision /\ DecidedProposed /\ ProposedFresh
  BY ConstantsApart DEF Init, InOrder, SameDecision, DecidedProposed, ProposedFresh
<1>5. PendingArrived /\ NothingLost /\ DiscardExact
  BY <1>1, <1>2 DEF PendingArrived, NothingLost, DiscardExact
<1> QED
  BY <1>3, <1>4, <1>5 DEF IInv

(* A request arrives: only its object is pending now, and Discard holds it    *)
(* already if it was decided.                                                *)
LEMMA ClientRequestStep ==
    ASSUME IInv, NEW s \in Server, NEW p \in ProxyId, ClientRequest(s, p)
    PROVE  IInv'
<1> DEFINE x == [proId |-> p, proSeq |-> arrived[s][p]]
<1>1. /\ arrived[s][p] \in Nat /\ x \in Object /\ x.proId = p /\ x.proSeq = arrived[s][p]
      /\ ~Arrived(s, x)
  BY ObjectIs DEF IInv, TypeOK, ClientRequest, Arrived
<1>2. /\ queue' = [queue EXCEPT ![s] = @ \cup {x}]
      /\ queue' \in [Server -> SUBSET Object]
      /\ UNCHANGED <<discard, svrSeq, proposal, decision>>
  BY <1>1 DEF ClientRequest, IInv, TypeOK
<1>3. \A t \in Server : \A o \in Object : Arrived(t, o)' <=> Arrived(t, o) \/ (t = s /\ o = x)
  BY <1>1, ObjectIs DEF IInv, TypeOK, ClientRequest, Arrived
<1>4. \A t \in Server : (Working(t)' <=> Working(t)) /\ Decided(t)' = Decided(t)
  BY <1>2 DEF Working, Decided
<1>5. TypeOK'
  BY <1>1, <1>2 DEF ClientRequest, IInv, TypeOK
<1>6. InOrder' /\ SameDecision' /\ DecidedProposed' /\ ProposedFresh'
  BY <1>2 DEF IInv, InOrder, SameDecision, DecidedProposed, ProposedFresh
<1>7. PendingArrived'
  <2> SUFFICES ASSUME NEW t \in Server
               PROVE  /\ \A o \in queue'[t] : Arrived(t, o)'
                      /\ Working(t)' =>
                            /\ Arrived(t, proposal[t][svrSeq[t]])'
                            /\ proposal[t][svrSeq[t]] \notin queue'[t]
                            /\ proposal[t][svrSeq[t]] \notin Decided(t)'
    BY <1>2 DEF PendingArrived
  <2>1. \A o \in queue'[t] : Arrived(t, o)'
    BY <1>1, <1>2, <1>3 DEF IInv, TypeOK, PendingArrived
  <2>2. Working(t) => proposal[t][svrSeq[t]] \in Object
    BY ConstantsApart DEF IInv, TypeOK, InOrder, Working
  <2> QED
    BY <1>1, <1>2, <1>3, <1>4, <2>1, <2>2 DEF IInv, TypeOK, PendingArrived
<1>8. NothingLost'
  BY <1>1, <1>2, <1>3, <1>4 DEF IInv, TypeOK, NothingLost
<1>9. DiscardExact'
  BY <1>1, <1>2, <1>3, <1>4 DEF IInv, TypeOK, DiscardExact, Decided
<1> QED
  BY <1>5, <1>6, <1>7, <1>8, <1>9 DEF IInv

(* An object decided before is popped: it leaves Discard with the queue.      *)
LEMMA DiscardStep ==
    ASSUME IInv, NEW s \in Server, NEW o \in Heads(s), ~Working(s), o \in discard[s],
           queue' = [queue EXCEPT ![s] = @ \ {o}],
           discard' = [discard EXCEPT ![s] = @ \ {o}],
           UNCHANGED <<arrived, svrSeq, proposal, decision>>
    PROVE  IInv'
<1>1. o \in queue[s] /\ o \in Object /\ o \in Decided(s) /\ Arrived(s, o)
  BY DEF Heads, IInv, TypeOK, DiscardExact, PendingArrived
<1>2. \A t \in Server :
        /\ (Working(t)' <=> Working(t)) /\ Decided(t)' = Decided(t)
        /\ \A x \in Object : Arrived(t, x)' <=> Arrived(t, x)
  BY DEF Working, Decided, Arrived
<1>3. \A t \in Server : /\ queue'[t] = IF t = s THEN queue[s] \ {o} ELSE queue[t]
                        /\ discard'[t] = IF t = s THEN discard[s] \ {o} ELSE discard[t]
  BY DEF IInv, TypeOK
<1>4. TypeOK'
  BY DEF IInv, TypeOK
<1>5. InOrder' /\ SameDecision' /\ DecidedProposed' /\ ProposedFresh'
  BY DEF IInv, InOrder, SameDecision, DecidedProposed, ProposedFresh
<1>6. PendingArrived'
  BY <1>2, <1>3 DEF IInv, TypeOK, PendingArrived, Arrived
<1>7. NothingLost'
  BY <1>1, <1>2, <1>3 DEF IInv, TypeOK, NothingLost
<1>8. DiscardExact'
  BY <1>1, <1>2, <1>3 DEF IInv, TypeOK, DiscardExact, Decided
<1> QED
  BY <1>4, <1>5, <1>6, <1>7, <1>8 DEF IInv

(* Another is proposed for the next slot: s has not decided it, or Discard     *)
(* would hold it.                                                            *)
LEMMA ProposeStep ==
    ASSUME IInv, NEW s \in Server, NEW o \in Heads(s), ~Working(s), o \notin discard[s],
           svrSeq[s] < MaxSlot,
           queue' = [queue EXCEPT ![s] = @ \ {o}],
           svrSeq' = [svrSeq EXCEPT ![s] = @ + 1],
           proposal' = [proposal EXCEPT ![s][svrSeq[s] + 1] = o],
           UNCHANGED <<arrived, discard, decision>>
    PROVE  IInv'
<1> DEFINE n == svrSeq[s] + 1
<1>1. o \in queue[s] /\ o \in Object /\ o \notin Decided(s) /\ Arrived(s, o)
  BY DEF Heads, IInv, TypeOK, DiscardExact, PendingArrived
<1>2. n \in Slot /\ n \in Int /\ svrSeq[s] \in Int /\ decision[s][n] = None
  <2>1. svrSeq[s] \in -1 .. MaxSlot
    BY DEF IInv, TypeOK
  <2>2. n \in Slot /\ n \in Int /\ svrSeq[s] \in Int /\ n > svrSeq[s]
    BY <2>1, SlotAssumption DEF Slot
  <2> QED
    BY <2>2 DEF IInv, InOrder
<1>3. \A t \in Server :
        /\ queue'[t] = IF t = s THEN queue[s] \ {o} ELSE queue[t]
        /\ svrSeq'[t] = IF t = s THEN n ELSE svrSeq[t]
        /\ \A k \in Slot : proposal'[t][k] = IF t = s /\ k = n THEN o ELSE proposal[t][k]
  BY <1>2 DEF IInv, TypeOK
<1>4. \A t \in Server :
        /\ Decided(t)' = Decided(t)
        /\ \A x \in Object : Arrived(t, x)' <=> Arrived(t, x)
        /\ t # s => (Working(t)' <=> Working(t))
  BY <1>3 DEF Working, Decided, Arrived
<1>5. Working(s)' /\ proposal'[s][svrSeq'[s]] = o
  <2>1. n >= 0
    BY <1>2, ConstantsApart
  <2> QED
    BY <1>2, <1>3, <2>1 DEF Working
<1>6. TypeOK'
  <2>1. svrSeq' \in [Server -> -1 .. MaxSlot]
    BY <1>2, SlotAssumption DEF IInv, TypeOK, Slot
  <2>2. proposal' \in [Server -> [Slot -> Object \cup {None}]]
    BY <1>1, <1>2 DEF IInv, TypeOK
  <2> QED
    BY <2>1, <2>2 DEF IInv, TypeOK
<1>7. InOrder'
  <2> SUFFICES ASSUME NEW t \in Server, NEW k \in Slot
               PROVE  /\ k <= svrSeq'[t] <=> proposal'[t][k] # None
                      /\ k < svrSeq'[t] => decision[t][k] # None
                      /\ k > svrSeq'[t] => decision[t][k] = None
    BY DEF InOrder
  <2>1. /\ k <= svrSeq[t] <=> proposal[t][k] # None
        /\ k < svrSeq[t] => decision[t][k] # None
        /\ k > svrSeq[t] => decision[t][k] = None
    BY DEF IInv, InOrder
  <2>2. k \in Int /\ k >= 0
    BY ConstantsApart
  <2>3. CASE t # s
    BY <1>3, <2>1, <2>3
  <2>4. CASE t = s
    <3>1. svrSeq'[t] = n /\ svrSeq[t] = svrSeq[s]
      BY <1>3, <2>4
    <3>2. k = svrSeq[s] => decision[s][k] # None
      BY <2>2 DEF Working
    <3>3. o # None
      BY <1>1, ConstantsApart
    <3>4. proposal'[t][k] = IF k = n THEN o ELSE proposal[t][k]
      BY <1>3, <2>4
    <3> QED
      BY <1>2, <2>1, <2>2, <2>4, <3>1, <3>2, <3>3, <3>4
  <2> QED
    BY <2>3, <2>4
<1>8. SameDecision'
  BY DEF IInv, SameDecision
<1>9. DecidedProposed'
  <2> SUFFICES ASSUME NEW t \in Server, NEW k \in Slot, decision[t][k] \in Object
               PROVE  \E q \in Server : proposal'[q][k] = decision[t][k]
    BY DEF DecidedProposed
  <2>1. PICK q \in Server : proposal[q][k] = decision[t][k]
    BY DEF IInv, DecidedProposed
  <2>2. proposal[q][k] # None
    BY <2>1, ConstantsApart
  <2>3. k <= svrSeq[q]
    BY <2>2 DEF IInv, InOrder
  <2>4. ~(q = s /\ k = n)
    BY <1>2, <2>3
  <2> QED
    BY <1>3, <2>1, <2>4
<1>10. ProposedFresh'
  BY <1>1, <1>3 DEF IInv, TypeOK, ProposedFresh, Decided
<1>11. PendingArrived'
  <2> SUFFICES ASSUME NEW t \in Server
               PROVE  /\ \A x \in queue'[t] : Arrived(t, x)'
                      /\ Working(t)' =>
                            /\ Arrived(t, proposal[t][svrSeq[t]])'
                            /\ proposal'[t][svrSeq'[t]] \notin queue'[t]
                            /\ proposal'[t][svrSeq'[t]] \notin Decided(t)'
    BY DEF PendingArrived
  <2>1. \A x \in queue'[t] : Arrived(t, x)'
    BY <1>3 DEF IInv, TypeOK, PendingArrived, Arrived
  <2>2. CASE t = s
    BY <1>1, <1>3, <1>4, <1>5, <2>1, <2>2 DEF Arrived
  <2>3. CASE t # s
    <3>1. svrSeq'[t] = svrSeq[t] /\ queue'[t] = queue[t] /\ proposal'[t] = proposal[t]
      BY <1>3, <2>3 DEF IInv, TypeOK
    <3> QED
      BY <1>4, <2>1, <2>3, <3>1 DEF IInv, PendingArrived, Arrived
  <2> QED
    BY <2>2, <2>3
<1>12. NothingLost'
  <2> SUFFICES ASSUME NEW t \in Server, NEW x \in Object, Arrived(t, x)
               PROVE  \/ x \in queue'[t]
                      \/ Working(t)' /\ proposal'[t][svrSeq'[t]] = x
                      \/ x \in Decided(t)'
    BY <1>4 DEF NothingLost
  <2>1. CASE t = s
    BY <1>3, <1>4, <1>5, <2>1 DEF IInv, NothingLost
  <2>2. CASE t # s
    <3>1. svrSeq'[t] = svrSeq[t] /\ queue'[t] = queue[t] /\ proposal'[t] = proposal[t]
      BY <1>3, <2>2 DEF IInv, TypeOK
    <3> QED
      BY <1>4, <2>2, <3>1 DEF IInv, NothingLost
  <2> QED
    BY <2>1, <2>2
<1>13. DiscardExact'
  BY <1>1, <1>3, <1>4 DEF IInv, TypeOK, DiscardExact, Decided
<1> QED
  BY <1>6, <1>7, <1>8, <1>9, <1>10, <1>11, <1>12, <1>13 DEF IInv

(* The slot of s is decided.  An object that another server proposed is new   *)
(* to s (DecidedOnce), so that Discard must hold it until it is popped.       *)
LEMMA DecideStep ==
    ASSUME IInv, NEW s \in Server, Decide(s)
    PROVE  IInv'
<1> DEFINE k == svrSeq[s]
           own == proposal[s][k]
<1>1. /\ k \in Slot /\ k \in Int /\ decision[s][k] = None
      /\ own \in Object /\ own \notin queue[s] /\ own \notin Decided(s) /\ Arrived(s, own)
  <2>1. k \in -1 .. MaxSlot /\ k >= 0 /\ decision[s][k] = None
    BY DEF Decide, Working, IInv, TypeOK
  <2>2. k \in Slot /\ k \in Int
    BY <2>1, SlotAssumption DEF Slot
  <2>3. own # None
    BY <2>2 DEF IInv, InOrder
  <2>4. Arrived(s, own) /\ own \notin queue[s] /\ own \notin Decided(s)
    BY DEF Decide, IInv, PendingArrived
  <2> QED
    BY <2>1, <2>2, <2>3, <2>4 DEF IInv, TypeOK
<1>2. PICK d \in Outcomes(k) :
        /\ decision' = [decision EXCEPT ![s][k] = d]
        /\ queue' = IF d = own THEN queue ELSE [queue EXCEPT ![s] = @ \cup {own}]
        /\ discard' =
             IF d \in {own, Null} THEN discard ELSE [discard EXCEPT ![s] = @ \cup {d}]
  BY DEF Decide
<1>3. /\ d \in Object \cup {Null} /\ d # None
      /\ \A t \in Server : decision[t][k] \in {None, d}
      /\ d \in Object => \E t \in Server : proposal[t][k] = d
  BY <1>1, OutcomeIs, ConstantsApart
<1>4. UNCHANGED <<arrived, svrSeq, proposal>>
  BY DEF Decide
<1>5. /\ decision' \in [Server -> [Slot -> Object \cup {Null, None}]]
      /\ \A t \in Server : \A l \in Slot :
            decision'[t][l] = IF t = s /\ l = k THEN d ELSE decision[t][l]
  BY <1>1, <1>2, <1>3 DEF IInv, TypeOK
<1>6. \A t \in Server :
        /\ queue'[t] = IF t = s /\ d # own THEN queue[s] \cup {own} ELSE queue[t]
        /\ discard'[t] = IF t = s /\ d \notin {own, Null} THEN discard[s] \cup {d} ELSE discard[t]
  BY <1>2 DEF IInv, TypeOK
<1>7. TypeOK'
  <2>1. queue' \in [Server -> SUBSET Object]
    BY <1>1, <1>2 DEF IInv, TypeOK
  <2>2. discard' \in [Server -> SUBSET Object]
    BY <1>2, <1>3 DEF IInv, TypeOK
  <2> QED
    BY <1>4, <1>5, <2>1, <2>2 DEF IInv, TypeOK
<1>8. InOrder'
  BY <1>1, <1>3, <1>4, <1>5 DEF IInv, InOrder
<1>9. SameDecision'
  BY <1>3, <1>5 DEF IInv, SameDecision
<1>10. DecidedProposed'
  BY <1>3, <1>4, <1>5 DEF IInv, DecidedProposed
<1>11. ProposedFresh'
  <2> SUFFICES ASSUME NEW t \in Server, NEW m \in Slot, NEW l \in Slot,
                      l < m, proposal[t][m] \in Object
               PROVE  decision'[t][l] # proposal[t][m]
    BY <1>4 DEF ProposedFresh
  <2>1. decision[t][l] # proposal[t][m]
    BY DEF IInv, ProposedFresh
  <2>2. ~(t = s /\ l = k)
    BY <1>1, ConstantsApart DEF IInv, InOrder
  <2> QED
    BY <1>5, <2>1, <2>2
<1>12. Decided(s)' = Decided(s) \cup ({d} \cap Object)
  BY <1>1, <1>3, <1>5, ConstantsApart DEF Decided
<1>13. \A t \in Server :
        /\ t # s => (Working(t)' <=> Working(t)) /\ Decided(t)' = Decided(t)
        /\ \A x \in Object : Arrived(t, x)' <=> Arrived(t, x)
  <2> SUFFICES ASSUME NEW t \in Server
               PROVE  /\ t # s => (Working(t)' <=> Working(t)) /\ Decided(t)' = Decided(t)
                      /\ \A x \in Object : Arrived(t, x)' <=> Arrived(t, x)
    OBVIOUS
  <2>1. t # s => decision'[t] = decision[t]
    BY <1>2 DEF IInv, TypeOK
  <2> QED
    BY <1>4, <2>1 DEF Working, Decided, Arrived
<1>14. ~Working(s)'
  BY <1>1, <1>3, <1>4, <1>5 DEF Working
<1>15. d \in Object => d \notin Decided(s)
  <2> SUFFICES ASSUME d \in Object, NEW l \in Slot, decision[s][l] = d
               PROVE  FALSE
    BY DEF Decided
  <2>1. l < k
    BY <1>1, <1>3, ConstantsApart DEF IInv, InOrder
  <2>2. PICK q \in Server : proposal[q][k] = d
    BY <1>3
  <2>3. decision[q][l] # None
    BY <1>1, <2>1, <2>2, ConstantsApart DEF IInv, InOrder, TypeOK
  <2>4. decision[q][l] = d
    BY <1>3, <2>3 DEF IInv, SameDecision
  <2> QED
    BY <1>1, <2>1, <2>2, <2>4 DEF IInv, ProposedFresh
<1>16. PendingArrived'
  <2> SUFFICES ASSUME NEW t \in Server
               PROVE  /\ \A x \in queue'[t] : Arrived(t, x)'
                      /\ Working(t)' =>
                            /\ Arrived(t, proposal[t][svrSeq[t]])'
                            /\ proposal[t][svrSeq[t]] \notin queue'[t]
                            /\ proposal[t][svrSeq[t]] \notin Decided(t)'
    BY <1>4 DEF PendingArrived
  <2>1. \A x \in queue'[t] : Arrived(t, x)'
    BY <1>1, <1>4, <1>6 DEF IInv, PendingArrived, Arrived
  <2> QED
    BY <1>4, <1>6, <1>13, <1>14, <2>1 DEF IInv, PendingArrived, Arrived
<1>17. NothingLost'
  <2> SUFFICES ASSUME NEW t \in Server, NEW x \in Object, Arrived(t, x)
               PROVE  \/ x \in queue'[t]
                      \/ Working(t)' /\ proposal[t][svrSeq[t]] = x
                      \/ x \in Decided(t)'
    BY <1>4, <1>13 DEF NothingLost
  <2>1. \/ x \in queue[t]
        \/ Working(t) /\ proposal[t][svrSeq[t]] = x
        \/ x \in Decided(t)
    BY DEF IInv, NothingLost
  <2>2. CASE t = s
    BY <1>6, <1>12, <2>1, <2>2
  <2>3. CASE t # s
    BY <1>6, <1>13, <2>1, <2>3
  <2> QED
    BY <2>2, <2>3
<1>18. DiscardExact'
  <2>1. \A t \in Server \ {s} :
          discard'[t] = {o \in Decided(t)' : o \in queue'[t] \/ ~Arrived(t, o)'}
    BY <1>6, <1>13 DEF IInv, DiscardExact, Decided
  <2>2. d \in Object /\ d # own => d \in queue[s] \/ ~Arrived(s, d)
    BY <1>15 DEF IInv, NothingLost
  <2>3. discard'[s] = {o \in Decided(s)' : o \in queue'[s] \/ ~Arrived(s, o)'}
    <3>1. discard[s] = {o \in Decided(s) : o \in queue[s] \/ ~Arrived(s, o)}
      BY DEF IInv, DiscardExact
    <3>2. Decided(s) \subseteq Object
      BY DEF Decided
    <3>3. CASE d = own
      BY <1>1, <1>3, <1>6, <1>12, <1>13, <3>1, <3>2, <3>3, ConstantsApart
    <3>4. CASE d = Null
      BY <1>1, <1>3, <1>6, <1>12, <1>13, <3>1, <3>2, <3>4, ConstantsApart
    <3>5. CASE d \notin {own, Null}
      <4>1. d \in Object /\ Decided(s)' = Decided(s) \cup {d}
        BY <1>3, <1>12, <3>5
      <4>2. discard'[s] = discard[s] \cup {d} /\ queue'[s] = queue[s] \cup {own}
        BY <1>6, <3>5
      <4>3. own \notin Decided(s) /\ own # d /\ (d \in queue[s] \/ ~Arrived(s, d))
        BY <1>1, <2>2, <3>5, <4>1
      <4>4. \A x \in Object : x \in discard'[s] <=>
              x \in Decided(s)' /\ (x \in queue'[s] \/ ~Arrived(s, x)')
        BY <1>1, <1>13, <3>1, <4>1, <4>2, <4>3
      <4> QED
        BY <3>1, <3>2, <4>1, <4>2, <4>4
    <3> QED
      BY <3>3, <3>4, <3>5
  <2> QED
    BY <2>1, <2>3 DEF DiscardExact
<1> QED
  BY <1>7, <1>8, <1>9, <1>10, <1>11, <1>16, <1>17, <1>18 DEF IInv

-----------------------------------------------------------------------------
(* The log keeps its invariant: what is decided, proposed, pending and        *)
(* discarded at the servers fits together in every state.                    *)
THEOREM Invariance == Spec => []IInv
<1>1. ASSUME IInv, [Next]_vars PROVE IInv'
  <2>1. CASE UNCHANGED vars
    BY <1>1, <2>1 DEF vars, IInv, TypeOK, InOrder, SameDecision, DecidedProposed, ProposedFresh,
       PendingArrived, NothingLost, DiscardExact, Working, Decided, Arrived
  <2>2. CASE Next
    <3>1. ASSUME NEW s \in Server, NEW p \in ProxyId, ClientRequest(s, p) PROVE IInv'
      BY <1>1, <3>1, ClientRequestStep
    <3>2. ASSUME NEW s \in Server, GetRequest(s) PROVE IInv'
      BY <1>1, <3>2, DiscardStep, ProposeStep DEF GetRequest
    <3>3. ASSUME NEW s \in Server, Decide(s) PROVE IInv'
      BY <1>1, <3>3, DecideStep
    <3> QED
      BY <2>2, <3>1, <3>2, <3>3 DEF Next
  <2> QED
    BY <1>1, <2>1, <2>2
<1> QED
  BY <1>1, InitHolds, PTL DEF Spec

(* Every object that was decided before it came off the queue of a server, and *)
(* no other, is discarded there (getRequest, epilogue, putBackMyProposal).    *)
THEOREM DiscardExactHolds == Spec => []DiscardExact
<1>1. IInv => DiscardExact
  BY DEF IInv
<1> QED
  BY <1>1, Invariance, PTL

(* A request that came to a server is pending, being proposed, or decided.    *)
THEOREM NothingLostHolds == Spec => []NothingLost
<1>1. IInv => NothingLost
  BY DEF IInv
<1> QED
  BY <1>1, Invariance, PTL

(* No object is decided in two slots, by any two servers.                     *)
THEOREM NoObjectTwiceHolds == Spec => []NoObjectTwice
<1>1. IInv => NoObjectTwice
  BY DecidedOnce DEF IInv
<1> QED
  BY <1>1, Invariance, PTL

(* A server that proposes for a slot takes the smallest object that it has     *)
(* received and not decided: what others proposed for that slot before is     *)
(* among these or has still to come.                                         *)
THEOREM ContendsOnlyUnreceivedHolds == Spec => ContendsOnlyUnreceived
<1> DEFINE Converges(s, t, k) ==
             LET mine == proposal[s][k]
                 theirs == proposal[t][k]
             IN  mine = None /\ mine' # None /\ theirs # None =>
                     ~(LessThan(theirs, mine') /\ Arrived(s, theirs))
<1>1. ASSUME IInv, [Next]_vars PROVE \A s, t \in Server : \A k \in Slot : Converges(s, t, k)
  <2> SUFFICES ASSUME NEW s \in Server, NEW t \in Server, NEW k \in Slot,
                      proposal[s][k] = None, proposal'[s][k] # None, proposal[t][k] # None,
                      LessThan(proposal[t][k], proposal'[s][k]), Arrived(s, proposal[t][k])
               PROVE  FALSE
    OBVIOUS
  <2> DEFINE theirs == proposal[t][k]
  <2>1. theirs \in Object
    BY <1>1 DEF IInv, TypeOK
  <2>2. PICK o \in Heads(s) :
          /\ ~Working(s) /\ svrSeq[s] \in Int /\ k = svrSeq[s] + 1 /\ proposal'[s][k] = o
    <3>1. PICK q \in Server : \E o \in Heads(q) :
            ~Working(q) /\ proposal' = [proposal EXCEPT ![q][svrSeq[q] + 1] = o]
      BY <1>1 DEF Next, vars, ClientRequest, GetRequest, Decide
    <3>2. PICK o \in Heads(q) :
            ~Working(q) /\ proposal' = [proposal EXCEPT ![q][svrSeq[q] + 1] = o]
      BY <3>1
    <3>3. q = s /\ k = svrSeq[s] + 1 /\ proposal'[s][k] = o
      BY <1>1, <3>2 DEF IInv, TypeOK
    <3> QED
      BY <1>1, <3>2, <3>3 DEF IInv, TypeOK
  <2>3. theirs \notin queue[s]
    <3>1. o \in Object /\ o.proSeq \in Nat /\ theirs.proSeq \in Nat /\ o.proId \in Nat /\ theirs.proId \in Nat
      BY <1>1, <2>1, <2>2, ObjectIs, ProxyAssumption DEF IInv, TypeOK, Heads, ProxyId
    <3> QED
      BY <2>2, <3>1 DEF Heads, LessThan
  <2>4. PICK l \in Slot : decision[s][l] = theirs
    BY <1>1, <2>1, <2>2, <2>3 DEF IInv, NothingLost, Decided
  <2>5. l < k
    BY <1>1, <2>1, <2>2, <2>4, ConstantsApart DEF IInv, InOrder
  <2>6. decision[t][l] # None
    <3>1. k <= svrSeq[t] /\ svrSeq[t] \in Int /\ k \in Int /\ l \in Int
      BY <1>1, ConstantsApart DEF IInv, InOrder, TypeOK
    <3> QED
      BY <1>1, <2>5, <3>1 DEF IInv, InOrder
  <2>7. decision[t][l] = theirs
    BY <1>1, <2>1, <2>4, <2>6, ConstantsApart DEF IInv, SameDecision
  <2> QED
    BY <1>1, <2>1, <2>5, <2>7 DEF IInv, ProposedFresh
<1> QED
  BY <1>1, Invariance, PTL DEF Spec, ContendsOnlyUnreceived

-----------------------------------------------------------------------------
(* The log implements the total order broadcast.                             *)

(* How many objects are decided up to a slot numbers the slots of objects.    *)
Numbered(d) ==
    \A i \in 1 .. Cardinality(ObjectsUpTo(d, MaxSlot)) :
        \E k \in ObjectsUpTo(d, MaxSlot) : Cardinality(ObjectsUpTo(d, k)) = i

LEMMA CountFacts ==
    ASSUME NEW d, NEW k \in Slot
    PROVE  /\ IsFiniteSet(ObjectsUpTo(d, k)) /\ Cardinality(ObjectsUpTo(d, k)) \in Nat
           /\ ObjectsUpTo(d, k) \subseteq ObjectsUpTo(d, MaxSlot)
           /\ Cardinality(ObjectsUpTo(d, k)) <= Cardinality(ObjectsUpTo(d, MaxSlot))
           /\ Cardinality(ObjectsUpTo(d, MaxSlot)) \in Nat
           /\ IsFiniteSet(ObjectsUpTo(d, MaxSlot)) /\ MaxSlot \in Slot
<1>1. MaxSlot \in Slot /\ k \in Nat /\ k <= MaxSlot /\ Slot \subseteq Nat
  BY SlotAssumption DEF Slot
<1>2. IsFiniteSet(Slot)
  BY SlotAssumption, FS_Interval DEF Slot
<1>3. ObjectsUpTo(d, MaxSlot) \subseteq Slot
  BY DEF ObjectsUpTo
<1>4. IsFiniteSet(ObjectsUpTo(d, MaxSlot)) /\ Cardinality(ObjectsUpTo(d, MaxSlot)) \in Nat
  BY <1>2, <1>3, FS_Subset, FS_CardinalityType
<1>5. ObjectsUpTo(d, k) \subseteq ObjectsUpTo(d, MaxSlot)
  BY <1>1, SlotAssumption DEF ObjectsUpTo, Slot
<1> QED
  BY <1>1, <1>4, <1>5, FS_Subset, FS_CardinalityType

LEMMA CountGrows ==
    ASSUME NEW d, NEW k \in Slot, NEW l \in Slot, k < l, d[l] \in Object
    PROVE  Cardinality(ObjectsUpTo(d, k)) < Cardinality(ObjectsUpTo(d, l))
<1>1. k \in Nat /\ l \in Nat
  BY ConstantsApart
<1>2. ObjectsUpTo(d, k) \subseteq ObjectsUpTo(d, l)
  <2>1. ASSUME NEW m \in ObjectsUpTo(d, k) PROVE m \in ObjectsUpTo(d, l)
    BY <1>1, ConstantsApart DEF ObjectsUpTo
  <2> QED
    BY <2>1
<1>3. l \in ObjectsUpTo(d, l) /\ l \notin ObjectsUpTo(d, k)
  BY <1>1 DEF ObjectsUpTo
<1>4. /\ IsFiniteSet(ObjectsUpTo(d, l)) /\ Cardinality(ObjectsUpTo(d, l)) \in Nat
      /\ Cardinality(ObjectsUpTo(d, k)) \in Nat
  BY CountFacts
<1> QED
  BY <1>2, <1>3, <1>4, FS_Subset

(* The slot of an object is the one that its number stands for.              *)
LEMMA SlotOfIs ==
    ASSUME NEW d, NEW k \in ObjectsUpTo(d, MaxSlot), NEW i, i = Cardinality(ObjectsUpTo(d, k))
    PROVE  /\ i \in 1 .. Cardinality(ObjectsUpTo(d, MaxSlot))
           /\ SlotOf(d, i) = k /\ Delivered(d)[i] = d[k]
<1>1. k \in Slot /\ d[k] \in Object /\ k \in Nat
  BY ConstantsApart DEF ObjectsUpTo
<1>2. i \in 1 .. Cardinality(ObjectsUpTo(d, MaxSlot))
  <2>1. k \in ObjectsUpTo(d, k)
    BY <1>1 DEF ObjectsUpTo
  <2>2. Cardinality(ObjectsUpTo(d, k)) # 0
    BY <1>1, <2>1, CountFacts, FS_EmptySet
  <2> QED
    BY <1>1, <2>2, CountFacts
<1>3. ASSUME NEW l \in ObjectsUpTo(d, MaxSlot), Cardinality(ObjectsUpTo(d, l)) = i
      PROVE  l = k
  <2>1. l \in Slot /\ d[l] \in Object /\ l \in Nat
    BY ConstantsApart DEF ObjectsUpTo
  <2>2. Cardinality(ObjectsUpTo(d, k)) \in Nat
    BY <1>1, CountFacts
  <2>3. ~(l < k) /\ ~(k < l)
    BY <1>1, <1>3, <2>1, <2>2, CountGrows
  <2> QED
    BY <1>1, <2>1, <2>3
<1>4. SlotOf(d, i) = k
  BY <1>3 DEF SlotOf
<1> QED
  BY <1>2, <1>4 DEF Delivered

LEMMA DeliveredType ==
    ASSUME NEW d, Numbered(d)
    PROVE  /\ Delivered(d) \in Seq(Object)
           /\ Len(Delivered(d)) = Cardinality(ObjectsUpTo(d, MaxSlot))
           /\ \A i \in 1 .. Len(Delivered(d)) :
                 \E k \in ObjectsUpTo(d, MaxSlot) :
                     /\ Cardinality(ObjectsUpTo(d, k)) = i
                     /\ SlotOf(d, i) = k /\ Delivered(d)[i] = d[k]
<1> DEFINE n == Cardinality(ObjectsUpTo(d, MaxSlot))
<1>1. n \in Nat
  BY SlotAssumption, CountFacts DEF Slot
<1>2. ASSUME NEW i \in 1 .. n
      PROVE  \E k \in ObjectsUpTo(d, MaxSlot) :
                 /\ Cardinality(ObjectsUpTo(d, k)) = i
                 /\ SlotOf(d, i) = k /\ Delivered(d)[i] = d[k]
  BY SlotOfIs DEF Numbered
<1>3. ASSUME NEW i \in 1 .. n PROVE d[SlotOf(d, i)] \in Object
  BY <1>2 DEF ObjectsUpTo
<1>4. Delivered(d) = [i \in 1 .. n |-> d[SlotOf(d, i)]]
  BY DEF Delivered
<1>5. Delivered(d) \in [1 .. n -> Object]
  BY <1>3, <1>4
<1>6. Delivered(d) \in Seq(Object) /\ Len(Delivered(d)) = n
  BY <1>1, <1>5, SeqDef, LenProperties
<1> QED
  BY <1>2, <1>6

LEMMA SameDelivered ==
    ASSUME NEW d, NEW e, Numbered(d),
           \A l \in Slot : d[l] \in Object \/ e[l] \in Object => e[l] = d[l]
    PROVE  Delivered(e) = Delivered(d) /\ Numbered(e)
<1>1. \A k : ObjectsUpTo(e, k) = ObjectsUpTo(d, k)
  BY DEF ObjectsUpTo
<1>2. \A i : SlotOf(e, i) = SlotOf(d, i)
  BY <1>1 DEF SlotOf
<1>3. \A i \in 1 .. Cardinality(ObjectsUpTo(d, MaxSlot)) : e[SlotOf(e, i)] = d[SlotOf(d, i)]
  <2> SUFFICES ASSUME NEW i \in 1 .. Cardinality(ObjectsUpTo(d, MaxSlot))
               PROVE  e[SlotOf(d, i)] = d[SlotOf(d, i)]
    BY <1>2
  <2>1. PICK k \in ObjectsUpTo(d, MaxSlot) : SlotOf(d, i) = k
    BY DeliveredType
  <2> QED
    BY <2>1 DEF ObjectsUpTo
<1>4. Delivered(e) = Delivered(d)
  BY <1>1, <1>3 DEF Delivered
<1> QED
  BY <1>1, <1>4 DEF Numbered

(* An object decided in a later slot than the others is delivered next.       *)
LEMMA AppendDelivered ==
    ASSUME NEW d, NEW e, NEW k \in Slot, NEW o \in Object, Numbered(d),
           \A l \in Slot : l >= k => d[l] \notin Object,
           \A l \in Slot : e[l] = IF l = k THEN o ELSE d[l]
    PROVE  Delivered(e) = Append(Delivered(d), o) /\ Numbered(e)
<1> DEFINE D == ObjectsUpTo(d, MaxSlot)
           n == Cardinality(D)
<1>0. /\ k \in Nat /\ k <= MaxSlot /\ n \in Nat /\ IsFiniteSet(D) /\ MaxSlot \in Slot
      /\ k \notin D /\ Slot \subseteq Nat /\ \A l \in Slot : l <= MaxSlot
  <2>1. Slot \subseteq Nat /\ k \in Nat /\ \A l \in Slot : l <= MaxSlot
    BY SlotAssumption DEF Slot
  <2>2. k \notin D
    BY <2>1 DEF ObjectsUpTo
  <2> QED
    BY <2>1, <2>2, CountFacts
<1>1. ASSUME NEW m \in Slot, m < k PROVE ObjectsUpTo(e, m) = ObjectsUpTo(d, m)
  <2>1. ASSUME NEW l \in Slot, l <= m PROVE e[l] = d[l]
    BY <1>0, <1>1, <2>1
  <2> QED
    BY <2>1 DEF ObjectsUpTo
<1>2. ObjectsUpTo(e, k) = D \cup {k} /\ ObjectsUpTo(e, MaxSlot) = D \cup {k}
  <2>1. ASSUME NEW l \in Slot PROVE l \in D \cup {k} <=> e[l] \in Object
    <3>1. l \in D <=> d[l] \in Object
      BY <1>0 DEF ObjectsUpTo
    <3> QED
      BY <1>0, <3>1
  <2>2. ASSUME NEW l \in Slot, e[l] \in Object PROVE l <= k /\ l <= MaxSlot
    <3>1. CASE l # k
      <4>1. d[l] \in Object
        BY <2>2, <3>1
      <4>2. ~(l >= k)
        BY <4>1
      <4> QED
        BY <1>0, <4>2
    <3> QED
      BY <1>0, <3>1
  <2>3. D \subseteq Slot
    BY DEF ObjectsUpTo
  <2> QED
    BY <2>1, <2>2, <2>3 DEF ObjectsUpTo
<1>3. Cardinality(D \cup {k}) = n + 1
  BY <1>0, FS_AddElement
<1>4. ASSUME NEW m \in D
      PROVE  /\ m \in Slot /\ m < k /\ m \in ObjectsUpTo(e, MaxSlot)
             /\ Cardinality(ObjectsUpTo(e, m)) = Cardinality(ObjectsUpTo(d, m))
             /\ e[m] = d[m]
  <2>1. m \in Slot /\ d[m] \in Object /\ m \in Nat
    BY <1>0 DEF ObjectsUpTo
  <2>2. m < k
    BY <1>0, <2>1
  <2> QED
    BY <1>0, <1>1, <1>2, <2>1, <2>2
<1>5. Numbered(e)
  <2> SUFFICES ASSUME NEW i \in 1 .. n + 1
               PROVE  \E m \in ObjectsUpTo(e, MaxSlot) : Cardinality(ObjectsUpTo(e, m)) = i
    BY <1>2, <1>3 DEF Numbered
  <2>1. CASE i = n + 1
    BY <1>2, <1>3, <2>1
  <2>2. CASE i \in 1 .. n
    <3>1. PICK m \in D : Cardinality(ObjectsUpTo(d, m)) = i
      BY <2>2 DEF Numbered
    <3> QED
      BY <1>4, <3>1
  <2> QED
    BY <1>0, <2>1, <2>2
<1>6. ASSUME NEW i \in 1 .. n PROVE Delivered(e)[i] = Delivered(d)[i]
  <2>1. PICK m \in D : Cardinality(ObjectsUpTo(d, m)) = i
    BY DEF Numbered
  <2>2. Delivered(d)[i] = d[m]
    BY <2>1, SlotOfIs
  <2>3. Delivered(e)[i] = e[m]
    BY <1>4, <2>1, SlotOfIs
  <2> QED
    BY <1>4, <2>2, <2>3
<1>7. Delivered(e)[n + 1] = o
  <2>1. k \in ObjectsUpTo(e, MaxSlot) /\ Cardinality(ObjectsUpTo(e, k)) = n + 1 /\ e[k] = o
    BY <1>2, <1>3
  <2> HIDE DEF n
  <2> QED
    BY <2>1, SlotOfIs
<1>8. /\ Delivered(d) \in Seq(Object) /\ Len(Delivered(d)) = n
      /\ Delivered(e) \in Seq(Object) /\ Len(Delivered(e)) = n + 1
  BY <1>2, <1>3, <1>5, DeliveredType
<1>9. Delivered(e) = Append(Delivered(d), o)
  <2>1. Append(Delivered(d), o) \in Seq(Object) /\ Len(Append(Delivered(d), o)) = n + 1
    BY <1>8, AppendProperties
  <2>2. \A i \in 1 .. n + 1 : Delivered(e)[i] = Append(Delivered(d), o)[i]
    BY <1>0, <1>6, <1>7, <1>8, AppendProperties
  <2> QED
    BY <1>8, <2>1, <2>2, SeqEqual
<1> QED
  BY <1>5, <1>9

(* If another server has delivered more, o is what it has delivered next.     *)
LEMMA NextDelivered ==
    ASSUME NEW d, NEW e, NEW k \in Slot, NEW o \in Object, Numbered(d), Numbered(e),
           \A l \in Slot : l >= k => d[l] \notin Object,
           \A l \in Slot : l < k => e[l] \in {None, d[l]},
           e[k] \in {None, o},
           e[k] = o => \A l \in Slot : l < k => e[l] = d[l],
           e[k] = None => \A l \in Slot : l > k => e[l] = None,
           Len(Delivered(e)) > Len(Delivered(d))
    PROVE  Delivered(e)[Len(Delivered(d)) + 1] = o
<1> DEFINE D == ObjectsUpTo(d, MaxSlot)
           n == Cardinality(D)
<1>0. /\ k \in Nat /\ k <= MaxSlot /\ n \in Nat /\ IsFiniteSet(D) /\ MaxSlot \in Slot
      /\ k \notin D /\ Slot \subseteq Nat /\ D \subseteq Slot
      /\ \A l \in D : l < k
  <2>1. Slot \subseteq Nat /\ k \in Nat /\ k <= MaxSlot
    BY SlotAssumption DEF Slot
  <2>2. D \subseteq Slot /\ \A l \in D : d[l] \in Object
    BY DEF ObjectsUpTo
  <2>3. ASSUME NEW l \in D PROVE l < k
    <3>1. l \in Slot /\ d[l] \in Object
      BY <2>2
    <3>2. ~(l >= k) /\ l \in Nat
      BY <2>1, <3>1
    <3> QED
      BY <2>1, <3>2
  <2>4. k \notin D
    BY <2>1, <2>3
  <2> HIDE DEF D
  <2> QED
    BY <2>1, <2>2, <2>3, <2>4, CountFacts DEF D
<1>1. Len(Delivered(d)) = n /\ Len(Delivered(e)) = Cardinality(ObjectsUpTo(e, MaxSlot))
  BY DeliveredType
<1>2. e[k] = o
  <2> SUFFICES ASSUME e[k] = None PROVE FALSE
    OBVIOUS
  <2>1. ASSUME NEW l \in ObjectsUpTo(e, MaxSlot) PROVE l \in D
    <3>1. l \in Slot /\ l <= MaxSlot /\ l \in Nat /\ e[l] \in Object /\ e[l] # None
      BY <1>0, ConstantsApart DEF ObjectsUpTo
    <3>2. l < k
      BY <1>0, <3>1
    <3> QED
      BY <3>1, <3>2 DEF ObjectsUpTo
  <2>2. Cardinality(ObjectsUpTo(e, MaxSlot)) <= n
    BY <1>0, <2>1, FS_Subset
  <2> QED
    BY <1>0, <1>1, <2>2, CountFacts
<1>3. ObjectsUpTo(e, k) = D \cup {k}
  <2>1. ASSUME NEW l \in Slot PROVE l \in D \cup {k} <=> l <= k /\ e[l] \in Object
    BY <1>0, <1>2 DEF ObjectsUpTo
  <2> QED
    BY <1>0, <2>1 DEF ObjectsUpTo
<1>4. Cardinality(ObjectsUpTo(e, k)) = n + 1 /\ k \in ObjectsUpTo(e, MaxSlot)
  BY <1>0, <1>2, <1>3, FS_AddElement DEF ObjectsUpTo
<1> QED
  BY <1>1, <1>2, <1>4, SlotOfIs

(* A server proposes the first object of its proxy that it has not decided.   *)
ProposedInTurn ==
    \A s \in Server : \A k \in Slot :
        proposal[s][k] \in Object =>
            /\ Arrived(s, proposal[s][k])
            /\ \A b \in Object :
                  b.proId = proposal[s][k].proId /\ b.proSeq < proposal[s][k].proSeq =>
                      \E l \in Slot : l < k /\ decision[s][l] = b

AllNumbered == \A s \in Server : Numbered(decision[s])

OrderInv == IInv /\ ProposedInTurn /\ AllNumbered

(* What was proposed in turn stays so: requests and decisions stay.           *)
LEMMA InTurnStays ==
    ASSUME IInv, ProposedInTurn, NEW s \in Server, NEW k \in Slot,
           proposal'[s][k] = proposal[s][k], proposal[s][k] \in Object,
           \A o \in Object : Arrived(s, o) => Arrived(s, o)',
           \A l \in Slot : decision[s][l] \in Object => decision'[s][l] = decision[s][l]
    PROVE  /\ Arrived(s, proposal[s][k])'
           /\ \A b \in Object :
                 b.proId = proposal'[s][k].proId /\ b.proSeq < proposal'[s][k].proSeq =>
                     \E l \in Slot : l < k /\ decision'[s][l] = b
<1>1. Arrived(s, proposal[s][k])'
  BY DEF ProposedInTurn, Arrived
<1>2. ASSUME NEW b \in Object,
             b.proId = proposal[s][k].proId, b.proSeq < proposal[s][k].proSeq
      PROVE  \E l \in Slot : l < k /\ decision'[s][l] = b
  <2>1. PICK l \in Slot : l < k /\ decision[s][l] = b
    BY <1>2 DEF ProposedInTurn
  <2> QED
    BY <2>1
<1> QED
  BY <1>1, <1>2

(* A request comes: it has been requested now, and nothing is delivered.      *)
LEMMA ClientRequestSimulated ==
    ASSUME OrderInv, NEW s \in Server, NEW p \in ProxyId, ClientRequest(s, p)
    PROVE  ProposedInTurn' /\ AllNumbered' /\ Broadcast!Next
<1> DEFINE x == [proId |-> p, proSeq |-> arrived[s][p]]
<1>1. arrived[s][p] \in Nat /\ x \in Object /\ x.proId = p /\ x.proSeq = arrived[s][p]
  BY ObjectIs DEF OrderInv, IInv, TypeOK, ClientRequest
<1>2. UNCHANGED <<proposal, decision>>
  BY DEF ClientRequest
<1>3. \A t \in Server : \A o \in Object : Arrived(t, o)' <=> Arrived(t, o) \/ (t = s /\ o = x)
  BY <1>1, ObjectIs DEF OrderInv, IInv, TypeOK, ClientRequest, Arrived
<1>4. AllNumbered'
  BY <1>2 DEF OrderInv, AllNumbered
<1>5. ProposedInTurn'
  <2> SUFFICES ASSUME NEW t \in Server, NEW k \in Slot, proposal[t][k] \in Object
               PROVE  /\ Arrived(t, proposal[t][k])'
                      /\ \A b \in Object :
                            b.proId = proposal[t][k].proId /\ b.proSeq < proposal[t][k].proSeq =>
                                \E l \in Slot : l < k /\ decision[t][l] = b
    BY <1>2 DEF ProposedInTurn
  <2> QED
    BY <1>2, <1>3 DEF OrderInv, ProposedInTurn
<1>6. Broadcast!Request(x)
  <2>1. {o \in Object : \E t \in Server : Arrived(t, o)'} =
          {o \in Object : \E t \in Server : Arrived(t, o)} \cup {x}
    BY <1>1, <1>3
  <2> QED
    BY <1>2, <2>1 DEF Broadcast!Request
<1> QED
  BY <1>1, <1>4, <1>5, <1>6 DEF Broadcast!Next

(* The queue is none of the broadcast's matter.  A server that proposes the   *)
(* first object of its queue has decided those of the same proxy before it.   *)
LEMMA GetRequestSimulated ==
    ASSUME OrderInv, NEW s \in Server, GetRequest(s)
    PROVE  ProposedInTurn' /\ AllNumbered' /\ UNCHANGED Broadcast!vars
<1>1. UNCHANGED <<arrived, decision>>
  BY DEF GetRequest
<1>2. AllNumbered' /\ UNCHANGED Broadcast!vars
  BY <1>1 DEF OrderInv, AllNumbered, Broadcast!vars, Arrived
<1>3. PICK o \in Heads(s) :
         /\ ~Working(s)
         /\ \/ UNCHANGED proposal
            \/ /\ svrSeq[s] < MaxSlot
               /\ proposal' = [proposal EXCEPT ![s][svrSeq[s] + 1] = o]
  BY DEF GetRequest
<1>4. /\ o \in queue[s] /\ o \in Object /\ Arrived(s, o)
      /\ \A x \in queue[s] \ {o} : LessThan(o, x)
  BY DEF Heads, OrderInv, IInv, TypeOK, PendingArrived
<1>5. ASSUME NEW b \in Object, b.proId = o.proId, b.proSeq < o.proSeq
      PROVE  \E l \in Slot : l <= svrSeq[s] /\ decision[s][l] = b
  <2>1. b.proSeq \in Nat /\ o.proSeq \in Nat /\ o.proId \in ProxyId
    BY <1>4, ObjectIs
  <2>2. Arrived(s, b)
    <3>1. arrived[s][o.proId] \in Nat
      BY <2>1 DEF OrderInv, IInv, TypeOK
    <3> QED
      BY <1>4, <1>5, <2>1, <3>1 DEF Arrived
  <2>3. b \notin queue[s]
    <3> SUFFICES ASSUME b \in queue[s] PROVE FALSE
      OBVIOUS
    <3>1. b # o /\ LessThan(o, b)
      BY <1>4, <1>5, <2>1
    <3> QED
      BY <1>5, <2>1, <3>1 DEF LessThan
  <2>4. PICK l \in Slot : decision[s][l] = b
    BY <1>3, <2>2, <2>3 DEF OrderInv, IInv, NothingLost, Decided
  <2>5. ~(l > svrSeq[s])
    BY <2>4, ConstantsApart DEF OrderInv, IInv, InOrder
  <2>6. l \in Int /\ svrSeq[s] \in Int
    BY ConstantsApart DEF OrderInv, IInv, TypeOK
  <2> QED
    BY <2>4, <2>5, <2>6
<1>6. ProposedInTurn'
  <2> SUFFICES ASSUME NEW t \in Server, NEW k \in Slot, proposal'[t][k] \in Object
               PROVE  /\ Arrived(t, proposal'[t][k])
                      /\ \A b \in Object :
                            b.proId = proposal'[t][k].proId /\ b.proSeq < proposal'[t][k].proSeq =>
                                \E l \in Slot : l < k /\ decision[t][l] = b
    BY <1>1 DEF ProposedInTurn, Arrived
  <2>1. CASE proposal'[t][k] = proposal[t][k]
    BY <2>1 DEF OrderInv, ProposedInTurn
  <2>2. CASE t = s /\ k = svrSeq[s] + 1 /\ proposal'[t][k] = o
    <3>1. svrSeq[s] \in Int
      BY DEF OrderInv, IInv, TypeOK
    <3>2. \A l \in Slot : l <= svrSeq[s] => l < k
      BY <2>2, <3>1, ConstantsApart
    <3> QED
      BY <1>4, <1>5, <2>2, <3>2
  <2>3. proposal \in [Server -> [Slot -> Object \cup {None}]]
    BY DEF OrderInv, IInv, TypeOK
  <2> QED
    BY <1>3, <2>1, <2>2, <2>3
<1> QED
  BY <1>2, <1>6

(* A slot decided to an object is a delivery, one decided to Null is none.    *)
LEMMA DecideSimulated ==
    ASSUME OrderInv, NEW s \in Server, Decide(s)
    PROVE  ProposedInTurn' /\ AllNumbered' /\ [Broadcast!Next]_(Broadcast!vars)
<1> DEFINE k == svrSeq[s]
<1>1. k \in Slot /\ k \in Int /\ decision[s][k] = None
  <2>1. k \in -1 .. MaxSlot /\ k >= 0 /\ decision[s][k] = None
    BY DEF Decide, Working, OrderInv, IInv, TypeOK
  <2> QED
    BY <2>1, SlotAssumption DEF Slot
<1>2. PICK d \in Outcomes(k) : decision' = [decision EXCEPT ![s][k] = d]
  BY DEF Decide
<1>3. /\ d \in Object \cup {Null} /\ d # None
      /\ \A t \in Server : decision[t][k] \in {None, d}
      /\ d \in Object => \E t \in Server : proposal[t][k] = d
  BY <1>1, OutcomeIs, ConstantsApart
<1>4. /\ UNCHANGED <<arrived, proposal>>
      /\ \A t \in Server : \A l \in Slot :
            decision'[t][l] = IF t = s /\ l = k THEN d ELSE decision[t][l]
      /\ \A t \in Server \ {s} : decision'[t] = decision[t]
  BY <1>1, <1>2 DEF Decide, OrderInv, IInv, TypeOK
<1>5. \A l \in Slot : l >= k => decision[s][l] = None
  BY <1>1, ConstantsApart DEF OrderInv, IInv, InOrder
<1>6. ProposedInTurn'
  <2> SUFFICES ASSUME NEW t \in Server, NEW m \in Slot, proposal[t][m] \in Object
               PROVE  /\ Arrived(t, proposal[t][m])'
                      /\ \A b \in Object :
                            b.proId = proposal'[t][m].proId /\ b.proSeq < proposal'[t][m].proSeq =>
                                \E l \in Slot : l < m /\ decision'[t][l] = b
    BY <1>4 DEF ProposedInTurn, Arrived
  <2>1. \A l \in Slot : decision[t][l] \in Object => decision'[t][l] = decision[t][l]
    BY <1>1, <1>4, ConstantsApart
  <2> QED
    BY <1>4, <2>1, InTurnStays DEF OrderInv, Arrived
<1>7. \A t \in Server : Numbered(decision[t])
  BY DEF OrderInv, AllNumbered
<1>8. CASE d = Null
  <2>1. \A t \in Server :
          Delivered(decision'[t]) = Delivered(decision[t]) /\ Numbered(decision'[t])
    <3> SUFFICES ASSUME NEW t \in Server
                 PROVE  \A l \in Slot : decision[t][l] \in Object \/ decision'[t][l] \in Object =>
                            decision'[t][l] = decision[t][l]
      BY <1>7, SameDelivered
    <3> QED
      BY <1>1, <1>4, <1>8, ConstantsApart
  <2>2. UNCHANGED Broadcast!vars
    BY <1>4, <2>1 DEF Broadcast!vars, Arrived
  <2> QED
    BY <1>6, <2>1, <2>2 DEF AllNumbered
<1>9. CASE d \in Object
  <2>1. Delivered(decision'[s]) = Append(Delivered(decision[s]), d) /\ Numbered(decision'[s])
    <3>1. \A l \in Slot : decision'[s][l] = IF l = k THEN d ELSE decision[s][l]
      BY <1>4
    <3>2. \A l \in Slot : l >= k => decision[s][l] \notin Object
      BY <1>5, ConstantsApart
    <3> QED
      BY <1>1, <1>7, <1>9, <3>1, <3>2, AppendDelivered
  <2>2. AllNumbered'
    BY <1>4, <1>7, <2>1 DEF AllNumbered
  <2>3. PICK q \in Server : proposal[q][k] = d
    BY <1>3, <1>9
  <2>4. \A l \in Slot : l < k => decision[q][l] = decision[s][l] /\ decision[s][l] # None
    BY <1>1, <1>9, <2>3, ConstantsApart DEF OrderInv, IInv, InOrder, SameDecision, TypeOK
  <2>5. Arrived(q, d) /\ \A b \in Object : b.proId = d.proId /\ b.proSeq < d.proSeq =>
                             \E l \in Slot : l < k /\ decision[s][l] = b
    BY <1>1, <1>9, <2>3, <2>4 DEF OrderInv, ProposedInTurn
  <2>6. ASSUME NEW l \in Slot, decision[s][l] \in Object
        PROVE  \E i \in DOMAIN Delivered(decision[s]) : Delivered(decision[s])[i] = decision[s][l]
    <3>1. l \in ObjectsUpTo(decision[s], MaxSlot)
      BY <2>6, ConstantsApart, SlotAssumption DEF ObjectsUpTo, Slot
    <3>2. PICK i \in 1 .. Cardinality(ObjectsUpTo(decision[s], MaxSlot)) :
              Delivered(decision[s])[i] = decision[s][l]
      BY <3>1, SlotOfIs
    <3> QED
      BY <3>2 DEF Delivered
  <2>7. d \notin {Delivered(decision[s])[i] : i \in DOMAIN Delivered(decision[s])}
    <3> SUFFICES ASSUME NEW i \in DOMAIN Delivered(decision[s]), Delivered(decision[s])[i] = d
                 PROVE  FALSE
      OBVIOUS
    <3>1. i \in 1 .. Len(Delivered(decision[s]))
      BY <1>7, DeliveredType
    <3>2. PICK l \in ObjectsUpTo(decision[s], MaxSlot) : decision[s][l] = d
      BY <1>7, <3>1, DeliveredType
    <3>3. l \in Slot /\ l < k
      BY <1>1, <1>3, <1>5, <3>2, ConstantsApart DEF ObjectsUpTo
    <3> QED
      BY <1>1, <1>9, <2>3, <2>4, <3>2, <3>3 DEF OrderInv, IInv, ProposedFresh
  <2>8. ASSUME NEW t \in Server,
               Len(Delivered(decision[t])) > Len(Delivered(decision[s]))
        PROVE  Delivered(decision[t])[Len(Delivered(decision[s])) + 1] = d
    <3>1. \A l \in Slot : l >= k => decision[s][l] \notin Object
      BY <1>5, ConstantsApart
    <3>2. \A l \in Slot : l < k => decision[t][l] \in {None, decision[s][l]}
      BY <2>4 DEF OrderInv, IInv, SameDecision
    <3>3. decision[t][k] = d => \A l \in Slot : l < k => decision[t][l] = decision[s][l]
      BY <1>1, <1>3, <2>4, ConstantsApart DEF OrderInv, IInv, InOrder, SameDecision, TypeOK
    <3>4. decision[t][k] = None => \A l \in Slot : l > k => decision[t][l] = None
      BY <1>1, ConstantsApart DEF OrderInv, IInv, InOrder, TypeOK
    <3> QED
      <4> DEFINE mine == decision[s]
                 theirs == decision[t]
      <4>1. Numbered(mine) /\ Numbered(theirs) /\ theirs[k] \in {None, d}
        BY <1>3, <1>7
      <4>2. Len(Delivered(theirs)) > Len(Delivered(mine))
        BY <2>8
      <4>3. /\ \A l \in Slot : l >= k => mine[l] \notin Object
            /\ \A l \in Slot : l < k => theirs[l] \in {None, mine[l]}
            /\ theirs[k] = d => \A l \in Slot : l < k => theirs[l] = mine[l]
            /\ theirs[k] = None => \A l \in Slot : l > k => theirs[l] = None
        BY <3>1, <3>2, <3>3, <3>4
      <4> HIDE DEF mine, theirs, k
      <4>4. Delivered(theirs)[Len(Delivered(mine)) + 1] = d
        BY <1>1, <1>9, <4>1, <4>2, <4>3, NextDelivered
      <4> QED
        BY <4>4 DEF mine, theirs
  <2>9. Broadcast!Deliver(s, d)
    <3> DEFINE F == [t \in Server |-> Delivered(decision[t])]
               G == [t \in Server |-> Delivered(decision'[t])]
               R == {o \in Object : \E t \in Server : Arrived(t, o)}
    <3>1. d \in R \ Broadcast!Delivered(s)
      BY <1>9, <2>5, <2>7 DEF Broadcast!Delivered
    <3>2. \A b \in Object :
             b.proId = d.proId /\ b.proSeq < d.proSeq => b \in Broadcast!Delivered(s)
      BY <2>5, <2>6 DEF Broadcast!Delivered
    <3>3. G = [F EXCEPT ![s] = Append(F[s], d)]
      BY <1>4, <2>1
    <3>4. UNCHANGED R
      BY <1>4 DEF Arrived
    <3>5. \A t \in Server : Len(F[t]) > Len(F[s]) => F[t][Len(F[s]) + 1] = d
      BY <2>8
    <3> QED
      BY <3>1, <3>2, <3>3, <3>4, <3>5 DEF Broadcast!Deliver
  <2> QED
    BY <1>6, <1>9, <2>2, <2>9 DEF Broadcast!Next
<1> QED
  BY <1>3, <1>8, <1>9

LEMMA InitSimulated == Init => ProposedInTurn /\ AllNumbered /\ Broadcast!Init
<1> SUFFICES ASSUME Init PROVE ProposedInTurn /\ AllNumbered /\ Broadcast!Init
  OBVIOUS
<1>1. ProposedInTurn
  BY ConstantsApart DEF Init, ProposedInTurn
<1>2. \A s \in Server : ObjectsUpTo(decision[s], MaxSlot) = {}
  BY ConstantsApart DEF Init, ObjectsUpTo
<1>3. \A s \in Server : Delivered(decision[s]) = << >> /\ Numbered(decision[s])
  <2> SUFFICES ASSUME NEW s \in Server
               PROVE  Delivered(decision[s]) = << >> /\ Numbered(decision[s])
    OBVIOUS
  <2>1. Cardinality(ObjectsUpTo(decision[s], MaxSlot)) = 0
    BY <1>2, FS_EmptySet
  <2>2. Numbered(decision[s])
    BY <2>1 DEF Numbered
  <2>3. Delivered(decision[s]) \in Seq(Object) /\ Len(Delivered(decision[s])) = 0
    BY <2>1, <2>2, DeliveredType
  <2> QED
    BY <2>2, <2>3, EmptySeq
<1>4. {o \in Object : \E s \in Server : Arrived(s, o)} = {}
  BY ObjectIs DEF Init, Arrived
<1> QED
  BY <1>1, <1>3, <1>4 DEF AllNumbered, Broadcast!Init

(* All servers deliver the same objects in the same order, each at most once,  *)
(* after it was requested, and those of a proxy in their order.              *)
THEOREM RefinesTotalOrder == Spec => ImplementsTotalOrder
<1>1. ASSUME OrderInv, [Next]_vars
      PROVE  ProposedInTurn' /\ AllNumbered' /\ [Broadcast!Next]_(Broadcast!vars)
  <2>1. CASE UNCHANGED vars
    <3>1. UNCHANGED <<arrived, proposal, decision>>
      BY <2>1 DEF vars
    <3>2. ProposedInTurn' /\ AllNumbered'
      BY <1>1, <3>1 DEF OrderInv, ProposedInTurn, AllNumbered, Arrived
    <3>3. UNCHANGED Broadcast!vars
      BY <3>1 DEF Broadcast!vars, Arrived
    <3> QED
      BY <3>2, <3>3
  <2>2. CASE Next
    BY <1>1, <2>2, ClientRequestSimulated, GetRequestSimulated, DecideSimulated DEF Next
  <2> QED
    BY <1>1, <2>1, <2>2
<1>2. Init => ProposedInTurn /\ AllNumbered
  BY InitSimulated
<1>3. Spec => []OrderInv
  <2>1. IInv /\ ProposedInTurn /\ AllNumbered => OrderInv
    BY DEF OrderInv
  <2>2. IInv /\ (ProposedInTurn /\ AllNumbered) /\ [Next]_vars => (ProposedInTurn /\ AllNumbered)'
    BY <1>1 DEF OrderInv
  <2> QED
    BY <1>2, <2>1, <2>2, Invariance, PTL DEF Spec
<1>4. Init => Broadcast!Init
  BY InitSimulated
<1>5. OrderInv /\ [Next]_vars => [Broadcast!Next]_(Broadcast!vars)
  BY <1>1
<1> QED
  BY <1>3, <1>4, <1>5, PTL DEF Spec, ImplementsTotalOrder, Broadcast!Spec
=============================================================================
