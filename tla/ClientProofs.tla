---------------------------- MODULE ClientProofs ----------------------------
(***************************************************************************)
(* Proofs about Client, for every window, batch size, and number of        *)
(* arrivals: the window bounds the requests on their way, and the log has  *)
(* every request that was sent.                                            *)
(***************************************************************************)
EXTENDS Client, SequenceTheorems, TLAPS

(* The requests are numbered from 0, and the counters count them in units of  *)
(* ClientBatchSize, each at its moment.                                      *)
Numbered ==
    /\ Len(requests) = i + (IF spc = "count" THEN 1 ELSE 0)
    /\ \A n \in 1 .. Len(requests) : requests[n] = n - 1

Counted ==
    /\ SentSoFar = i * ClientBatchSize
    /\ ReceivedSoFar = processed * ClientBatchSize

(* Once past the check, the window has room for the next request.            *)
RoomInWindow ==
    /\ i - processed <= window + 1
    /\ spc \in {"grow", "count"} => i - processed <= window

(* The log has room for all requests and marks them, and so does the array    *)
(* that append is filling, whatever the receiver does to the log meanwhile.   *)
LogsSent(log) ==
    /\ Len(requests) <= Len(log)
    /\ \A n \in 1 .. Len(log) : log[n].Sent <=> n <= Len(requests)

Growing == copy # << >> =>
    /\ spc = "grow" /\ MoreEntries
    /\ LogsSent(copy) /\ Len(copy) = capacity + 1

(* The receiver works on a reply.                                            *)
OneAtATime == rpc # "wait" => processed < answered

IInv ==
    /\ TypeOK
    /\ Numbered /\ Counted /\ RoomInWindow /\ OneAtATime
    /\ LogsSent(CommandLog) /\ Growing

-----------------------------------------------------------------------------
LEMMA MultiplesInOrder ==
    ASSUME NEW a \in Nat, NEW b \in Nat, NEW c \in Nat, NEW n \in Nat \ {0}
    PROVE  /\ a * n \in Nat /\ (a + 1) * n = a * n + n
           /\ a * n - b * n <= c * n => a - b <= c
<1>1. a * n \in Nat /\ (a + 1) * n = a * n + n
  OBVIOUS
<1>2. ASSUME a - b > c PROVE a * n - b * n > c * n
  <2> DEFINE d == a - b - c - 1
  <2>1. d \in Nat /\ a = b + c + 1 + d
    BY <1>2
  <2> HIDE DEF d
  <2> DEFINE bn == b * n
             cn == c * n
             dn == d * n
  <2>2. /\ bn \in Nat /\ cn \in Nat /\ dn \in Nat
        /\ a * n = bn + cn + n + dn
    BY <2>1
  <2> HIDE DEF bn, cn, dn
  <2>3. a * n - bn > cn
    BY <2>2
  <2> QED
    BY <2>3 DEF bn, cn
<1> QED
  BY <1>1, <1>2

LEMMA LaterIsLess ==
    ASSUME NEW a \in Nat, NEW b \in Nat, NEW c \in Nat, c >= b, NEW n \in Nat
    PROVE  a - b <= n => a - c <= n
OBVIOUS

LEMMA Counters ==
    ASSUME TypeOK
    PROVE  /\ Len(requests) \in Nat /\ processed \in Nat /\ answered \in Nat
           /\ processed <= answered /\ answered <= Len(requests)
           /\ arrivals \in Nat /\ taken \in Nat /\ taken <= arrivals
           /\ Len(CommandLog) \in Nat /\ Len(copy) \in Nat
<1>1. /\ requests \in Seq(Nat) /\ CommandLog \in Seq(LogEntry) /\ copy \in Seq(LogEntry)
      /\ processed \in 0 .. answered /\ answered \in 0 .. Len(requests)
      /\ arrivals \in 0 .. MaxArrivals /\ taken \in 0 .. arrivals
  BY DEF TypeOK
<1>2. Len(requests) \in Nat /\ Len(CommandLog) \in Nat /\ Len(copy) \in Nat
  BY <1>1
<1>3. answered \in Nat /\ answered <= Len(requests)
  BY <1>1, <1>2
<1>4. processed \in Nat /\ processed <= answered
  BY <1>1, <1>3
<1>5. arrivals \in Nat
  BY <1>1, BoundAssumption
<1>6. taken \in Nat /\ taken <= arrivals
  BY <1>1, <1>5
<1> QED
  BY <1>2, <1>3, <1>4, <1>5, <1>6

LEMMA InitHolds == Init => IInv
<1> SUFFICES ASSUME Init PROVE IInv
  OBVIOUS
<1>1. << >> \in Seq(LogEntry) /\ << >> \in Seq(Nat) /\ Len(<< >>) = 0
  OBVIOUS
<1>2. TypeOK
  <2>1. arrivals \in 0 .. MaxArrivals /\ taken \in 0 .. arrivals
    BY BoundAssumption DEF Init
  <2>2. processed \in 0 .. answered /\ answered \in 0 .. Len(requests)
    BY DEF Init
  <2>3. /\ finished \in BOOLEAN /\ spc \in {"collect", "check", "grow", "count"}
        /\ rpc \in {"wait", "received", "timed", "count", "already received"}
        /\ report \in {"none", "written", "divide by zero"}
    BY DEF Init
  <2>4. /\ requests \in Seq(Nat) /\ i \in Nat /\ SentSoFar \in Nat /\ ReceivedSoFar \in Nat
        /\ CommandLog \in Seq(LogEntry) /\ copy \in Seq(LogEntry)
        /\ capacity \in Nat /\ Len(CommandLog) <= capacity
    BY <1>1 DEF Init
  <2> QED
    BY <2>1, <2>2, <2>3, <2>4 DEF TypeOK
<1>3. Numbered /\ OneAtATime /\ LogsSent(CommandLog)
  BY <1>1 DEF Init, Numbered, OneAtATime, LogsSent
<1>4. Counted /\ RoomInWindow
  BY BatchAssumption, WindowAssumption DEF Init, Counted, RoomInWindow
<1> QED
  BY <1>2, <1>3, <1>4 DEF Init, IInv, Growing

(* Steps that leave the log, the requests and the receiver alone: what is left *)
(* to show is that the counters stay in their ranges.                        *)
LEMMA SchedulerStep ==
    ASSUME IInv, Arrive \/ TestEnds \/ Collect \/ Reply \/ Report
    PROVE  IInv'
<1> USE DEF IInv
<1> DEFINE rest == <<requests, i, SentSoFar, rpc, processed, ReceivedSoFar, CommandLog, capacity, copy>>
<1>1. UNCHANGED rest
  BY DEF Arrive, TestEnds, Collect, Reply, Report, schedulerVars, senderVars, receiverVars, logVars
<1>2. /\ finished' \in BOOLEAN /\ report' \in {"none", "written", "divide by zero"}
      /\ spc' = spc \/ (spc = "collect" /\ spc' = "check")
  BY DEF TypeOK, Arrive, TestEnds, Collect, Reply, Report, schedulerVars, senderVars, receiverVars, logVars
<1>3. arrivals' \in 0 .. MaxArrivals /\ taken' \in 0 .. arrivals'
  <2>1. arrivals \in 0 .. MaxArrivals /\ taken \in 0 .. arrivals
    BY DEF TypeOK
  <2>2. CASE Arrive
    BY <2>1, <2>2, Counters, BoundAssumption DEF Arrive, senderVars
  <2>3. CASE Collect
    BY <2>1, <2>3, Counters, BatchAssumption DEF Collect, schedulerVars
  <2>4. CASE TestEnds \/ Reply \/ Report
    BY <2>1, <2>4 DEF TestEnds, Reply, Report, schedulerVars, senderVars
  <2> QED
    BY <2>2, <2>3, <2>4
<1>4. answered' \in 0 .. Len(requests) /\ answered' >= answered
  <2>1. CASE Reply
    BY <2>1, Counters DEF Reply
  <2>2. CASE Arrive \/ TestEnds \/ Collect \/ Report
    <3>1. answered' = answered
      BY <2>2 DEF Arrive, TestEnds, Collect, Report, receiverVars
    <3> QED
      BY <3>1, Counters
  <2> QED
    BY <2>1, <2>2
<1>5. processed \in 0 .. answered'
  BY <1>4, Counters
<1>6. TypeOK'
  <2>1. /\ requests \in Seq(Nat) /\ i \in Nat /\ SentSoFar \in Nat /\ ReceivedSoFar \in Nat
        /\ CommandLog \in Seq(LogEntry) /\ copy \in Seq(LogEntry)
        /\ capacity \in Nat /\ Len(CommandLog) <= capacity
        /\ spc' \in {"collect", "check", "grow", "count"}
        /\ rpc \in {"wait", "received", "timed", "count", "already received"}
    BY <1>2 DEF TypeOK
  <2> QED
    BY <1>1, <1>2, <1>3, <1>4, <1>5, <2>1 DEF TypeOK
<1>7. Numbered' /\ Counted' /\ RoomInWindow'
  BY <1>1, <1>2 DEF Numbered, Counted, RoomInWindow
<1>8. OneAtATime'
  BY <1>1, <1>4, Counters DEF OneAtATime
<1> QED
  BY <1>1, <1>2, <1>6, <1>7, <1>8 DEF LogsSent, Growing, MoreEntries

LEMMA CheckWindowStep ==
    ASSUME IInv, CheckWindow
    PROVE  IInv'
<1> USE BatchAssumption, WindowAssumption DEF IInv
<1>1. UNCHANGED <<schedulerVars, taken, requests, i, SentSoFar, receiverVars, logVars, report>>
  BY DEF CheckWindow
<1>2. spc = "check" /\ spc' \in {"collect", "grow"}
  BY DEF CheckWindow
<1>3. spc' = "grow" => i - processed <= window
  <2>1. i \in Nat /\ processed \in Nat
    BY Counters DEF TypeOK
  <2>2. spc' = "grow" => ~(i * ClientBatchSize - processed * ClientBatchSize > window * ClientBatchSize)
    BY DEF CheckWindow, Counted
  <2>3. /\ i * ClientBatchSize \in Nat /\ processed * ClientBatchSize \in Nat
        /\ window * ClientBatchSize \in Nat
    BY <2>1
  <2>4. spc' = "grow" => i * ClientBatchSize - processed * ClientBatchSize <= window * ClientBatchSize
    BY <2>2, <2>3
  <2> QED
    BY <2>1, <2>4, MultiplesInOrder
<1>4. TypeOK'
  BY <1>1, <1>2 DEF TypeOK, schedulerVars, receiverVars, logVars
<1>5. Numbered' /\ Counted' /\ RoomInWindow' /\ OneAtATime'
  BY <1>1, <1>2, <1>3 DEF Numbered, Counted, RoomInWindow, OneAtATime, receiverVars
<1>6. UNCHANGED <<CommandLog, copy, capacity, requests>> /\ copy = << >>
  BY <1>1, <1>2 DEF logVars, Growing
<1> QED
  BY <1>4, <1>5, <1>6 DEF LogsSent, Growing

(* A step on the log leaves the counters and the requests alone: it keeps the  *)
(* invariant if it keeps the logs in their type and marked.                  *)
LEMMA LogStep ==
    ASSUME IInv, UNCHANGED <<schedulerVars, senderVars, receiverVars, report>>,
           CommandLog' \in Seq(LogEntry), copy' \in Seq(LogEntry),
           capacity' \in Nat, Len(CommandLog') <= capacity',
           LogsSent(CommandLog)', Growing'
    PROVE  IInv'
<1>1. UNCHANGED <<arrivals, finished, taken, spc, requests, i, SentSoFar,
                  rpc, answered, processed, ReceivedSoFar, report>>
  BY DEF schedulerVars, senderVars, receiverVars
<1>2. TypeOK'
  BY <1>1 DEF IInv, TypeOK
<1>3. Numbered' /\ Counted' /\ RoomInWindow' /\ OneAtATime'
  BY <1>1 DEF IInv, Numbered, Counted, RoomInWindow, OneAtATime
<1> QED
  BY <1>1, <1>2, <1>3 DEF IInv

LEMMA OneMoreEntry ==
    ASSUME NEW log \in Seq(LogEntry), LogsSent(log), Len(requests) \in Nat
    PROVE  /\ Append(log, Unused) \in Seq(LogEntry)
           /\ Len(Append(log, Unused)) = Len(log) + 1
           /\ LogsSent(Append(log, Unused))
<1> DEFINE more == Append(log, Unused)
<1>1. Unused \in LogEntry /\ Unused.Sent = FALSE
  BY DEF Unused, LogEntry
<1>2. /\ more \in Seq(LogEntry) /\ Len(more) = Len(log) + 1 /\ Len(log) \in Nat
      /\ \A n \in 1 .. Len(log) : more[n] = log[n]
      /\ more[Len(log) + 1] = Unused
  BY <1>1
<1> HIDE DEF more
<1>3. ASSUME NEW n \in 1 .. Len(more) PROVE more[n].Sent <=> n <= Len(requests)
  <2>1. CASE n \in 1 .. Len(log)
    BY <1>2, <2>1 DEF LogsSent
  <2>2. CASE n = Len(log) + 1
    BY <1>1, <1>2, <2>2 DEF LogsSent
  <2> QED
    BY <1>2, <2>1, <2>2
<1>4. LogsSent(more)
  BY <1>2, <1>3 DEF LogsSent
<1> QED
  BY <1>2, <1>4 DEF more

LEMMA GrowStep ==
    ASSUME IInv, AppendInPlace \/ CopyLog \/ PublishLog
    PROVE  IInv'
<1>1. /\ CommandLog \in Seq(LogEntry) /\ copy \in Seq(LogEntry) /\ capacity \in Nat
      /\ Len(CommandLog) <= capacity /\ Len(CommandLog) \in Nat /\ Len(requests) \in Nat
      /\ LogsSent(CommandLog)
      /\ copy # << >> => spc = "grow" /\ LogsSent(copy) /\ Len(copy) = capacity + 1
  BY Counters DEF IInv, TypeOK, Growing
<1>2. /\ UNCHANGED <<schedulerVars, senderVars, receiverVars, report>>
      /\ UNCHANGED requests
  BY DEF AppendInPlace, CopyLog, PublishLog, senderVars
<1>3. << >> \in Seq(LogEntry)
  OBVIOUS
<1>4. CASE AppendInPlace
  <2>1. /\ CommandLog' = Append(CommandLog, Unused) /\ UNCHANGED <<capacity, copy>>
        /\ Len(CommandLog) < capacity /\ copy = << >>
    BY <1>4 DEF AppendInPlace
  <2>2. /\ CommandLog' \in Seq(LogEntry) /\ Len(CommandLog') = Len(CommandLog) + 1
        /\ LogsSent(CommandLog)'
    BY <1>1, <1>2, <2>1, OneMoreEntry DEF LogsSent
  <2> QED
    BY <1>1, <1>2, <1>3, <2>1, <2>2, LogStep DEF Growing
<1>5. CASE CopyLog
  <2>1. /\ copy' = Append(CommandLog, Unused) /\ UNCHANGED <<CommandLog, capacity>>
        /\ Len(CommandLog) = capacity /\ spc = "grow" /\ MoreEntries
    BY <1>5 DEF CopyLog
  <2>2. copy' \in Seq(LogEntry) /\ Len(copy') = capacity + 1 /\ LogsSent(copy)'
    BY <1>1, <1>2, <2>1, OneMoreEntry DEF LogsSent
  <2>3. LogsSent(CommandLog)'
    BY <1>1, <1>2, <2>1 DEF LogsSent
  <2> QED
    <3>1. Growing'
      BY <1>2, <2>1, <2>2 DEF Growing, MoreEntries, senderVars
    <3> QED
      BY <1>1, <2>1, <1>2, <2>2, <2>3, <3>1, LogStep
<1>6. CASE PublishLog
  <2>1. /\ copy # << >> /\ CommandLog' = copy /\ copy' = << >>
        /\ capacity' = IF capacity = 0 THEN 1 ELSE 2 * capacity
    BY <1>6 DEF PublishLog
  <2>2. capacity' \in Nat /\ Len(CommandLog') <= capacity'
    BY <1>1, <2>1
  <2>3. LogsSent(CommandLog)'
    BY <1>1, <1>2, <2>1 DEF LogsSent
  <2> QED
    BY <1>1, <1>2, <1>3, <2>1, <2>2, <2>3, LogStep DEF Growing
<1> QED
  BY <1>4, <1>5, <1>6

LEMMA SendStep ==
    ASSUME IInv, Send
    PROVE  IInv'
<1>1. /\ CommandLog \in Seq(LogEntry) /\ copy \in Seq(LogEntry) /\ capacity \in Nat
      /\ Len(CommandLog) <= capacity /\ Len(CommandLog) \in Nat
      /\ requests \in Seq(Nat) /\ Len(requests) \in Nat /\ i \in Nat
      /\ processed \in Nat /\ answered \in Nat /\ processed <= answered /\ answered <= Len(requests)
  BY Counters DEF IInv, TypeOK
<1>2. /\ spc = "grow" /\ Len(CommandLog) > i + Margin /\ spc' = "count"
      /\ CommandLog' = [CommandLog EXCEPT ![i + 1].Sent = TRUE]
      /\ requests' = Append(requests, i)
      /\ UNCHANGED <<taken, i, SentSoFar, capacity, copy, report, arrivals, finished>>
      /\ UNCHANGED <<rpc, answered, processed, ReceivedSoFar>>
  BY <1>1, MarginAssumption DEF Send, MoreEntries, schedulerVars, receiverVars
<1>3. Len(requests) = i /\ i + 1 \in 1 .. Len(CommandLog)
  BY <1>1, <1>2, MarginAssumption DEF IInv, Numbered
<1>4. /\ requests' \in Seq(Nat) /\ Len(requests') = i + 1
      /\ \A n \in 1 .. i : requests'[n] = requests[n]
      /\ requests'[i + 1] = i
  BY <1>1, <1>2, <1>3
<1>5. /\ CommandLog' \in Seq(LogEntry) /\ Len(CommandLog') = Len(CommandLog)
      /\ CommandLog'[i + 1].Sent = TRUE
      /\ \A n \in 1 .. Len(CommandLog) : n # i + 1 => CommandLog'[n] = CommandLog[n]
  <2> DEFINE e == [CommandLog[i + 1] EXCEPT !.Sent = TRUE]
  <2>1. CommandLog[i + 1] \in LogEntry
    BY <1>1, <1>3
  <2>2. e \in LogEntry /\ e.Sent = TRUE
    BY <2>1 DEF LogEntry
  <2>3. CommandLog' = [CommandLog EXCEPT ![i + 1] = e]
    BY <1>2
  <2> HIDE DEF e
  <2> QED
    BY <1>1, <1>3, <2>2, <2>3
<1>6. copy = << >> /\ UNCHANGED copy
  BY <1>2 DEF IInv, Growing, Send
<1>7. LogsSent(CommandLog)'
  <2>1. ASSUME NEW n \in 1 .. Len(CommandLog') PROVE CommandLog'[n].Sent <=> n <= Len(requests')
    <3>1. n \in 1 .. Len(CommandLog) /\ (CommandLog[n].Sent <=> n <= i)
      BY <1>3, <1>5 DEF IInv, LogsSent
    <3>2. CASE n = i + 1
      BY <1>1, <1>4, <1>5, <3>2
    <3>3. CASE n # i + 1
      BY <1>1, <1>4, <1>5, <3>1, <3>3
    <3> QED
      BY <3>2, <3>3
  <2> QED
    BY <1>1, <1>3, <1>4, <1>5, <2>1 DEF LogsSent
<1>8. Numbered'
  <2>1. ASSUME NEW n \in 1 .. Len(requests') PROVE requests'[n] = n - 1
    BY <1>1, <1>3, <1>4 DEF IInv, Numbered
  <2> QED
    BY <1>1, <1>2, <1>4, <2>1 DEF Numbered
<1>9. Counted' /\ RoomInWindow' /\ OneAtATime'
  BY <1>2 DEF IInv, Counted, RoomInWindow, OneAtATime
<1>10. answered \in 0 .. Len(requests')
  BY <1>1, <1>3, <1>4
<1>11. TypeOK'
  <2>1. spc' \in {"collect", "check", "grow", "count"} /\ Len(CommandLog') <= capacity'
    BY <1>1, <1>2, <1>5
  <2> QED
    BY <1>2, <1>4, <1>5, <1>10, <2>1 DEF IInv, TypeOK
<1> QED
  BY <1>6, <1>7, <1>8, <1>9, <1>11 DEF IInv, Growing

LEMMA CountSentStep ==
    ASSUME IInv, CountSent
    PROVE  IInv'
<1>1. /\ requests \in Seq(Nat) /\ Len(requests) \in Nat /\ i \in Nat /\ SentSoFar \in Nat
      /\ processed \in Nat
  BY Counters DEF IInv, TypeOK
<1>2. /\ spc = "count" /\ spc' = "collect" /\ i' = i + 1
      /\ SentSoFar' = SentSoFar + ClientBatchSize
      /\ UNCHANGED <<taken, requests, arrivals, finished, rpc, answered, processed, ReceivedSoFar>>
      /\ UNCHANGED <<CommandLog, capacity, copy, report>>
  BY DEF CountSent, schedulerVars, receiverVars, logVars
<1>3. TypeOK'
  <2>1. i' \in Nat /\ SentSoFar' \in Nat /\ spc' \in {"collect", "check", "grow", "count"}
    BY <1>1, <1>2, BatchAssumption
  <2> QED
    BY <1>2, <2>1 DEF IInv, TypeOK
<1>4. Numbered'
  BY <1>1, <1>2 DEF IInv, Numbered
<1>5. Counted'
  <2>1. SentSoFar' = (i + 1) * ClientBatchSize
    BY <1>1, <1>2, BatchAssumption, MultiplesInOrder DEF IInv, Counted
  <2> QED
    BY <1>2, <2>1 DEF IInv, Counted
<1>6. RoomInWindow' /\ OneAtATime'
  BY <1>1, <1>2, WindowAssumption DEF IInv, RoomInWindow, OneAtATime
<1>7. copy = << >>
  BY <1>2 DEF IInv, Growing
<1> QED
  BY <1>2, <1>3, <1>4, <1>5, <1>6, <1>7 DEF IInv, LogsSent, Growing

(* The receiver finds the log anew for each field it sets, and touches neither *)
(* its length nor the marks of the sender.                                   *)
LEMMA ReceiverStep ==
    ASSUME IInv, Receiver
    PROVE  IInv'
<1>1. /\ CommandLog \in Seq(LogEntry) /\ Len(CommandLog) \in Nat /\ Len(requests) \in Nat
      /\ processed \in Nat /\ answered \in Nat /\ processed <= answered
      /\ answered <= Len(requests) /\ ReceivedSoFar \in Nat /\ i \in Nat
  BY Counters DEF IInv, TypeOK
<1>2. /\ UNCHANGED <<arrivals, finished, taken, spc, requests, i, SentSoFar>>
      /\ UNCHANGED <<answered, capacity, copy, report>>
  BY DEF Receiver, CheckEntry, SetReceiveTime, SetDuration, CountReceived,
         schedulerVars, senderVars, logVars
<1>3. rpc' \in {"wait", "received", "timed", "count", "already received"}
  BY DEF Receiver, CheckEntry, SetReceiveTime, SetDuration, CountReceived
<1>4. processed < answered
  BY DEF IInv, OneAtATime, Receiver, CheckEntry, SetReceiveTime, SetDuration, CountReceived
<1>5. Entry \in 1 .. Len(CommandLog)
  <2>1. requests[processed + 1] = processed /\ Len(requests) <= Len(CommandLog)
    BY <1>1, <1>4 DEF IInv, Numbered, LogsSent
  <2> QED
    BY <1>1, <1>4, <2>1 DEF Entry
<1>6. /\ CommandLog' \in Seq(LogEntry) /\ Len(CommandLog') = Len(CommandLog)
      /\ \A n \in 1 .. Len(CommandLog) : CommandLog'[n].Sent = CommandLog[n].Sent
  <2>1. CASE CheckEntry \/ CountReceived
    BY <1>1, <2>1 DEF CheckEntry, CountReceived, logVars
  <2>2. CASE SetReceiveTime
    <3> DEFINE e == [CommandLog[Entry] EXCEPT !.ReceiveTime = TRUE]
    <3>1. CommandLog' = [CommandLog EXCEPT ![Entry] = e]
      BY <2>2 DEF SetReceiveTime
    <3>2. CommandLog[Entry] \in LogEntry
      BY <1>1, <1>5
    <3>3. e \in LogEntry /\ e.Sent = CommandLog[Entry].Sent
      BY <3>2 DEF LogEntry
    <3> HIDE DEF e
    <3> QED
      BY <1>1, <1>5, <3>1, <3>3, ExceptSeq
  <2>3. CASE SetDuration
    <3> DEFINE d == IF CommandLog[Entry].ReceiveTime THEN "positive" ELSE "negative"
               e == [CommandLog[Entry] EXCEPT !.Duration = d]
    <3>1. CommandLog' = [CommandLog EXCEPT ![Entry] = e]
      BY <2>3 DEF SetDuration
    <3>2. CommandLog[Entry] \in LogEntry
      BY <1>1, <1>5
    <3>3. e \in LogEntry /\ e.Sent = CommandLog[Entry].Sent
      BY <3>2 DEF LogEntry
    <3> HIDE DEF e
    <3> QED
      BY <1>1, <1>5, <3>1, <3>3, ExceptSeq
  <2> QED
    BY <2>1, <2>2, <2>3 DEF Receiver
<1>7. /\ \/ UNCHANGED <<processed, ReceivedSoFar>>
         \/ processed' = processed + 1 /\ ReceivedSoFar' = ReceivedSoFar + ClientBatchSize /\ rpc' = "wait"
  BY DEF Receiver, CheckEntry, SetReceiveTime, SetDuration, CountReceived
<1>8. /\ processed' \in 0 .. answered /\ processed' \in Nat /\ ReceivedSoFar' \in Nat
      /\ processed' >= processed /\ (rpc' # "wait" => processed' < answered)
  BY <1>1, <1>4, <1>7, BatchAssumption
<1>9. TypeOK'
  BY <1>2, <1>3, <1>6, <1>8 DEF IInv, TypeOK
<1>10. Counted'
  <2>1. (processed + 1) * ClientBatchSize = processed * ClientBatchSize + ClientBatchSize
    BY <1>1, BatchAssumption, MultiplesInOrder
  <2> QED
    BY <1>2, <1>7, <2>1 DEF IInv, Counted
<1>11. Numbered' /\ OneAtATime'
  BY <1>2, <1>8 DEF IInv, Numbered, OneAtATime
<1>12. RoomInWindow'
  <2>1. i - processed <= window + 1 /\ (spc \in {"grow", "count"} => i - processed <= window)
    BY DEF IInv, RoomInWindow
  <2>2. i \in Nat /\ processed \in Nat /\ processed' \in Nat /\ processed' >= processed
    BY <1>1, <1>8
  <2>3. window \in Nat /\ window + 1 \in Nat
    BY WindowAssumption
  <2>4. /\ i - processed <= window + 1 => i - processed' <= window + 1
        /\ i - processed <= window => i - processed' <= window
    BY <2>2, <2>3, LaterIsLess
  <2> QED
    BY <1>2, <2>1, <2>4 DEF RoomInWindow
<1>13. LogsSent(CommandLog)'
  BY <1>1, <1>2, <1>6 DEF IInv, LogsSent
<1>14. Growing'
  BY <1>2, <1>6 DEF IInv, Growing, LogsSent, MoreEntries
<1> QED
  BY <1>9, <1>10, <1>11, <1>12, <1>13, <1>14 DEF IInv

LEMMA StepHolds == IInv /\ [Next]_vars => IInv'
<1> SUFFICES ASSUME IInv, [Next]_vars PROVE IInv'
  OBVIOUS
<1>1. CASE Arrive \/ TestEnds \/ Collect \/ Reply \/ Report
  BY <1>1, SchedulerStep
<1>2. CASE CheckWindow
  BY <1>2, CheckWindowStep
<1>3. CASE AppendInPlace \/ CopyLog \/ PublishLog
  BY <1>3, GrowStep
<1>4. CASE Send
  BY <1>4, SendStep
<1>5. CASE CountSent
  BY <1>5, CountSentStep
<1>6. CASE Receiver
  BY <1>6, ReceiverStep
<1>7. CASE UNCHANGED vars
  <2>1. /\ UNCHANGED <<arrivals, finished, taken, spc, requests, i, SentSoFar>>
        /\ UNCHANGED <<rpc, answered, processed, ReceivedSoFar, CommandLog, capacity, copy, report>>
    BY <1>7 DEF vars, schedulerVars, senderVars, receiverVars, logVars
  <2>2. TypeOK' /\ Numbered' /\ Counted' /\ RoomInWindow' /\ OneAtATime'
    BY <2>1 DEF IInv, TypeOK, Numbered, Counted, RoomInWindow, OneAtATime
  <2>3. LogsSent(CommandLog)' /\ Growing'
    BY <2>1 DEF IInv, LogsSent, Growing, MoreEntries
  <2> QED
    BY <2>2, <2>3 DEF IInv
<1> QED
  BY <1>1, <1>2, <1>3, <1>4, <1>5, <1>6, <1>7 DEF Next, Sender

(* The invariant holds of every reachable state, for every window, batch size *)
(* and number of arrivals.                                                   *)
THEOREM Invariance == Spec => []IInv
<1>1. Init => IInv
  BY InitHolds
<1>2. IInv /\ [Next]_vars => IInv'
  BY StepHolds
<1> QED
  BY <1>1, <1>2, PTL DEF Spec

-----------------------------------------------------------------------------
(* client.go's window check: the requests on their way never exceed the window *)
(* by more than one, although the counter of the receiver moves under the     *)
(* sender's check.                                                           *)
THEOREM WindowBoundHolds == Spec => []WindowBound
<1>1. IInv => WindowBound
  <2> SUFFICES ASSUME IInv PROVE WindowBound
    OBVIOUS
  <2>1. Len(requests) \in Nat /\ processed \in Nat /\ i \in Nat
    BY Counters DEF IInv, TypeOK
  <2> QED
    BY <2>1, WindowAssumption DEF IInv, Numbered, RoomInWindow, WindowBound
<1> QED
  BY <1>1, Invariance, PTL

(* client.go's CommandLog: the entries marked as sent are those of the         *)
(* requests that were sent, however often append moves the log.              *)
THEOREM SentIsLoggedHolds == Spec => []SentIsLogged
<1>1. IInv => SentIsLogged
  <2> SUFFICES ASSUME IInv PROVE SentIsLogged
    OBVIOUS
  <2>1. /\ Len(requests) \in Nat /\ Len(CommandLog) \in Nat
        /\ requests \in Seq(Nat) /\ CommandLog \in Seq(LogEntry)
    BY Counters DEF IInv, TypeOK
  <2>2. SentEntries = 1 .. Len(requests)
    BY <2>1 DEF IInv, LogsSent, SentEntries
  <2>3. \A n \in 1 .. Len(requests) : requests[n] + 1 = n
    BY <2>1 DEF IInv, Numbered
  <2>4. DOMAIN requests = 1 .. Len(requests)
    BY <2>1
  <2> QED
    BY <2>2, <2>3, <2>4 DEF SentIsLogged
<1> QED
  BY <1>1, Invariance, PTL
=============================================================================
