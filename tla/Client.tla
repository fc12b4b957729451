------------------------------- MODULE Client -------------------------------
(***************************************************************************)
(* An open-loop client: the scheduler produces arrivals, the sender turns  *)
(* ClientBatchSize of them into a request or drops them when the window is *)
(* full, the receiver matches replies with the log of sent requests, and   *)
(* the main routine writes the report.  The sender and the receiver share  *)
(* CommandLog and the counters without a lock around their writes.         *)
(*                                                                         *)
(* The proxy is what KVService promises to one client: a reply for every   *)
(* request, in order.                                                      *)
(***************************************************************************)
EXTENDS Integers, Sequences

CONSTANTS
    ClientBatchSize, \* Conf.ClientBatchSize
    window,          \* Client.window, in requests
    Margin,          \* entries of CommandLog ahead of the next request, 1000
    MaxArrivals      \* bound on the arrivals of a test

ASSUME BatchAssumption  == ClientBatchSize \in Nat \ {0}
ASSUME WindowAssumption == window \in Nat
ASSUME MarginAssumption == Margin \in Nat \ {0}
ASSUME BoundAssumption  == MaxArrivals \in Nat

VARIABLES
    arrivals,       \* arrivals of the test so far
    finished,       \* startScheduler returned
    taken,          \* arrivals the sender took from arrivalChan
    spc,            \* the sender's next step
    requests,       \* the CliSeqs of the requests sent, in order
    i,              \* the sender's next CliSeq
    SentSoFar,
    rpc,            \* the receiver's next step
    answered,       \* replies the proxy has sent
    processed,      \* replies the receiver has processed
    ReceivedSoFar,
    CommandLog,     \* the entries of the array the slice points to
    capacity,       \* the capacity of that array
    copy,           \* the larger array append is about to publish, or << >>
    report          \* what Epilogue found, "none" before it ran

schedulerVars == <<arrivals, finished>>
senderVars == <<taken, spc, requests, i, SentSoFar>>
receiverVars == <<rpc, answered, processed, ReceivedSoFar>>
logVars == <<CommandLog, capacity, copy>>
vars == <<schedulerVars, senderVars, receiverVars, logVars, report>>

(* An entry of CommandLog: Sent, whether ReceiveTime is set, and Duration,    *)
(* which is negative when computed from a ReceiveTime that is not set.        *)
LogEntry ==
    [Sent : BOOLEAN, ReceiveTime : BOOLEAN, Duration : {"zero", "positive", "negative"}]
Unused == [Sent |-> FALSE, ReceiveTime |-> FALSE, Duration |-> "zero"]

Init ==
    /\ arrivals = 0 /\ finished = FALSE
    /\ taken = 0 /\ spc = "collect" /\ requests = << >> /\ i = 0 /\ SentSoFar = 0
    /\ rpc = "wait" /\ answered = 0 /\ processed = 0 /\ ReceivedSoFar = 0
    /\ CommandLog = << >> /\ capacity = 0 /\ copy = << >>
    /\ report = "none"

-----------------------------------------------------------------------------
(* startScheduler.                                                           *)
Arrive ==
    /\ ~finished /\ arrivals < MaxArrivals
    /\ arrivals' = arrivals + 1
    /\ UNCHANGED <<finished, senderVars, receiverVars, logVars, report>>

TestEnds ==
    /\ ~finished
    /\ finished' = TRUE
    /\ UNCHANGED <<arrivals, senderVars, receiverVars, logVars, report>>

-----------------------------------------------------------------------------
(* The sender.                                                               *)
Collect ==
    /\ spc = "collect"
    /\ arrivals - taken >= ClientBatchSize
    /\ taken' = taken + ClientBatchSize
    /\ spc' = "check"
    /\ UNCHANGED <<schedulerVars, requests, i, SentSoFar, receiverVars, logVars, report>>

(* The window is checked, and the arrivals are dropped when it is full.       *)
CheckWindow_NoContinue ==
    /\ spc = "check"
    /\ spc' = "grow"
    /\ UNCHANGED <<schedulerVars, taken, requests, i, SentSoFar, receiverVars, logVars, report>>

CheckWindow ==
    /\ spc = "check"
    /\ spc' = IF SentSoFar - ReceivedSoFar > window * ClientBatchSize THEN "collect" ELSE "grow"
    /\ UNCHANGED <<schedulerVars, taken, requests, i, SentSoFar, receiverVars, logVars, report>>

(* append, when the array has room, and when it has not: the entries are      *)
(* copied to an array of twice the size, which the slice points to afterwards.*)
MoreEntries == Len(CommandLog) <= i + Margin

AppendInPlace ==
    /\ spc = "grow" /\ MoreEntries /\ copy = << >>
    /\ Len(CommandLog) < capacity
    /\ CommandLog' = Append(CommandLog, Unused)
    /\ UNCHANGED <<schedulerVars, senderVars, receiverVars, capacity, copy, report>>

CopyLog_Fresh ==
    /\ spc = "grow" /\ MoreEntries /\ copy = << >>
    /\ Len(CommandLog) = capacity
    /\ copy' = [n \in 1 .. Len(CommandLog) + 1 |-> Unused]
    /\ UNCHANGED <<schedulerVars, senderVars, receiverVars, CommandLog, capacity, report>>

CopyLog ==
    /\ spc = "grow" /\ MoreEntries /\ copy = << >>
    /\ Len(CommandLog) = capacity
    /\ copy' = Append(CommandLog, Unused)
    /\ UNCHANGED <<schedulerVars, senderVars, receiverVars, CommandLog, capacity, report>>

PublishLog ==
    /\ copy # << >>
    /\ CommandLog' = copy
    /\ capacity' = IF capacity = 0 THEN 1 ELSE 2 * capacity
    /\ copy' = << >>
    /\ UNCHANGED <<schedulerVars, senderVars, receiverVars, report>>

(* The entry is marked before the request goes to SendChan.                  *)
Send ==
    /\ spc = "grow" /\ ~MoreEntries
    /\ CommandLog' = [CommandLog EXCEPT ![i + 1].Sent = TRUE]
    /\ requests' = Append(requests, i)
    /\ spc' = "count"
    /\ UNCHANGED <<schedulerVars, taken, i, SentSoFar, receiverVars, capacity, copy, report>>

CountSent_SameSeq ==
    /\ spc = "count"
    /\ SentSoFar' = SentSoFar + ClientBatchSize
    /\ spc' = "collect"
    /\ UNCHANGED <<schedulerVars, taken, requests, i, receiverVars, logVars, report>>

CountSent ==
    /\ spc = "count"
    /\ SentSoFar' = SentSoFar + ClientBatchSize
    /\ i' = i + 1
    /\ spc' = "collect"
    /\ UNCHANGED <<schedulerVars, taken, requests, receiverVars, logVars, report>>

-----------------------------------------------------------------------------
(* The proxy answers the requests in order, some time.                       *)
Reply ==
    /\ answered < Len(requests)
    /\ answered' = answered + 1
    /\ UNCHANGED <<schedulerVars, senderVars, rpc, processed, ReceivedSoFar, logVars, report>>

(* The receiver: the steps of processOneReply, each of which finds CommandLog *)
(* anew.                                                                     *)
Entry == requests[processed + 1] + 1

CheckEntry ==
    /\ rpc = "wait" /\ processed < answered
    /\ rpc' = IF CommandLog[Entry].Duration # "zero" THEN "already received" ELSE "received"
    /\ UNCHANGED <<schedulerVars, senderVars, answered, processed, ReceivedSoFar, logVars, report>>

SetReceiveTime ==
    /\ rpc = "received"
    /\ CommandLog' = [CommandLog EXCEPT ![Entry].ReceiveTime = TRUE]
    /\ rpc' = "timed"
    /\ UNCHANGED <<schedulerVars, senderVars, answered, processed, ReceivedSoFar, capacity, copy, report>>

SetDuration ==
    /\ rpc = "timed"
    /\ CommandLog' = [CommandLog EXCEPT ![Entry].Duration =
          IF CommandLog[Entry].ReceiveTime THEN "positive" ELSE "negative"]
    /\ rpc' = "count"
    /\ UNCHANGED <<schedulerVars, senderVars, answered, processed, ReceivedSoFar, capacity, copy, report>>

CountReceived ==
    /\ rpc = "count"
    /\ ReceivedSoFar' = ReceivedSoFar + ClientBatchSize
    /\ processed' = processed + 1
    /\ rpc' = "wait"
    /\ UNCHANGED <<schedulerVars, senderVars, answered, logVars, report>>

-----------------------------------------------------------------------------
(* writeToLog: the rate of errors divides by the number of requests.          *)
SentEntries == {n \in DOMAIN CommandLog : CommandLog[n].Sent}
Report ==
    /\ finished /\ report = "none"
    /\ report' = IF SentEntries = {} THEN "divide by zero" ELSE "written"
    /\ UNCHANGED <<schedulerVars, senderVars, receiverVars, logVars>>

Sender == Collect \/ CheckWindow \/ AppendInPlace \/ CopyLog \/ PublishLog \/ Send \/ CountSent
Receiver == CheckEntry \/ SetReceiveTime \/ SetDuration \/ CountReceived

Next == Arrive \/ TestEnds \/ Sender \/ Reply \/ Receiver \/ Report

Spec == Init /\ [][Next]_vars

(* The routines run and the proxy answers every request.                     *)
FairSpec ==
    /\ Spec
    /\ WF_vars(Sender) /\ WF_vars(Receiver) /\ WF_vars(Reply)

-----------------------------------------------------------------------------
(* Properties.                                                               *)

TypeOK ==
    /\ arrivals \in 0 .. MaxArrivals /\ taken \in 0 .. arrivals /\ finished \in BOOLEAN
    /\ spc \in {"collect", "check", "grow", "count"}
    /\ rpc \in {"wait", "received", "timed", "count", "already received"}
    /\ requests \in Seq(Nat) /\ i \in Nat /\ SentSoFar \in Nat /\ ReceivedSoFar \in Nat
    /\ processed \in 0 .. answered /\ answered \in 0 .. Len(requests)
    /\ CommandLog \in Seq(LogEntry) /\ copy \in Seq(LogEntry)
    /\ capacity \in Nat /\ Len(CommandLog) <= capacity
    /\ report \in {"none", "written", "divide by zero"}

(* The window, which the sender reads while the receiver moves it, bounds the *)
(* requests on their way: one more than its size, as it is checked before     *)
(* the next request and with ">".                                            *)
WindowBound == Len(requests) - processed <= window + 1

(* No request that was sent is missing from the log, however often append     *)
(* moves it, while the receiver writes to it: totalRequests of writeToLog is   *)
(* "total number of requests sent".                                          *)
SentIsLogged == SentEntries = {requests[n] + 1 : n \in DOMAIN requests}

(* client.go:280: noResponses is the "number of requests for which no         *)
(* response was received".                                                   *)
NoResponseMeansNone ==
    \A n \in SentEntries : CommandLog[n].Duration = "zero" =>
        \A m \in 1 .. processed : requests[m] + 1 # n

(* client.go:118-120: the client writes the report, then closes the log file   *)
(* and the connection.                                                       *)
EpilogueCompletes == report # "divide by zero"

(* While the client runs, the counters of the two routines meet once           *)
(* everything is answered, so the window opens again.                        *)
CountersMeet == <>[](report = "none" => ReceivedSoFar = SentSoFar)
=============================================================================
