# Rabia: a verification development

Rabia is a leaderless state-machine-replication system: every server proposes
the client requests it has received, and a randomised binary agreement (Weak
MVC) decides, slot after slot of a ledger, whether the object that most servers
proposed is accepted or the slot is wasted on a *null* decision.  This directory
holds TLA+ models of the Go implementation under `src/`, TLC configurations that
check them on small instances, and TLAPS proofs for every size of the cluster.

    tlc -config WeakMVC5.cfg MCWeakMVC.tla      # any run of PROJECT.json likewise
    tlapm WeakMVCProofs.tla                     # the proofs (and the other *Proofs.tla)

Paths below are relative to `src/`; `consensus/`, `network/` and `proxy/` stand
for `src/roles/server/layers/...`.

## 1. Inventory

A *server* process runs, as goroutines joined by channels, a proxy layer (two
routines), one consensus instance (two routines, `Executor` and `MsgHandler`) and
a network layer (router, serialiser, TCP readers and writers).  A *client* process
talks to one proxy.  A *controller* starts and stops an experiment.

    client --> proxy.CmdReceiver --ClientRequest--> network --> all servers' MsgHandler
                                                                   | pending queue
    proxy.KVSExecutor <-- Ledger (Slot.Decision) <-- Executor <-- notices -- MsgHandler
                                                        |                       ^
                                                        +-- Proposal, State, Vote, Decision,
                                                            ProposalRequest / ProposalReply

| Component | State it keeps | Operations | What is hard | What makes it correct |
|---|---|---|---|---|
| **Weak MVC** (`consensus/executor.go`) | phase, round, proposal, own states and votes of the slot, decision | `Executor`, the four `...AfterWait` functions, `findReturnValue`, `epilogue` | each server acts on its own sample of `NMinusF` messages; four ways to decide | agreement, locked value, a binary 1 stands for a majority's object, Null only under contention |
| **Slot engine** (`executor.go`, `msgHandler.go`, `internal/ledger`) | tallies, the bounded notice queue, `HasRecvDec`, `IsDone` | `wait`, `binConMsgHandling`, `requestProposalAndWait`, `genProposalReply` | two routines share the slot without locks and block on each other; crashes between sends | notices match the round, the Decision is never lost, the handler never sticks, requests are answered, it implements Weak MVC |
| **Replicated log** (`getRequest`, `epilogue`, `putBackMyProposal`, `internal/queue`, the `ClientRequest` case) | pending priority queue, `Discard`, `SvrSeq` | push, pop, discard, put back | requests reach servers in different orders, before or after they were decided | nothing lost, nothing decided twice, the objects of a proxy in order, the same order everywhere |
| **Ledger ring** (`consensus.go`, `internal/ledger`) | `LenLedger` slot objects with a term each | `UpdateTermIfNecessary`, `Reset`, `IsTermMatched` | resets race with readers; documented races (consensus.go:45-73) | a message is tallied for its own slot only, a slot is not reset before it was executed |
| **Proxy and KV store** (`proxy/proxy.go`, `redis.go`) | the batch under construction, the next slot to execute, the store | `CmdReceiver`, `KVSExecutor`, the three storage modes | timer against full batch; polls slots without a lock | every request in one batch, slots executed in order, a reply per request |
| **Client** (`roles/client/client.go`) | window counters, log of sent requests | scheduler, sender, receiver, report (this fork has the open-loop client only) | log and counters shared by two routines | the window bounds the outstanding requests, every reply is recorded at its request |
| **Network and TCP** (`network/network.go`, `internal/tcp`) | bounded channels, connections | dial and accept, `MsgRouter`, `MsgSerializer`, send and receive handlers | servers start in any order; one router and one serialiser block on the slowest channel; peers crash | FIFO per link, every message to its routine, nobody is starved |
| **Start and shutdown** (`main.go`, `server.go`, `internal/system`, `ProxyTCP`, `ClientTCP`) | `Done` channels, wait groups, the proxy's tables of connections | `RunServer`, `RunClient`, `SigListen`, the prologues and epilogues | a routine that is blocked does not see `Done`; signals come at any time; `Done` is closed in two places | every process that is told to stop exits, in order |
| **Controller** (`roles/controller`) | the connections in order of registration | registration, start, wait for the clients, stop | order of arrivals, processes that end early | two barriers |
| **Message encoding** (`internal/message`) | none; the bytes on a connection | `Marshal`, `Unmarshal`, `BufWrite`, `BufRead` | a connection may end inside a message | what comes out is what went in |
| **Configuration, logging** | constants | — | thresholds' arithmetic | — |

`PROJECT.json` lists every component with its sources and status, and every
hazard with the line where it bites and the properties that watch it.

## 2. Modules

| Module | Models | Notes |
|---|---|---|
| `Cluster` | the thresholds of `CalcConstants` | constants and their assumptions |
| `SlotDecision` | *abstract*: what one slot promises | external view of Weak MVC |
| `WeakMVC` | the algorithm of one slot | messages "broadcast so far"; a tally is a sample |
| `WeakMVCProofs` | proofs about `WeakMVC` | section 5 |
| `SlotEngine` | both routines of every server, links, notices, requests, crashes | implements `WeakMVC` |
| `TotalOrder` | *abstract*: total order broadcast of the objects | external view of the consensus layer |
| `RabiaLog` | the pending queue, `Discard` and the sequence of slots | built over `SlotDecision`, implements `TotalOrder` |
| `LedgerRing` | the `Slot` objects of one server through several terms, and their four readers and writers | rounds abstracted to proposals and decision |
| `KeyValue` | commands, requests and what they do to a store | shared by the next two |
| `KVService` | *abstract*: one key-value store for all clients | the view of the clients |
| `ReplicatedStore` | proxies (batching, execution, replies, storage modes) over a total order | mode 0 implements `KVService` |
| `Client` | the open-loop client | over what `KVService` promises to one client |
| `FifoLinks` | *abstract*: a FIFO link from every routine of a server to every server | what `SlotEngine`, `RabiaLog` and `LedgerRing` take for granted |
| `Network` | connections, router, serialiser, bounded channels, crashes of all servers | implements `FifoLinks` |
| `Benchmark` | controller, servers and clients from start to exit, signals | the layers seen through what an exit depends on |
| `Wire` | the coding of messages, the length bytes, one connection that may end anywhere | why a message is a record in all other modules |
| `SlotEngineProofs` | proofs about `SlotEngine`: what it decides; the order of its notices | section 5 |
| `RabiaLogProofs`, `LedgerRingProofs`, `ReplicatedStoreProofs`, `NetworkProofs`, `ClientProofs`, `BenchmarkProofs` | proofs about the modules of these names | section 5 |
| `MC*` | instances for TLC | values of operator constants, symmetry |

So the stack of implementations is `SlotEngine => WeakMVC => SlotDecision`, then
`RabiaLog`, whose slots decide what `SlotDecision` allows, `=> TotalOrder`, then
`ReplicatedStore`, whose log is in the order `TotalOrder` allows (with the Null
slots between), `=> KVService`.  Three modules stand beside it and justify what it assumes: `LedgerRing` that a slot may be
seen as one object of one term, `Network` that messages travel on reliable FIFO links, and
`Wire` that a link carries whole messages, with one exception (section 7).  `Benchmark` is about the processes around all of them.

**Slips.**  Definitions named `<operator>_<slip>` are plausible slips in the code
`<operator>` models (a dropped guard, an off-by-one).  No definition uses them.
The table "mutants" of `PROJECT.json` says which property fails when a slip
replaces its operator, so that no property holds whatever the code does.

### WeakMVC and the code

| TLA+ | Go |
|---|---|
| `phase`, `round`, `proposal`, `decision` | `Slot.Phase`, `Round`, `MyProposal`, `Decision` (with `IsDone`) |
| `state[s][p]`, `vote[s][p]` | `Slot.MyBCMsgs[p][0]`, `[p][1]` |
| `Propose` | `getRequest`, `phase0Round1BeforeWait` |
| `Phase0Round1` | `phase0Round1AfterWait`: `MajorityPlusF` equal proposals decide, a majority votes 1, otherwise "?" |
| `Phase0Round2`, `PhaseNRound2` (both `Round2`) | `phase0Round2AfterWait`, `phaseNRound2AfterWait`, with the next phase's state |
| `PhaseNRound1` | `phaseNRound1AfterWait`, with the vote of `phaseNRound2BeforeWait` |
| `ReturnValue` | `findReturnValue`, a peer's reply included |
| `LearnDecision` | the Decision branch of `wait` |
| `"panic"` | the index past `LenBlockArray` phases |

`HasEnoughMsg` stops the tally at `NMinusF`, so what a server acts on is a set of
exactly `NMinusF` senders: the action chooses it.  The coin of a phase is the same
at all servers, because every server seeds its source alike and resets it for every slot; it is
the constant `Coin`, and the proofs hold for each.

### SlotEngine and the code

One action is what a routine does between two points where it can block.

| TLA+ | Go |
|---|---|
| `Start` | `getRequest` finding a request, `phase0Round1BeforeWait` |
| `TakeNotice`, `DiscardNotice`, `Proceed`, `LearnDecision` | the loop of `wait`: discard while `HasRecvDec`, proceed, or take the Decision |
| `Phase0Round1` ... `PhaseNRound2` | `...AfterWait` with the following `...BeforeWait` |
| `RequestProposal`, `ReceiveReply` | the two halves of `requestProposalAndWait` |
| `Conclude` | `epilogue` and the Decision broadcast |
| `HandleProposal`, `HandleState`, `HandleVote`, `HandleDecision` | the cases of `binConMsgHandling`; `PushThen` blocks on the full `Slot.Queue` |
| `MarkDecision` | the later write of `HasRecvDec` |
| `HandleRequest` | the `ProposalRequest` case of `MsgHandler` |
| `sent[q]`, `Due` | `q`'s broadcasts, FIFO per link; `Due` also drops what the handler would ignore |
| `Crash` | the process stops; what it had in flight may arrive or not |

Two reductions keep the state space small, and neither hides a behaviour.  A message the
handler ignores now it ignores for ever, so it is dropped without a step of its own.  A tally that
is complete and that no code reads again is overwritten (`Consumed`, `Summary`),
which leaves exactly what `findReturnValue` and `genProposalReply` can still read.

### RabiaLog and the code

| TLA+ | Go |
|---|---|
| `queue`, `discard`, `svrSeq` | `Consensus.Queue`, `Discard`, `SvrSeq` |
| `ClientRequest` | the `ClientRequest` case of `MsgHandler`, `QPush` |
| `GetRequest` | `getRequest`: discard, or next slot |
| `Decide` | `epilogue`, `putBackMyProposal`; the value by `Outcomes` |
| `LessThan`, `Heads` | `ProxySeqIdLessThan`, `heap.Pop` |

A slot's decision at a server follows its own proposal for it even when a Decision message
came first: `getRequest` pops a request before `wait` sees the notice.  The broadcasts of a proxy
reach each server in order (one FIFO link), but those of different proxies in any order.

### LedgerRing and the code

| TLA+ | Go |
|---|---|
| `Ledger[x]`, `lock[x]` | `Ledger[x]`, `Slot.Lock` |
| `ReadTerm`, `ReadTermAgain`, `LockAndReset`, `SetTerm` | `UpdateTermIfNecessary`, called by `getRequest` (panics on a bad term) and `binConMsgHandling` (drops the message) |
| `GetRequest`, `Propose` | `getRequest` before and after that call, `phase0Round1BeforeWait` |
| `DropNotice`, `DecideAlone`, `LearnDecision` | the cases of `wait`, the rounds after the first left out |
| `SaveDecision`, `SetIsDone` | the two writes of `epilogue` |
| `PutBackMyProposal` | the rest of `epilogue`, which looks at `MyProposal` and at the term again |
| `TakeMessage`, `HandleMessage` | `binConMsgHandling` before and after the term check |
| `PollTerm`, `PollIsDone`, `Execute` | the reads of `KVSExecutor`; `Execute` follows the pointer `CurrDec` |
| `PeerProceeds` | a peer's `Executor`, seen through its FIFO link |

A decision is named by its slot, so a wrong or empty one shows.  What the code trusts its timing
for is explicit: `Races` lists the timing issues that may occur, among them `"peerAhead"`, the documented race of consensus.go:61, and is empty in the passing
runs.  `TermReads` says whether the build loads `Term` for each of the two comparisons
of `UpdateTermIfNecessary`.

### ReplicatedStore, Client and the code

| TLA+ | Go |
|---|---|
| `SendRequest` | `sendOneRequest` and the client's connection |
| `ReceiveRequest`, `BatchTick`, `Submit` | the two cases of `CmdReceiver` |
| `DecideSlot`, `SlotDone` | the consensus layer |
| `SkipNull`, `ExecuteAndReply` | `KVSExecutor` |
| `OneByOne`, `OneByOneFixedKey`, `WritesFirst` | storage modes 0, 1, 2: `naiveExecuteCmd`, `redisExecuteCmd`, `RedisBatchExecuteCmd` |
| `RepliesTo` | the `Conns[cid] != nil` test of both reply functions |
| `Client!Arrive`, `TestEnds` | `startScheduler` |
| `Collect`, `CheckWindow`, `Send`, `CountSent` | the sender of `OpenLoopClient`, `sendOneRequest` |
| `AppendInPlace`, `CopyLog`, `PublishLog` | `append` to `CommandLog`: copy to a larger array, then assign |
| `CheckEntry`, `SetReceiveTime`, `SetDuration`, `CountReceived` | the statements of `processOneReply` |
| `Report` | `writeToLog` |

### Network and the code

| TLA+ | Go |
|---|---|
| `StartServer`, `DialNext`, `Accept` | `NetTCPInit` with its listener, one turn of `dialing`, of `accepting` |
| `out[s][r]` | `ProxyIn`, `ConExecutorIn`, `MsgHandlerIn` |
| `queue[s]["ToSerializer"]`, `["ToMsgHandler"]`, `["ToConExecutor"]` | the channels of these names |
| `queue[s][t]` | everything from `SendChan[t]` of `s` to `MsgRouter` of `t`, see `Dest` |
| `RouteOut`, `RouteIn`, `Unblock` | the cases of `MsgRouter` and its sends, which block |
| `MsgSerializer`, `served` | `MsgSerializer` and its loop over `SendChan` |
| `Ask`, `TakeReply` | `requestProposalAndWait` with its skip of older replies |
| `SendTo` to a crashed server | `SendHandler`, which ignores write errors |
| `Crash` | the process ends; the peers' `RecvHandler` returns on the error |

`queue[s][t]` has one bound for several buffers in a row, and each direction one for what is in the code a part of the shared
`RecvChan`: fewer places to wait in mean more blocking, so a deadlock of the code is not hidden.

### Benchmark and the code

| TLA+ | Go |
|---|---|
| `AcceptRegistration`, `StartClient`, `WaitReply`, `StopServer` | `connect`, `MsgToClients`, `waitClientReplies`, `MsgToServers` |
| `ServerInit`, `ServerMain` | `ServerInit`; `Prologue` and `ServerMain` of `RunServer` |
| `Signal`, `SignalServer`, `SignalClient` | `SigListen`, which stops listening after the first signal |
| `StopSelf` | the goroutine of `RunServer` that waits for the controller and sends SIGINT to itself |
| `RoutineReturns` | the `Done` cases of the routines, and the `range` loop of `MsgSerializer` |
| `CloseProxy`, `CloseNetwork`, `ServerExit` | the steps of `Epilogue` with their wait groups |
| `MsgToController` | the last message of `RunServer` and `RunClient`, which panic if it cannot be written |
| `AcceptClient`, `StartHandlers` | `ProxyTCP.connect`, up to `Conns[cid]` and after it |
| `ServerPanics` | the panic of `ProxyTCP.connect` on a first message it cannot read |
| `ReadRequest`, `HandlerReturns`, `TakeRequest` | `ProxyTCP.RecvHandler` and `CmdReceiver` |
| `Register`, `Connect`, `WaitController`, `SendRequest`, `TestEnds`, `Epilogue`, `Close` | `RunClient` |

`timely` is chosen once: in a timely behaviour the sleeps of the code are long enough (the 20 seconds in which a client waits for
requests in flight, the pause before a server stops itself, the ten seconds the controller stays for the servers' last messages), the clients send something, and nobody presses ctrl+c.

### Wire and the code

| TLA+ | Go |
|---|---|
| `MarshalMsg`, `MarshalObj`, `MarshalCommand` | the `Marshal` methods of message.pb.go: fields by number, zero values left out |
| `TakeVarint`, `TakeField` | the loops over bytes at the head of every field, `skipMessage` |
| `UnmarshalMsg`, ... | the `Unmarshal` methods; an error, here `<< >>`, if the bytes end inside a field |
| `BufWrite`, `LengthBytes` | `MarshalWriteFlush`, `WriteFlush` |
| `ReadLength`, `ReadBody` | the two `ReadFull` of `BufRead`; the second one's error is dropped |
| `RecvHandler`, `closed` | the `RecvHandler` of `NetTCP`, `ProxyTCP` and `ClientTCP`, and its return |
| `Break` | either process ends or closes the connection: any prefix of what was written has arrived |

## 3. Runs

`expect: pass` runs are exhaustive.  Times are for two workers.

| Run | Instance | Shows |
|---|---|---|
| `weakmvc5` | N=5, F=1, two objects, two phases | all safety properties, the inductive invariant, the implementation of `SlotDecision`; with three servers `MajorityPlusF` (3) exceeds the sample (2), five reach it (4 of 4), so fast and slow paths meet (207 thousand states, 2 min) |
| `engine3` | N=3, F=1, contended proposals, two phases | notices, queue bound, requests, round statistics; every interleaving implements `WeakMVC` (1 million states, 130 s) |
| `engine_fast_path` | N=3, F=0, three objects | `MajorityPlusF` = 2 of a sample of 3: the fast paths of rounds 1 |
| `engine_live` | N=3, one crash, two phases | the survivors decide, unless the crash took what they wait for, the Decision or the only answer to a request; without a crash all requests are answered (0.9 million states, 1.5 to 3 min) |
| `decision_lost` | N=3, one crash | the finding of section 6 |
| `log` | N=3, three objects of two proxies, four slots, one server that may stop | the log's invariants, the implementation of `TotalOrder`, every reliable server delivers everything, unless it is left waiting in a slot that the other took part in (486 thousand states, 80 s) |
| `ring` | two slot objects, four slots of the log, N=3, `Term` loaded once or twice | resets, late messages and unlocked readers under the timing the code trusts; no standstill before every slot is executed, unless the executor panics (5.3 million states, 2 min) |
| `store` | two proxies, three clients with four requests on one key, modes 0 and 2 | batching is exact, mode 0 is one key-value store, mode 2 has no stale read, every request is answered (272 thousand states, 2 min) |
| `client` | window 1, six request batches, `CommandLog` moved twice | window, log and counters |
| `network` | three servers, channels of two messages, one broadcast and two proposal requests, one crash | connection in any order, FIFO links, replies matched with requests, service of the servers that stay up (292 thousand states, 2 min) |
| `benchmark` | two servers, one client with one request, two signals | barriers, no send on a nil channel, exits (747 thousand states, 2 min) |
| `wire` | two messages of eight kinds, an end of the connection between any two bytes | framing and coding, what a broken connection passes on (6 thousand states, 2 s) |

Some definitions are in no run because others imply or replace them: the type invariants (`IndInv` contains that
of `WeakMVC`), `LockedValue`, `OneIsBacked` and `VotesAgree` (proved from `IndInv`), `NoObjectTwice` (proved, and part of what
`ImplementsTotalOrder` says).

What each property says is at its definition.  The less obvious ones:

* `LockedValue`: once `FaultyPlusOne` servers voted a bit, seen or not, the
  other bit never enters a later phase.
* `NoticesMatch`: the assertions "should not happen 1" to "4" of `wait` never fire,
  although messages of later rounds arrive before those of earlier ones.
* `DecisionNoticeKept`: while `wait` throws away notices because `HasRecvDec` is
  set, the Decision is still to come, and there is only one.
* `HandlerNotStuck`: the handler serves all slots; it may not block for good on the
  queue of a slot its executor has left.
* `MajorityStable`: the comment "the majority value is stable after notifying the
  Executor" — the tally read by the handler for a reply, and later by the executor, says the same.
* `DiscardExact`: `Discard` holds exactly the decided objects that have still to come
  off the queue: none is missed (proposed again), none stays (and swallows a request).
* `ContendsOnlyUnreceived`: a server never proposes a larger object in a slot where
  somebody proposed a smaller one it has received, so after all requests have arrived the
  slots are no longer contended.  This is why the log makes progress without a leader.
* `SurvivorsDecide` and `RequestAnswered` are about what happens in the end, and stated as invariants: no step of the engine leads back
  to a former state, so a fair behaviour ends where no routine can go further, and there `ENABLED` of the fair step is false.
* `NoStandstill`: when nothing is left to do but to poll, the log is at its end.  It holds for both builds, one with
  the panic as an excuse.
* `HandledIsTallied`: both routines reset a slot, and neither wipes out what the other has let in.
* `NoStaleRead`: storage mode 2 executes the writes of an object before its reads, as
  docs/run-rabia.md:224 warns; a read may then see a later write, but nothing older than the request.
* `PeersServed`: dialing and accepting side by side cannot wait for each other in a circle, and a crashed peer, whose
  connection swallows what the serialiser sends it, does not hold up the others.
* `ServersExit`: whoever closes `Done` and when, a server exits unless one of the two waits in `ExitBlocked` holds it:
  a request that `CmdReceiver` will not take, or a proposal reply.
* `NeverSendsOnNil`: `connect` stores `Conns[cid]` before `SendChan[cid]`, which looks wrong and is not: a reply
  needs a request, and requests are read after both.
* `ReceivedAsSent`: the fields of `Msg` are written in the order of their numbers, `Obj` last.  So a message that is cut
  short loses its `Obj` first, and cannot be counted as another proposal, state, vote or decision.

### Bounds

* *Servers.*  Three is the smallest cluster that tolerates a fault; five and F=0 are
  there for the thresholds that three with F=1 cannot reach.
* *Phases* (`LenBlockArray`).  Phase 0 differs from the others, and two phases let a value
  be adopted in one and voted on in the next.  The liveness run needs two as well: a server that decides 1 in
  phase 1 may be one whose tally of phase 0 had no majority, and a crash of the one that has it leaves the others without the proposal.
  Its properties say "unless a server runs out of phases".  The proofs hold for every number.
* *Reductions* of `engine_live` (`MCSlotEngine`).  `NotExcused` does not follow what the properties excuse for good, a panic or the crash of a server that
  had decided; `InwardFirst` lets steps go first that only the server itself can see and that commute with all others'; `LiveView` does not tell apart
  states that differ in what no step to come and neither property reads, such as the inside of a crashed server.  None of them hides an end that the
  properties do not excuse.  The other runs of the engine use none.
* *Objects.*  Two contend; `SplitHead` gives one server the first and the others the second, `OwnHead`
  also lets all three differ.
* *`QueueCap` = 3* stands for the real 10: the backlog of a server that waits in
  `requestProposalAndWait` is at most a state, a vote and a Decision.  With 2,
  `HandlerNotStuck` fails, so the bound is tight and 10 is safe.
* *`MCCoin`* is 1 in all phases, the first flips of the source seeded with 42.
* *`MaxSlot`* = 3: one slot more than there are objects, for a Null.  `AllDelivered` makes an exception of the behaviours with more Null slots (`NullsUseUpSlots`).
* *`LenLedger`* = 2, `MaxSeq` = 3: each slot object is reused once while the other one is
  in use, and a peer may be a whole ring late.
* *Store.*  One key: more keys are independent.  Batches of two requests of two commands: `c1` and
  `c2` fill a batch of their proxy and leave one request over, `c3`'s batch never fills.
  One Null slot is enough to be skipped at every place of the log.
* *Network.*  Channels of two messages fill up under the load of the run (a broadcast and two requests of one server), so that router and
  serialiser block; with one message real deadlocks appear (section 7).  The code has 500000.  A crash may come at any point once all are connected.
* *Benchmark.*  Two signals reach every pair of processes, or one process that was also stopped by the controller.  Without a client of its own
  the second server shows the exits that do not depend on clients, and it answers proposal requests.
* *Wire.*  The messages have zeros, numbers of one, two and three bytes, empty and repeated fields, and no field at all.  Two of them are
  one that is whole and one that may not be.  Larger numbers and lengths are assumptions that TLC evaluates (`LengthAssumption`, `VarintAssumption`).
* *Client.*  `Margin` (1000 in the code) is 1, and the capacity doubles, so that `append` moves the log at the
  second and the fourth request; in the code it does so after some hundred requests.

## 4. Fairness

* `SlotEngine!FairSpec`: every routine that can run does, and links deliver what a
  server that stays up has sent (Go's scheduler, TCP), `FairStep`.  Nothing is promised of a message
  whose sender crashed.  Every server gets a request to propose, since the proxies broadcast.
* `RabiaLog!FairSpec`: requests reach every reliable server, executors poll their
  queues, and a slot with enough proposals is decided, if only reliable servers take part in it.  That is what `engine_live`
  establishes for a slot without a crash, unless it runs out of phases, which is excluded as said below.  A slot in which a server took part that may stop is one where that server may have had the only
  Decision or the only tally with the majority (`MayBeLost`): no fairness is claimed for it, and `AllDelivered`
  makes an exception of the behaviours in which a reliable server waits in such a slot for ever.  A proxy that crashes in the middle of its broadcast is
  not covered by this run either: an object that a single survivor received then
  heads its queue for good, contends in every slot, and can waste them.
* `LedgerRing` needs none: `NoStandstill` says as an invariant that where all steps end, everything is done, and every step of it is progress.
* `Network!FairSpec` and `Benchmark!FairSpec` ask for a step as long as some routine can take one.  A step moves a message or a process
  forward and none can be undone, so a behaviour under them is one in which every routine that can run runs in the end, as under Go's
  scheduler.  Questions, crashes and signals need not happen.
* `Wire!Spec`: TCP delivers while the connection lasts, and the handler runs.  `HandlerRuns` is its weak fairness with `ENABLED` written out.
* `ReplicatedStore!FairSpec`: routines run, the batch clock ticks, and the consensus layer decides what was
  broadcast, which is what `AllDelivered` shows, with its exceptions.  `Client!FairSpec`: both routines run and the proxy answers.
* Running out of phases is excluded explicitly: the code panics.  With a common coin the
  probability falls by half in every phase; TLA+ has no probabilities.

## 5. Proofs

### Weak MVC

`WeakMVCProofs` proves, for every finite set of servers, every
`NFaulty` below half, every set of objects, every number of phases and every coin:

| Theorem | Property |
|---|---|
| `TypeCorrect`, `Invariance` | `TypeOK`, `IndInv` |
| `AgreementHolds` | `Agreement` |
| `LockedValueHolds`, `VotesAgreeHolds`, `OneIsBackedHolds` | the properties of the same names |
| `NullOnlyWhenContendedHolds` | `NullOnlyWhenContended` |
| `RefinesSlotDecision` | `WeakMVC!Spec` implements `SlotDecision!Spec` |

Assumptions: those of `Cluster` (a finite set of servers, `2 * NFaulty < N`, at least one phase,
a coin of bits, `None` and `Null` distinct from values).

*Why an inductive invariant.*  `Agreement` speaks of decisions and is not
inductive: the next decision depends on votes, they on states, they on votes of the phase before.  The idea of `IndInv` is that
a message once broadcast never changes, so the *sample* its sender acted on is still there to
be counted.  `Founded` says so for each vote (`VoteBasis`), state (`StateBasis`) and
decision (`DecisionBasis`); `StateTrace` says that a bit in some phase was a
state in every phase before; `Progress` ties `pc`, `phase` and `round` to what was
broadcast; `EnoughProposed` counts the proposals.

*The argument.*  `Commit(p, v)` is what a server that decides `v` in phase `p` has
seen, by either path.  Two majorities overlap (`Overlap`), so votes of a phase agree
(`VotesAgreeFollows`).  A sample misses at most `NFaulty` servers (`SampleMisses`),
so every sample of a committed phase shows `v` (`CommitInSample`), the next phase has
only `v` (`CommitNextPhase`), and `StateTrace` carries that to all later phases
(`CommitLocks`); hence no two commitments differ (`CommitsAgree`).  A bit 1 goes back
to a vote 1 of phase 0 because phase 0 falls back on 0, never on the coin
(`OneIsBackedFollows`).  Preservation has one lemma per action (`Phase0Round1Step`, ...),
which gives its effect and the basis of what it broadcasts, and one per part of
the invariant (`StepFounded`, ...), with `Grows` and the `...Stays` lemmas for what others
broadcast earlier.

### The slot engine

`SlotEngineProofs`, for every finite set of servers, every `NFaulty` below half, every set of objects, number of phases, coin, capacity of the
queues and number of crashes:

| Theorem | Property |
|---|---|
| `Invariance`, `TypeCorrect` | `EngineInv`, `TypeOK` |
| `RefinesWeakMVC` | `ImplementsWeakMVC` |
| `EngineAgreement` | `Agreement` of `WeakMVC` |
| `MajorityStableHolds`, `RequestAnswerableHolds`, `StatIndexInRangeHolds` | the properties of the same names |
| `OrderInvariant` | `OrderInv` |
| `NoticesMatchHolds`, `DecisionNoticeKeptHolds` | the properties of the same names |
| `HandlerNotStuckHolds`, for `QueueCap >= 3` | `HandlerNotStuck` |

*What is decided.*  `WeakMVC` lets a server act on any sample of the messages of its round; the engine acts on a tally that the handler fills.  `EngineInv` is `IndInv` of `WeakMVC`
under the refinement mapping, and what links the two: a message in a log, a notice and a reply tell of what a server broadcast (`SentSound`, `NoticesSound`, `RequestsSound`), and
a tally that the executor has yet to read is a *sample* of it, of `NMinusF` at most (`TalliesSound`).  So a complete tally is a sample that `WeakMVC` allows, and each
handler of a round is a step there (`Phase0Round1Simulated`, ...); asking for the proposal is a stutter, and the reply is the step that decides.
`WeakMVC` itself is not proved again: `Weak` is `WeakMVCProofs` with the engine's variables.

*The order of notices.*  Nothing sorts notices, and early messages are tallied for any phase; that `wait()` gets what it waits for is due to the links.  A server
broadcasts its rounds in order (`SentInOrder`) and a link keeps that, so a handler has dealt with a sender's message of one round before that of the next (`TalliedInOrder`), and
a round is complete only after the one before it (`OrderComplete`).  Hence the notices in a queue are of consecutive rounds from the one the executor waits
for (`QueuesInOrder`).  `DecisionsOnce` follows the one Decision from the handler through the queue until `HasRecvDec` lets `wait()` discard the rest.

*Room in the queue.*  An executor that asks for the proposal empties its queue no more, while its handler goes on pushing; what it still holds when the slot is over must fit.
A server asks once it has seen that the value 1 is decided.  From then on all others vote 1, at once or one phase later, by the lemmas of `WeakMVCProofs` (`StatesForceVotes`, `CommitNextPhase`).
After a phase of equal votes nobody enters the next one: whoever did would have seen a sample with each bit voted `NFaulty` times at most (`Undecided`).
So at most two more rounds complete (`RoundsAfterAsking`), each has one notice (`RequestsInOrder`), and there is one Decision: three notices, of which the handler holds one.
TLC finds `HandlerNotStuck` violated with `QueueCap = 2`; the code allocates ten (ledger.go:114).

### The log

`RabiaLogProofs`, for every set of servers, every `NFaulty` below half, every number of proxies, objects and slots:

| Theorem | Property |
|---|---|
| `Invariance` | `IInv` |
| `DiscardExactHolds`, `NothingLostHolds`, `ContendsOnlyUnreceivedHolds` | the properties of the same names |
| `NoObjectTwiceHolds` | no object is decided in two slots, by any two servers |
| `RefinesTotalOrder` | `ImplementsTotalOrder` |

`DiscardExact` depends on `NoObjectTwice`: an object decided twice would be marked in the dictionary after its only copy has left the queue,
and a mark that stays is one too many.  `NoObjectTwice` depends on `ProposedFresh`, a server proposes nothing it has decided, since what is decided
was proposed by somebody (`DecidedProposed`) who had decided all earlier slots (`InOrder`), the same as everybody (`SameDecision`).  And `ProposedFresh` depends
on `DiscardExact`, which makes `getRequest` skip what is decided.  So these are one invariant.  `PendingArrived` adds that the object in hand is neither
pending nor decided.  That servers decide the same in a slot is `SlotDecision`, which is what `WeakMVCProofs` proves of the algorithm.

*Total order.*  What a server has delivered is its decisions without the `Null`s.  The model defines that sequence by counting: the i-th object is that of the slot up to which i objects
are decided (`SlotOf`), since the recursion in a filter is out of the prover's reach.  `Numbered` says that the count is sound: every place of the sequence has its slot.  A step of `Decide`
either leaves the sequence alone (`SameDelivered`) or appends the object (`AppendDelivered`), and a server that is behind appends what the others have at that place, since they agree on all slots up to this one (`NextDelivered`).
The order among the objects of one proxy is not in `IInv`: `ProposedInTurn` says that an object is proposed only by a server that has decided those before it.

### The ledger ring

`LedgerRingProofs`, for every number of servers, every `NFaulty` below half, every length of the ledger and number of slots:

| Theorem | Property | Timing issues |
|---|---|---|
| `Invariance`, `TypeCorrect` | `RingInv`, `TypeOK` | all but `"peerAhead"` |
| `NeverPanicsHolds`, `HandledIsTalliedHolds` | the properties of the same names | all but `"peerAhead"` |
| `TalliesOwnSlotHolds` | `TalliesOwnSlot` | all but `"peerAhead"` and `"lateMessage"` |
| `ExecutesDecisionsHolds` | `ExecutesDecisions` | all but `"peerAhead"` and `"proxy"` |

The hypotheses on `Races` are what the code trusts its timing for; section 7 shows that each is needed.

An object knows its term only; the slot it stands for is `Serves(x)`, term times length plus position.  `Bounds` says that every object stands for the last
of its slots that was concluded or for the next one, and that no peer is a whole ledger ahead, which is the hypothesis: nothing in the code holds `NMinusF` other servers back.
`MessagesSent` takes it to the messages on the way.
Two slots of one object are a whole ledger apart (`Distance`), so of the two comparisons of `UpdateTermIfNecessary` one always holds: that
is `NeverPanics`, with `ObjectAtHand` for what the executor has found out before it reaches a later statement.  `Locks` and `DoneIsConcluded` say that an object
whose term moves is undecided: the reset of one routine never wipes out what the other has put there for the new term.  `HandledCounts` is the
inductive form of `HandledIsTallied`, which follows from it; `FewNotices` bounds the notices of an object by two, so that the push of the handler, an append in the model, never finds the channel full.
`HandlerInTerm` and `ProxyInTime` carry the last two theorems: without a late message the handler counts in the term it has checked, and without a proxy that is a
ledger behind, the three unlocked reads of `KVSExecutor` are of one slot.

### The store

`ReplicatedStoreProofs`, for every set of servers and clients, all requests, batch sizes, storage modes and numbers of Null slots:

| Theorem | Property |
|---|---|
| `TypeCorrect` | `TypeOK` |
| `BatchesKept` | `BatchesKeepRequests` |
| `OneStore` | `ImplementsKVService` |
| `NeverStale` | `NoStaleRead` |

*What the operators compute.*  The store after a sequence of commands (`After`), the requests of one client in a sequence (`Of`, over `PlacesOf`) and the commands of a sequence of requests (`Flatten`)
are recursive functions on sequences.  The prover has no induction on data, but it has the well-foundedness of the natural numbers: a set that has 0 and with each number the next one has them all (`SetInduction`), since
there is no least number outside it.  From that follows that such a function is defined (`AfterAppend`, `PlacesAppend`, `FlattenSeqAppend`: what it is for one element more), and from these what it does to concatenations
(`AfterConcat`, `OfConcat`, `FlattenConcat`), which is how the code uses it.  The folds and `SelectSeq` of the libraries hide their recursion from the prover, hence the model's own functions.

*Batches.*  `KeepInv` says of every client that the requests its proxy has put into objects, followed by those in the batch under construction, are the first ones it sent, in order.  It is inductive with `ProxyInv` only (an object
has requests of clients of its proxy, and the number of its place).  `LogInv` takes it to the log: of each proxy the log has the first k objects, each once, and so of each client the first n requests (`UpTo`, `HistoryInOrder`).
That the log has them in this order is what `TotalOrder` promises.

*The store and the replies.*  `StoreInv` says that a server's store is what the requests of the slots it has executed make of the empty store, however batches and Null slots cut them up.  In mode 0, which executes command by command, the
replies of a client are what one store would have answered when its requests were executed in the order of the log (`Answers`).  In mode 2, which writes a whole object before it reads, what a read
returns is a value its key had at the place of the read in the history or later (`Fresh`); a reply stays fresh as the history grows (`FreshGrows`).  Mode 1 reads another key (section 7), and nothing is claimed of it.
`NoStaleRead` and `KVService` find a request by its place in the history, which is sound since it has one place only (`OnePlace`), by the order above.

*One store.*  Deciding an object is where its requests take effect in `KVService`, one step for all of a batch (`TakeEffect`, by `ServiceDecide`); executing it is where they are answered (`Answer`, by `ServiceAnswer`), by the proxy
of their client only.  Receiving, batching, Null slots and the execution at other servers are no steps of `KVService`.

### The network

`NetworkProofs`, for every number of servers, load, length of channels and number of crashes:

| Theorem | Property |
|---|---|
| `Invariance` | `IInv` |
| `AnswersMatchHolds` | `AnswersMatch` |
| `RefinesFifoLinks` | `ImplementsFifoLinks` |

`AnswersMatch` is about one executor; its invariant is about every message on the way.  `Sound` bounds the slot of a request, and of a reply, by the slot
its executor has come to, so no reply is for a later slot; the skip of older ones leaves those that match.  `Fitting` says which channels a reply may be
in: those on the way to its addressee.  Without it a reply might reach an executor that has not come so far.

*The links.*  A message carries its number on its link.  `Carries(P, c, x, y)` says that the messages of the link P which channel c holds are those numbered x + 1 to y, in order, whatever
else lies between them.  `LinkHolds` chains the channels of a link with it, from the receiver's end, where the next number is that of `handled` plus one, over the connection and the
serializer's channel to the sender's own, which ends with the number `issued`.  Two places need care.  A message the router is blocked with counts as the last one of its channel (`Channel`), and the serializer may send to
the same peer past it: that is no reordering of a link, since only replies wait on the way to a server and the serializer carries none (`LinkOvertakes`).  And the head of the serializer's
channel is behind for some peers and still to come for others (`Served`, `Unserved`, `ServedInTurn`).  A crash leaves a prefix of what was on the connections, so a link from a crashed server ends early but has no gap
(`CarriesSome`, `LinkCrashes`).  Then the head of a receiver's channel has the next number of its link (`TakenInTurn`), and taking it is a step of `FifoLinks`.

### The client

`ClientProofs`, for every window, batch size, capacity and number of arrivals: `WindowBoundHolds` (`WindowBound`) and `SentIsLoggedHolds` (`SentIsLogged`).
The counters are multiples of the batch size (`Counted`), each taken at its moment, so that `RoomInWindow` can speak of requests: the receiver only makes room.
While `append` moves the log there are two arrays, and both mark exactly the requests sent (`LogsSent`, `Growing`), since the receiver writes other words of an entry.

### The benchmark

`BenchmarkProofs`, for every set of servers and clients: `BarriersHold` (`Barriers`) and `NeverSendsOnNilHolds` (`NeverSendsOnNil`).  `Admitted` ties what the
controller has registered to the processes (a registered process is ready and stays so), `Ended` ties its turn to the clients that have exited, and `Handlers` follows a request
from the channels of its client through `RecvHandler` to `CmdReceiver`.

### Assumptions and what is only model-checked

The proofs use the named assumptions of the modules, which TLC evaluates for every instance: besides those of `Cluster`, that servers, clients and the names of channels are
different (`ProcessAssumption`, `ChannelAssumption`), that `Peers` lists each server once (`PeersAssumption`), that `None` is no message (`NoneAssumption`), that
`Null` is no object (`NullAssumption`), that every client has a proxy and its requests are sequences of commands (`ProxyAssumption`, `RequestsAssumption`), that `Missing` is no value (`MissingAssumption`), and that sizes and bounds are natural numbers.

Only model-checked are `SurvivorsDecide` and `NoStandstill` (they say `ENABLED`), `RequestAnswered`, `ReceivedAsSent` of `Wire`, and liveness: the prover has no rules for fairness and `ENABLED`.  `ReceivedAsSent` is within reach in principle, but
needs what each of the decoders makes of each way to cut what the encoders write; that proof would be many times the size of the model, and it says nothing of the protocol.  No module uses `RECURSIVE` operators.

## 6. Finding

It is a disagreement with what a comment says, and a run shows it.

* **A decision can be lost** (run `decision_lost`).  A server that decides broadcasts a Decision
  and takes part in the slot no further; a server that learns from a Decision does not pass it
  on (executor.go:201).  If the first crashes after reaching one peer, that peer goes on to
  the next slot, and the third waits for ever in this one.  ledger.go:36 promises
  that all servers agree on the same sequence "eventually".

## 7. Known counterexamples outside the runs

The modules also state what comments of the code promise and the code does not keep.  These
properties are in no run; the instance named with each gives TLC's counterexample.

* **A proposal request can go unanswered** (`RequestEnds`; `SlotEngineLive.cfg` without symmetry and reductions, with `FairSpec`, or `SurvivorsDecide` without `AnswerLost`).  A server that decides 1
  without a majority in its tally asks its peers and then listens to the reply only
  (executor.go:355).  Peers whose tally has no majority stay silent
  (msgHandler.go:54); when the one that has it crashes, the wait never ends.  In two phases the crashed server need not have decided: it alone saw the majority in phase 0, and the
  two others, who took over its state, decide 1 in phase 1 and ask each other.
* **The documented race of the epilogue** (`NeverPanics`; `LedgerRing.cfg` with `Races = {"peerAhead"}`).  consensus.go:61: when `NMinusF` other servers are a ring ahead, the handler
  resets the slot that the executor works on.  The executor then panics at its next look at the term, or, before the handler has set the new term, puts back the empty
  proposal of the reset slot; if it was waiting on the former `Slot.Queue` (ledger.go:114 makes a new one), it gets no further notice there.
* **More than two races at the wrap of the ring.**  consensus.go:59 documents two.  A third: the executor resets
  a slot while the handler, past its term check, counts a late Proposal for it (`TalliesOwnSlot`; `LedgerRing.cfg` with `Races = {"lateMessage"}`).
  A fourth: nothing holds the consensus layer back when `KVSExecutor` is `LenLedger` slots behind;
  it then waits for a term that is gone, without an error (`KeptUntilExecuted`; `Races = {"proxy"}`).
* **Two loads of `Term`** (`NeverPanics` without its premise `TermReads = 1`; `LedgerRing.cfg`).  The two comparisons of `UpdateTermIfNecessary` are
  unlocked; if the handler moves the slot on between them, the executor reaches "should not happen"
  and the handler drops a message of the current term.  This one depends on the build, since a
  compiler may merge the loads, but not on the length of the ring.
* **Reads of "key2"** (`NoStaleRead` without its premise; `Store.cfg` with `StorageModes = {1}`).  In storage mode 1 every read asks Redis for the constant `"key2"`
  (redis.go:48) in place of its own key.
* **Lost replies in the client's log** (`NoResponseMeansNone`; `Client.cfg`).  `append` moves `CommandLog` while the receiver writes to
  it: a request that was answered is reported as "no response".
* **An empty report** (`EpilogueCompletes`; `Client.cfg`).  With no request sent, `writeToLog` divides by zero and
  `Epilogue` does not get to close the connection.
* **Servers that block each other** (`PeersServed`; `Network.cfg` with `LenChannel` = 1).  `MsgRouter` waits for `ToSerializer`, the serialiser for a peer's connection, and the
  peer's router, which would drain it, for its own `ToSerializer`: two servers that broadcast five requests each stop for ever.  So does a server whose
  `ToConExecutor` is full of late replies when its executor asks no more (every question brings up to N - 1 replies and takes one).  Either needs
  `LenChannel` messages on the way, 500000 in the code.  A peer that hangs without crashing has the same effect on the serialiser of all others.
* **A client that was signalled** (`OrderlyExit` without `timely`; `Benchmark.cfg`).  `SigListen` closes `Done`, no routine of the client listens to it, and `Epilogue` closes it once more: a
  panic before the log is written.  The controller then panics on the broken connection, and with it every server that waits for its message.
* **Servers that stay** (`ServersExit` without either disjunct of `ExitBlocked`; `Benchmark.cfg`).  A `RecvHandler` that has read a request blocks on it for ever once
  `CmdReceiver` has returned, and `Epilogue` waits for the handler.  An executor that awaits a proposal reply when the peers' routers have ended does not see `Done`.
  `SigListen` has stopped listening by then, so a second ctrl+c ends such a server.
* **Partial messages** (`NoPartialMessage`; `Wire.cfg`).  message.go:69 says that the length bytes avoid "the possibility of reading a partial message".  `BufRead` drops the error of its
  second read (message.go:161), so what has arrived of a message when its connection ends is unmarshalled, and if it ends between two fields it
  is passed on.  A peer's message then has no `Obj`, which `MsgHandler` dereferences (msgHandler.go:39, 71): it panics, so that one
  crash can take other servers with it.  A client's has fewer commands than `ClientBatchSize`, which shifts the commands of the requests after it in the batch
  or ends `KVSExecutor` with an index out of range.

Not a finding: storage mode 2 moves the writes of an object before its reads, but
docs/run-rabia.md:224 says so.

## 8. Not modelled

* Proposal requests across terms: `SlotEngine` has them for one slot of one term, `LedgerRing` leaves them out
  (consensus.go:65 documents their race with a reset).
* Stores seen out of order by another routine: `SaveDecision` and `SetIsDone` take effect in program
  order, as on amd64.
* The moments inside the last step of a slot: `SlotEngine!Conclude` sends the Decision, counts the round and does the epilogue at once (executor.go:233).  The sends may block on a full channel,
  which is `Network`'s matter, and nothing else reads what lies between.
* A crash while the servers still connect to each other: `Connect` returns an error to nobody and the others wait, so the cluster does not start.
* What a partial message does to a server (section 7).  `SlotEngine` and `Network` lose whole messages in a crash.
* The in-place sort of `RecvProposals`, which executor and handler may do at the same time (ledger.go:158).  `SlotEngine` reads a tally in one step.
  With N = 2F + 1 a complete tally that has a majority has one entry, and there is nothing to sort; with more servers two sorts would have to
  meet within nanoseconds, and a tally that is sorted is not moved again.
* Messages larger than the buffer they are read into: `BufRead` panics.  The buffers have 16 MB between servers, 400 KB to and from clients.
* A controller or client that sends something else than this code does.
* Logs, statistics other than the array index, values of environment variables: input and output without protocol state.
* The repository's Ivy and Coq proofs: models of the paper's algorithm, not code that runs.

## 9. Plan

Done: every component that keeps protocol state has its module, and the agreement, the log, the network, the client, the benchmark, the ledger ring, the slot engine and the
store have proofs, among them the whole stack of implementations of section 2.  Next, in this order:

1. Proposal requests over several slots of one ring, that is the documented race of consensus.go:65, as an extension of `LedgerRing`.
2. The in-place sort, word by word.
3. Proofs about `Wire`: that the decoders invert the encoders, then `ReceivedAsSent` for connections that last.
