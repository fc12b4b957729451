----------------------------- MODULE KVService -----------------------------
(***************************************************************************)
(* What the whole system promises to its clients: one key-value store that *)
(* executes requests one at a time.  A request takes effect once, between  *)
(* the moment its client sends it and the reply; the requests of a client  *)
(* take effect, and are answered, in the order they are sent.              *)
(***************************************************************************)
EXTENDS KeyValue

VARIABLES
    sent,       \* sent[c]: how many requests c has sent
    history,    \* the requests that took effect, in order
    replies     \* replies[c]: the replies to c, in order

vars == <<sent, history, replies>>

Init ==
    /\ sent = [c \in Client |-> 0]
    /\ history = << >>
    /\ replies = [c \in Client |-> << >>]

Send(c) ==
    /\ sent' = [sent EXCEPT ![c] = @ + 1]
    /\ UNCHANGED <<history, replies>>

(* Some requests take effect, in an order that respects each client's.       *)
TakeEffect ==
    /\ IsStrictPrefix(history, history')
    /\ \A c \in Client :
          LET n == Len(Of(c, history')) IN
          n <= sent[c] /\ Of(c, history') = [i \in 1 .. n |-> Request(c, i - 1)]
    /\ UNCHANGED <<sent, replies>>

(* The result of the request at place i of the history.                      *)
ResultAt(i) == Results(After(Empty, Flatten(SubSeq(history, 1, i - 1))), CommandsOf(history[i]))
RightReplies(c) ==
    [i \in 1 .. Len(Of(c, history)) |->
        LET at == CHOOSE j \in DOMAIN history : history[j] = Request(c, i - 1)
        IN  [seq |-> i - 1, results |-> ResultAt(at)]]

Answer ==
    /\ \A c \in Client :
          IsPrefix(replies[c], replies'[c]) /\ IsPrefix(replies'[c], RightReplies(c))
    /\ UNCHANGED <<sent, history>>

Next == TakeEffect \/ Answer \/ \E c \in Client : Send(c)

Spec == Init /\ [][Next]_vars
=============================================================================
