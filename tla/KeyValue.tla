------------------------------ MODULE KeyValue ------------------------------
(***************************************************************************)
(* Commands on the key-value store and what a sequence of them does, and   *)
(* the requests the clients of a run make.                                 *)
(***************************************************************************)
EXTENDS Integers, Sequences, SequencesExt

CONSTANTS
    Client,     \* the clients
    Requests,   \* Requests[c]: the requests of c in order, each a sequence
                \* of ClientBatchSize commands
    Key, Value,
    Missing     \* what a read of an absent key returns

Command == [op : {"read", "write"}, key : Key, val : Value]
ASSUME RequestsAssumption == Requests \in [Client -> Seq(Seq(Command))]
ASSUME MissingAssumption  == Missing \notin Value

(* A request is named by its client and its CliSeq, which counts from 0.     *)
Request(c, n) == [cli |-> c, seq |-> n]
CommandsOf(r) == Requests[r.cli][r.seq + 1]

Empty == [k \in Key |-> Missing]
Write(kv, cmd) == IF cmd.op = "write" THEN [kv EXCEPT ![cmd.key] = cmd.val] ELSE kv
After(kv, cmds) ==
    LET kvs[n \in 0 .. Len(cmds)] ==
            IF n = 0 THEN kv ELSE Write(kvs[n - 1], cmds[n])
    IN  kvs[Len(cmds)]

(* The results of commands executed one after the other on kv.               *)
Results(kv, cmds) ==
    [j \in DOMAIN cmds |->
        IF cmds[j].op = "write" THEN "ok"
        ELSE After(kv, SubSeq(cmds, 1, j - 1))[cmds[j].key]]

(* The places of the requests of client c in reqs, and those requests.        *)
AddPlace(at, c, r, n) == IF r.cli = c THEN Append(at, n) ELSE at
PlacesOf(c, reqs) ==
    LET at[n \in 0 .. Len(reqs)] ==
            IF n = 0 THEN << >> ELSE AddPlace(at[n - 1], c, reqs[n], n)
    IN  at[Len(reqs)]
Of(c, reqs) == [i \in DOMAIN PlacesOf(c, reqs) |-> reqs[PlacesOf(c, reqs)[i]]]

(* All commands of a sequence of requests.                                   *)
Flatten(reqs) == FlattenSeq([i \in DOMAIN reqs |-> CommandsOf(reqs[i])])
=============================================================================
