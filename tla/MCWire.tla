------------------------------- MODULE MCWire -------------------------------
(* Messages of every kind, with fields that are zero, at the limit of one  *)
(* byte and above it.                                                      *)
EXTENDS Wire

Object(proId, proSeq, svrSeq, isNull) ==
    [ProId |-> proId, ProSeq |-> proSeq, SvrSeq |-> svrSeq, IsNull |-> isNull,
     CliIds |-> << >>, CliSeqs |-> << >>, Commands |-> << >>]

Batch == [Object(1, 0, 0, 0) EXCEPT !.CliIds = <<0, 1>>, !.CliSeqs = <<127, 128>>,
                                    !.Commands = << <<48, 7>>, << >> >>]

Msg(type, phase, value, obj) == [Type |-> type, Phase |-> phase, Value |-> value, Obj |-> obj]

SamplePeers ==
    {Msg(0, 0, 0, <<Batch>>),                     \* ClientRequest
     Msg(0, 0, 0, <<Object(0, 0, 0, 0)>>),        \* an object of zeros
     Msg(3, 1, 2, <<Object(0, 0, 300, 0)>>),      \* Vote, for slot 300
     Msg(4, 2, 127, << >>),                       \* ProposalRequest
     Msg(6, 0, 0, <<Object(1, 128, 0, 1)>>)}      \* Decision, null, slot 0

Command(cliId, cliSeq, svrSeq, commands) ==
    [CliId |-> cliId, CliSeq |-> cliSeq, SvrSeq |-> svrSeq, Commands |-> commands]

SampleClients ==
    {Command(0, 0, 0, << >>),                             \* the controller's start
     Command(2, 16384, 0, << <<48, 1>>, <<49, 1>> >>),    \* a request
     Command(0, 1, 128, << << >>, <<200>> >>)}            \* a reply

\* The samples are short: longer lengths and larger numbers decode as well.
ASSUME LengthAssumption ==
    \A n \in {0, 255, 256, 65535, 65536, 4096 * 4000} : LengthOf(LengthBytes(n)) = n
ASSUME VarintAssumption ==
    \A n \in {0, 127, 128, 16383, 16384, 2097152, 2147483647} :
        TakeVarint(Varint(n) \o <<0>>) = <<n, <<0>> >>
=============================================================================
