-------------------------------- MODULE Wire --------------------------------
(***************************************************************************)
(* One TCP connection, from a process that sends messages to one that      *)
(* receives them: the protobuf coding of a message, the four bytes with    *)
(* its length before it, and what the receiver makes of a connection that  *)
(* ends while a message is on its way.                                     *)
(*                                                                         *)
(* Two servers exchange Msg, a client and its proxy Command.  A message is *)
(* a record with a number or a sequence per field; Obj is a sequence of at *)
(* most one object, empty for nil, and a command a sequence of bytes.      *)
(* Both ends run the same code: a field always has the wire type that its  *)
(* number stands for.  An operator named <operator>_<Slip> is a mutated    *)
(* form of <operator>, which no definition uses.                           *)
(***************************************************************************)
EXTENDS Integers, SequencesExt

CONSTANTS
    Peers,     \* the Msg that may be sent between servers
    Clients,   \* the Command that may be sent between a client and a proxy
    MaxSent    \* bound on the messages sent over the connection

VARIABLES
    link,      \* "Msg" or "Command", the type the receiver expects
    sent,      \* the messages the sender flushed
    outgoing,  \* bytes in the sender's socket
    arrived,   \* bytes that reached the receiver and that it has not read
    broken,    \* the connection has ended: nothing more arrives
    awaited,   \* << >> while BufRead waits for a length, <<n>> for n bytes
    received,  \* the messages the receive handler passed on
    closed     \* the receive handler has returned

vars == <<link, sent, outgoing, arrived, broken, awaited, received, closed>>

-----------------------------------------------------------------------------
(* The messages: the fields of a type, each with its position as number.   *)

ObjFields == <<"ProId", "ProSeq", "SvrSeq", "IsNull", "CliIds", "CliSeqs", "Commands">>
MsgFields == <<"Type", "Phase", "Value", "Obj">>
CommandFields == <<"CliId", "CliSeq", "SvrSeq", "Commands">>

Packed == {"CliIds", "CliSeqs"}
Chunked == {"Commands", "Obj"}       \* each element is a field of its own
Repeated == Packed \cup Chunked
Zero(f) == IF f \in Repeated THEN << >> ELSE 0

-----------------------------------------------------------------------------
(* Marshal: the fields by number, those with a zero value left out.        *)

EncodeVarint[n \in Nat] ==
    IF n < 128 THEN <<n>> ELSE <<128 + (n % 128)>> \o EncodeVarint[n \div 128]

Varint(n) == EncodeVarint[n]
Chunk(data) == Varint(Len(data)) \o data
Map(Op(_), seq) == [k \in DOMAIN seq |-> Op(seq[k])]

\* A field is its number and wire type, 0 for a number and 2 for a chunk of
\* bytes, and then its value.
MarshalField(f, number, v) ==
    LET Key(type) == <<8 * number + type>>
        Element(bytes) == Key(2) \o Chunk(bytes)
    IN  CASE v = Zero(f)   -> << >>
          [] f \in Packed  -> Element(FlattenSeq(Map(Varint, v)))
          [] f \in Chunked -> FlattenSeq(Map(Element, v))
          [] OTHER         -> Key(0) \o Varint(v)

MarshalFields(fields, m) ==
    FlattenSeq([k \in DOMAIN fields |-> MarshalField(fields[k], k, m[fields[k]])])

MarshalCommand(m) == MarshalFields(CommandFields, m)
MarshalObj(m) == MarshalFields(ObjFields, m)
WithBytes(m) == [m EXCEPT !.Obj = Map(MarshalObj, @)]
MarshalMsg_ObjFirst(m) ==
    MarshalField("Obj", 4, WithBytes(m).Obj) \o MarshalFields(Front(MsgFields), m)
MarshalMsg(m) == MarshalFields(MsgFields, WithBytes(m))

-----------------------------------------------------------------------------
(* Unmarshal: << >> is an error, a sequence of one the message.            *)

\* The number at the head of the bytes, and the bytes after it.
TakeVarint(data) ==
    LET Low(byte, high) == (byte % 128) + 128 * high
        Split(last) == <<FoldRight(Low, SubSeq(data, 1, last), 0),
                         SubSeq(data, last + 1, Len(data))>>
    IN  IF \A k \in DOMAIN data : data[k] >= 128 THEN << >>
        ELSE Split(SelectInSeq(data, LAMBDA byte : byte < 128))

Numbers[data \in Seq(Nat)] ==
    LET AndMore(taken) == <<taken[1]>> \o Numbers[taken[2]]
    IN  IF data = << >> THEN << >> ELSE AndMore(TakeVarint(data))

\* The field at the head of the bytes: its number, its value, a number or the
\* bytes of a chunk, and the bytes after it.  It is an error that the bytes end
\* in the middle of it.
TakeField(data) ==
    LET Value(number, type, head) ==
            CASE head = << >>           -> << >>
              [] type = 0               -> <<number>> \o head
              [] head[1] > Len(head[2]) -> << >>
              [] OTHER -> <<number, SubSeq(head[2], 1, head[1]),
                            SubSeq(head[2], head[1] + 1, Len(head[2]))>>
        After(key) == IF key = << >> THEN << >>
                      ELSE Value(key[1] \div 8, key[1] % 8, TakeVarint(key[2]))
    IN  After(TakeVarint(data))

TakeFields[data \in Seq(Nat)] ==
    LET AndMore(field) ==
            <<field>> \o IF field = << >> THEN << >> ELSE TakeFields[field[3]]
    IN  IF data = << >> THEN << >> ELSE AndMore(TakeField(data))

\* Each field has the last of its values, or all of them if it is repeated; a
\* number no field has is passed over (skipMessage).
UnmarshalFields(fields, data) ==
    LET Unpack(bytes) == Numbers[bytes]
        Value(f, values) ==
            CASE f \in Packed   -> FlattenSeq(Map(Unpack, values))
              [] f \in Chunked  -> values
              [] values = << >> -> 0
              [] OTHER          -> Last(values)
        ValuesOf(number, taken) ==
            Map(LAMBDA x : x[2], SelectSeq(taken, LAMBDA x : x[1] = number))
        Read(taken) ==
            IF << >> \in ToSet(taken) THEN << >>
            ELSE <<[f \in ToSet(fields) |->
                        LET number == CHOOSE k \in DOMAIN fields : fields[k] = f
                        IN  Value(f, ValuesOf(number, taken))]>>
    IN  Read(TakeFields[data])

UnmarshalCommand(data) == UnmarshalFields(CommandFields, data)
UnmarshalObj(data) == UnmarshalFields(ObjFields, data)
UnmarshalMsg(data) ==
    LET Complete(taken, objs) == IF taken = << >> \/ << >> \in ToSet(objs) THEN << >>
                                 ELSE <<[taken[1] EXCEPT !.Obj = FlattenSeq(objs)]>>
        Objects(taken) == Complete(taken, Map(UnmarshalObj, taken[1].Obj))
    IN  Objects(UnmarshalFields(MsgFields, data))

-----------------------------------------------------------------------------
(* The connection.                                                         *)

Message == IF link = "Msg" THEN Peers ELSE Clients
Fields == IF link = "Msg" THEN MsgFields ELSE CommandFields
Marshal(m) == IF link = "Msg" THEN MarshalMsg(m) ELSE MarshalCommand(m)
Unmarshal_EmptyIsEnd(data) ==
    CASE data = << >> -> << >>
      [] link = "Msg" -> UnmarshalMsg(data)
      [] OTHER        -> UnmarshalCommand(data)
Unmarshal(data) == IF link = "Msg" THEN UnmarshalMsg(data) ELSE UnmarshalCommand(data)

\* PutUint32 and Uint32, little endian.
LengthBytes(n) == [k \in 1 .. 4 |-> (n \div 256 ^ (k - 1)) % 256]
LengthOf(bytes) == FoldRight(LAMBDA byte, high : byte + 256 * high, bytes, 0)

Init ==
    /\ link \in {"Msg", "Command"}
    /\ sent = << >> /\ outgoing = << >> /\ arrived = << >> /\ received = << >>
    /\ awaited = << >>
    /\ broken = FALSE /\ closed = FALSE

\* MarshalWriteFlush, and WriteFlush of a message that MsgRouter or MsgSerializer
\* marshalled: BufWrite, then Flush into the socket.
BufWrite(m) ==
    /\ ~broken /\ Len(sent) < MaxSent
    /\ sent' = Append(sent, m)
    /\ outgoing' = outgoing \o LengthBytes(Len(Marshal(m))) \o Marshal(m)
    /\ UNCHANGED <<link, arrived, broken, awaited, received, closed>>

\* TCP carries bytes in order, in pieces of any size.
Transmit ==
    /\ outgoing # << >>
    /\ arrived' = Append(arrived, Head(outgoing))
    /\ outgoing' = Tail(outgoing)
    /\ UNCHANGED <<link, sent, broken, awaited, received, closed>>

\* The connection ends, because the sender fails or either side closes it: what
\* has not arrived is lost.
Break ==
    /\ ~broken
    /\ broken' = TRUE /\ outgoing' = << >>
    /\ UNCHANGED <<link, sent, arrived, awaited, received, closed>>

\* ReadFull, of a length or of a message: it returns with all the bytes it asks
\* for, or with fewer and an error.
Wanted == IF awaited = << >> THEN 4 ELSE awaited[1]
Whole == Len(arrived) >= Wanted
CanRead == ~closed /\ (Whole \/ broken)

\* BufRead, the first ReadFull: the handler returns when it fails.
ReadLength ==
    /\ CanRead /\ awaited = << >>
    /\ IF Whole THEN /\ awaited' = <<LengthOf(SubSeq(arrived, 1, 4))>>
                     /\ arrived' = SubSeq(arrived, 5, Len(arrived))
                     /\ closed' = FALSE
                ELSE closed' = TRUE /\ UNCHANGED <<arrived, awaited>>
    /\ UNCHANGED <<link, sent, outgoing, broken, received>>

\* BufRead, the second ReadFull: when the connection ends first it returns the
\* bytes there are, and its error is dropped.  RecvHandler passes on what
\* Unmarshal returns without an error, and returns upon an error.
ReadBody ==
    LET n3 == IF Whole THEN Wanted ELSE Len(arrived)
        message == Unmarshal(SubSeq(arrived, 1, n3))
    IN  /\ CanRead /\ awaited # << >>
        /\ arrived' = SubSeq(arrived, n3 + 1, Len(arrived))
        /\ awaited' = << >>
        /\ received' = received \o message
        /\ closed' = (message = << >>)
        /\ UNCHANGED <<link, sent, outgoing, broken>>

RecvHandler == ReadLength \/ ReadBody
Write == \E m \in Message : BufWrite(m)
Next == Write \/ Transmit \/ Break \/ RecvHandler

\* Weak fairness of RecvHandler, with ENABLED written out: TLC is slow to find
\* whether a decoding step is enabled.
HandlerRuns == []<>~CanRead \/ []<><<RecvHandler>>_vars

\* TCP delivers while the connection lasts, and the receive handler runs; nobody
\* has to send, and no connection has to break.
Spec == Init /\ [][Next]_vars /\ WF_vars(Transmit) /\ HandlerRuns

-----------------------------------------------------------------------------
(* Properties.                                                             *)

\* a is b with nothing after some field, of which, if repeated, the first
\* elements may be there: a command list loses its tail, an Obj all it has.
CutShort(a, b) ==
    \E k \in DOMAIN Fields :
        /\ \A l \in DOMAIN Fields : l < k => a[Fields[l]] = b[Fields[l]]
        /\ \A l \in DOMAIN Fields : l > k => a[Fields[l]] = Zero(Fields[l])
        /\ \/ a[Fields[k]] = Zero(Fields[k])
           \/ Fields[k] \in Repeated /\ IsPrefix(a[Fields[k]], b[Fields[k]])

\* Messages come out of a connection as they went in, in their order.  The one
\* exception is the last of a connection that broke: it may be cut short, but
\* a peer's message that is cut has no Obj, so it never passes for another
\* proposal, state, vote or decision (Marshal, BufWrite, BufRead, Unmarshal).
ReceivedAsSent ==
    \A k \in DOMAIN received :
        /\ k \in DOMAIN sent
        /\ \/ received[k] = sent[k]
           \/ /\ broken /\ k = Len(received)
              /\ CutShort(received[k], sent[k])
              /\ link = "Msg" => received[k].Obj = << >>

\* The receive handler gets through: while the connection lasts every message
\* arrives, so it neither loses its place in the bytes nor gives up on a message
\* it could have read; when the connection has ended it returns, whatever part
\* of a length or a message was the last, and Close waits for it (Wg.Wait).
HandlerGetsThrough ==
    /\ \A k \in 1 .. MaxSent : Len(sent) >= k ~> (Len(received) >= k \/ broken)
    /\ broken ~> closed

\* What message.go says of the length bytes: "In this way, we avoid the
\* possibility of reading a partial message".  It fails; no run checks it.
NoPartialMessage == \A k \in DOMAIN received : received[k] = sent[k]
=============================================================================
