--------------------------- MODULE ExternalProtocol ---------------------------
(***************************************************************************)
(* The protocol between a client and the gateway (common/message_protocol/ *)
(* external.py) over one TCP connection, byte by byte: in an upload the    *)
(* client sends its records and the end of them, and waits for an ACK      *)
(* after each; at the end the gateway sends the top in the same way.       *)
(*                                                                         *)
(* Integers are BASE-ary numbers of UINT32_SIZE bytes.  A name is a        *)
(* sequence of characters of one byte or of two.                           *)
(***************************************************************************)
EXTENDS Integers, Sequences, SequencesExt

CONSTANTS
    BASE, UINT32_SIZE,      \* 256 and 4
    Scripts                 \* what a sender may have to send, message by message

Ascii == BASE - 3
Lead == BASE - 2
Continuation == BASE - 1
Characters == {"narrow", "wide"}

FRUIT_RECORD == 1
FRUIT_TOP == 2
ACK == 3
END_OF_RECORDS == 4
MsgTypes == 1 .. 4

Message(type, items) == [type |-> type, items |-> items]

Bytes == 0 .. BASE - 1
Names == Seq(Characters)
Messages == [type : {FRUIT_RECORD, FRUIT_TOP, END_OF_RECORDS}, items : Seq(Names \X Int)]

\* What a client sends: a record in each message, and then the end of them.
IsUpload(s) ==
    \A i \in DOMAIN s :
        IF i = Len(s) THEN s[i] = Message(END_OF_RECORDS, <<>>)
                      ELSE s[i].type = FRUIT_RECORD /\ Len(s[i].items) = 1

\* What the gateway sends to a client: one message.
IsAnswer(s) == Len(s) = 1 /\ s[1].type = FRUIT_TOP

ASSUME ExternalAssumption ==
    /\ BASE \in Nat /\ BASE > 7     \* a type is one byte and no byte of a name
    /\ UINT32_SIZE \in Nat \ {0}
    /\ \A s \in Scripts : s \in Seq(Messages) /\ s # <<>> /\ (IsUpload(s) \/ IsAnswer(s))

VARIABLES
    script, next, sender,   \* the sender: "send", "wait", "done" or "failed"
    wire, acks, closed,     \* the connection
    receiver,               \* "reading", "done" or "failed"
    field, size, buf,       \* what recv_msg is reading, how long it is, what came of it
    msgType, left, items,   \* the type, the records to come, and those that came
    received                \* what recv_msg returned

senderVars == <<script, next, sender>>
readVars == <<field, size, buf, msgType, left, items>>
vars == <<senderVars, wire, acks, closed, receiver, readVars, received>>

-----------------------------------------------------------------------------
(* external_serializer.py.                                                 *)

\* A number without its last k bytes.
Shifted(n) == LET rest[k \in 0 .. UINT32_SIZE] == IF k = 0 THEN n ELSE rest[k - 1] \div BASE
              IN  rest

Fits(n) == n \in Nat /\ Shifted(n)[UINT32_SIZE] = 0
Uint32(n) == [i \in 1 .. UINT32_SIZE |-> Shifted(n)[UINT32_SIZE - i] % BASE]
FromUint32(b) ==
    LET value[k \in 0 .. Len(b)] == IF k = 0 THEN 0 ELSE value[k - 1] * BASE + b[k]
    IN  value[Len(b)]

Utf8(name) ==
    FlattenSeq([i \in DOMAIN name |-> IF name[i] = "wide" THEN <<Lead, Continuation>>
                                                          ELSE <<Ascii>>])
Decodes(b) ==
    /\ \A i \in DOMAIN b : b[i] = Lead => i < Len(b) /\ b[i + 1] = Continuation
    /\ \A i \in DOMAIN b : b[i] = Continuation => i > 1 /\ b[i - 1] = Lead

-----------------------------------------------------------------------------
(* Sending.                                                                *)

\* The length of the name is in characters.
FruitRecord(r) == Uint32(Len(r[1])) \o Utf8(r[1]) \o Uint32(r[2])

Serialized(m) ==
    Uint32(m.type)
        \o (IF m.type = FRUIT_TOP THEN Uint32(Len(m.items)) ELSE <<>>)
        \o FlattenSeq([i \in DOMAIN m.items |-> FruitRecord(m.items[i])])

Serializable(m) ==
    /\ Fits(Len(m.items))
    /\ \A i \in DOMAIN m.items : Fits(Len(m.items[i][1])) /\ Fits(m.items[i][2])

\* to_bytes raises while the message is being put together: nothing is written.
TypeFirst(m) == IF Serializable(m) THEN Serialized(m) ELSE Uint32(m.type)
Written(m) == IF Serializable(m) THEN Serialized(m) ELSE <<>>

Init ==
    /\ script \in Scripts
    /\ next = 1 /\ sender = "send"
    /\ wire = <<>> /\ acks = 0 /\ closed = FALSE
    /\ receiver = "reading"
    /\ field = "type" /\ size = UINT32_SIZE /\ buf = <<>>
    /\ msgType = ACK /\ left = 0 /\ items = <<>>
    /\ received = <<>>

IsTop == script[1].type = FRUIT_TOP

\* send_msg.  A client that fails disconnects; handle_client_response leaves the
\* client's socket open.
Send ==
    LET m == script[next] IN
    /\ sender = "send"
    /\ wire' = wire \o Written(m)
    /\ IF Serializable(m) THEN sender' = "wait" /\ UNCHANGED closed
                          ELSE sender' = "failed" /\ closed' = ~IsTop
    /\ UNCHANGED <<script, next, acks, receiver, readVars, received>>

ReceiveAck ==
    /\ sender = "wait" /\ acks > 0
    /\ acks' = acks - 1
    /\ next' = next + 1
    /\ sender' = IF next = Len(script) THEN "done" ELSE "send"
    /\ UNCHANGED <<script, wire, closed, receiver, readVars, received>>

-----------------------------------------------------------------------------
(* Receiving.                                                              *)

\* One turn of _recv_sized: some of the bytes that are there, and no more than the
\* field has room for.
AnyRoom == Len(wire)
Room == size - Len(buf)

ReceiveBytes ==
    /\ receiver = "reading" /\ Len(buf) < size
    /\ \E n \in 1 .. Len(wire) :
         /\ n <= Room
         /\ buf' = buf \o SubSeq(wire, 1, n)
         /\ wire' = SubSeq(wire, n + 1, Len(wire))
    /\ UNCHANGED <<senderVars, acks, closed, receiver, field, size, msgType, left, items,
                   received>>

EndOfStream ==
    /\ receiver = "reading" /\ Len(buf) < size
    /\ closed /\ wire = <<>>
    /\ receiver' = "failed"
    /\ UNCHANGED <<senderVars, wire, acks, closed, readVars, received>>

AnythingRead == buf # <<>>
Complete == Len(buf) = size

Reads(f, n) == field' = f /\ size' = n /\ buf' = <<>>
Fails == receiver' = "failed" /\ UNCHANGED <<acks, readVars, received>>

\* handle_client_request acknowledges records and their end, and ends with it; of
\* anything else it takes no notice.  A client acknowledges what it takes for its top,
\* and ends.
RecordsOnly(type) == type = FRUIT_RECORD
Acknowledged(type) == IsTop \/ type \in {FRUIT_RECORD, END_OF_RECORDS}

Returns(m) ==
    /\ received' = Append(received, m)
    /\ acks' = IF Acknowledged(m.type) THEN acks + 1 ELSE acks
    /\ receiver' = IF IsTop \/ m.type = END_OF_RECORDS THEN "done" ELSE "reading"
    /\ Reads("type", UINT32_SIZE)
    /\ UNCHANGED <<msgType, left, items>>

Continues == UNCHANGED <<acks, receiver, received>>

\* RECV_MSG_HANDLERS[msg_type] is a KeyError for any other type.
Anything(type) == TRUE
Known(type) == type \in MsgTypes

ReadType ==
    LET type == FromUint32(buf) IN
    /\ field = "type"
    /\ \/ ~Known(type) /\ Fails
       \/ Known(type) /\ type \notin {FRUIT_RECORD, FRUIT_TOP} /\ Returns(Message(type, <<>>))
       \/ /\ type \in {FRUIT_RECORD, FRUIT_TOP}
          /\ Reads(IF type = FRUIT_TOP THEN "count" ELSE "size", UINT32_SIZE)
          /\ msgType' = type /\ left' = 1 /\ items' = <<>>
          /\ Continues

ReadCount ==
    /\ field = "count"
    /\ IF FromUint32(buf) = 0 THEN Returns(Message(msgType, <<>>))
       ELSE /\ Reads("size", UINT32_SIZE)
            /\ left' = FromUint32(buf)
            /\ UNCHANGED <<msgType, items>> /\ Continues

ReadSize ==
    /\ field = "size"
    /\ Reads("name", FromUint32(buf))
    /\ UNCHANGED <<msgType, left, items>> /\ Continues

\* deserialize_string may raise a UnicodeDecodeError.
ReadName ==
    /\ field = "name"
    /\ \/ ~Decodes(buf) /\ Fails
       \/ /\ Decodes(buf)
          /\ Reads("amount", UINT32_SIZE)
          /\ items' = Append(items, <<buf, 0>>)
          /\ UNCHANGED <<msgType, left>> /\ Continues

ReadAmount ==
    LET all == [items EXCEPT ![Len(items)][2] = FromUint32(buf)] IN
    /\ field = "amount"
    /\ IF left = 1 THEN Returns(Message(msgType, all))
       ELSE /\ Reads("size", UINT32_SIZE)
            /\ items' = all /\ left' = left - 1
            /\ UNCHANGED msgType /\ Continues

Parse ==
    /\ receiver = "reading" /\ Complete
    /\ ReadType \/ ReadCount \/ ReadSize \/ ReadName \/ ReadAmount
    /\ UNCHANGED <<senderVars, wire, closed>>

Next == Send \/ ReceiveAck \/ ReceiveBytes \/ EndOfStream \/ Parse

Spec == Init /\ [][Next]_vars

\* TCP delivers and both ends run.
FairSpec == Spec /\ WF_vars(Next)

-----------------------------------------------------------------------------
(* Correctness.                                                            *)

\* Every variable keeps to its domain: a read never takes more than its field.
TypeOK ==
    /\ script \in Scripts /\ next \in 1 .. Len(script) + 1
    /\ sender \in {"send", "wait", "done", "failed"}
    /\ wire \in Seq(Bytes) /\ acks \in Nat /\ closed \in BOOLEAN
    /\ receiver \in {"reading", "done", "failed"}
    /\ field \in {"type", "count", "size", "name", "amount"}
    /\ size \in Nat /\ buf \in Seq(Bytes) /\ Len(buf) <= size
    /\ msgType \in MsgTypes /\ left \in Nat
    /\ items \in Seq(Seq(Bytes) \X Nat)
    /\ received \in Seq([type : MsgTypes, items : Seq(Seq(Bytes) \X Nat)])

\* What is received of a message is the same names, as bytes, and the same amounts.
AsRead(m) == Message(m.type, [i \in DOMAIN m.items |-> <<Utf8(m.items[i][1]), m.items[i][2]>>])

\* The bytes of a name that its length does not count.
Excess(name) == Len(Utf8(name)) - Len(name)

\* The first message with a character of more than one byte, if there is one.
Wide(m) == \E i \in DOMAIN m.items : Excess(m.items[i][1]) > 0
FirstWide == {i \in DOMAIN script : Wide(script[i]) /\ \A j \in 1 .. i - 1 : ~Wide(script[j])}

\* However the bytes come, the messages received are those sent, in order, up to the
\* first name with a character of more than one byte (lines 73 and 32: a length in
\* characters is read as one in bytes).
ReceivedIsSent ==
    \A i \in DOMAIN received :
        (\A j \in FirstWide : i < j) => i <= next /\ received[i] = AsRead(script[i])

\* Such a name is not taken for good: it makes the last message that is received, with
\* a wrong name and amount, and no end of records is made up of its bytes, if it has
\* fewer than UINT32_SIZE bytes too many.  (With more, an amount is read as a type.)
WideNameIsLast ==
    \A i \in FirstWide :
        (\A j \in DOMAIN script[i].items : Excess(script[i].items[j][1]) < UINT32_SIZE) =>
            /\ Len(received) <= i
            /\ i \in DOMAIN received => /\ received[i] # AsRead(script[i])
                                        /\ received[i].type = script[i].type

\* A message with an amount that has no room in four bytes is not written, not even in
\* part (lines 81-83 and 87-91): the receiver is between two messages when the sender
\* fails, and learns it from the closed connection, or not at all.
NothingHalfWritten ==
    FirstWide = {} /\ sender = "failed" =>
        wire = <<>> /\ field = "type" /\ buf = <<>> /\ Len(received) = next - 1

\* An upload, or a top, with plain names and amounts of four bytes arrives whole, and
\* the sender comes to know.
PlainMessagesArrive ==
    (FirstWide = {} /\ \A i \in DOMAIN script : Serializable(script[i]))
        ~> sender = "done" /\ receiver = "done" /\ Len(received) = Len(script)

=============================================================================
