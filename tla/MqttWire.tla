------------------------------ MODULE MqttWire ------------------------------
(***************************************************************************)
(* The bytes of one connection of the web simulator's MQTT client          *)
(* (js/paho/paho-mqtt.js): how WireMessage.encode lays a packet out, and   *)
(* how _deframeMessages and decodeMessage find the packets of the broker   *)
(* in a stream that the browser cuts anywhere.                             *)
(*                                                                         *)
(* A byte is a number in 0..255, a string the sequence of its UTF-16 code  *)
(* units.  The connection begins with no receiveBuffer, which              *)
(* _disconnected does not see to (README).                                 *)
(***************************************************************************)
EXTENDS Integers, Sequences, SequencesExt, FiniteSets

CONSTANTS
    Streams,     \* the packets the broker sends, a set of sequences
    Outgoing,    \* packets the client sends
    Fragments,   \* lengths of the pieces the stream arrives in, other than all of it
    MaxPieces,   \* bound: pieces that arrive
    Absent       \* an option that is undefined

VARIABLES
    due,           \* packets the broker has yet to send
    sent,          \* those it has sent
    wire,          \* bytes under way to the client
    receiveBuffer, \* bytes of an incomplete packet
    handled,       \* packets given to _handleMessage
    written,       \* the packet the client sends in this step, and its bytes
    pieces

wireVars == <<due, sent, wire, receiveBuffer, handled, written, pieces>>

(* MESSAGE_TYPE                                                            *)
CONNECT == 1
CONNACK == 2
PUBLISH == 3
PUBACK == 4
PUBREC == 5
PUBREL == 6
PUBCOMP == 7
SUBSCRIBE == 8
SUBACK == 9
UNSUBSCRIBE == 10
UNSUBACK == 11
PINGREQ == 12
PINGRESP == 13
DISCONNECT == 14
Acks == {PUBACK, PUBREC, PUBREL, PUBCOMP, UNSUBACK}

Bit(flag, value) == IF flag THEN value ELSE 0

(* Bytes n of a buffer that has room for n.                                *)
Fit(bytes, n) == [i \in 1..n |-> IF i <= Len(bytes) THEN bytes[i] ELSE 0]

(* What is left of a sequence after its first n elements.                  *)
Drop(s, n) == SubSeq(s, n + 1, Len(s))

Concat(strings) ==
    LET joined[s \in Seq(Seq(Nat))] == IF s = <<>> THEN <<>> ELSE s[1] \o joined[Drop(s, 1)]
    IN  joined[strings]

Total(numbers) ==
    LET sum[s \in Seq(Nat)] == IF s = <<>> THEN 0 ELSE s[1] + sum[Drop(s, 1)]
    IN  sum[numbers]

-----------------------------------------------------------------------------
(* Numbers and strings.                                                    *)

MaxUint16 == 65535
WriteUint16(n) == <<(n \div 256) % 256, n % 256>>
ReadUint16(bytes, i) == 256 * bytes[i] + bytes[i + 1]

(* The remaining length: seven bits a byte, the eighth says that there are *)
(* more, four bytes at most.  A digit counts 128 ^ (i - 1).                *)
Multiplier == <<1, 128, 16384, 2097152, 268435456>>

EncodeMBI(n) ==
    LET size == CHOOSE k \in 1..4 :
                    (k = 4 \/ n < Multiplier[k + 1]) /\ (k = 1 \/ n >= Multiplier[k]) IN
    [i \in 1..size |-> ((n \div Multiplier[i]) % 128) + Bit(n \div Multiplier[i + 1] > 0, 128)]

Lead(unit) == 55296 <= unit /\ unit <= 56319
Follows(unit) == 56320 <= unit /\ unit <= 57343

\* Mutant: each half of a surrogate pair is counted for itself.
UTF8LengthByUnit(s) ==
    Total([i \in DOMAIN s |-> IF s[i] > 2047 THEN 3 ELSE IF s[i] > 127 THEN 2 ELSE 1])

Unit == 0..MaxUint16

(* A string in UTF-16: the first half of a pair has its second behind it.  *)
Text == {s \in Seq(Unit) : \A i \in DOMAIN s : Lead(s[i]) => i < Len(s) /\ Follows(s[i + 1])}
Units(s) == IF Lead(s[1]) THEN 2 ELSE 1
Width(s) == IF Lead(s[1]) THEN 4 ELSE IF s[1] > 2047 THEN 3 ELSE IF s[1] > 127 THEN 2 ELSE 1
Character(s) ==
    IF Lead(s[1]) THEN (s[1] - 55296) * 1024 + (s[2] - 56320) + 65536 ELSE s[1]

UTF8Length(s) ==
    LET length[t \in Text] ==
            IF t = <<>> THEN 0 ELSE Width(t) + length[Drop(t, Units(t))]
    IN  length[s]

Trail(c) == 128 + (c % 64)
Utf8(c) ==
    IF c < 128 THEN <<c>>
    ELSE IF c < 2048 THEN <<192 + c \div 64, Trail(c)>>
    ELSE IF c < 65536 THEN <<224 + c \div 4096, Trail(c \div 64), Trail(c)>>
    ELSE <<240 + c \div 262144, Trail(c \div 4096), Trail(c \div 64), Trail(c)>>

StringToUTF8(s) ==
    LET bytes[t \in Text] ==
            IF t = <<>> THEN <<>> ELSE Utf8(Character(t)) \o bytes[Drop(t, Units(t))]
    IN  bytes[s]

WriteString(s) == WriteUint16(UTF8Length(s)) \o Fit(StringToUTF8(s), UTF8Length(s))

Utf16(c) ==
    IF c > 65535 THEN <<55296 + (c - 65536) \div 1024, 56320 + ((c - 65536) % 1024)>> ELSE <<c>>

(* parseUTF8, of well-formed bytes: how many the first character has, the  *)
(* character, and all of them.                                             *)
Size(bytes) ==
    IF bytes[1] < 128 THEN 1 ELSE IF bytes[1] < 224 THEN 2 ELSE IF bytes[1] < 240 THEN 3 ELSE 4
CodePoint(bytes) ==
    LET low(i) == bytes[i] - 128 IN
    CASE Size(bytes) = 1 -> bytes[1]
      [] Size(bytes) = 2 -> 64 * (bytes[1] - 192) + low(2)
      [] Size(bytes) = 3 -> 4096 * (bytes[1] - 224) + 64 * low(2) + low(3)
      [] Size(bytes) = 4 -> 262144 * (bytes[1] - 240) + 4096 * low(2) + 64 * low(3) + low(4)

ParseUTF8(bytes) ==
    LET output[b \in Seq(Nat)] ==
            IF b = <<>> THEN <<>> ELSE Utf16(CodePoint(b)) \o output[Drop(b, Size(b))]
    IN  output[bytes]

-----------------------------------------------------------------------------
(* WireMessage.encode.                                                     *)

HasId(p) == p.type \in Acks \cup {SUBSCRIBE, SUBACK, UNSUBSCRIBE} \/ (p.type = PUBLISH /\ p.qos > 0)

First(p) ==
    16 * p.type +
    CASE p.type = PUBLISH -> Bit(p.duplicate, 8) + 2 * p.qos + Bit(p.retained, 1)
      [] p.type \in {SUBSCRIBE, UNSUBSCRIBE, PUBREL} -> 2
      [] OTHER -> 0

Protocol(version) ==
    IF version = 3 THEN <<0, 6, 77, 81, 73, 115, 100, 112, 3>> ELSE <<0, 4, 77, 81, 84, 84, 4>>

(* The strings of a CONNECT, and its Will's payload, in their order.       *)
Given(s) == IF s = Absent THEN <<>> ELSE <<s>>
WillTopic(p) == IF p.willMessage = Absent THEN <<>> ELSE <<p.willMessage.topic>>
WillPayload(p) == IF p.willMessage = Absent THEN <<>> ELSE <<p.willMessage.payload>>

FieldLength(s) == UTF8Length(s) + 2
Lengths(strings) == Total([i \in DOMAIN strings |-> FieldLength(strings[i])])

(* The length is added up before anything is written.                      *)
RemLength(p) ==
    Bit(HasId(p), 2) +
    CASE p.type = CONNECT ->
           Len(Protocol(p.mqttVersion)) + 3
           + Lengths(<<p.clientId>> \o WillTopic(p) \o Given(p.userName) \o Given(p.password))
           + (IF p.willMessage = Absent THEN 0 ELSE Len(p.willMessage.payload) + 2)
      [] p.type = SUBSCRIBE -> Lengths(p.topics) + Len(p.requestedQos)
      [] p.type = UNSUBSCRIBE -> Lengths(p.topics)
      [] p.type = PUBLISH -> UTF8Length(p.topic) + 2 + Len(p.payload)
      [] OTHER -> 0

ConnectFlags(p) ==
    Bit(p.cleanSession, 2) + Bit(p.userName # Absent, 128) + Bit(p.password # Absent, 64)
    + (IF p.willMessage = Absent THEN 0
       ELSE 4 + 8 * p.willMessage.qos + Bit(p.willMessage.retained, 32))

Strings(strings) == Concat([i \in DOMAIN strings |-> WriteString(strings[i])])

ConnectBody(p) ==
    Protocol(p.mqttVersion) \o <<ConnectFlags(p)>> \o WriteUint16(p.keepAliveInterval)
    \o WriteString(p.clientId) \o Strings(WillTopic(p))
    \o Concat([i \in DOMAIN WillPayload(p) |->
                  WriteUint16(Len(WillPayload(p)[i])) \o WillPayload(p)[i]])
    \o Strings(Given(p.userName)) \o Strings(Given(p.password))

Filters(p) == Concat([i \in DOMAIN p.topics |-> WriteString(p.topics[i]) \o <<p.requestedQos[i]>>])

Id(p) == IF HasId(p) THEN WriteUint16(p.id) ELSE <<>>
PublishBody(p) == WriteString(p.topic) \o Id(p) \o p.payload

Body(p) ==
    CASE p.type = CONNECT -> ConnectBody(p)
      [] p.type = SUBSCRIBE -> Id(p) \o Filters(p)
      [] p.type = UNSUBSCRIBE -> Id(p) \o Strings(p.topics)
      [] p.type = PUBLISH -> PublishBody(p)
      [] OTHER -> Id(p)

Encode(p) == <<First(p)>> \o EncodeMBI(RemLength(p)) \o Fit(Body(p), RemLength(p))

-----------------------------------------------------------------------------
(* decodeMessage.                                                          *)

(* Where the length ends, Absent if not within the bytes; and the length.  *)
LengthEnd(bytes) ==
    LET last(i) == bytes[i] < 128 /\ \A j \in 2..(i - 1) : bytes[j] >= 128 IN
    IF \E i \in 2..Len(bytes) : last(i) THEN CHOOSE i \in 2..Len(bytes) : last(i) ELSE Absent

DecodeMBI(bytes, end) ==
    LET remLength[b \in Seq(Nat)] ==
            IF b = <<>> THEN 0 ELSE (b[1] % 128) + 128 * remLength[Drop(b, 1)]
    IN  remLength[SubSeq(bytes, 2, end)]

\* Mutant: a packet that ends with the bytes is taken for incomplete.
EndsBefore(end, bytes) == end < Len(bytes)

Complete(end, bytes) == end <= Len(bytes)

(* Where the packet at the start of the bytes ends, Absent if incomplete.  *)
PacketEnd(bytes) ==
    IF LengthEnd(bytes) = Absent THEN Absent
    ELSE LET end == LengthEnd(bytes) + DecodeMBI(bytes, LengthEnd(bytes)) IN
         IF Complete(end, bytes) THEN end ELSE Absent

DecodePublish(info, body) ==
    LET qos == (info \div 2) % 4
        topicEnd == 2 + ReadUint16(body, 1)
        start == IF qos > 0 THEN topicEnd + 2 ELSE topicEnd IN
    [type |-> PUBLISH, duplicate |-> info \div 8 = 1, retained |-> info % 2 = 1, qos |-> qos,
     topic |-> ParseUTF8(SubSeq(body, 3, topicEnd)),
     id |-> IF qos > 0 THEN ReadUint16(body, topicEnd + 1) ELSE Absent,
     payload |-> Drop(body, start)]

Decode(bytes) ==
    LET type == bytes[1] \div 16
        body == Drop(bytes, LengthEnd(bytes)) IN
    CASE type = CONNACK ->
           [type |-> type, sessionPresent |-> body[1] % 2 = 1, returnCode |-> body[2]]
      [] type = PUBLISH -> DecodePublish(bytes[1] % 16, body)
      [] type \in Acks -> [type |-> type, id |-> ReadUint16(body, 1)]
      [] type = SUBACK -> [type |-> type, id |-> ReadUint16(body, 1),
                           returnCode |-> Drop(body, 2)]
      [] OTHER -> [type |-> type]

(* _deframeMessages: the packets that are complete, and what remains.      *)
Deframe(bytes) ==
    LET deframed[b \in Seq(Nat)] ==
            IF b = <<>> \/ PacketEnd(b) = Absent THEN [messages |-> <<>>, rest |-> b]
            ELSE [deframed[Drop(b, PacketEnd(b))] EXCEPT
                     !.messages = <<Decode(SubSeq(b, 1, PacketEnd(b)))>> \o @]
    IN  deframed[bytes]

-----------------------------------------------------------------------------
(* The broker writes what only it sends, and the rest as the client does.  *)
BrokerEncode(p) ==
    CASE p.type = CONNACK -> <<32, 2, Bit(p.sessionPresent, 1), p.returnCode>>
      [] p.type = SUBACK ->
           <<144>> \o EncodeMBI(2 + Len(p.returnCode)) \o WriteUint16(p.id) \o p.returnCode
      [] OTHER -> Encode(p)

(* What is sent: a number and a string fit where they are put, and a       *)
(* packet is no longer than four bytes can say.                            *)
Byte == 0..255
Utf8String == {s \in Text : UTF8Length(s) \in Unit}
Will == [topic : Utf8String, payload : {b \in Seq(Byte) : Len(b) \in Unit}, qos : 0..2,
         retained : BOOLEAN]

Published(p) ==
    /\ p \in [type : {PUBLISH}, duplicate : BOOLEAN, retained : BOOLEAN, qos : 0..2,
              topic : Utf8String, id : Unit \cup {Absent}, payload : Seq(Byte)]
    /\ p.qos = 0 <=> p.id = Absent
    /\ RemLength(p) < Multiplier[5]

FromBroker(p) ==
    \/ p \in [type : {CONNACK}, sessionPresent : BOOLEAN, returnCode : Byte]
    \/ /\ p \in [type : {SUBACK}, id : Unit, returnCode : Seq(Byte)]
       /\ 2 + Len(p.returnCode) < Multiplier[5]
    \/ p \in [type : Acks, id : Unit]
    \/ p \in [type : {PINGRESP}]
    \/ Published(p)

FromClient(p) ==
    \/ /\ p \in [type : {CONNECT}, mqttVersion : {3, 4}, cleanSession : BOOLEAN,
                 keepAliveInterval : Unit, clientId : Utf8String,
                 willMessage : Will \cup {Absent}, userName : Utf8String \cup {Absent},
                 password : Utf8String \cup {Absent}]
       /\ RemLength(p) < Multiplier[5]
    \/ /\ p \in [type : {SUBSCRIBE}, id : Unit, topics : Seq(Utf8String), requestedQos : Seq(0..2)]
       /\ Len(p.requestedQos) = Len(p.topics) /\ RemLength(p) < Multiplier[5]
    \/ /\ p \in [type : {UNSUBSCRIBE}, id : Unit, topics : Seq(Utf8String)]
       /\ RemLength(p) < Multiplier[5]
    \/ p \in [type : Acks, id : Unit]
    \/ p \in [type : {PINGREQ, DISCONNECT}]
    \/ Published(p)

ASSUME OptionAssumption == Absent \notin Nat
ASSUME StreamsAssumption ==
    \A s \in Streams : s \in Seq(Range(s)) /\ \A p \in Range(s) : FromBroker(p)
ASSUME OutgoingAssumption == \A p \in Outgoing : FromClient(p)

-----------------------------------------------------------------------------
WireInit ==
    /\ due \in Streams /\ sent = <<>>
    /\ wire = <<>> /\ receiveBuffer = <<>> /\ handled = <<>>
    /\ written = Absent /\ pieces = 0

BrokerSend ==
    /\ due # <<>>
    /\ wire' = wire \o BrokerEncode(Head(due))
    /\ sent' = Append(sent, Head(due)) /\ due' = Tail(due)
    /\ written' = Absent
    /\ UNCHANGED <<receiveBuffer, handled, pieces>>

(* _on_socket_message: the next n bytes.                                   *)
SocketMessage(n) ==
    /\ n \in 1..Len(wire) /\ pieces < MaxPieces
    /\ wire' = Drop(wire, n)
    /\ LET deframed == Deframe(receiveBuffer \o SubSeq(wire, 1, n)) IN
       /\ handled' = handled \o deframed.messages
       /\ receiveBuffer' = deframed.rest
    /\ pieces' = pieces + 1 /\ written' = Absent
    /\ UNCHANGED <<due, sent>>

(* _socket_send: CONNECT first, the others when there is a CONNACK.        *)
SocketSend(p) ==
    /\ IF p.type = CONNECT THEN sent = <<>> ELSE handled # <<>>
    /\ written' = [packet |-> p, bytes |-> Encode(p)]
    /\ UNCHANGED <<due, sent, wire, receiveBuffer, handled, pieces>>

WireNext ==
    \/ BrokerSend
    \/ \E n \in Fragments \cup {Len(wire)} : SocketMessage(n)
    \/ \E p \in Outgoing : SocketSend(p)

WireSpec == WireInit /\ [][WireNext]_wireVars

-----------------------------------------------------------------------------
(* How a broker reads what the client writes (MQTT 3.1.1): length-prefixed *)
(* fields to the very end of the announced length.                         *)

FieldEnd(bytes) == 2 + ReadUint16(bytes, 1)

(* Each followed by a gap; a byte too many is not taken for a field.       *)
Fields(bytes, gap) ==
    LET from[b \in Seq(Nat)] ==
            IF Len(b) < 2 THEN b
            ELSE <<SubSeq(b, 3, FieldEnd(b))>> \o from[Drop(b, FieldEnd(b) + gap)]
    IN  from[bytes]

Texts(strings) == [i \in DOMAIN strings |-> StringToUTF8(strings[i])]

ReadsAs(p, body) ==
    CASE p.type = CONNECT ->
           LET name == FieldEnd(body) IN
           /\ body[name + 1] = p.mqttVersion
           /\ body[name + 2] = ConnectFlags(p)
           /\ ReadUint16(body, name + 3) = p.keepAliveInterval
           /\ Fields(Drop(body, name + 4), 0) =
                 Texts(<<p.clientId>> \o WillTopic(p)) \o WillPayload(p)
                 \o Texts(Given(p.userName) \o Given(p.password))
      [] p.type = SUBSCRIBE ->
           ReadUint16(body, 1) = p.id /\ Fields(Drop(body, 2), 1) = Texts(p.topics)
      [] p.type = UNSUBSCRIBE ->
           ReadUint16(body, 1) = p.id /\ Fields(Drop(body, 2), 0) = Texts(p.topics)
      [] OTHER -> TRUE

(* A packet the client writes is as long as its header says, to the byte,  *)
(* and the broker reads the fields it was given: the length is computed    *)
(* apart from what is written (encode), with strings of any width.         *)
ReadByBroker ==
    written # Absent =>
        LET bytes == written.bytes
            end == LengthEnd(bytes)
            body == Drop(bytes, end) IN
        /\ bytes[1] \div 16 = written.packet.type
        /\ DecodeMBI(bytes, end) = Len(body)
        /\ Len(body) = Len(Body(written.packet))
        /\ ReadsAs(written.packet, body)

(* However the stream is cut, the client handles exactly the packets that  *)
(* have arrived to their last byte, unchanged and in their order, and      *)
(* keeps the rest for later (_deframeMessages, receiveBuffer).             *)
BytesOf(packets) == Concat([i \in DOMAIN packets |-> BrokerEncode(packets[i])])
Deframed ==
    /\ IsPrefix(handled, sent)
    /\ BytesOf(handled) \o receiveBuffer \o wire = BytesOf(sent)
    /\ Len(handled) < Len(sent) =>
           Len(receiveBuffer) < Len(BrokerEncode(sent[Len(handled) + 1]))
=============================================================================
