----------------------------- MODULE MCMqttWire -----------------------------
EXTENDS MqttWire

(* Strings whose code units take one byte, two, three and four: both ends  *)
(* of each range.                                                          *)
Short == <<97>>
Wide == <<127, 128, 2047, 2048, 65535, 55357, 56832>>
Filler(n) == [i \in 1..n |-> i % 256]

Message(topic, payload, qos) ==
    [type |-> PUBLISH, duplicate |-> qos = 2, retained |-> qos = 1, qos |-> qos, topic |-> topic,
     id |-> IF qos > 0 THEN 300 ELSE Absent, payload |-> payload]

Accepted == [type |-> CONNACK, sessionPresent |-> TRUE, returnCode |-> 0]
Granted == [type |-> SUBACK, id |-> 255, returnCode |-> <<0, 128>>]

(* Packets with remaining lengths of 0, 127, 128, 16383 and 16384 bytes.   *)
BrokerStreams ==
    { <<Accepted, Granted, Message(Wide, Filler(3), 1), [type |-> PINGRESP]>>,
      <<Accepted, Message(Short, <<>>, 0), [type |-> PUBREL, id |-> 65535], Message(Short, Filler(2), 2)>>,
      <<Accepted, Message(Short, Filler(124), 0), Message(Short, Filler(125), 0)>>,
      <<Accepted, Message(Wide, Filler(16364), 0), [type |-> PUBACK, id |-> 1]>>,
      <<Accepted, Message(Wide, Filler(16365), 0), [type |-> PUBCOMP, id |-> 256]>> }

LastWill == [topic |-> Wide, payload |-> Filler(2), qos |-> 1, retained |-> TRUE]

ClientPackets ==
    [type : {CONNECT}, mqttVersion : {3, 4}, cleanSession : BOOLEAN, keepAliveInterval : {2, 65535},
     clientId : {Short, Wide}, willMessage : {Absent, LastWill}, userName : {Absent, Wide},
     password : {Absent, Short}]
    \cup [type : {SUBSCRIBE}, id : {1, 65535}, topics : {<<Short, Wide>>}, requestedQos : {<<0, 1>>}]
    \cup [type : {UNSUBSCRIBE}, id : {256}, topics : {<<Wide, Short>>, <<Wide>>}]
    \cup {Message(Wide, Filler(120), 2), [type |-> PUBREC, id |-> 511], [type |-> PINGREQ],
          [type |-> DISCONNECT]}

Pieces == {1, 2, 5, 130}
=============================================================================
