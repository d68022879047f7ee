---------------------------- MODULE MqttSession ----------------------------
(***************************************************************************)
(* The delivery of messages by the MQTT client of the web simulator        *)
(* (ClientImpl in js/paho/paho-mqtt.js): message identifiers, the messages *)
(* that wait for an acknowledgement, their copies in the browser's         *)
(* localStorage, the messages sent while the client reconnects, and the    *)
(* handler of every packet.                                                *)
(*                                                                         *)
(* The page runs one callback at a time, so a handler is one step.  A      *)
(* connection is lost with the packets under way on it; a reload of the    *)
(* page loses what is not in localStorage.  While it is connected, the     *)
(* client sends a scheduled packet at once: _msg_queue is empty between    *)
(* the steps.  How a connection is made, timed out and given up is         *)
(* MqttConnection.  The broker is external.                                *)
(*                                                                         *)
(* A message of the application is named for its place in the order of     *)
(* send(), 1, 2, ...                                                       *)
(***************************************************************************)
EXTENDS Naturals, Sequences, FiniteSets

CONSTANTS
    MaxRequests,          \* bound: messages the application sends, and subscriptions
    Inbound,              \* messages the broker has for the application
    maxMessageIdentifier,
    disconnectedBufferSize,
    MaxLosses,            \* bound: connections lost
    MaxReloads,           \* bound: reloads of the page
    NoEntry               \* no entry under an identifier

Outbound == 1..MaxRequests
Messages == Outbound \cup Inbound

Ids == 1..maxMessageIdentifier

(* There are more identifiers than requests: the last one, 65536, would    *)
(* not fit the two bytes it has on the wire.                               *)
ASSUME SessionAssumption ==
    /\ maxMessageIdentifier \in Nat /\ MaxRequests \in Nat
    /\ MaxRequests < maxMessageIdentifier
    /\ disconnectedBufferSize \in Nat
    /\ MaxLosses \in Nat /\ MaxReloads \in Nat
    /\ Outbound \cap Inbound = {}

VARIABLES
    cleanSession,   \* the connect option, fixed
    link,           \* the broker has accepted the connection
    connected, reconnecting, \* _reconnecting
    sentMessages, receivedMessages, bufferedQueue, messageIdentifier, sequence,
    storedSent, storedReceived,   \* localStorage
    toBroker, toClient,           \* packets under way
    brokerReceived, brokerSent,   \* the broker's half of the session
    qosOf, taken, confirmed,      \* each message: its QoS, deliveries, report
    sends, arrivals,              \* outbound messages sent, and as they arrived
    subscribes, losses, reloads, unsorted

client  == <<connected, reconnecting, sentMessages, receivedMessages, bufferedQueue,
             messageIdentifier, sequence, storedSent, storedReceived>>
network == <<link, toBroker, toClient>>
broker  == <<brokerReceived, brokerSent>>
history == <<qosOf, taken, confirmed, sends, arrivals>>
bounds  == <<subscribes, losses, reloads, unsorted>>
vars    == <<cleanSession, client, network, broker, history, bounds>>

Qos == 0..2

(* WireMessages that wait for an acknowledgement.  A subscription has no   *)
(* sequence (0).                                                           *)
Entry == [type : {"PUBLISH", "SUBSCRIBE"}, msg : Outbound \cup {NoEntry}, qos : Qos,
          sequence : Nat, pubRecReceived : BOOLEAN]

BrokerEntry == [msg : Inbound, qos : {1, 2}, released : BOOLEAN]
ASSUME NoEntryAssumption == NoEntry \notin Entry \cup BrokerEntry \cup Messages

Packet(type, id) == [type |-> type, id |-> id]
Publish(id, m, qos) == [type |-> "PUBLISH", id |-> id, msg |-> m, qos |-> qos]

IdPacket == [type : {"CONNACK", "PUBACK", "PUBREC", "PUBREL", "PUBCOMP", "SUBSCRIBE", "SUBACK"},
             id : Ids \cup {0}]
PublishPacket == [type : {"PUBLISH"}, id : Ids \cup {0}, msg : Messages, qos : Qos]

TypeOK ==
    /\ cleanSession \in BOOLEAN /\ link \in BOOLEAN
    /\ connected \in BOOLEAN /\ reconnecting \in BOOLEAN
    /\ sentMessages     \in [Ids -> Entry \cup {NoEntry}]
    /\ storedSent       \in [Ids -> Entry \cup {NoEntry}]
    /\ receivedMessages \in [Ids -> Inbound \cup {NoEntry}]
    /\ storedReceived   \in [Ids -> Inbound \cup {NoEntry}]
    /\ bufferedQueue \in Seq(Entry)
    /\ messageIdentifier \in Ids /\ sequence \in Nat
    /\ toBroker \in Seq(IdPacket \cup PublishPacket)
    /\ toClient \in Seq(IdPacket \cup PublishPacket)
    /\ brokerReceived \subseteq Ids
    /\ brokerSent \in [Ids -> BrokerEntry \cup {NoEntry}]
    /\ qosOf \in [Messages -> Qos] /\ taken \in [Messages -> Nat]
    /\ confirmed \subseteq Messages
    /\ sends \in 0..MaxRequests /\ arrivals \in Seq(Outbound)

Nothing == [id \in Ids |-> NoEntry]
Used(table) == {id \in Ids : table[id] # NoEntry}

(* A page that is loaded for the first time.                               *)
Init ==
    /\ cleanSession \in BOOLEAN
    /\ link = FALSE /\ connected = FALSE /\ reconnecting = FALSE
    /\ sentMessages = Nothing /\ receivedMessages = Nothing
    /\ storedSent = Nothing /\ storedReceived = Nothing
    /\ bufferedQueue = <<>> /\ messageIdentifier = 1 /\ sequence = 0
    /\ toBroker = <<>> /\ toClient = <<>>
    /\ brokerReceived = {} /\ brokerSent = Nothing
    /\ qosOf = [m \in Messages |-> 0] /\ taken = [m \in Messages |-> 0]
    /\ confirmed = {} /\ sends = 0 /\ arrivals = <<>>
    /\ subscribes = 0 /\ losses = 0 /\ reloads = 0 /\ unsorted = FALSE

-----------------------------------------------------------------------------
(* Sending.                                                                *)

Unused(id) == id >= messageIdentifier /\ sentMessages[id] = NoEntry

(* _requires_ack: the first unused identifier from the counter on.  The    *)
(* counter stays there, and goes back to 1 from maxMessageIdentifier only. *)
NextId == CHOOSE id \in Ids : Unused(id) /\ \A other \in Ids : Unused(other) => id <= other

RequiresAck(entry) ==
    /\ Cardinality(Used(sentMessages)) <= maxMessageIdentifier
    /\ sentMessages' = [sentMessages EXCEPT ![NextId] = entry]
    /\ messageIdentifier' = IF NextId = maxMessageIdentifier THEN 1 ELSE NextId

(* store("Sent:", message): the next sequence number, and the copy.        *)
StoreSent(entry) ==
    /\ storedSent' = [storedSent EXCEPT ![NextId] = entry]
    /\ sequence' = entry.sequence

NewEntry(m, qos) ==
    [type |-> "PUBLISH", msg |-> m, qos |-> qos, sequence |-> sequence + 1,
     pubRecReceived |-> FALSE]

Accepted(m, qos) ==
    /\ m = sends + 1 /\ sends + subscribes < MaxRequests
    /\ sends' = m
    /\ qosOf' = [qosOf EXCEPT ![m] = qos]
    /\ UNCHANGED <<taken, arrivals, cleanSession, link, toClient, broker, bounds,
                   connected, reconnecting, receivedMessages, storedReceived>>

(* send(), connected, QoS 0: sent at once and reported as delivered.       *)
SendQos0(m) ==
    /\ connected
    /\ Accepted(m, 0)
    /\ toBroker' = Append(toBroker, Publish(0, m, 0))
    /\ confirmed' = confirmed \cup {m}
    /\ UNCHANGED <<sentMessages, storedSent, bufferedQueue, messageIdentifier, sequence>>

(* send(), connected, QoS 1 or 2.                                          *)
SendAcked(m, qos) ==
    /\ connected
    /\ Accepted(m, qos)
    /\ RequiresAck(NewEntry(m, qos)) /\ StoreSent(NewEntry(m, qos))
    /\ toBroker' = Append(toBroker, Publish(NextId, m, qos))
    /\ UNCHANGED <<confirmed, bufferedQueue>>

(* send() while the client reconnects, with disconnectedPublishing: QoS 1  *)
(* and 2 join the messages to be resent, QoS 0 the buffer.                 *)
SendDisconnected(m, qos) ==
    /\ ~connected /\ reconnecting
    /\ Cardinality(Used(sentMessages)) + Len(bufferedQueue) <= disconnectedBufferSize
    /\ Accepted(m, qos)
    /\ \/ /\ qos > 0
          /\ RequiresAck(NewEntry(m, qos)) /\ StoreSent(NewEntry(m, qos))
          /\ UNCHANGED bufferedQueue
       \/ /\ qos = 0
          /\ bufferedQueue' = Append(bufferedQueue, NewEntry(m, qos))
          /\ sequence' = sequence + 1
          /\ UNCHANGED <<sentMessages, storedSent, messageIdentifier>>
    /\ UNCHANGED <<toBroker, confirmed>>

Send(m) ==
    \/ SendQos0(m)
    \/ \E qos \in {1, 2} : SendAcked(m, qos)
    \/ \E qos \in Qos : SendDisconnected(m, qos)

(* subscribe(), and unsubscribe(), which is acknowledged the same way.     *)
Subscribe ==
    /\ connected /\ sends + subscribes < MaxRequests
    /\ RequiresAck([type |-> "SUBSCRIBE", msg |-> NoEntry, qos |-> 1, sequence |-> 0,
                    pubRecReceived |-> FALSE])
    /\ toBroker' = Append(toBroker, Packet("SUBSCRIBE", NextId))
    /\ subscribes' = subscribes + 1
    /\ UNCHANGED <<cleanSession, link, toClient, broker, history, losses, reloads, unsorted,
                   connected, reconnecting, receivedMessages, bufferedQueue, sequence,
                   storedSent, storedReceived>>

-----------------------------------------------------------------------------
(* The handlers of the packets (_handleMessage).                           *)

Arrives(type) ==
    /\ toClient # <<>> /\ Head(toClient).type = type
    /\ toClient' = Tail(toClient)
    /\ UNCHANGED <<cleanSession, link, broker, qosOf, sends, arrivals, subscribes, losses, reloads>>

Answer(type) == toBroker' = Append(toBroker, Packet(type, Head(toClient).id))

Delivered(m) == taken' = [taken EXCEPT ![m] = @ + 1]

Orders(items) ==
    {s \in [1..Cardinality(items) -> items] : \A i, j \in DOMAIN s : s[i] = s[j] => i = j}

\* Mutant: only what was buffered is sent again.
BufferedOnly == {[id |-> 0, entry |-> bufferedQueue[i]] : i \in DOMAIN bufferedQueue}

Sequenced ==
    {[id |-> id, entry |-> sentMessages[id]] : id \in IF cleanSession THEN {} ELSE Used(sentMessages)}
    \cup {[id |-> 0, entry |-> bufferedQueue[i]] : i \in DOMAIN bufferedQueue}

(* Array.sort by a.sequence - b.sequence, stable; the buffer comes after   *)
(* the identifiers.  A subscription has no sequence: the comparison is NaN *)
(* and the order left to the browser.                                      *)
NotSorted == \E item \in Sequenced : item.entry.type = "SUBSCRIBE"
\* Mutant: resent in the order of the identifiers.
ById(a, b) == a.id < b.id

Before(a, b) ==
    \/ a.entry.sequence < b.entry.sequence
    \/ a.entry.sequence = b.entry.sequence /\ (b.id = 0 \/ (a.id # 0 /\ a.id < b.id))
Sorted(s) == \A i, j \in DOMAIN s : i < j => Before(s[i], s[j])

\* Mutant: a message that has its PUBREC is published again.
Republished(item) ==
    IF item.entry.type = "SUBSCRIBE" THEN Packet("SUBSCRIBE", item.id)
    ELSE Publish(item.id, item.entry.msg, item.entry.qos)

Resend(item) ==
    IF item.entry.type = "SUBSCRIBE" THEN Packet("SUBSCRIBE", item.id)
    ELSE IF item.entry.pubRecReceived THEN Packet("PUBREL", item.id)
    ELSE Publish(item.id, item.entry.msg, item.entry.qos)

Cleared(table, used) == [id \in Ids |-> IF used[id] # NoEntry THEN NoEntry ELSE table[id]]

(* CONNACK, accepted.  A clean session forgets what waits for an           *)
(* acknowledgement, what was sent while reconnecting included; everything  *)
(* else is sent again.                                                     *)
HandleConnack ==
    /\ Arrives("CONNACK")
    /\ connected' = TRUE /\ reconnecting' = FALSE
    /\ IF cleanSession
       THEN /\ sentMessages' = Nothing /\ storedSent' = Cleared(storedSent, sentMessages)
            /\ receivedMessages' = Nothing
            /\ storedReceived' = Cleared(storedReceived, receivedMessages)
       ELSE UNCHANGED <<sentMessages, storedSent, receivedMessages, storedReceived>>
    /\ bufferedQueue' = <<>>
    /\ confirmed' = confirmed \cup {bufferedQueue[i].msg : i \in DOMAIN bufferedQueue}
    /\ \E s \in Orders(Sequenced) :
          /\ NotSorted \/ Sorted(s)
          /\ toBroker' = toBroker \o [i \in DOMAIN s |-> Resend(s[i])]
    /\ unsorted' = (unsorted \/ (NotSorted /\ Cardinality(Sequenced) > 1))
    /\ UNCHANGED <<messageIdentifier, sequence, taken>>

Received == receivedMessages' = [receivedMessages EXCEPT ![Head(toClient).id] = Head(toClient).msg]
StoreReceived == storedReceived' = [storedReceived EXCEPT ![Head(toClient).id] = Head(toClient).msg]

(* _receivePublish: QoS 2 is kept until the PUBREL.                        *)
HandlePublish ==
    /\ Arrives("PUBLISH")
    /\ \/ /\ Head(toClient).qos = 0
          /\ Delivered(Head(toClient).msg)
          /\ UNCHANGED <<toBroker, receivedMessages, storedReceived>>
       \/ /\ Head(toClient).qos = 1
          /\ Answer("PUBACK")
          /\ Delivered(Head(toClient).msg)
          /\ UNCHANGED <<receivedMessages, storedReceived>>
       \/ /\ Head(toClient).qos = 2
          /\ Received /\ StoreReceived
          /\ Answer("PUBREC")
          /\ UNCHANGED taken
    /\ UNCHANGED <<connected, reconnecting, sentMessages, storedSent, bufferedQueue,
                   messageIdentifier, sequence, confirmed, unsorted>>

\* Mutant: the message is not forgotten when it is released.
KeptAfterPubrel ==
    /\ Arrives("PUBREL")
    /\ IF receivedMessages[Head(toClient).id] # NoEntry
       THEN Delivered(receivedMessages[Head(toClient).id])
       ELSE UNCHANGED taken
    /\ Answer("PUBCOMP")
    /\ UNCHANGED <<connected, reconnecting, sentMessages, storedSent, bufferedQueue, confirmed,
                   messageIdentifier, sequence, receivedMessages, storedReceived, unsorted>>

HandlePubrel ==
    /\ Arrives("PUBREL")
    /\ LET id == Head(toClient).id IN
       /\ storedReceived' = [storedReceived EXCEPT ![id] = NoEntry]
       /\ IF receivedMessages[id] # NoEntry
          THEN /\ Delivered(receivedMessages[id])
               /\ receivedMessages' = [receivedMessages EXCEPT ![id] = NoEntry]
          ELSE UNCHANGED <<taken, receivedMessages>>
    /\ Answer("PUBCOMP")
    /\ UNCHANGED <<connected, reconnecting, sentMessages, storedSent, bufferedQueue,
                   messageIdentifier, sequence, confirmed, unsorted>>

\* Mutant: the copy stays in localStorage.
LeftInStorage(id) ==
    /\ sentMessages' = [sentMessages EXCEPT ![id] = NoEntry]
    /\ confirmed'    = confirmed \cup {sentMessages[id].msg}
    /\ UNCHANGED storedSent

(* PUBACK and PUBCOMP: the message leaves the table and the storage and is *)
(* reported.  Of an unknown identifier a PUBACK is ignored and a PUBCOMP   *)
(* throws; AcksExpected says that there is none.                           *)
Completed(id) ==
    /\ sentMessages' = [sentMessages EXCEPT ![id] = NoEntry]
    /\ storedSent'   = [storedSent EXCEPT ![id] = NoEntry]
    /\ confirmed'    = confirmed \cup {sentMessages[id].msg}

HandleCompletion(type) ==
    /\ Arrives(type)
    /\ sentMessages[Head(toClient).id] # NoEntry
    /\ Completed(Head(toClient).id)
    /\ UNCHANGED <<connected, reconnecting, receivedMessages, storedReceived, bufferedQueue,
                   messageIdentifier, sequence, toBroker, taken, unsorted>>

HandlePuback == HandleCompletion("PUBACK")
HandlePubcomp == HandleCompletion("PUBCOMP")

HandlePubrec ==
    /\ Arrives("PUBREC")
    /\ LET id == Head(toClient).id
           entry == [sentMessages[id] EXCEPT !.pubRecReceived = TRUE] IN
       IF sentMessages[id] # NoEntry /\ sentMessages[id].type = "PUBLISH"
       THEN /\ sentMessages' = [sentMessages EXCEPT ![id] = entry]
            /\ storedSent' = [storedSent EXCEPT ![id] = entry]
            /\ Answer("PUBREL")
       ELSE UNCHANGED <<sentMessages, storedSent, toBroker>>
    /\ UNCHANGED <<connected, reconnecting, receivedMessages, storedReceived, bufferedQueue,
                   messageIdentifier, sequence, taken, confirmed, unsorted>>

(* SUBACK and UNSUBACK.                                                    *)
HandleSuback ==
    /\ Arrives("SUBACK")
    /\ sentMessages' = [sentMessages EXCEPT ![Head(toClient).id] = NoEntry]
    /\ UNCHANGED <<connected, reconnecting, receivedMessages, storedSent, storedReceived,
                   bufferedQueue, messageIdentifier, sequence, toBroker, taken, confirmed, unsorted>>

Receive ==
    \/ HandleConnack \/ HandlePublish \/ HandlePubrel
    \/ HandlePuback \/ HandlePubcomp \/ HandlePubrec \/ HandleSuback

-----------------------------------------------------------------------------
(* Losses.                                                                 *)

LinkGone ==
    /\ link' = FALSE /\ connected' = FALSE
    /\ toBroker' = <<>> /\ toClient' = <<>>
    /\ UNCHANGED <<cleanSession, broker, history, storedSent, storedReceived, subscribes, unsorted>>

(* _disconnected with an error.  A connection that was made is made again; *)
(* while that is tried, what was buffered stays.                           *)
Lose ==
    /\ link /\ losses < MaxLosses
    /\ LinkGone
    /\ reconnecting' = (reconnecting \/ connected)
    /\ bufferedQueue' = IF reconnecting THEN bufferedQueue ELSE <<>>
    /\ losses' = losses + 1
    /\ UNCHANGED <<sentMessages, receivedMessages, messageIdentifier, sequence, reloads>>

(* The page is loaded anew: ClientImpl restores what localStorage has.     *)
Reload ==
    /\ reloads < MaxReloads
    /\ LinkGone
    /\ reconnecting' = FALSE /\ bufferedQueue' = <<>>
    /\ sentMessages' = storedSent /\ receivedMessages' = storedReceived
    /\ messageIdentifier' = 1 /\ sequence' = 0
    /\ reloads' = reloads + 1
    /\ UNCHANGED losses

-----------------------------------------------------------------------------
(* The broker.                                                             *)

ByBroker ==
    UNCHANGED <<cleanSession, client, bounds, sends>>

(* CONNECT: the session is cleared or resumed.                             *)
Connect ==
    /\ ~link /\ link' = TRUE
    /\ LET kept == IF cleanSession THEN Nothing ELSE brokerSent IN
       /\ brokerSent' = kept
       /\ \E ids \in Orders(Used(kept)) :
             toClient' = <<Packet("CONNACK", 0)>> \o
                 [i \in DOMAIN ids |->
                     IF kept[ids[i]].released THEN Packet("PUBREL", ids[i])
                     ELSE Publish(ids[i], kept[ids[i]].msg, kept[ids[i]].qos)]
    /\ brokerReceived' = IF cleanSession THEN {} ELSE brokerReceived
    /\ UNCHANGED <<toBroker, qosOf, taken, confirmed, arrivals>> /\ ByBroker

BrokerSendQos0(m) ==
    /\ link /\ qosOf[m] = 0 /\ taken[m] = 0
    /\ \A i \in DOMAIN toClient : toClient[i].type # "PUBLISH"
    /\ toClient' = Append(toClient, Publish(0, m, 0))
    /\ UNCHANGED <<link, toBroker, broker, qosOf, taken, confirmed, arrivals>> /\ ByBroker

BrokerSend(m, qos) ==
    /\ link /\ qosOf[m] = 0 /\ taken[m] = 0
    /\ \A i \in DOMAIN toClient : toClient[i].type # "PUBLISH"
    /\ Used(brokerSent) # Ids
    /\ LET id == CHOOSE i \in Ids : brokerSent[i] = NoEntry IN
       /\ brokerSent' = [brokerSent EXCEPT ![id] = [msg |-> m, qos |-> qos, released |-> FALSE]]
       /\ toClient' = Append(toClient, Publish(id, m, qos))
    /\ qosOf' = [qosOf EXCEPT ![m] = qos]
    /\ UNCHANGED <<link, toBroker, brokerReceived, taken, confirmed, arrivals>> /\ ByBroker

Takes(m) ==
    /\ taken' = [taken EXCEPT ![m] = @ + 1]
    /\ arrivals' = Append(arrivals, m)

(* A QoS 2 message is taken when its PUBLISH arrives, and once.            *)
BrokerTakes(p) ==
    /\ p.type = "PUBLISH"
    /\ IF p.qos = 2 /\ p.id \in brokerReceived THEN UNCHANGED <<taken, arrivals>> ELSE Takes(p.msg)
    /\ brokerReceived' = IF p.qos = 2 THEN brokerReceived \cup {p.id} ELSE brokerReceived
    /\ toClient' = toClient \o
           CASE p.qos = 0 -> <<>>
             [] p.qos = 1 -> <<Packet("PUBACK", p.id)>>
             [] OTHER     -> <<Packet("PUBREC", p.id)>>
    /\ UNCHANGED <<brokerSent, confirmed>>

BrokerReleases(p) ==
    /\ p.type = "PUBREL"
    /\ brokerReceived' = brokerReceived \ {p.id}
    /\ toClient' = Append(toClient, Packet("PUBCOMP", p.id))
    /\ UNCHANGED <<brokerSent, taken, confirmed, arrivals>>

BrokerSubscribes(p) ==
    /\ p.type = "SUBSCRIBE"
    /\ toClient' = Append(toClient, Packet("SUBACK", p.id))
    /\ UNCHANGED <<broker, taken, confirmed, arrivals>>

BrokerPubrec(p) ==
    /\ p.type = "PUBREC"
    /\ brokerSent' = [brokerSent EXCEPT ![p.id] = [@ EXCEPT !.released = TRUE]]
    /\ toClient' = Append(toClient, Packet("PUBREL", p.id))
    /\ UNCHANGED <<brokerReceived, taken, confirmed, arrivals>>

BrokerCompletes(p) ==
    /\ p.type \in {"PUBACK", "PUBCOMP"}
    /\ brokerSent' = [brokerSent EXCEPT ![p.id] = NoEntry]
    /\ confirmed' = confirmed \cup {brokerSent[p.id].msg}
    /\ UNCHANGED <<brokerReceived, toClient, taken, arrivals>>

BrokerReceive ==
    /\ toBroker # <<>>
    /\ LET p == Head(toBroker) IN
          BrokerTakes(p) \/ BrokerReleases(p) \/ BrokerSubscribes(p) \/ BrokerPubrec(p) \/ BrokerCompletes(p)
    /\ toBroker' = Tail(toBroker)
    /\ UNCHANGED <<link, qosOf>> /\ ByBroker

-----------------------------------------------------------------------------
Next ==
    \/ \E m \in Outbound : Send(m)
    \/ Subscribe
    \/ Receive
    \/ Lose \/ Reload
    \/ Connect
    \/ \E m \in Inbound : BrokerSendQos0(m) \/ \E qos \in {1, 2} : BrokerSend(m, qos)
    \/ BrokerReceive

(* The page and the broker handle what has arrived, and the client keeps   *)
(* connecting (its reconnect timer; after a reload, the application).      *)
Fairness == WF_vars(Receive) /\ WF_vars(Connect) /\ WF_vars(BrokerReceive)

Spec == Init /\ [][Next]_vars /\ Fairness

-----------------------------------------------------------------------------
(* localStorage has, at every moment, exactly what a reload must bring     *)
(* back: every message that waits for an acknowledgement and every QoS 2   *)
(* message not yet released (store, removeItem in the handlers).           *)
Recoverable ==
    /\ storedReceived = receivedMessages
    /\ \A id \in Ids :
          storedSent[id] = IF sentMessages[id] # NoEntry /\ sentMessages[id].type = "PUBLISH"
                           THEN sentMessages[id] ELSE NoEntry

(* A PUBACK or PUBCOMP on its way is for a message that waits for it: the  *)
(* handler of PUBCOMP takes it from _sentMessages unchecked.               *)
AcksExpected ==
    \A i \in DOMAIN toClient :
        LET p == toClient[i] IN
        p.type \in {"PUBACK", "PUBREC", "PUBCOMP"} =>
            /\ sentMessages[p.id] # NoEntry
            /\ p.type = "PUBCOMP" <=> sentMessages[p.id].pubRecReceived

(* Messages arrive for the first time in the order they were sent, however *)
(* often the connection is lost ("Sort sentMessages into the original sent *)
(* order"): unless the page was reloaded, which starts the sequence again  *)
(* below what it restores, or a subscription was among those resent.       *)
FirstArrival(m) == CHOOSE i \in DOMAIN arrivals : arrivals[i] = m /\ \A j \in 1..(i-1) : arrivals[j] # m
InOrder ==
    reloads = 0 /\ ~unsorted =>
        \A m, n \in Outbound :
            m < n /\ taken[m] > 0 /\ taken[n] > 0 => FirstArrival(m) < FirstArrival(n)

(* Delivery is what MQTT promises: QoS 2 once, and confirmed only then.    *)
Acked(m) == qosOf[m] > 0
Promise == INSTANCE MqttDelivery WITH
    accepted  <- qosOf,
    taken     <- [m \in Messages |-> IF Acked(m) THEN taken[m] ELSE 0],
    confirmed <- {m \in confirmed : Acked(m)}
Delivers == Promise!Spec

(* In a session that is not clean every message with QoS 1 or 2 is         *)
(* confirmed, whatever is lost on the way (losses and reloads are finite). *)
Confirmed == \A m \in Messages : (Acked(m) /\ ~cleanSession) ~> (m \in confirmed)
=============================================================================
