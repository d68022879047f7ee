-------------------------- MODULE MqttSessionProof --------------------------
(***************************************************************************)
(* For any number of requests, identifiers, losses and reloads: what       *)
(* localStorage has is what a reload must bring back, an acknowledgement   *)
(* is for a message that waits for it, the messages are delivered as MQTT  *)
(* promises, and they arrive in the order they were sent.                  *)
(*                                                                         *)
(* The first two are not inductive: a SUBACK for the identifier of a       *)
(* message would take the message and leave its copy.  Flows adds that     *)
(* each identifier has at most one packet under way, of the kind its entry *)
(* waits for; Phase, that there are none before the CONNACK, which         *)
(* publishes everything again; Fresh, that an identifier is given out only *)
(* when it is free.                                                        *)
(***************************************************************************)
EXTENDS MqttSession, SequenceTheorems, FiniteSetTheorems, WellFoundedInduction, TLAPS

-----------------------------------------------------------------------------
(* Queues, whatever is in them.                                            *)

IsSequence(q) == \E S : q \in Seq(S)

LEMMA Emptied == IsSequence(<<>>) /\ Len(<<>>) = 0
BY DEF IsSequence

LEMMA Popped ==
    ASSUME NEW q, IsSequence(q), q # <<>>
    PROVE  /\ IsSequence(Tail(q)) /\ Len(q) \in Nat /\ Len(q) >= 1
           /\ Len(Tail(q)) = Len(q) - 1
           /\ \A i \in 1..Len(Tail(q)) : i + 1 \in 1..Len(q) /\ i + 1 # 1 /\ Tail(q)[i] = q[i + 1]
           /\ Head(q) = q[1] /\ 1 \in 1..Len(q)
<1>1. PICK S : q \in Seq(S)
    BY DEF IsSequence
<1>2. Len(q) \in Nat /\ Len(q) >= 1
    BY <1>1, EmptySeq
<1> QED
    BY <1>1, <1>2, HeadTailProperties DEF IsSequence

LEMMA Appended ==
    ASSUME NEW q, NEW x, IsSequence(q)
    PROVE  /\ IsSequence(Append(q, x)) /\ Len(q) \in Nat
           /\ Len(Append(q, x)) = Len(q) + 1 /\ Append(q, x)[Len(q) + 1] = x
           /\ \A i \in 1..Len(q) : Append(q, x)[i] = q[i]
<1>1. PICK S : q \in Seq(S)
    BY DEF IsSequence
<1>2. q \in Seq(S \cup {x})
    BY <1>1, SeqMonotonic
<1> QED
    BY <1>2, AppendProperties, LenProperties DEF IsSequence

LEMMA Concatenated ==
    ASSUME NEW q, NEW r, IsSequence(q), IsSequence(r)
    PROVE  /\ IsSequence(q \o r) /\ Len(q) \in Nat /\ Len(r) \in Nat
           /\ Len(q \o r) = Len(q) + Len(r)
           /\ \A i \in 1..Len(q \o r) : (q \o r)[i] = IF i <= Len(q) THEN q[i] ELSE r[i - Len(q)]
<1>1. PICK S : q \in Seq(S)
    BY DEF IsSequence
<1>2. PICK T : r \in Seq(T)
    BY DEF IsSequence
<1>3. q \in Seq(S \cup T) /\ r \in Seq(S \cup T)
    BY <1>1, <1>2, SeqMonotonic
<1>4. Len(q) \in Nat /\ Len(r) \in Nat
    BY <1>3, LenProperties
<1> QED
    BY <1>3, <1>4, ConcatProperties DEF IsSequence

(* A concatenation with one packet, or none.                               *)
LEMMA JoinOne ==
    ASSUME NEW q, NEW x, IsSequence(q)
    PROVE  q \o <<x>> = Append(q, x) /\ q \o <<>> = q
<1>1. PICK S : q \in Seq(S)
    BY DEF IsSequence
<1>2. q \in Seq(S \cup {x})
    BY <1>1, SeqMonotonic
<1> QED
    BY <1>2, AppendIsConcat, ConcatEmptySeq

(* A queue made from a function.                                           *)
LEMMA Listed ==
    ASSUME NEW n \in Nat, NEW q, DOMAIN q = 1..n, q = [i \in DOMAIN q |-> q[i]]
    PROVE  IsSequence(q) /\ Len(q) = n
<1>1. q \in [1..n -> {q[i] : i \in 1..n}]
    OBVIOUS
<1>2. q \in Seq({q[i] : i \in 1..n})
    BY <1>1, SeqDef
<1>3. Len(q) \in Nat /\ 1..Len(q) = 1..n
    BY <1>2, LenProperties
<1> QED
    BY <1>2, <1>3 DEF IsSequence

-----------------------------------------------------------------------------
(* Packets under way that belong to an identifier of the client.           *)

Asks(p) == p.type \in {"SUBSCRIBE", "PUBREL"} \/ (p.type = "PUBLISH" /\ p.qos # 0)
Acks(p) == p.type \in {"SUBACK", "PUBACK", "PUBREC", "PUBCOMP"}

Waits(p, sent) ==
    /\ p.id \in Ids /\ sent[p.id] # NoEntry
    /\ IF p.type \in {"SUBSCRIBE", "SUBACK"}
       THEN sent[p.id].type = "SUBSCRIBE"
       ELSE /\ sent[p.id].type = "PUBLISH"
            /\ sent[p.id].pubRecReceived <=> p.type \in {"PUBREL", "PUBCOMP"}

NoFlow(id, b, c) ==
    /\ \A i \in 1..Len(b) : Asks(b[i]) => b[i].id # id
    /\ \A i \in 1..Len(c) : Acks(c[i]) => c[i].id # id

Flows(b, c, sent) ==
    /\ \A i \in 1..Len(b) : Asks(b[i]) => Waits(b[i], sent)
    /\ \A i \in 1..Len(c) : Acks(c[i]) => Waits(c[i], sent)
    /\ \A i, j \in 1..Len(b) : i # j /\ Asks(b[i]) /\ Asks(b[j]) => b[i].id # b[j].id
    /\ \A i, j \in 1..Len(c) : i # j /\ Acks(c[i]) /\ Acks(c[j]) => c[i].id # c[j].id
    /\ \A i \in 1..Len(b), j \in 1..Len(c) : Asks(b[i]) /\ Acks(c[j]) => b[i].id # c[j].id

LEMMA PopBroker ==
    ASSUME NEW b, NEW c, NEW sent, IsSequence(b), b # <<>>, Flows(b, c, sent)
    PROVE  /\ Flows(Tail(b), c, sent)
           /\ Asks(Head(b)) => Waits(Head(b), sent) /\ NoFlow(Head(b).id, Tail(b), c)
BY Popped DEF Flows, NoFlow

LEMMA PopClient ==
    ASSUME NEW b, NEW c, NEW sent, IsSequence(c), c # <<>>, Flows(b, c, sent)
    PROVE  /\ Flows(b, Tail(c), sent)
           /\ Acks(Head(c)) => Waits(Head(c), sent) /\ NoFlow(Head(c).id, b, Tail(c))
BY Popped DEF Flows, NoFlow

LEMMA PushBroker ==
    ASSUME NEW b, NEW c, NEW sent, NEW p, IsSequence(b), Flows(b, c, sent),
           Asks(p) => Waits(p, sent) /\ NoFlow(p.id, b, c)
    PROVE  Flows(Append(b, p), c, sent)
<1> DEFINE a == Append(b, p)
<1>1. \A i \in 1..Len(a) : IF i = Len(b) + 1 THEN a[i] = p ELSE i \in 1..Len(b) /\ a[i] = b[i]
    BY Appended
<1> HIDE DEF a
<1>2. Flows(a, c, sent)
    BY <1>1 DEF Flows, NoFlow
<1> QED
    BY <1>2 DEF a

LEMMA PushClient ==
    ASSUME NEW b, NEW c, NEW sent, NEW p, IsSequence(c), Flows(b, c, sent),
           Acks(p) => Waits(p, sent) /\ NoFlow(p.id, b, c)
    PROVE  Flows(b, Append(c, p), sent)
<1> DEFINE a == Append(c, p)
<1>1. \A i \in 1..Len(a) : IF i = Len(c) + 1 THEN a[i] = p ELSE i \in 1..Len(c) /\ a[i] = c[i]
    BY Appended
<1> HIDE DEF a
<1>2. Flows(b, a, sent)
    BY <1>1 DEF Flows, NoFlow
<1> QED
    BY <1>2 DEF a

(* An entry without a packet under way may change.                         *)
LEMMA ChangeEntry ==
    ASSUME NEW b, NEW c, NEW S, NEW sent \in [Ids -> S], NEW id, NEW entry,
           Flows(b, c, sent), NoFlow(id, b, c)
    PROVE  Flows(b, c, [sent EXCEPT ![id] = entry])
BY DEF Flows, NoFlow, Waits

-----------------------------------------------------------------------------
(* The invariant.                                                          *)

Slot == Entry \cup {NoEntry}

(* A subscription is QoS 1 like its packet; what was buffered is QoS 0.    *)
Tables ==
    /\ sentMessages \in [Ids -> Slot] /\ storedSent \in [Ids -> Slot]
    /\ \A id \in Ids : sentMessages[id] # NoEntry => sentMessages[id].qos # 0
    /\ DOMAIN receivedMessages = Ids /\ receivedMessages = [id \in Ids |-> receivedMessages[id]]
    /\ IsSequence(bufferedQueue)
    /\ \A i \in 1..Len(bufferedQueue) :
          /\ bufferedQueue[i] \in Entry /\ bufferedQueue[i].type = "PUBLISH"
          /\ bufferedQueue[i].qos = 0 /\ ~bufferedQueue[i].pubRecReceived
    /\ sequence \in Nat

Requests == sends + subscribes

(* The counter and the identifiers in use do not run ahead of the requests.*)
Fresh ==
    /\ sends \in Nat /\ subscribes \in Nat
    /\ messageIdentifier \in Ids /\ messageIdentifier <= Requests + 1
    /\ \A id \in Ids : sentMessages[id] # NoEntry => id <= Requests

(* CONNACK comes first on a connection.                                    *)
Phase ==
    /\ link \in BOOLEAN /\ connected \in BOOLEAN
    /\ IsSequence(toBroker) /\ IsSequence(toClient)
    /\ ~link => ~connected /\ Len(toClient) = 0
    /\ link /\ ~connected => Len(toClient) > 0
    /\ connected => \A i \in 1..Len(toClient) : toClient[i].type # "CONNACK"
    /\ ~connected =>
          /\ Len(toBroker) = 0
          /\ \A i \in 1..Len(toClient) :
                ~Acks(toClient[i]) /\ (toClient[i].type = "CONNACK" <=> i = 1)

SessionInv ==
    Tables /\ Fresh /\ Phase /\ Recoverable /\ Flows(toBroker, toClient, sentMessages)

LEMMA Least == ASSUME NEW U, U \subseteq Nat, U # {} PROVE \E k \in U : \A n \in U : k <= n
<1> DEFINE R == {ss \in Nat \X Nat : ss[1] < ss[2]}
<1>1. IsWellFoundedOn(R, Nat)
    <2>1. R = OpToRel(<, Nat)
        BY DEF OpToRel
    <2> QED
        BY <2>1, NatLessThanWellFounded
<1>2. \A x, y \in U : <<y, x>> \in R <=> y < x
    OBVIOUS
<1> HIDE DEF R
<1>3. PICK x \in U : \A y \in U : ~(<<y, x>> \in R)
    BY <1>1, WFMin
<1>4. \A y \in U : ~(y < x)
    BY <1>2, <1>3
<1> QED
    BY <1>4

(* The identifier for a new entry is a free one.                           *)
LEMMA FreeId ==
    ASSUME SessionInv, Requests < MaxRequests
    PROVE  NextId \in Ids /\ sentMessages[NextId] = NoEntry /\ NextId <= Requests + 1
<1> DEFINE n == Requests + 1
           U == {k \in Ids : Unused(k)}
<1>1. n \in Ids
    BY SessionAssumption DEF SessionInv, Fresh, Ids, Requests
<1>2. Unused(n)
    BY <1>1, SessionAssumption DEF SessionInv, Fresh, Unused, Ids, Requests
<1>3. U \subseteq Nat /\ n \in U
    BY <1>1, <1>2, SessionAssumption DEF Ids
<1>4. \E k \in U : \A other \in U : k <= other
    BY <1>3, Least
<1>5. NextId \in Ids /\ Unused(NextId) /\ \A other \in Ids : Unused(other) => NextId <= other
    BY <1>4 DEF NextId
<1> QED
    BY <1>1, <1>2, <1>5 DEF Unused

(* _requires_ack puts an entry in the table under an identifier that no    *)
(* packet under way has.                                                   *)
LEMMA Entered ==
    ASSUME SessionInv, Requests < MaxRequests, NEW entry \in Entry, entry.qos # 0,
           RequiresAck(entry)
    PROVE  /\ sentMessages' = [sentMessages EXCEPT ![NextId] = entry]
           /\ NextId \in Ids /\ sentMessages[NextId] = NoEntry
           /\ sentMessages' \in [Ids -> Slot]
           /\ \A id \in Ids : sentMessages'[id] # NoEntry => sentMessages'[id].qos # 0
           /\ \A id \in Ids : sentMessages'[id] # NoEntry => id <= Requests + 1
           /\ messageIdentifier' \in Ids /\ messageIdentifier' <= Requests + 2
           /\ NoFlow(NextId, toBroker, toClient)
           /\ Flows(toBroker, toClient, sentMessages')
<1>1. NextId \in Ids /\ sentMessages[NextId] = NoEntry /\ NextId <= Requests + 1
    BY FreeId
<1>2. sentMessages' = [sentMessages EXCEPT ![NextId] = entry] /\ sentMessages \in [Ids -> Slot]
    BY DEF RequiresAck, SessionInv, Tables
<1>3. NoFlow(NextId, toBroker, toClient)
    BY <1>1 DEF SessionInv, Flows, NoFlow, Waits
<1>4. Flows(toBroker, toClient, sentMessages')
    BY <1>2, <1>3, ChangeEntry DEF SessionInv
<1>5. messageIdentifier' \in Ids /\ messageIdentifier' <= Requests + 2
    <2>1. Requests \in Nat
        BY DEF SessionInv, Fresh, Requests
    <2> QED
        BY <1>1, <2>1, SessionAssumption DEF RequiresAck, Ids
<1>6. /\ sentMessages' \in [Ids -> Slot]
      /\ \A id \in Ids : sentMessages'[id] # NoEntry => sentMessages'[id].qos # 0
    BY <1>1, <1>2 DEF SessionInv, Tables, Slot
<1>7. \A id \in Ids : sentMessages'[id] # NoEntry => id <= Requests + 1
    <2>1. Requests \in Nat /\ \A id \in Ids : sentMessages[id] # NoEntry => id <= Requests
        BY DEF SessionInv, Fresh, Requests
    <2>2. Ids \subseteq Nat
        BY SessionAssumption DEF Ids
    <2> QED
        BY <1>1, <1>2, <2>1, <2>2
<1> QED
    BY <1>1, <1>2, <1>3, <1>4, <1>5, <1>6, <1>7

-----------------------------------------------------------------------------
(* The application's calls.                                                *)

(* The copy is stored with the entry.                                      *)
LEMMA Copied ==
    ASSUME SessionInv, NEW entry \in Entry, entry.type = "PUBLISH", NextId \in Ids,
           sentMessages' = [sentMessages EXCEPT ![NextId] = entry],
           storedSent' = [storedSent EXCEPT ![NextId] = entry],
           UNCHANGED <<storedReceived, receivedMessages>>
    PROVE  Recoverable' /\ storedSent' \in [Ids -> Slot]
BY NoEntryAssumption DEF SessionInv, Tables, Recoverable, Slot

LEMMA NewEntryType ==
    ASSUME SessionInv, NEW m \in Outbound, NEW qos \in Qos
    PROVE  /\ NewEntry(m, qos) \in Entry /\ NewEntry(m, qos).type = "PUBLISH"
           /\ NewEntry(m, qos).qos = qos /\ NewEntry(m, qos).sequence = sequence + 1
           /\ ~NewEntry(m, qos).pubRecReceived
BY DEF SessionInv, Tables, NewEntry, Entry

LEMMA SendQos0Keeps ==
    ASSUME SessionInv, NEW m \in Outbound, SendQos0(m)
    PROVE  SessionInv'
<1>1. Flows(Append(toBroker, Publish(0, m, 0)), toClient, sentMessages)
    BY PushBroker DEF SessionInv, Phase, Asks, Publish
<1>2. Tables' /\ Recoverable'
    BY DEF SessionInv, SendQos0, Accepted, Tables, Recoverable
<1>3. Fresh'
    BY SessionAssumption DEF SessionInv, SendQos0, Accepted, Fresh, Requests, bounds, Ids
<1>4. Phase'
    BY Appended DEF SessionInv, SendQos0, Accepted, Phase
<1> QED
    BY <1>1, <1>2, <1>3, <1>4 DEF SessionInv, SendQos0, Accepted

LEMMA SendAckedKeeps ==
    ASSUME SessionInv, NEW m \in Outbound, NEW qos \in {1, 2}, SendAcked(m, qos)
    PROVE  SessionInv'
<1> DEFINE entry == NewEntry(m, qos)
           p == Publish(NextId, m, qos)
<1>1. /\ entry \in Entry /\ entry.type = "PUBLISH" /\ entry.qos = qos /\ entry.sequence = sequence + 1
      /\ ~entry.pubRecReceived
    <2>1. qos \in Qos
        BY DEF Qos
    <2> QED
        BY <2>1, NewEntryType, Zenon
<1>2. Requests < MaxRequests /\ RequiresAck(entry) /\ StoreSent(entry)
    BY DEF SendAcked, Accepted, Requests
<1> HIDE DEF entry
<1>3. /\ sentMessages' = [sentMessages EXCEPT ![NextId] = entry]
      /\ NextId \in Ids /\ sentMessages \in [Ids -> Slot]
      /\ NoFlow(NextId, toBroker, toClient) /\ Flows(toBroker, toClient, sentMessages')
    BY <1>1, <1>2, Entered DEF SessionInv, Tables
<1>4. Waits(p, sentMessages')
    BY <1>1, <1>3, NoEntryAssumption DEF Waits, Publish
<1>5. Flows(toBroker', toClient', sentMessages')
    <2>1. Flows(Append(toBroker, p), toClient, sentMessages')
        BY <1>3, <1>4, PushBroker DEF SessionInv, Phase, Publish
    <2> QED
        BY <2>1 DEF SendAcked, Accepted
<1>6. Recoverable' /\ storedSent' \in [Ids -> Slot]
    BY <1>1, <1>2, <1>3, Copied DEF StoreSent, SendAcked, Accepted
<1>7. Tables'
    BY <1>1, <1>2, <1>6, Entered DEF SessionInv, Tables, SendAcked, Accepted, StoreSent
<1>8. Fresh'
    <2>1. /\ messageIdentifier' \in Ids /\ messageIdentifier' <= Requests + 2
          /\ \A id \in Ids : sentMessages'[id] # NoEntry => id <= Requests + 1
        BY <1>1, <1>2, Entered
    <2>2. sends' = sends + 1 /\ subscribes' = subscribes /\ sends \in Nat /\ subscribes \in Nat
        BY DEF SendAcked, Accepted, bounds, SessionInv, Fresh
    <2> QED
        BY <2>1, <2>2 DEF Fresh, Requests
<1>9. Phase'
    BY Appended DEF SessionInv, SendAcked, Accepted, Phase
<1> QED
    BY <1>5, <1>6, <1>7, <1>8, <1>9 DEF SessionInv

LEMMA Cut ==
    ASSUME SessionInv, ~connected, NEW sent
    PROVE  Flows(toBroker, toClient, sent)
BY DEF SessionInv, Phase, Flows

LEMMA SendDisconnectedKeeps ==
    ASSUME SessionInv, NEW m \in Outbound, NEW qos \in Qos, SendDisconnected(m, qos)
    PROVE  SessionInv'
<1> DEFINE entry == NewEntry(m, qos)
<1>1. /\ entry \in Entry /\ entry.type = "PUBLISH" /\ entry.qos = qos /\ entry.sequence = sequence + 1
      /\ ~entry.pubRecReceived
    BY NewEntryType, Zenon
<1> HIDE DEF entry
<1>2. Requests < MaxRequests /\ ~connected
    BY DEF SendDisconnected, Accepted, Requests
<1>3. Flows(toBroker', toClient', sentMessages')
    BY <1>2, Cut DEF SendDisconnected, Accepted
<1>4. Phase'
    BY DEF SessionInv, SendDisconnected, Accepted, Phase
<1>5. sends' = sends + 1 /\ subscribes' = subscribes /\ sends \in Nat /\ subscribes \in Nat
    BY DEF SendDisconnected, Accepted, bounds, SessionInv, Fresh
<1>6. CASE qos > 0
    <2>1. RequiresAck(entry) /\ StoreSent(entry) /\ UNCHANGED bufferedQueue
        BY <1>6 DEF SendDisconnected, entry, Qos
    <2>2. /\ sentMessages' = [sentMessages EXCEPT ![NextId] = entry]
          /\ NextId \in Ids /\ sentMessages' \in [Ids -> Slot]
          /\ \A id \in Ids : sentMessages'[id] # NoEntry => sentMessages'[id].qos # 0
          /\ \A id \in Ids : sentMessages'[id] # NoEntry => id <= Requests + 1
          /\ messageIdentifier' \in Ids /\ messageIdentifier' <= Requests + 2
        BY <1>1, <1>2, <1>6, <2>1, Entered DEF Qos
    <2>3. Recoverable' /\ storedSent' \in [Ids -> Slot]
        BY <1>1, <2>1, <2>2, Copied DEF StoreSent, SendDisconnected, Accepted
    <2>4. Tables'
        BY <1>1, <2>1, <2>2, <2>3 DEF SessionInv, Tables, SendDisconnected, Accepted, StoreSent
    <2>5. Fresh'
        BY <1>5, <2>2 DEF Fresh, Requests
    <2> QED
        BY <1>3, <1>4, <2>3, <2>4, <2>5 DEF SessionInv
<1>7. CASE qos = 0
    <2>1. /\ bufferedQueue' = Append(bufferedQueue, entry) /\ sequence' = sequence + 1
          /\ UNCHANGED <<sentMessages, storedSent, messageIdentifier, receivedMessages, storedReceived>>
        BY <1>7 DEF SendDisconnected, Accepted, entry
    <2>2. IsSequence(bufferedQueue') /\ \A i \in 1..Len(bufferedQueue') :
              /\ bufferedQueue'[i] \in Entry /\ bufferedQueue'[i].type = "PUBLISH"
              /\ bufferedQueue'[i].qos = 0 /\ ~bufferedQueue'[i].pubRecReceived
        <3> DEFINE a == Append(bufferedQueue, entry)
        <3>0. IsSequence(bufferedQueue)
            BY DEF SessionInv, Tables
        <3>1. /\ IsSequence(a)
              /\ \A i \in 1..Len(a) : a[i] = entry \/ (i \in 1..Len(bufferedQueue) /\ a[i] = bufferedQueue[i])
            BY <3>0, Appended
        <3> HIDE DEF a
        <3>2. IsSequence(a) /\ \A i \in 1..Len(a) :
                  a[i] \in Entry /\ a[i].type = "PUBLISH" /\ a[i].qos = 0 /\ ~a[i].pubRecReceived
            BY <1>1, <1>7, <3>1 DEF SessionInv, Tables
        <3>3. bufferedQueue' = a
            BY <2>1 DEF a
        <3> QED
            BY <3>2, <3>3
    <2>3. Tables' /\ Recoverable'
        BY <2>1, <2>2 DEF SessionInv, Tables, Recoverable
    <2>4. Fresh'
        BY <1>5, <2>1, SessionAssumption DEF SessionInv, Fresh, Requests, Ids
    <2> QED
        BY <1>3, <1>4, <2>3, <2>4 DEF SessionInv
<1> QED
    BY <1>6, <1>7 DEF Qos

LEMMA SubscribeKeeps == ASSUME SessionInv, Subscribe PROVE SessionInv'
<1> DEFINE entry == [type |-> "SUBSCRIBE", msg |-> NoEntry, qos |-> 1, sequence |-> 0,
                     pubRecReceived |-> FALSE]
           p == Packet("SUBSCRIBE", NextId)
<1>1. entry \in Entry /\ entry.type = "SUBSCRIBE" /\ entry.qos = 1
    BY DEF Entry, Qos
<1>2. Requests < MaxRequests /\ RequiresAck(entry) /\ connected
    BY DEF Subscribe, Requests
<1> HIDE DEF entry
<1>3. /\ sentMessages' = [sentMessages EXCEPT ![NextId] = entry]
      /\ NextId \in Ids /\ sentMessages[NextId] = NoEntry /\ sentMessages' \in [Ids -> Slot]
      /\ \A id \in Ids : sentMessages'[id] # NoEntry => sentMessages'[id].qos # 0
      /\ \A id \in Ids : sentMessages'[id] # NoEntry => id <= Requests + 1
      /\ messageIdentifier' \in Ids /\ messageIdentifier' <= Requests + 2
      /\ NoFlow(NextId, toBroker, toClient) /\ Flows(toBroker, toClient, sentMessages')
    BY <1>1, <1>2, Entered
<1>4. Waits(p, sentMessages')
    BY <1>1, <1>3, NoEntryAssumption DEF Waits, Packet, SessionInv, Tables
<1>5. Flows(toBroker', toClient', sentMessages')
    <2>1. Flows(Append(toBroker, p), toClient, sentMessages')
        BY <1>3, <1>4, PushBroker DEF SessionInv, Phase, Packet
    <2> QED
        BY <2>1 DEF Subscribe
<1>6. Recoverable'
    BY <1>1, <1>3 DEF SessionInv, Tables, Recoverable, Subscribe
<1>7. Tables'
    BY <1>3 DEF SessionInv, Tables, Subscribe
<1>8. Fresh'
    BY <1>3 DEF SessionInv, Fresh, Requests, Subscribe, history
<1>9. Phase'
    BY <1>2, Appended DEF SessionInv, Subscribe, Phase
<1> QED
    BY <1>5, <1>6, <1>7, <1>8, <1>9 DEF SessionInv

-----------------------------------------------------------------------------
(* The handlers.                                                           *)

LEMMA Handling ==
    ASSUME SessionInv, NEW type, type # "CONNACK", Arrives(type)
    PROVE  /\ connected /\ toClient # <<>> /\ IsSequence(toClient) /\ IsSequence(toBroker)
           /\ toClient' = Tail(toClient) /\ Head(toClient).type = type
           /\ Flows(toBroker, Tail(toClient), sentMessages)
           /\ Acks(Head(toClient)) =>
                  /\ Waits(Head(toClient), sentMessages)
                  /\ NoFlow(Head(toClient).id, toBroker, Tail(toClient))
<1>1. IsSequence(toClient) /\ IsSequence(toBroker) /\ toClient # <<>> /\ Head(toClient).type = type
    BY DEF SessionInv, Phase, Arrives
<1>2. connected
    BY <1>1, Popped DEF SessionInv, Phase
<1> QED
    BY <1>1, <1>2, PopClient DEF SessionInv, Arrives

LEMMA HandlerPhase ==
    ASSUME SessionInv, NEW type, type # "CONNACK", Arrives(type), connected' = connected,
           IsSequence(toBroker')
    PROVE  Phase'
<1>1. connected /\ link /\ link' = link
    BY Handling DEF SessionInv, Phase, Arrives
<1>2. IsSequence(toClient') /\ \A i \in 1..Len(toClient') : toClient'[i].type # "CONNACK"
    <2>1. /\ IsSequence(toClient) /\ toClient # <<>> /\ toClient' = Tail(toClient)
          /\ \A i \in 1..Len(toClient) : toClient[i].type # "CONNACK"
        BY <1>1, Handling DEF SessionInv, Phase
    <2>2. \A i \in 1..Len(Tail(toClient)) : i + 1 \in 1..Len(toClient) /\ Tail(toClient)[i] = toClient[i + 1]
        BY <2>1, Popped
    <2> QED
        BY <2>1, <2>2, Popped
<1> QED
    BY <1>1, <1>2 DEF Phase

LEMMA LessUsed ==
    ASSUME SessionInv, UNCHANGED <<sends, subscribes, messageIdentifier>>,
           \A id \in Ids : sentMessages'[id] # NoEntry => sentMessages[id] # NoEntry
    PROVE  Fresh'
BY DEF SessionInv, Fresh, Requests

LEMMA HandlePublishKeeps == ASSUME SessionInv, HandlePublish PROVE SessionInv'
<1>1. Arrives("PUBLISH") /\ UNCHANGED <<connected, sentMessages, messageIdentifier, sends, subscribes>>
    BY DEF HandlePublish, Arrives
<1>2. \/ toBroker' = toBroker
      \/ \E answer \in {"PUBACK", "PUBREC"} :
            toBroker' = Append(toBroker, Packet(answer, Head(toClient).id))
    BY DEF HandlePublish, Answer
<1>3. Flows(toBroker', toClient', sentMessages') /\ IsSequence(toBroker')
    <2>1. CASE toBroker' = toBroker
        BY <1>1, <2>1, Handling
    <2>2. ASSUME NEW answer \in {"PUBACK", "PUBREC"},
                 toBroker' = Append(toBroker, Packet(answer, Head(toClient).id))
          PROVE  Flows(toBroker', toClient', sentMessages') /\ IsSequence(toBroker')
        <3> DEFINE p == Packet(answer, Head(toClient).id)
        <3>1. ~Asks(p)
            BY DEF Asks, Packet
        <3> HIDE DEF p
        <3>2. Flows(Append(toBroker, p), Tail(toClient), sentMessages) /\ IsSequence(Append(toBroker, p))
            BY <1>1, <3>1, Handling, PushBroker, Appended
        <3> QED
            BY <1>1, <2>2, <3>2, Handling DEF p
    <2> QED
        BY <1>2, <2>1, <2>2
<1>4. Phase'
    BY <1>1, <1>3, HandlerPhase
<1>5. Fresh'
    BY <1>1, LessUsed
<1>6. /\ \/ UNCHANGED <<receivedMessages, storedReceived>>
         \/ Received /\ StoreReceived
      /\ UNCHANGED <<storedSent, bufferedQueue, sequence>>
    BY DEF HandlePublish
<1>7. Tables'
    BY <1>1, <1>6 DEF Received, SessionInv, Tables
<1>8. Recoverable'
    BY <1>1, <1>6 DEF Received, StoreReceived, SessionInv, Recoverable
<1> QED
    BY <1>3, <1>4, <1>5, <1>7, <1>8 DEF SessionInv

LEMMA HandlePubrelKeeps == ASSUME SessionInv, HandlePubrel PROVE SessionInv'
<1> DEFINE p == Packet("PUBCOMP", Head(toClient).id)
<1>1. /\ Arrives("PUBREL") /\ toBroker' = Append(toBroker, p)
      /\ UNCHANGED <<connected, sentMessages, messageIdentifier, sends, subscribes>>
    BY DEF HandlePubrel, Arrives, Answer
<1>2. ~Asks(p)
    BY DEF Asks, Packet
<1> HIDE DEF p
<1>3. Flows(toBroker', toClient', sentMessages') /\ IsSequence(toBroker')
    <2>1. Flows(Append(toBroker, p), Tail(toClient), sentMessages) /\ IsSequence(Append(toBroker, p))
        BY <1>1, <1>2, Handling, PushBroker, Appended
    <2> QED
        BY <1>1, <2>1, Handling
<1>4. Phase'
    BY <1>1, <1>3, HandlerPhase
<1>5. Fresh'
    BY <1>1, LessUsed
<1>6. Tables' /\ Recoverable'
    BY DEF HandlePubrel, SessionInv, Tables, Recoverable
<1> QED
    BY <1>3, <1>4, <1>5, <1>6 DEF SessionInv

LEMMA HandleCompletionKeeps ==
    ASSUME SessionInv, NEW type \in {"PUBACK", "PUBCOMP"}, HandleCompletion(type)
    PROVE  SessionInv'
<1> DEFINE id == Head(toClient).id
<1>1. /\ Arrives(type) /\ Completed(id)
      /\ UNCHANGED <<connected, toBroker, messageIdentifier, sends, subscribes>>
    BY DEF HandleCompletion, Arrives
<1>2. id \in Ids /\ NoFlow(id, toBroker, Tail(toClient)) /\ Flows(toBroker, Tail(toClient), sentMessages)
    BY <1>1, Handling DEF Acks, Waits
<1> HIDE DEF id
<1>3. /\ sentMessages' = [sentMessages EXCEPT ![id] = NoEntry]
      /\ storedSent' = [storedSent EXCEPT ![id] = NoEntry]
      /\ sentMessages \in [Ids -> Slot] /\ storedSent \in [Ids -> Slot]
    BY <1>1 DEF Completed, SessionInv, Tables
<1>4. Flows(toBroker', toClient', sentMessages')
    BY <1>1, <1>2, <1>3, ChangeEntry, Handling
<1>5. Phase'
    BY <1>1, HandlerPhase DEF SessionInv, Phase
<1>6. Fresh'
    BY <1>1, <1>3, LessUsed
<1>7. Tables' /\ Recoverable'
    BY <1>1, <1>3 DEF HandleCompletion, SessionInv, Tables, Recoverable, Slot
<1> QED
    BY <1>4, <1>5, <1>6, <1>7 DEF SessionInv

LEMMA Marked ==
    ASSUME NEW e \in Entry
    PROVE  /\ [e EXCEPT !.pubRecReceived = TRUE] \in Entry
           /\ [e EXCEPT !.pubRecReceived = TRUE].type = e.type
           /\ [e EXCEPT !.pubRecReceived = TRUE].qos = e.qos
           /\ [e EXCEPT !.pubRecReceived = TRUE].pubRecReceived
<1>1. [e EXCEPT !.pubRecReceived = TRUE] \in Entry
    BY DEF Entry
<1>2. /\ [e EXCEPT !.pubRecReceived = TRUE].type = e.type
      /\ [e EXCEPT !.pubRecReceived = TRUE].qos = e.qos
    BY DEF Entry
<1>3. [e EXCEPT !.pubRecReceived = TRUE].pubRecReceived
    BY DEF Entry
<1> QED
    BY <1>1, <1>2, <1>3

LEMMA HandlePubrecKeeps == ASSUME SessionInv, HandlePubrec PROVE SessionInv'
<1> DEFINE id == Head(toClient).id
           entry == [sentMessages[id] EXCEPT !.pubRecReceived = TRUE]
           p == Packet("PUBREL", id)
<1>1. /\ Arrives("PUBREC") /\ UNCHANGED <<connected, messageIdentifier, sends, subscribes>>
    BY DEF HandlePubrec, Arrives
<1>2. /\ id \in Ids /\ NoFlow(id, toBroker, Tail(toClient))
      /\ sentMessages[id] # NoEntry /\ sentMessages[id].type = "PUBLISH"
    BY <1>1, Handling DEF Acks, Waits
<1>3. /\ sentMessages' = [sentMessages EXCEPT ![id] = entry]
      /\ storedSent' = [storedSent EXCEPT ![id] = entry]
      /\ toBroker' = Append(toBroker, p)
      /\ UNCHANGED <<receivedMessages, storedReceived, bufferedQueue, sequence>>
    BY <1>2 DEF HandlePubrec, Answer
<1>4. entry \in Entry /\ entry.type = "PUBLISH" /\ entry.pubRecReceived /\ entry.qos # 0
    <2>1. sentMessages[id] \in Entry /\ sentMessages[id].qos # 0
        BY <1>2 DEF SessionInv, Tables, Slot
    <2> QED
        BY <1>2, <2>1, Marked
<1>5. p.id = id /\ p.type = "PUBREL"
    BY DEF Packet
<1> HIDE DEF id, entry, p
<1>6. sentMessages \in [Ids -> Slot] /\ storedSent \in [Ids -> Slot]
    BY DEF SessionInv, Tables
<1>7. Waits(p, sentMessages')
    BY <1>2, <1>3, <1>4, <1>5, <1>6, NoEntryAssumption DEF Waits
<1>8. Flows(toBroker', toClient', sentMessages') /\ IsSequence(toBroker')
    <2>1. Flows(toBroker, Tail(toClient), sentMessages')
        BY <1>1, <1>2, <1>3, <1>6, ChangeEntry, Handling
    <2>2. Flows(Append(toBroker, p), Tail(toClient), sentMessages') /\ IsSequence(Append(toBroker, p))
        BY <1>1, <1>2, <1>5, <1>7, <2>1, Handling, PushBroker, Appended
    <2> QED
        BY <1>1, <1>3, <2>2, Handling
<1>9. Phase'
    BY <1>1, <1>8, HandlerPhase
<1>10. Fresh'
    BY <1>1, <1>2, <1>3, <1>6, LessUsed
<1>11. Tables'
    BY <1>2, <1>3, <1>4, <1>6 DEF SessionInv, Tables, Slot
<1>12. Recoverable'
    BY <1>2, <1>3, <1>4, <1>6, NoEntryAssumption DEF SessionInv, Recoverable
<1> QED
    BY <1>8, <1>9, <1>10, <1>11, <1>12 DEF SessionInv

LEMMA HandleSubackKeeps == ASSUME SessionInv, HandleSuback PROVE SessionInv'
<1> DEFINE id == Head(toClient).id
<1>1. /\ Arrives("SUBACK") /\ sentMessages' = [sentMessages EXCEPT ![id] = NoEntry]
      /\ UNCHANGED <<connected, toBroker, messageIdentifier, sends, subscribes>>
      /\ UNCHANGED <<receivedMessages, storedReceived, storedSent, bufferedQueue, sequence>>
    BY DEF HandleSuback, Arrives
<1>2. /\ id \in Ids /\ NoFlow(id, toBroker, Tail(toClient))
      /\ sentMessages[id].type = "SUBSCRIBE"
    BY <1>1, Handling DEF Acks, Waits
<1> HIDE DEF id
<1>3. sentMessages \in [Ids -> Slot]
    BY DEF SessionInv, Tables
<1>4. Flows(toBroker', toClient', sentMessages')
    BY <1>1, <1>2, <1>3, ChangeEntry, Handling
<1>5. Phase'
    BY <1>1, HandlerPhase DEF SessionInv, Phase
<1>6. Fresh'
    BY <1>1, <1>3, LessUsed
<1>7. Tables'
    BY <1>1, <1>2, <1>3 DEF SessionInv, Tables, Slot
<1>8. Recoverable'
    BY <1>1, <1>2, <1>3 DEF SessionInv, Recoverable
<1> QED
    BY <1>4, <1>5, <1>6, <1>7, <1>8 DEF SessionInv

-----------------------------------------------------------------------------
(* CONNACK: what is sent again.                                            *)

LEMMA FiniteIds == IsFiniteSet(Ids)
BY FS_Interval, SessionAssumption DEF Ids

LEMMA FiniteUsed == \A table : IsFiniteSet(Used(table)) /\ Cardinality(Used(table)) \in Nat
BY FiniteIds, FS_Subset, FS_CardinalityType DEF Used

(* The buffered messages come one from each place of the queue, the others *)
(* one from each identifier.                                               *)
LEMMA FiniteResent ==
    ASSUME SessionInv
    PROVE  IsFiniteSet(Sequenced) /\ Cardinality(Sequenced) \in Nat
<1> DEFINE ids == IF cleanSession THEN {} ELSE Used(sentMessages)
           n == 1..Len(bufferedQueue)
           table  == {[id |-> id, entry |-> sentMessages[id]] : id \in ids}
           buffer == {[id |-> 0, entry |-> bufferedQueue[i]] : i \in DOMAIN bufferedQueue}
           f == [id \in ids |-> [id |-> id, entry |-> sentMessages[id]]]
           g == [i \in n |-> [id |-> 0, entry |-> bufferedQueue[i]]]
<1>1. DOMAIN bufferedQueue = n /\ Len(bufferedQueue) \in Nat
    <2>1. PICK S : bufferedQueue \in Seq(S)
        BY DEF SessionInv, Tables, IsSequence
    <2> QED
        BY <2>1, LenProperties
<1>2. IsFiniteSet(ids) /\ IsFiniteSet(n)
    BY <1>1, FiniteUsed, FS_EmptySet, FS_Interval
<1>3. IsFiniteSet(table)
    <2>1. f \in Surjection(ids, table)
        BY DEF Surjection
    <2> QED
        BY <1>2, <2>1, FS_Surjection
<1>4. IsFiniteSet(buffer)
    <2>1. g \in Surjection(n, buffer)
        BY <1>1 DEF Surjection
    <2> QED
        BY <1>2, <2>1, FS_Surjection
<1>5. Sequenced = table \cup buffer
    BY DEF Sequenced
<1> HIDE DEF table, buffer
<1> QED
    BY <1>3, <1>4, <1>5, FS_Union, FS_CardinalityType

(* A packet sent again is one its entry waits for; no two are for the same *)
(* identifier.                                                             *)
LEMMA ResentWaits ==
    ASSUME SessionInv, NEW item \in Sequenced, Asks(Resend(item))
    PROVE  /\ ~cleanSession /\ item.id \in Ids /\ item = [id |-> item.id, entry |-> sentMessages[item.id]]
           /\ Waits(Resend(item), sentMessages) /\ Resend(item).id = item.id
<1>1. CASE \E i \in DOMAIN bufferedQueue : item = [id |-> 0, entry |-> bufferedQueue[i]]
    <2>1. PICK i \in DOMAIN bufferedQueue : item = [id |-> 0, entry |-> bufferedQueue[i]]
        BY <1>1
    <2>2. bufferedQueue[i].type = "PUBLISH" /\ bufferedQueue[i].qos = 0 /\ ~bufferedQueue[i].pubRecReceived
        <3>1. PICK S : bufferedQueue \in Seq(S)
            BY DEF SessionInv, Tables, IsSequence
        <3>2. i \in 1..Len(bufferedQueue)
            BY <2>1, <3>1, LenProperties
        <3> QED
            BY <3>2 DEF SessionInv, Tables
    <2>3. Resend(item) = Publish(0, bufferedQueue[i].msg, bufferedQueue[i].qos)
        BY <2>1, <2>2 DEF Resend
    <2> QED
        BY <2>2, <2>3 DEF Asks, Publish
<1>2. CASE \E id \in Used(sentMessages) : ~cleanSession /\ item = [id |-> id, entry |-> sentMessages[id]]
    <2>1. PICK id \in Used(sentMessages) : ~cleanSession /\ item = [id |-> id, entry |-> sentMessages[id]]
        BY <1>2
    <2>2. id \in Ids /\ sentMessages[id] # NoEntry /\ item.id = id /\ item.entry = sentMessages[id]
        BY <2>1 DEF Used
    <2>3. sentMessages[id] \in Entry
        BY <2>2 DEF SessionInv, Tables, Slot
    <2>4. /\ sentMessages[id].type \in {"PUBLISH", "SUBSCRIBE"}
          /\ sentMessages[id].pubRecReceived \in BOOLEAN
        BY <2>3 DEF Entry
    <2> DEFINE p == Resend(item)
    <2>5. CASE sentMessages[id].type = "SUBSCRIBE"
        <3>1. p = Packet("SUBSCRIBE", id)
            BY <2>2, <2>5 DEF Resend
        <3> QED
            BY <2>1, <2>2, <2>5, <3>1 DEF Waits, Packet
    <2>6. CASE sentMessages[id].type = "PUBLISH" /\ sentMessages[id].pubRecReceived
        <3>1. p = Packet("PUBREL", id)
            BY <2>2, <2>6 DEF Resend
        <3> QED
            BY <2>1, <2>2, <2>6, <3>1 DEF Waits, Packet
    <2>7. CASE sentMessages[id].type = "PUBLISH" /\ ~sentMessages[id].pubRecReceived
        <3>1. p.type = "PUBLISH" /\ p.id = id
            BY <2>2, <2>7 DEF Resend, Publish
        <3> QED
            BY <2>1, <2>2, <2>7, <3>1 DEF Waits
    <2> QED
        BY <2>4, <2>5, <2>6, <2>7
<1> QED
    BY <1>1, <1>2 DEF Sequenced

(* A packet for each, in an order that the sort may give.                  *)
LEMMA ConnackResends ==
    ASSUME SessionInv, HandleConnack
    PROVE  \E s \in Orders(Sequenced) :
              /\ NotSorted \/ Sorted(s)
              /\ IsSequence(toBroker') /\ Len(toBroker') \in Nat /\ Len(toBroker') = Cardinality(Sequenced)
              /\ DOMAIN s = 1..Len(toBroker')
              /\ \A i \in 1..Len(toBroker') : s[i] \in Sequenced /\ toBroker'[i] = Resend(s[i])
              /\ \A i, j \in 1..Len(toBroker') : s[i] = s[j] => i = j
<1>1. PICK s \in Orders(Sequenced) :
          (NotSorted \/ Sorted(s)) /\ toBroker' = toBroker \o [i \in DOMAIN s |-> Resend(s[i])]
    BY DEF HandleConnack
<1> DEFINE r == [i \in DOMAIN s |-> Resend(s[i])]
           n == Cardinality(Sequenced)
<1>2. /\ n \in Nat /\ DOMAIN s = 1..n /\ \A i \in 1..n : s[i] \in Sequenced
      /\ \A i, j \in 1..n : s[i] = s[j] => i = j
    BY <1>1, FiniteResent DEF Orders
<1>3. IsSequence(r) /\ Len(r) = n /\ \A i \in 1..n : r[i] = Resend(s[i])
    BY <1>2, Listed
<1>4. toBroker' = toBroker \o r
    BY <1>1
<1> HIDE DEF r, n
<1>5. IsSequence(toBroker') /\ Len(toBroker') = n /\ \A i \in 1..n : toBroker'[i] = r[i]
    <2>1. toClient # <<>> /\ Head(toClient).type = "CONNACK" /\ IsSequence(toClient)
        BY DEF HandleConnack, Arrives, SessionInv, Phase
    <2>2. IsSequence(toBroker) /\ Len(toBroker) = 0
        BY <2>1, Popped DEF SessionInv, Phase
    <2>3. /\ IsSequence(toBroker \o r) /\ Len(toBroker \o r) = n
          /\ \A i \in 1..n : (toBroker \o r)[i] = r[i - 0]
        BY <1>2, <1>3, <2>2, Concatenated
    <2> QED
        BY <1>4, <2>3
<1>6. n = Cardinality(Sequenced)
    BY DEF n
<1>7. \A i \in 1..n : toBroker'[i] = Resend(s[i])
    BY <1>3, <1>5
<1> WITNESS s \in Orders(Sequenced)
<1> QED
    BY <1>1, <1>2, <1>5, <1>6, <1>7

LEMMA HandleConnackKeeps == ASSUME SessionInv, HandleConnack PROVE SessionInv'
<1>1. /\ Arrives("CONNACK") /\ connected' = TRUE /\ bufferedQueue' = <<>>
      /\ UNCHANGED <<messageIdentifier, sequence, sends, subscribes, link>>
    BY DEF HandleConnack, Arrives
<1>2. /\ IsSequence(toClient) /\ toClient # <<>> /\ toClient' = Tail(toClient)
      /\ Head(toClient).type = "CONNACK"
    BY <1>1 DEF Arrives, SessionInv, Phase
<1>3. ~connected /\ link
    BY <1>2, Popped DEF SessionInv, Phase
<1>4. PICK s : /\ IsSequence(toBroker') /\ Len(toBroker') \in Nat
               /\ \A i \in 1..Len(toBroker') : s[i] \in Sequenced /\ toBroker'[i] = Resend(s[i])
               /\ \A i, j \in 1..Len(toBroker') : s[i] = s[j] => i = j
    BY ConnackResends
<1> DEFINE n == Len(toBroker')
<1>8. /\ \A i \in 1..Len(toClient') : ~Acks(toClient'[i]) /\ toClient'[i].type # "CONNACK"
      /\ IsSequence(toClient')
    <2>1. \A i \in 1..Len(Tail(toClient)) :
              i + 1 \in 1..Len(toClient) /\ i + 1 # 1 /\ Tail(toClient)[i] = toClient[i + 1]
        BY <1>2, Popped
    <2> QED
        BY <1>2, <1>3, <2>1, Popped DEF SessionInv, Phase
<1>9. Flows(toBroker', toClient', sentMessages')
    <2>1. ASSUME NEW i \in 1..n, Asks(toBroker'[i])
          PROVE  /\ Waits(toBroker'[i], sentMessages') /\ toBroker'[i].id = s[i].id
                 /\ s[i] = [id |-> s[i].id, entry |-> sentMessages[s[i].id]]
        <3>1. /\ ~cleanSession /\ Waits(toBroker'[i], sentMessages) /\ toBroker'[i].id = s[i].id
              /\ s[i] = [id |-> s[i].id, entry |-> sentMessages[s[i].id]]
            BY <1>4, <2>1, ResentWaits
        <3>2. sentMessages' = sentMessages
            BY <3>1 DEF HandleConnack
        <3> QED
            BY <3>1, <3>2
    <2>2. ASSUME NEW i \in 1..n, NEW j \in 1..n, i # j, Asks(toBroker'[i]), Asks(toBroker'[j])
          PROVE  toBroker'[i].id # toBroker'[j].id
        <3>1. s[i] # s[j]
            BY <1>4, <2>2
        <3> QED
            BY <2>1, <2>2, <3>1
    <2> QED
        BY <1>4, <1>8, <2>1, <2>2 DEF Flows
<1>10. Phase'
    BY <1>1, <1>3, <1>4, <1>8 DEF Phase
<1>11. Tables'
    <2>1. Nothing \in [Ids -> Slot] /\ \A id \in Ids : Nothing[id] = NoEntry
        BY DEF Nothing, Slot
    <2>2. CASE ~cleanSession
        BY <1>1, <2>2, Emptied DEF HandleConnack, SessionInv, Tables
    <2>3. CASE cleanSession
        <3>1. /\ sentMessages' = Nothing /\ storedSent' = Cleared(storedSent, sentMessages)
              /\ receivedMessages' = Nothing
            BY <2>3 DEF HandleConnack
        <3>2. storedSent' \in [Ids -> Slot]
            BY <3>1 DEF Cleared, SessionInv, Tables, Slot
        <3>3. DOMAIN receivedMessages' = Ids /\ receivedMessages' = [id \in Ids |-> receivedMessages'[id]]
            BY <3>1 DEF Nothing
        <3> QED
            BY <1>1, <2>1, <3>1, <3>2, <3>3, Emptied DEF SessionInv, Tables
    <2> QED
        BY <2>2, <2>3
<1>12. Recoverable'
    <2>1. CASE ~cleanSession
        BY <2>1 DEF HandleConnack, SessionInv, Recoverable
    <2>2. CASE cleanSession
        <3>1. /\ sentMessages' = Nothing /\ storedSent' = Cleared(storedSent, sentMessages)
              /\ receivedMessages' = Nothing
              /\ storedReceived' = Cleared(storedReceived, receivedMessages)
            BY <2>2 DEF HandleConnack
        <3>2. storedReceived = receivedMessages
            BY DEF SessionInv, Recoverable
        <3>3. storedReceived' = Nothing
            BY <3>1, <3>2 DEF Cleared, Nothing
        <3>4. \A id \in Ids : storedSent'[id] = NoEntry
            BY <3>1 DEF Cleared, SessionInv, Recoverable
        <3> QED
            BY <3>1, <3>3, <3>4 DEF Recoverable, Nothing
    <2> QED
        BY <2>1, <2>2
<1>13. Fresh'
    <2>1. CASE ~cleanSession
        BY <1>1, <2>1, LessUsed DEF HandleConnack
    <2>2. CASE cleanSession
        BY <1>1, <2>2, LessUsed DEF HandleConnack, Nothing
    <2> QED
        BY <2>1, <2>2
<1> QED
    BY <1>9, <1>10, <1>11, <1>12, <1>13 DEF SessionInv

-----------------------------------------------------------------------------
(* Losses.                                                                 *)

LEMMA GoneKeeps ==
    ASSUME LinkGone
    PROVE  Phase' /\ \A sent : Flows(toBroker', toClient', sent)
<1>1. /\ link' = FALSE /\ connected' = FALSE /\ toBroker' = <<>> /\ toClient' = <<>>
    BY DEF LinkGone
<1>2. /\ IsSequence(toBroker') /\ Len(toBroker') = 0
      /\ IsSequence(toClient') /\ Len(toClient') = 0
    BY <1>1, Emptied
<1>3. Phase'
    <2>1. link' \in BOOLEAN /\ connected' \in BOOLEAN /\ ~link' /\ ~connected'
        BY <1>1
    <2>2. 1..Len(toClient') = {}
        BY <1>2
    <2> QED
        BY <1>2, <2>1, <2>2, Zenon DEF Phase
<1>4. \A sent : Flows(toBroker', toClient', sent)
    BY <1>2 DEF Flows
<1> QED
    BY <1>3, <1>4

LEMMA LoseKeeps == ASSUME SessionInv, Lose PROVE SessionInv'
<1>1. /\ LinkGone /\ bufferedQueue' \in {bufferedQueue, <<>>}
      /\ UNCHANGED <<sentMessages, receivedMessages, messageIdentifier, sequence, storedSent,
                     storedReceived, sends, subscribes>>
    BY DEF Lose, LinkGone, history
<1>2. Tables'
    BY <1>1, Emptied DEF SessionInv, Tables
<1>3. Recoverable'
    BY <1>1 DEF SessionInv, Recoverable
<1>4. Fresh'
    BY <1>1, LessUsed
<1> QED
    BY <1>1, <1>2, <1>3, <1>4, GoneKeeps DEF SessionInv

LEMMA ReloadKeeps == ASSUME SessionInv, Reload PROVE SessionInv'
<1>1. /\ LinkGone /\ bufferedQueue' = <<>>
      /\ sentMessages' = storedSent /\ receivedMessages' = storedReceived
      /\ messageIdentifier' = 1 /\ sequence' = 0
      /\ UNCHANGED <<storedSent, storedReceived, sends, subscribes>>
    BY DEF Reload, LinkGone, history
<1>2. \A id \in Ids : storedSent[id] # NoEntry =>
          sentMessages[id] # NoEntry /\ sentMessages[id].type = "PUBLISH" /\ storedSent[id] = sentMessages[id]
    BY DEF SessionInv, Recoverable
<1>3. Tables'
    BY <1>1, <1>2, Emptied DEF SessionInv, Tables, Recoverable
<1>4. Recoverable'
    BY <1>1, <1>2 DEF Recoverable
<1>5. Fresh'
    BY <1>1, <1>2, SessionAssumption DEF SessionInv, Fresh, Requests, Ids
<1> QED
    BY <1>1, <1>3, <1>4, <1>5, GoneKeeps DEF SessionInv

-----------------------------------------------------------------------------
(* The broker.                                                             *)

LEMMA BrokerKeeps ==
    ASSUME SessionInv, ByBroker, Phase', Flows(toBroker', toClient', sentMessages)
    PROVE  SessionInv'
BY DEF SessionInv, ByBroker, client, bounds, Tables, Fresh, Requests, Recoverable

(* CONNACK, and a packet for each message that the broker still has.       *)
Redelivered(id) ==
    IF brokerSent[id].released THEN Packet("PUBREL", id)
    ELSE Publish(id, brokerSent[id].msg, brokerSent[id].qos)

LEMMA ConnectSends ==
    ASSUME Connect
    PROVE  \E ids : \E n \in Nat :
              /\ IsSequence(toClient') /\ Len(toClient') = n + 1
              /\ toClient'[1] = Packet("CONNACK", 0)
              /\ \A i \in 1..n : /\ ids[i] \in Ids /\ brokerSent'[ids[i]] # NoEntry
                                /\ toClient'[i + 1] = Redelivered(ids[i])'
              /\ \A i, j \in 1..n : ids[i] = ids[j] => i = j
<1> PICK kept : kept = IF cleanSession THEN Nothing ELSE brokerSent
    OBVIOUS
<1> DEFINE again(id) == IF kept[id].released THEN Packet("PUBREL", id)
                        ELSE Publish(id, kept[id].msg, kept[id].qos)
           n == Cardinality(Used(kept))
<1>1. brokerSent' = kept
    BY DEF Connect
<1>2. PICK ids \in Orders(Used(kept)) : toClient' = <<Packet("CONNACK", 0)>> \o [i \in DOMAIN ids |-> again(ids[i])]
    BY DEF Connect
<1> DEFINE r == [i \in DOMAIN ids |-> again(ids[i])]
           first == <<Packet("CONNACK", 0)>>
<1>3. /\ n \in Nat /\ DOMAIN ids = 1..n /\ \A i \in 1..n : ids[i] \in Ids /\ kept[ids[i]] # NoEntry
      /\ \A i, j \in 1..n : ids[i] = ids[j] => i = j
    BY <1>2, FiniteUsed DEF Orders, Used
<1>4. IsSequence(r) /\ Len(r) = n /\ \A i \in 1..n : r[i] = again(ids[i])
    BY <1>3, Listed
<1>5. IsSequence(first) /\ Len(first) = 1 /\ first[1] = Packet("CONNACK", 0)
    <2>1. first \in Seq({Packet("CONNACK", 0)})
        OBVIOUS
    <2> QED
        BY <2>1 DEF IsSequence
<1>6. toClient' = first \o r
    BY <1>2
<1> HIDE DEF first, r, n
<1>7. /\ IsSequence(toClient') /\ Len(toClient') = 1 + n
      /\ \A i \in 1..Len(toClient') : toClient'[i] = IF i <= 1 THEN first[i] ELSE r[i - 1]
    <2>1. /\ IsSequence(first \o r) /\ Len(first \o r) = Len(first) + Len(r)
          /\ \A i \in 1..Len(first \o r) :
                (first \o r)[i] = IF i <= Len(first) THEN first[i] ELSE r[i - Len(first)]
        BY <1>4, <1>5, Concatenated, Zenon
    <2>2. Len(first) = 1 /\ Len(r) = n
        BY <1>4, <1>5
    <2> QED
        BY <1>6, <2>1, <2>2
<1>8. \A i \in 1..n : i + 1 \in 1..Len(toClient') /\ ~(i + 1 <= 1) /\ (i + 1) - 1 = i
    BY <1>3, <1>7
<1>9. \A i \in 1..n : toClient'[i + 1] = again(ids[i])
    BY <1>4, <1>7, <1>8
<1>10. toClient'[1] = Packet("CONNACK", 0) /\ Len(toClient') = n + 1
    BY <1>3, <1>5, <1>7
<1>11. \A i \in 1..n : toClient'[i + 1] = Redelivered(ids[i])'
    BY <1>1, <1>9 DEF Redelivered
<1>12. /\ n \in Nat /\ IsSequence(toClient')
       /\ \A i \in 1..n : /\ ids[i] \in Ids /\ brokerSent'[ids[i]] # NoEntry
                         /\ toClient'[i + 1] = Redelivered(ids[i])'
       /\ \A i, j \in 1..n : ids[i] = ids[j] => i = j
    BY <1>1, <1>3, <1>7, <1>11
<1> QED
    BY <1>10, <1>12

LEMMA ConnectKeeps == ASSUME SessionInv, Connect PROVE SessionInv'
<1>0. PICK ids : \E n \in Nat :
          /\ IsSequence(toClient') /\ Len(toClient') = n + 1
          /\ toClient'[1] = Packet("CONNACK", 0)
          /\ \A i \in 1..n : toClient'[i + 1] = Redelivered(ids[i])'
    BY ConnectSends
<1>1. PICK n \in Nat :
          /\ IsSequence(toClient') /\ Len(toClient') = n + 1
          /\ toClient'[1] = Packet("CONNACK", 0)
          /\ \A i \in 1..n : toClient'[i + 1] = Redelivered(ids[i])'
    BY <1>0
<1>7. IsSequence(toClient') /\ Len(toClient') > 0
    BY <1>1
<1>8. \A i \in 1..Len(toClient') : ~Acks(toClient'[i]) /\ (toClient'[i].type = "CONNACK" <=> i = 1)
    <2> SUFFICES ASSUME NEW i \in 1..Len(toClient')
                 PROVE  ~Acks(toClient'[i]) /\ (toClient'[i].type = "CONNACK" <=> i = 1)
        OBVIOUS
    <2>1. CASE i = 1
        BY <1>1, <2>1 DEF Acks, Packet
    <2>2. CASE i # 1
        <3>1. i - 1 \in 1..n /\ (i - 1) + 1 = i
            BY <1>1, <2>2
        <3>2. toClient'[i] = Redelivered(ids[i - 1])'
            BY <1>1, <3>1
        <3>3. toClient'[i].type \in {"PUBREL", "PUBLISH"}
            BY <3>2 DEF Redelivered, Packet, Publish
        <3> QED
            BY <2>2, <3>3 DEF Acks
    <2> QED
        BY <2>1, <2>2
<1>9. /\ ~link /\ link' = TRUE /\ ByBroker /\ connected' = connected /\ toBroker' = toBroker
    BY DEF Connect, ByBroker, client
<1>10. ~connected /\ Len(toBroker) = 0 /\ IsSequence(toBroker)
    BY <1>9 DEF SessionInv, Phase
<1>11. Phase'
    <2>1. Len(toClient') > 0 /\ Len(toBroker') = 0 /\ IsSequence(toBroker')
        BY <1>7, <1>9, <1>10
    <2>2. link' \in BOOLEAN /\ connected' \in BOOLEAN /\ link' /\ ~connected'
        BY <1>9, <1>10 DEF SessionInv, Phase
    <2> QED
        BY <1>7, <1>8, <2>1, <2>2, Zenon DEF Phase
<1>12. Flows(toBroker', toClient', sentMessages)
    BY <1>8, <1>9, <1>10 DEF Flows
<1> QED
    BY <1>9, <1>11, <1>12, BrokerKeeps

(* The broker puts a packet on the way that is no acknowledgement.         *)
LEMMA BrokerSends ==
    ASSUME SessionInv, ByBroker, link, UNCHANGED <<link, toBroker>>,
           NEW p, p.type = "PUBLISH", toClient' = Append(toClient, p)
    PROVE  SessionInv'
<1>1. Flows(toBroker', toClient', sentMessages)
    BY PushClient DEF SessionInv, Phase, Acks
<1>2. connected' = connected
    BY DEF ByBroker, client
<1>3. Phase'
    <2>1. /\ IsSequence(toClient') /\ Len(toClient) \in Nat /\ Len(toClient') = Len(toClient) + 1
          /\ \A i \in 1..Len(toClient') :
                IF i = Len(toClient) + 1 THEN toClient'[i] = p
                ELSE i \in 1..Len(toClient) /\ toClient'[i] = toClient[i]
        BY Appended DEF SessionInv, Phase
    <2>2. CASE connected
        BY <1>2, <2>1, <2>2 DEF SessionInv, Phase
    <2>3. CASE ~connected
        BY <1>2, <2>1, <2>3 DEF SessionInv, Phase, Acks
    <2> QED
        BY <2>2, <2>3
<1> QED
    BY <1>1, <1>3, BrokerKeeps

LEMMA BrokerSendsKeep ==
    ASSUME SessionInv, NEW m \in Inbound, BrokerSendQos0(m) \/ \E qos \in {1, 2} : BrokerSend(m, qos)
    PROVE  SessionInv'
<1>1. CASE BrokerSendQos0(m)
    BY <1>1, BrokerSends DEF BrokerSendQos0, Publish
<1>2. ASSUME NEW qos \in {1, 2}, BrokerSend(m, qos) PROVE SessionInv'
    BY <1>2, BrokerSends DEF BrokerSend, Publish
<1> QED
    BY <1>1, <1>2

(* What the broker makes of a packet: nothing to send; a PUBREL; or the    *)
(* acknowledgement that the packet's entry waits for.                      *)
LEMMA BrokerReplies ==
    ASSUME NEW p, Asks(p) => Waits(p, sentMessages), IsSequence(toClient),
           BrokerTakes(p) \/ BrokerReleases(p) \/ BrokerSubscribes(p) \/ BrokerPubrec(p) \/ BrokerCompletes(p)
    PROVE  \/ toClient' = toClient
           \/ \E q : /\ toClient' = Append(toClient, q) /\ q.type # "CONNACK"
                     /\ Acks(q) => Asks(p) /\ q.id = p.id /\ Waits(q, sentMessages)
<1>1. CASE BrokerTakes(p) /\ p.qos = 0
    BY <1>1, JoinOne DEF BrokerTakes
<1>2. CASE BrokerTakes(p) /\ p.qos = 1
    BY <1>2, JoinOne DEF BrokerTakes, Packet, Asks, Acks, Waits
<1>3. CASE BrokerTakes(p) /\ p.qos \notin {0, 1}
    BY <1>3, JoinOne DEF BrokerTakes, Packet, Asks, Acks, Waits
<1>4. CASE BrokerReleases(p)
    BY <1>4 DEF BrokerReleases, Packet, Asks, Acks, Waits
<1>5. CASE BrokerSubscribes(p)
    BY <1>5 DEF BrokerSubscribes, Packet, Asks, Acks, Waits
<1>6. CASE BrokerPubrec(p)
    BY <1>6 DEF BrokerPubrec, Packet, Acks
<1>7. CASE BrokerCompletes(p)
    BY <1>7 DEF BrokerCompletes
<1> QED
    BY <1>1, <1>2, <1>3, <1>4, <1>5, <1>6, <1>7
LEMMA BrokerReceiveKeeps == ASSUME SessionInv, BrokerReceive PROVE SessionInv'
<1> DEFINE p == Head(toBroker)
<1>1. /\ toBroker # <<>> /\ toBroker' = Tail(toBroker) /\ ByBroker /\ link' = link
      /\ BrokerTakes(p) \/ BrokerReleases(p) \/ BrokerSubscribes(p) \/ BrokerPubrec(p) \/ BrokerCompletes(p)
    BY DEF BrokerReceive
<1>2. IsSequence(toBroker) /\ IsSequence(toClient) /\ Flows(toBroker, toClient, sentMessages)
    BY DEF SessionInv, Phase
<1>3. /\ Flows(Tail(toBroker), toClient, sentMessages)
      /\ Asks(p) => Waits(p, sentMessages) /\ NoFlow(p.id, Tail(toBroker), toClient)
    BY <1>1, <1>2, PopBroker
<1>4. \/ toClient' = toClient
      \/ \E q : /\ toClient' = Append(toClient, q) /\ q.type # "CONNACK"
                /\ Acks(q) => Asks(p) /\ q.id = p.id /\ Waits(q, sentMessages)
    BY <1>1, <1>2, <1>3, BrokerReplies
<1> HIDE DEF p
<1>5. link /\ connected /\ connected' = connected
    <2>1. Len(toBroker) # 0
        BY <1>1, <1>2, Popped
    <2> QED
        BY <1>1, <2>1 DEF SessionInv, Phase, ByBroker, client
<1>6. IsSequence(toBroker')
    BY <1>1, <1>2, Popped
<1>7. CASE toClient' = toClient
    <2>1. Phase'
        BY <1>1, <1>5, <1>6, <1>7 DEF SessionInv, Phase
    <2> QED
        BY <1>1, <1>3, <1>7, <2>1, BrokerKeeps
<1>8. ASSUME NEW q, toClient' = Append(toClient, q), q.type # "CONNACK",
             Acks(q) => Asks(p) /\ q.id = p.id /\ Waits(q, sentMessages)
      PROVE  SessionInv'
    <2>1. Flows(Tail(toBroker), Append(toClient, q), sentMessages)
        BY <1>2, <1>3, <1>8, PushClient
    <2>2. /\ IsSequence(toClient') /\ Len(toClient) \in Nat /\ Len(toClient') = Len(toClient) + 1
          /\ \A i \in 1..Len(toClient') :
                IF i = Len(toClient) + 1 THEN toClient'[i] = q
                ELSE i \in 1..Len(toClient) /\ toClient'[i] = toClient[i]
        BY <1>2, <1>8, Appended
    <2>3. Phase'
        BY <1>1, <1>5, <1>6, <1>8, <2>2 DEF SessionInv, Phase
    <2> QED
        BY <1>1, <1>8, <2>1, <2>3, BrokerKeeps
<1> QED
    BY <1>4, <1>7, <1>8

-----------------------------------------------------------------------------
(* The invariant of the specification.                                     *)

LEMMA InitSession == ASSUME Init PROVE SessionInv
<1>1. Tables
    BY Emptied DEF Init, Tables, Nothing, Slot
<1>2. Fresh
    BY SessionAssumption DEF Init, Fresh, Requests, Nothing, Ids
<1>3. Phase
    <2>1. /\ link \in BOOLEAN /\ connected \in BOOLEAN /\ ~link /\ ~connected
          /\ toBroker = <<>> /\ toClient = <<>>
        BY DEF Init
    <2>2. /\ IsSequence(toBroker) /\ Len(toBroker) = 0
          /\ IsSequence(toClient) /\ Len(toClient) = 0
        BY <2>1, Emptied
    <2>3. 1..Len(toClient) = {}
        BY <2>2
    <2> QED
        BY <2>1, <2>2, <2>3, Zenon DEF Phase
<1>4. Recoverable
    BY DEF Init, Recoverable, Nothing
<1>5. Flows(toBroker, toClient, sentMessages)
    BY Emptied DEF Init, Flows
<1> QED
    BY <1>1, <1>2, <1>3, <1>4, <1>5 DEF SessionInv

LEMMA StutterSession == ASSUME SessionInv, UNCHANGED vars PROVE SessionInv'
BY DEF vars, client, network, broker, history, bounds, SessionInv, Tables, Fresh, Requests, Phase,
       Recoverable

LEMMA StepSession == ASSUME SessionInv, Next PROVE SessionInv'
<1>1. ASSUME NEW m \in Outbound, Send(m) PROVE SessionInv'
    BY <1>1, SendQos0Keeps, SendAckedKeeps, SendDisconnectedKeeps DEF Send
<1>2. CASE Subscribe
    BY <1>2, SubscribeKeeps
<1>3. CASE Receive
    BY <1>3, HandleConnackKeeps, HandlePublishKeeps, HandlePubrelKeeps, HandleCompletionKeeps,
       HandlePubrecKeeps, HandleSubackKeeps DEF Receive, HandlePuback, HandlePubcomp
<1>4. CASE Lose \/ Reload
    BY <1>4, LoseKeeps, ReloadKeeps
<1>5. CASE Connect
    BY <1>5, ConnectKeeps
<1>6. ASSUME NEW m \in Inbound, BrokerSendQos0(m) \/ \E qos \in {1, 2} : BrokerSend(m, qos)
      PROVE  SessionInv'
    BY <1>6, BrokerSendsKeep
<1>7. CASE BrokerReceive
    BY <1>7, BrokerReceiveKeeps
<1> QED
    BY <1>1, <1>2, <1>3, <1>4, <1>5, <1>6, <1>7 DEF Next

(* The acknowledgements under way are those of Flows.                      *)
LEMMA Expected == ASSUME SessionInv PROVE AcksExpected
<1> SUFFICES ASSUME NEW i \in DOMAIN toClient,
                    toClient[i].type \in {"PUBACK", "PUBREC", "PUBCOMP"}
             PROVE  /\ sentMessages[toClient[i].id] # NoEntry
                    /\ toClient[i].type = "PUBCOMP" <=> sentMessages[toClient[i].id].pubRecReceived
    BY DEF AcksExpected
<1>1. i \in 1..Len(toClient)
    BY DEF SessionInv, Phase, IsSequence
<1>2. Waits(toClient[i], sentMessages)
    BY <1>1 DEF SessionInv, Flows, Acks
<1> QED
    BY <1>2 DEF Waits

(* Every reachable state satisfies the invariant.                          *)
THEOREM SessionInvariant == Spec => []SessionInv
<1>1. Init => SessionInv
    BY InitSession
<1>2. SessionInv /\ [Next]_vars => SessionInv'
    BY StepSession, StutterSession
<1> QED
    BY <1>1, <1>2, PTL DEF Spec

(* Whatever is lost and whenever the page is reloaded, localStorage has    *)
(* exactly the messages that wait (store, removeItem in the handlers).     *)
THEOREM Restored == Spec => []Recoverable
<1>1. SessionInv => Recoverable
    BY DEF SessionInv
<1> QED
    BY <1>1, SessionInvariant, PTL

(* No PUBACK, PUBREC or PUBCOMP reaches its handler for a message that is  *)
(* not there, or not at that stage: the PUBCOMP handler does not check.    *)
THEOREM NoStrayAck == Spec => []AcksExpected
<1>1. SessionInv => AcksExpected
    BY Expected
<1> QED
    BY <1>1, SessionInvariant, PTL

(***************************************************************************)
(* Delivers: the two sides of the session together do what MqttDelivery    *)
(* promises.                                                               *)
(*                                                                         *)
(* The table of each side says how far the other side is, but only as far  *)
(* as the packets under way allow: DeliveryInv relates an entry to whether *)
(* its message was taken (Entries, Paired) and each packet to the entry it *)
(* will find (Published, Acknowledged, Told, Answered).  An identifier is  *)
(* used again, so none of it would hold without Flows, for the client's    *)
(* exchanges and, through Mirror, for the broker's.  Each lemma ending in  *)
(* Delivers shows, for one action, that the invariant is kept and that the *)
(* step is one of the promise or none.                                     *)
(***************************************************************************)
-----------------------------------------------------------------------------
(* What is on a wire, in whatever order.                                   *)

On(q) == {q[i] : i \in 1..Len(q)}

LEMMA OnEmpty == On(<<>>) = {}
BY Emptied DEF On

LEMMA OnTail ==
    ASSUME NEW q, IsSequence(q), q # <<>>
    PROVE  On(Tail(q)) \subseteq On(q) /\ Head(q) \in On(q)
BY Popped DEF On

LEMMA OnAppend ==
    ASSUME NEW q, NEW x, IsSequence(q)
    PROVE  On(Append(q, x)) = On(q) \cup {x}
<1> DEFINE a == Append(q, x)
<1>1. /\ Len(q) \in Nat /\ Len(a) = Len(q) + 1 /\ a[Len(q) + 1] = x
      /\ \A i \in 1..Len(q) : a[i] = q[i]
    BY Appended
<1> HIDE DEF a
<1>2. On(a) \subseteq On(q) \cup {x}
    <2>1. ASSUME NEW i \in 1..Len(a) PROVE a[i] \in On(q) \cup {x}
        BY <1>1 DEF On
    <2> QED
        BY <2>1 DEF On
<1>3. On(q) \cup {x} \subseteq On(a)
    <2>1. Len(q) + 1 \in 1..Len(a) /\ \A i \in 1..Len(q) : i \in 1..Len(a)
        BY <1>1
    <2> QED
        BY <1>1, <2>1 DEF On
<1> QED
    BY <1>2, <1>3 DEF a

LEMMA OnJoin ==
    ASSUME NEW q, NEW r, IsSequence(q), IsSequence(r)
    PROVE  On(q \o r) \subseteq On(q) \cup On(r)
<1> DEFINE a == q \o r
<1>1. /\ Len(q) \in Nat /\ Len(r) \in Nat /\ Len(a) = Len(q) + Len(r)
      /\ \A i \in 1..Len(a) : a[i] = IF i <= Len(q) THEN q[i] ELSE r[i - Len(q)]
    BY Concatenated
<1> HIDE DEF a
<1>2. ASSUME NEW i \in 1..Len(a) PROVE a[i] \in On(q) \cup On(r)
    <2>1. CASE i <= Len(q)
        BY <1>1, <2>1 DEF On
    <2>2. CASE ~(i <= Len(q))
        <3>1. i - Len(q) \in 1..Len(r) /\ a[i] = r[i - Len(q)]
            BY <1>1, <2>2
        <3> QED
            BY <3>1 DEF On
    <2> QED
        BY <2>1, <2>2
<1>3. On(a) \subseteq On(q) \cup On(r)
    BY <1>2 DEF On
<1> QED
    BY <1>3 DEF a

-----------------------------------------------------------------------------
(* The messages, and the two halves of the session.                        *)

History ==
    /\ qosOf \in [Messages -> Qos] /\ taken \in [Messages -> Nat] /\ confirmed \subseteq Messages
    /\ sends \in 0..MaxRequests
    /\ \A m \in Outbound : m > sends => qosOf[m] = 0 /\ taken[m] = 0 /\ m \notin confirmed
    /\ \A m \in Inbound : m \in confirmed => qosOf[m] # 0

(* An entry is for a message that is not confirmed yet.  While the broker  *)
(* has its identifier the message is taken, and the converse, until a      *)
(* clean session begins anew.                                              *)
Ours(id) == sentMessages[id] # NoEntry /\ sentMessages[id].type = "PUBLISH"
Sent(id) == sentMessages[id].msg

Entries ==
    \A id \in Ids : Ours(id) =>
        /\ Sent(id) \in 1..sends
        /\ qosOf[Sent(id)] = sentMessages[id].qos /\ Sent(id) \notin confirmed
        /\ sentMessages[id].pubRecReceived => taken[Sent(id)] > 0
        /\ sentMessages[id].qos = 2 /\ ~sentMessages[id].pubRecReceived /\ taken[Sent(id)] > 0 =>
               id \in brokerReceived \/ (cleanSession /\ ~connected)

OneEntry == \A id, other \in Ids : Ours(id) /\ Ours(other) /\ Sent(id) = Sent(other) => id = other

BrokerHas ==
    /\ \A id \in brokerReceived :
          id \in Ids /\ Ours(id) /\ sentMessages[id].qos = 2 /\ taken[Sent(id)] > 0
    /\ cleanSession /\ link /\ ~connected => brokerReceived = {}

Buffered == \A e \in On(bufferedQueue) : e.msg \in 1..sends /\ qosOf[e.msg] = 0

Published ==
    \A p \in On(toBroker) : p.type = "PUBLISH" =>
        /\ p.msg \in 1..sends /\ qosOf[p.msg] = p.qos
        /\ p.qos # 0 => Sent(p.id) = p.msg

Acknowledged ==
    \A p \in On(toClient) :
        /\ p.type \in {"PUBACK", "PUBREC"} => taken[Sent(p.id)] > 0
        /\ p.type = "PUBACK"  => sentMessages[p.id].qos = 1
        /\ p.type = "PUBCOMP" => p.id \notin brokerReceived

Outgoing == Entries /\ OneEntry /\ BrokerHas /\ Buffered /\ Published /\ Acknowledged

(* The broker's table in the form of the client's: its exchanges are Flows *)
(* the other way round.                                                    *)
Theirs(id) == brokerSent[id] # NoEntry
Mirrored(released) ==
    [type |-> "PUBLISH", msg |-> NoEntry, qos |-> 1, sequence |-> 0, pubRecReceived |-> released]
Mirror == [id \in Ids |-> IF Theirs(id) THEN Mirrored(brokerSent[id].released) ELSE NoEntry]

BrokerEntries ==
    /\ brokerSent \in [Ids -> BrokerEntry \cup {NoEntry}]
    /\ receivedMessages \in [Ids -> Inbound \cup {NoEntry}]
    /\ \A id \in Ids : Theirs(id) =>
          /\ qosOf[brokerSent[id].msg] = brokerSent[id].qos /\ brokerSent[id].msg \notin confirmed
          /\ cleanSession /\ link /\ ~connected => ~brokerSent[id].released /\ taken[brokerSent[id].msg] = 0

OneBrokerEntry ==
    \A id, other \in Ids : Theirs(id) /\ Theirs(other) /\ brokerSent[id].msg = brokerSent[other].msg => id = other

(* A QoS 2 message is taken from the moment that it is released to the     *)
(* application.                                                            *)
Paired(id) ==
    IF ~Theirs(id) THEN receivedMessages[id] = NoEntry
    ELSE IF brokerSent[id].qos = 1 THEN receivedMessages[id] = NoEntry /\ ~brokerSent[id].released
    ELSE /\ receivedMessages[id] \in {NoEntry, brokerSent[id].msg}
         /\ taken[brokerSent[id].msg] > 0 <=> brokerSent[id].released /\ receivedMessages[id] = NoEntry

Pairs == ~cleanSession \/ connected => \A id \in Ids : Paired(id)

Told ==
    \A p \in On(toClient) : p.type = "PUBLISH" =>
        /\ p.msg \in Inbound /\ qosOf[p.msg] = p.qos
        /\ p.qos # 0 => brokerSent[p.id].msg = p.msg

Answered ==
    \A p \in On(toBroker) :
        /\ p.type = "PUBACK"  => taken[brokerSent[p.id].msg] > 0 /\ brokerSent[p.id].qos = 1
        /\ p.type = "PUBREC"  => receivedMessages[p.id] # NoEntry
        /\ p.type = "PUBCOMP" => receivedMessages[p.id] = NoEntry

Incoming ==
    /\ BrokerEntries /\ OneBrokerEntry /\ Pairs /\ Told /\ Answered
    /\ Flows(toClient, toBroker, Mirror)

DeliveryInv == History /\ Outgoing /\ Incoming

-----------------------------------------------------------------------------
(* Steps of the promise.                                                   *)

AckedTaken     == [m \in Messages |-> IF Acked(m) THEN taken[m] ELSE 0]
AckedConfirmed == {m \in confirmed : Acked(m)}
promiseVars == <<qosOf, AckedTaken, AckedConfirmed>>

LEMMA PromiseStutters ==
    ASSUME History, UNCHANGED qosOf, confirmed' \subseteq Messages,
           \A m \in Messages : qosOf[m] > 0 => taken'[m] = taken[m] /\ (m \in confirmed' <=> m \in confirmed)
    PROVE  UNCHANGED promiseVars
<1>1. AckedTaken' = AckedTaken
    BY DEF AckedTaken, Acked
<1>2. AckedConfirmed' = AckedConfirmed
    BY DEF AckedConfirmed, Acked, History
<1> QED
    BY <1>1, <1>2 DEF promiseVars

LEMMA PromiseAccepts ==
    ASSUME History, NEW m \in Messages, NEW qos \in {1, 2},
           qosOf[m] = 0, taken[m] = 0, m \notin confirmed,
           qosOf' = [qosOf EXCEPT ![m] = qos], UNCHANGED <<taken, confirmed>>
    PROVE  Promise!Next
<1>1. qosOf'[m] = qos /\ \A n \in Messages : n # m => qosOf'[n] = qosOf[n]
    BY DEF History
<1>2. AckedTaken' = AckedTaken
    BY <1>1 DEF AckedTaken, Acked
<1>3. AckedConfirmed' = AckedConfirmed
    BY <1>1 DEF AckedConfirmed, Acked, History
<1>4. Promise!Accept(m, qos)
    BY <1>2, <1>3 DEF Promise!Accept, AckedTaken, AckedConfirmed
<1> QED
    BY <1>4 DEF Promise!Next

LEMMA PromiseTakes ==
    ASSUME History, NEW m \in Messages, qosOf[m] > 0, m \notin confirmed, qosOf[m] = 2 => taken[m] = 0,
           taken' = [taken EXCEPT ![m] = @ + 1], UNCHANGED <<qosOf, confirmed>>
    PROVE  Promise!Next
<1>1. AckedTaken' = [AckedTaken EXCEPT ![m] = @ + 1]
    BY DEF AckedTaken, Acked, History
<1>2. AckedConfirmed' = AckedConfirmed
    BY DEF AckedConfirmed, Acked
<1>3. AckedTaken[m] = taken[m] /\ m \notin AckedConfirmed
    BY DEF AckedTaken, AckedConfirmed, Acked
<1>4. Promise!Take(m)
    BY <1>1, <1>2, <1>3 DEF Promise!Take, AckedTaken, AckedConfirmed
<1> QED
    BY <1>4 DEF Promise!Next

LEMMA PromiseConfirms ==
    ASSUME History, NEW m \in Messages, qosOf[m] > 0, m \notin confirmed, taken[m] > 0,
           confirmed' = confirmed \cup {m}, UNCHANGED <<qosOf, taken>>
    PROVE  Promise!Next
<1>1. AckedTaken' = AckedTaken
    BY DEF AckedTaken, Acked
<1>2. AckedConfirmed' = AckedConfirmed \cup {m} /\ m \notin AckedConfirmed
    BY DEF AckedConfirmed, Acked
<1>3. AckedTaken[m] = taken[m]
    BY DEF AckedTaken, Acked
<1>4. Promise!Confirm(m)
    BY <1>1, <1>2, <1>3 DEF Promise!Confirm, AckedTaken, AckedConfirmed
<1> QED
    BY <1>4 DEF Promise!Next

-----------------------------------------------------------------------------
(* Of a packet on a wire something is known.                               *)

LEMMA AskWaits ==
    ASSUME NEW b, NEW c, NEW table, Flows(b, c, table), NEW p \in On(b), Asks(p)
    PROVE  Waits(p, table)
BY DEF Flows, On

LEMMA AckWaits ==
    ASSUME NEW b, NEW c, NEW table, Flows(b, c, table), NEW p \in On(c), Acks(p)
    PROVE  Waits(p, table)
BY DEF Flows, On

LEMMA FreeHasNoFlow ==
    ASSUME NEW b, NEW c, NEW table, Flows(b, c, table), NEW id, table[id] = NoEntry
    PROVE  NoFlow(id, b, c)
<1>1. ASSUME NEW i \in 1..Len(b), Asks(b[i]) PROVE b[i].id # id
    <2>1. Waits(b[i], table)
        BY <1>1 DEF Flows
    <2> QED
        BY <2>1 DEF Waits
<1>2. ASSUME NEW i \in 1..Len(c), Acks(c[i]) PROVE c[i].id # id
    <2>1. Waits(c[i], table)
        BY <1>2 DEF Flows
    <2> QED
        BY <2>1 DEF Waits
<1> QED
    BY <1>1, <1>2 DEF NoFlow

(* What the client's entry is, for a packet of the client's half.          *)
LEMMA ForOurs ==
    ASSUME SessionInv, Outgoing, NEW p,
           \/ p \in On(toBroker) /\ p.type \in {"PUBREL", "PUBLISH"} /\ (p.type = "PUBLISH" => p.qos # 0)
           \/ p \in On(toClient) /\ p.type \in {"PUBACK", "PUBREC", "PUBCOMP"}
    PROVE  /\ p.id \in Ids /\ Ours(p.id) /\ Sent(p.id) \in 1..sends
           /\ sentMessages[p.id].pubRecReceived <=> p.type \in {"PUBREL", "PUBCOMP"}
<1>1. Waits(p, sentMessages)
    BY AskWaits, AckWaits DEF SessionInv, Asks, Acks
<1> QED
    BY <1>1 DEF Waits, Ours, Outgoing, Entries

LEMMA MirroredFields ==
    ASSUME NEW released \in BOOLEAN
    PROVE  /\ Mirrored(released) # NoEntry /\ Mirrored(released).type = "PUBLISH"
           /\ Mirrored(released).pubRecReceived = released
<1>1. Mirrored(released) \in Entry
    BY DEF Mirrored, Entry, Qos
<1> QED
    BY <1>1, NoEntryAssumption DEF Mirrored

(* What the broker's entry is, for a packet of the broker's half.          *)
LEMMA ForTheirs ==
    ASSUME Incoming, NEW p,
           \/ p \in On(toClient) /\ p.type \in {"PUBREL", "PUBLISH"} /\ (p.type = "PUBLISH" => p.qos # 0)
           \/ p \in On(toBroker) /\ p.type \in {"PUBACK", "PUBREC", "PUBCOMP"}
    PROVE  /\ p.id \in Ids /\ Theirs(p.id) /\ brokerSent[p.id] \in BrokerEntry
           /\ brokerSent[p.id].released <=> p.type \in {"PUBREL", "PUBCOMP"}
<1>1. Waits(p, Mirror)
    BY AskWaits, AckWaits DEF Incoming, Asks, Acks
<1>2. p.id \in Ids /\ Mirror[p.id] # NoEntry
    BY <1>1 DEF Waits
<1>3. Theirs(p.id)
    BY <1>2 DEF Mirror
<1>4. Mirror[p.id] = Mirrored(brokerSent[p.id].released)
    BY <1>2, <1>3 DEF Mirror
<1>5. brokerSent[p.id].released <=> p.type \in {"PUBREL", "PUBCOMP"}
    BY <1>1, <1>4 DEF Waits, Mirrored
<1>6. brokerSent[p.id] \in BrokerEntry
    BY <1>2, <1>3 DEF Incoming, BrokerEntries, Theirs
<1> QED
    BY <1>2, <1>3, <1>5, <1>6

LEMMA BoundsOfOutbound ==
    ASSUME History
    PROVE  /\ sends \in Nat /\ MaxRequests \in Nat /\ 1..sends \subseteq Outbound
           /\ Outbound \subseteq Messages /\ Inbound \subseteq Messages
           /\ \A m \in 1..sends : m \notin Inbound
BY SessionAssumption DEF History, Outbound, Messages

-----------------------------------------------------------------------------
(* A half of the session is kept by what changes only the other half.      *)

LEMMA OutgoingKept ==
    ASSUME SessionInv, History, Outgoing,
           UNCHANGED <<sentMessages, bufferedQueue, brokerReceived, connected, link, cleanSession>>,
           sends' \in Nat, sends <= sends',
           \A m \in 1..sends : /\ qosOf'[m] = qosOf[m] /\ taken'[m] = taken[m]
                               /\ m \in confirmed' => m \in confirmed,
           \A p \in On(toBroker') : p.type = "PUBLISH" =>
               \/ p \in On(toBroker)
               \/ p.msg \in 1..sends' /\ qosOf'[p.msg] = p.qos /\ p.qos = 0,
           \A p \in On(toClient') : p.type \in {"PUBACK", "PUBREC", "PUBCOMP"} => p \in On(toClient)
    PROVE  Outgoing'
<1>1. 1..sends \subseteq 1..sends'
    BY BoundsOfOutbound
<1>2. Entries' /\ OneEntry' /\ Buffered'
    BY <1>1 DEF Outgoing, Entries, OneEntry, Buffered, Ours, Sent
<1>3. BrokerHas'
    BY DEF Outgoing, BrokerHas, Entries, Ours, Sent
<1>4. Published'
    <2> SUFFICES ASSUME NEW p \in On(toBroker'), p.type = "PUBLISH"
                 PROVE  /\ p.msg \in 1..sends' /\ qosOf'[p.msg] = p.qos
                        /\ p.qos # 0 => Sent(p.id)' = p.msg
        BY DEF Published
    <2> QED
        BY <1>1 DEF Outgoing, Published, Sent
<1>5. Acknowledged'
    <2> SUFFICES ASSUME NEW p \in On(toClient'), p.type \in {"PUBACK", "PUBREC", "PUBCOMP"}
                 PROVE  /\ p.type \in {"PUBACK", "PUBREC"} => taken'[Sent(p.id)'] > 0
                        /\ p.type = "PUBACK"  => sentMessages'[p.id].qos = 1
                        /\ p.type = "PUBCOMP" => p.id \notin brokerReceived'
        BY DEF Acknowledged
    <2>1. p \in On(toClient) /\ Sent(p.id) \in 1..sends
        BY ForOurs
    <2> QED
        BY <2>1 DEF Outgoing, Acknowledged, Sent
<1> QED
    BY <1>2, <1>3, <1>4, <1>5 DEF Outgoing

LEMMA IncomingKept ==
    ASSUME Incoming,
           UNCHANGED <<brokerSent, receivedMessages, connected, link, cleanSession>>,
           \A m \in Inbound : /\ qosOf'[m] = qosOf[m]
                              /\ qosOf[m] # 0 => taken'[m] = taken[m] /\ (m \in confirmed' => m \in confirmed),
           \A p \in On(toClient') : p.type = "PUBLISH" =>
               p \in On(toClient) \/ (p.msg \in Inbound /\ qosOf[p.msg] = 0 /\ p.qos = 0),
           \A p \in On(toBroker') : p.type \in {"PUBACK", "PUBREC", "PUBCOMP"} => p \in On(toBroker),
           Flows(toClient', toBroker', Mirror)
    PROVE  Incoming'
<1>1. \A id \in Ids : Theirs(id) => brokerSent[id].msg \in Inbound /\ qosOf[brokerSent[id].msg] # 0
    BY DEF Incoming, BrokerEntries, Theirs, BrokerEntry
<1>2. BrokerEntries' /\ OneBrokerEntry'
    BY <1>1 DEF Incoming, BrokerEntries, OneBrokerEntry, Theirs
<1>3. Pairs'
    BY <1>1 DEF Incoming, Pairs, Paired, Theirs
<1>4. Told'
    BY DEF Incoming, Told
<1>5. Answered'
    <2> SUFFICES ASSUME NEW p \in On(toBroker'), p.type \in {"PUBACK", "PUBREC", "PUBCOMP"}
                 PROVE  /\ p.type = "PUBACK"  => taken'[brokerSent'[p.id].msg] > 0 /\ brokerSent'[p.id].qos = 1
                        /\ p.type = "PUBREC"  => receivedMessages'[p.id] # NoEntry
                        /\ p.type = "PUBCOMP" => receivedMessages'[p.id] = NoEntry
        BY DEF Answered
    <2>1. p \in On(toBroker) /\ brokerSent[p.id].msg \in Inbound /\ qosOf[brokerSent[p.id].msg] # 0
        BY <1>1, ForTheirs
    <2> QED
        BY <2>1 DEF Incoming, Answered
<1>6. Mirror' = Mirror
    BY DEF Mirror, Theirs
<1> QED
    BY <1>2, <1>3, <1>4, <1>5, <1>6 DEF Incoming

-----------------------------------------------------------------------------
(* The application's calls.                                                *)

LEMMA AcceptedHistory ==
    ASSUME History, NEW m \in Outbound, NEW qos \in Qos, m = sends + 1, sends' = m,
           qosOf' = [qosOf EXCEPT ![m] = qos], taken' = taken,
           confirmed' = confirmed \/ confirmed' = confirmed \cup {m}
    PROVE  /\ History'
           /\ m \in Messages /\ qosOf[m] = 0 /\ taken[m] = 0 /\ m \notin confirmed
           /\ m \notin 1..sends /\ m \notin Inbound
           /\ qosOf'[m] = qos /\ \A n \in Messages : n # m => qosOf'[n] = qosOf[n]
<1>1. /\ m \in Messages /\ qosOf[m] = 0 /\ taken[m] = 0 /\ m \notin confirmed
      /\ m \notin 1..sends /\ m \notin Inbound
    BY SessionAssumption DEF History, Outbound, Messages
<1>2. qosOf'[m] = qos /\ \A n \in Messages : n # m => qosOf'[n] = qosOf[n]
    BY <1>1 DEF History
<1>3. qosOf' \in [Messages -> Qos] /\ taken' \in [Messages -> Nat] /\ confirmed' \subseteq Messages
    BY <1>1 DEF History
<1>4. sends' \in 0..MaxRequests /\ \A n \in Outbound : n > sends' => n > sends /\ n # m
    BY SessionAssumption DEF History, Outbound
<1>5. \A n \in Outbound : n > sends' => qosOf'[n] = 0 /\ taken'[n] = 0 /\ n \notin confirmed'
    BY <1>2, <1>4 DEF History, Messages
<1>6. \A n \in Inbound : n \in confirmed' => qosOf'[n] # 0
    BY <1>1, <1>2 DEF History, Messages
<1> QED
    BY <1>1, <1>2, <1>3, <1>4, <1>5, <1>6 DEF History

LEMMA AcceptedIncoming ==
    ASSUME SessionInv, History, Incoming, NEW m \in Outbound, NEW qos \in Qos, Accepted(m, qos),
           taken' = taken, confirmed' = confirmed \/ confirmed' = confirmed \cup {m},
           \/ toBroker' = toBroker
           \/ \E p : toBroker' = Append(toBroker, p) /\ p.type = "PUBLISH"
    PROVE  Incoming'
<1>1. /\ m \notin Inbound /\ \A n \in Messages : n # m => qosOf'[n] = qosOf[n]
      /\ UNCHANGED <<brokerSent, receivedMessages, connected, link, cleanSession, toClient>>
    BY AcceptedHistory DEF Accepted, broker
<1>2. \A n \in Inbound : n \in Messages /\ n # m
    BY <1>1 DEF Messages
<1>3. IsSequence(toBroker) /\ Flows(toClient, toBroker, Mirror)
    BY DEF SessionInv, Phase, Incoming
<1>4. /\ Flows(toClient', toBroker', Mirror)
      /\ \A p \in On(toBroker') : p.type \in {"PUBACK", "PUBREC", "PUBCOMP"} => p \in On(toBroker)
    <2>1. CASE toBroker' = toBroker
        BY <1>1, <1>3, <2>1
    <2>2. ASSUME NEW p, toBroker' = Append(toBroker, p), p.type = "PUBLISH"
          PROVE  /\ Flows(toClient', toBroker', Mirror)
                 /\ \A q \in On(toBroker') : q.type \in {"PUBACK", "PUBREC", "PUBCOMP"} => q \in On(toBroker)
        BY <1>1, <1>3, <2>2, PushClient, OnAppend DEF Acks
    <2> QED
        BY <2>1, <2>2
<1> QED
    BY <1>1, <1>2, <1>4, IncomingKept

LEMMA SendQos0Delivers ==
    ASSUME SessionInv, DeliveryInv, NEW m \in Outbound, SendQos0(m)
    PROVE  DeliveryInv' /\ UNCHANGED promiseVars
<1> DEFINE p == Publish(0, m, 0)
<1>1. /\ Accepted(m, 0) /\ toBroker' = Append(toBroker, p) /\ confirmed' = confirmed \cup {m}
      /\ UNCHANGED <<sentMessages, bufferedQueue>>
    BY DEF SendQos0
<1>2. /\ m = sends + 1 /\ sends' = m /\ qosOf' = [qosOf EXCEPT ![m] = 0]
      /\ UNCHANGED <<taken, toClient, brokerReceived, connected, link, cleanSession>>
    BY <1>1 DEF Accepted, broker
<1>3. p.type = "PUBLISH" /\ p.msg = m /\ p.qos = 0
    BY DEF Publish
<1> HIDE DEF p
<1>4. /\ History' /\ qosOf[m] = 0 /\ m \notin 1..sends /\ m \in Messages
      /\ qosOf'[m] = 0 /\ \A n \in Messages : n # m => qosOf'[n] = qosOf[n]
    <2>1. 0 \in Qos
        BY DEF Qos
    <2> QED
        BY <1>1, <1>2, <2>1, AcceptedHistory DEF DeliveryInv
<1>5. /\ On(toBroker') = On(toBroker) \cup {p} /\ sends \in Nat /\ 1..sends \subseteq Messages
      /\ m \in 1..sends'
    BY <1>1, <1>2, OnAppend, BoundsOfOutbound DEF SessionInv, Phase, DeliveryInv
<1>6. Outgoing'
    BY <1>1, <1>2, <1>3, <1>4, <1>5, OutgoingKept DEF DeliveryInv
<1>7. Incoming'
    BY <1>1, <1>2, <1>3, AcceptedIncoming DEF DeliveryInv, Qos
<1>8. qosOf' = qosOf
    BY <1>2, <1>4 DEF DeliveryInv, History
<1>9. UNCHANGED promiseVars
    BY <1>1, <1>2, <1>4, <1>8, PromiseStutters DEF DeliveryInv, History
<1> QED
    BY <1>4, <1>6, <1>7, <1>9 DEF DeliveryInv

(* A message of QoS 1 or 2 is put into the table under a free identifier.  *)
LEMMA EnteredOutgoing ==
    ASSUME SessionInv, History, Outgoing,
           NEW m \in Outbound, NEW qos \in {1, 2}, m = sends + 1, sends' = m,
           qosOf' = [qosOf EXCEPT ![m] = qos],
           NEW entry, entry # NoEntry, entry.type = "PUBLISH", entry.msg = m, entry.qos = qos,
           ~entry.pubRecReceived,
           NEW id \in Ids, sentMessages[id] = NoEntry,
           sentMessages' = [sentMessages EXCEPT ![id] = entry],
           UNCHANGED <<taken, confirmed, bufferedQueue, brokerReceived, connected, link, cleanSession, toClient>>,
           toBroker' = toBroker \/ toBroker' = Append(toBroker, Publish(id, m, qos))
    PROVE  Outgoing'
<1>1. /\ qosOf[m] = 0 /\ taken[m] = 0 /\ m \notin confirmed /\ m \notin 1..sends /\ qosOf'[m] = qos
      /\ \A n \in Messages : n # m => qosOf'[n] = qosOf[n]
    <2>1. qos \in Qos
        BY DEF Qos
    <2> QED
        BY <2>1, AcceptedHistory
<1>2. /\ 1..sends \subseteq 1..sends' /\ m \in 1..sends' /\ \A n \in 1..sends : qosOf'[n] = qosOf[n]
    BY <1>1, BoundsOfOutbound
<1>3. /\ sentMessages'[id] = entry /\ ~Ours(id)
      /\ \A other \in Ids : other # id => sentMessages'[other] = sentMessages[other]
    BY DEF SessionInv, Tables, Ours
<1>4. Entries'
    BY <1>1, <1>2, <1>3 DEF Outgoing, Entries, Ours, Sent
<1>5. OneEntry'
    <2>1. \A other \in Ids : Ours(other) => Sent(other) # m
        BY <1>1 DEF Outgoing, Entries
    <2> QED
        BY <1>3, <2>1 DEF Outgoing, OneEntry, Ours, Sent
<1>6. BrokerHas'
    BY <1>3 DEF Outgoing, BrokerHas, Ours, Sent
<1>7. Buffered'
    BY <1>2 DEF Outgoing, Buffered
<1>8. Published'
    <2> DEFINE q == Publish(id, m, qos)
    <2>1. q.type = "PUBLISH" /\ q.id = id /\ q.msg = m /\ q.qos = qos
        BY DEF Publish
    <2>2. On(toBroker') \subseteq On(toBroker) \cup {q}
        BY OnAppend DEF SessionInv, Phase
    <2> HIDE DEF q
    <2> SUFFICES ASSUME NEW p \in On(toBroker'), p.type = "PUBLISH"
                 PROVE  /\ p.msg \in 1..sends' /\ qosOf'[p.msg] = p.qos
                        /\ p.qos # 0 => sentMessages'[p.id].msg = p.msg
        BY DEF Published, Sent
    <2>3. CASE p = q
        BY <1>1, <1>2, <1>3, <2>1, <2>3
    <2>4. CASE p \in On(toBroker)
        <3>1. p.qos # 0 => p.id \in Ids /\ p.id # id
            BY <1>3, <2>4, ForOurs
        <3> QED
            BY <1>2, <1>3, <2>4, <3>1 DEF Outgoing, Published, Sent
    <2> QED
        BY <2>2, <2>3, <2>4
<1>9. Acknowledged'
    <2> SUFFICES ASSUME NEW p \in On(toClient), p.type \in {"PUBACK", "PUBREC", "PUBCOMP"}
                 PROVE  /\ p.type \in {"PUBACK", "PUBREC"} => taken[sentMessages'[p.id].msg] > 0
                        /\ p.type = "PUBACK"  => sentMessages'[p.id].qos = 1
                        /\ p.type = "PUBCOMP" => p.id \notin brokerReceived
        BY DEF Acknowledged, Sent
    <2>1. p.id \in Ids /\ p.id # id
        BY <1>3, ForOurs
    <2> QED
        BY <1>3, <2>1 DEF Outgoing, Acknowledged, Sent
<1> QED
    BY <1>4, <1>5, <1>6, <1>7, <1>8, <1>9 DEF Outgoing

LEMMA NewEntryFields ==
    ASSUME SessionInv, NEW m \in Outbound, NEW qos \in Qos
    PROVE  /\ NewEntry(m, qos) \in Entry /\ NewEntry(m, qos) # NoEntry
           /\ NewEntry(m, qos).type = "PUBLISH" /\ NewEntry(m, qos).msg = m /\ NewEntry(m, qos).qos = qos
           /\ ~NewEntry(m, qos).pubRecReceived /\ NewEntry(m, qos).sequence = sequence + 1
<1>1. NewEntry(m, qos) \in Entry
    BY NewEntryType
<1> QED
    BY <1>1, NewEntryType, NoEntryAssumption DEF NewEntry

LEMMA SendAckedDelivers ==
    ASSUME SessionInv, DeliveryInv, NEW m \in Outbound, NEW qos \in {1, 2}, SendAcked(m, qos)
    PROVE  DeliveryInv' /\ Promise!Next
<1> DEFINE entry == NewEntry(m, qos)
<1>1. /\ Accepted(m, qos) /\ RequiresAck(entry) /\ toBroker' = Append(toBroker, Publish(NextId, m, qos))
      /\ UNCHANGED <<confirmed, bufferedQueue>>
    BY DEF SendAcked
<1>2. /\ m = sends + 1 /\ sends' = m /\ qosOf' = [qosOf EXCEPT ![m] = qos] /\ Requests < MaxRequests
      /\ UNCHANGED <<taken, toClient, brokerReceived, connected, link, cleanSession>>
    BY <1>1 DEF Accepted, broker, Requests
<1>3. qos \in Qos
    BY DEF Qos
<1>4. /\ entry \in Entry /\ entry # NoEntry /\ entry.type = "PUBLISH" /\ entry.msg = m /\ entry.qos = qos
      /\ ~entry.pubRecReceived
    BY <1>3, NewEntryFields, SMTT(30)
<1> HIDE DEF entry
<1>5. NextId \in Ids /\ sentMessages[NextId] = NoEntry /\ sentMessages' = [sentMessages EXCEPT ![NextId] = entry]
    BY <1>1, <1>2, FreeId DEF RequiresAck
<1>6. Outgoing'
    BY <1>1, <1>2, <1>4, <1>5, EnteredOutgoing DEF DeliveryInv
<1>7. Incoming'
    <2>1. Publish(NextId, m, qos).type = "PUBLISH"
        BY DEF Publish
    <2> QED
        BY <1>1, <1>2, <1>3, <2>1, AcceptedIncoming DEF DeliveryInv
<1>8. /\ History' /\ m \in Messages /\ qosOf[m] = 0 /\ taken[m] = 0 /\ m \notin confirmed
    BY <1>1, <1>2, <1>3, AcceptedHistory DEF DeliveryInv
<1>9. Promise!Next
    BY <1>1, <1>2, <1>8, PromiseAccepts DEF DeliveryInv
<1> QED
    BY <1>6, <1>7, <1>8, <1>9 DEF DeliveryInv

LEMMA SendDisconnectedDelivers ==
    ASSUME SessionInv, DeliveryInv, NEW m \in Outbound, NEW qos \in Qos, SendDisconnected(m, qos)
    PROVE  DeliveryInv' /\ (Promise!Next \/ UNCHANGED promiseVars)
<1> DEFINE entry == NewEntry(m, qos)
<1>1. Accepted(m, qos) /\ UNCHANGED <<toBroker, confirmed>>
    BY DEF SendDisconnected
<1>2. /\ m = sends + 1 /\ sends' = m /\ qosOf' = [qosOf EXCEPT ![m] = qos] /\ Requests < MaxRequests
      /\ UNCHANGED <<taken, toClient, brokerReceived, connected, link, cleanSession>>
    BY <1>1 DEF Accepted, broker, Requests
<1>4. /\ entry \in Entry /\ entry # NoEntry /\ entry.type = "PUBLISH" /\ entry.msg = m /\ entry.qos = qos
      /\ ~entry.pubRecReceived
    BY NewEntryFields, Zenon
<1>5. \/ qos > 0 /\ RequiresAck(entry) /\ UNCHANGED bufferedQueue
      \/ qos = 0 /\ bufferedQueue' = Append(bufferedQueue, entry) /\ UNCHANGED sentMessages
    BY DEF SendDisconnected
<1> HIDE DEF entry
<1>6. /\ History' /\ m \in Messages /\ qosOf[m] = 0 /\ taken[m] = 0 /\ m \notin confirmed
      /\ m \notin 1..sends /\ qosOf'[m] = qos /\ \A n \in Messages : n # m => qosOf'[n] = qosOf[n]
    BY <1>1, <1>2, AcceptedHistory DEF DeliveryInv
<1>7. Incoming'
    BY <1>1, <1>2, AcceptedIncoming DEF DeliveryInv
<1>8. CASE qos > 0
    <2>1. qos \in {1, 2} /\ RequiresAck(entry) /\ UNCHANGED bufferedQueue
        BY <1>5, <1>8 DEF Qos
    <2>2. NextId \in Ids /\ sentMessages[NextId] = NoEntry /\ sentMessages' = [sentMessages EXCEPT ![NextId] = entry]
        BY <1>2, <2>1, FreeId DEF RequiresAck
    <2>3. Outgoing'
        BY <1>1, <1>2, <1>4, <2>1, <2>2, EnteredOutgoing DEF DeliveryInv
    <2>4. Promise!Next
        BY <1>1, <1>2, <1>6, <2>1, PromiseAccepts DEF DeliveryInv
    <2> QED
        BY <1>6, <1>7, <2>3, <2>4 DEF DeliveryInv
<1>9. CASE qos = 0
    <2>1. bufferedQueue' = Append(bufferedQueue, entry) /\ UNCHANGED sentMessages
        BY <1>5, <1>9
    <2>2. On(bufferedQueue') = On(bufferedQueue) \cup {entry}
        BY <2>1, OnAppend DEF SessionInv, Tables
    <2>3. /\ 1..sends \subseteq 1..sends' /\ m \in 1..sends' /\ \A n \in 1..sends : qosOf'[n] = qosOf[n]
        BY <1>2, <1>6, BoundsOfOutbound DEF DeliveryInv
    <2>4. Buffered'
        BY <1>4, <1>6, <1>9, <2>2, <2>3 DEF DeliveryInv, Outgoing, Buffered
    <2>5. Entries' /\ OneEntry' /\ BrokerHas'
        BY <1>1, <1>2, <2>1, <2>3 DEF DeliveryInv, Outgoing, Entries, OneEntry, BrokerHas, Ours, Sent
    <2>6. Published' /\ Acknowledged'
        BY <1>1, <1>2, <2>1, <2>3 DEF DeliveryInv, Outgoing, Published, Acknowledged, Sent
    <2>7. qosOf' = qosOf
        BY <1>2, <1>6, <1>9 DEF DeliveryInv, History
    <2>8. UNCHANGED promiseVars
        BY <1>1, <1>2, <2>7, PromiseStutters DEF DeliveryInv, History
    <2> QED
        BY <1>6, <1>7, <2>4, <2>5, <2>6, <2>8 DEF DeliveryInv, Outgoing
<1> QED
    BY <1>8, <1>9 DEF Qos

(* What changes neither the messages nor the broker's half.                *)
LEMMA SubscribeDelivers ==
    ASSUME SessionInv, DeliveryInv, Subscribe
    PROVE  DeliveryInv' /\ UNCHANGED promiseVars
<1> DEFINE entry == [type |-> "SUBSCRIBE", msg |-> NoEntry, qos |-> 1, sequence |-> 0,
                     pubRecReceived |-> FALSE]
           p == Packet("SUBSCRIBE", NextId)
<1>1. /\ RequiresAck(entry) /\ toBroker' = Append(toBroker, p) /\ Requests < MaxRequests
      /\ UNCHANGED <<cleanSession, link, toClient, brokerReceived, brokerSent, qosOf, taken, confirmed, sends,
                     connected, receivedMessages, bufferedQueue>>
    BY DEF Subscribe, history, broker, Requests
<1>2. entry.type = "SUBSCRIBE" /\ p.type = "SUBSCRIBE"
    BY DEF Packet
<1> HIDE DEF entry, p
<1>3. NextId \in Ids /\ sentMessages[NextId] = NoEntry /\ sentMessages' = [sentMessages EXCEPT ![NextId] = entry]
    BY <1>1, FreeId DEF RequiresAck
<1>4. /\ \A id \in Ids : Ours(id)' <=> Ours(id)
      /\ \A id \in Ids : Ours(id) => sentMessages'[id] = sentMessages[id]
    BY <1>2, <1>3 DEF SessionInv, Tables, Ours
<1>5. IsSequence(toBroker) /\ On(toBroker') = On(toBroker) \cup {p}
    BY <1>1, OnAppend DEF SessionInv, Phase
<1>6. History'
    BY <1>1 DEF DeliveryInv, History
<1>7. Outgoing'
    <2>1. Entries' /\ OneEntry' /\ BrokerHas' /\ Buffered'
        BY <1>1, <1>4 DEF DeliveryInv, Outgoing, Entries, OneEntry, BrokerHas, Buffered, Sent
    <2>2. ASSUME NEW q \in On(toBroker), q.type = "PUBLISH", q.qos # 0
          PROVE  sentMessages'[q.id] = sentMessages[q.id]
        BY <1>4, <2>2, ForOurs DEF DeliveryInv
    <2>3. ASSUME NEW q \in On(toClient), q.type \in {"PUBACK", "PUBREC"}
          PROVE  sentMessages'[q.id] = sentMessages[q.id]
        BY <1>4, <2>3, ForOurs DEF DeliveryInv
    <2>4. Published'
        BY <1>1, <1>2, <1>5, <2>2 DEF DeliveryInv, Outgoing, Published, Sent
    <2>5. Acknowledged'
        BY <1>1, <2>3 DEF DeliveryInv, Outgoing, Acknowledged, Sent
    <2> QED
        BY <2>1, <2>4, <2>5 DEF Outgoing
<1>8. Incoming'
    <2>1. Flows(toClient', toBroker', Mirror)
        BY <1>1, <1>2, <1>5, PushClient DEF DeliveryInv, Incoming, Acks
    <2> QED
        BY <1>1, <1>2, <1>5, <2>1, IncomingKept DEF DeliveryInv
<1>9. UNCHANGED promiseVars
    BY <1>1, PromiseStutters DEF DeliveryInv, History
<1> QED
    BY <1>6, <1>7, <1>8, <1>9 DEF DeliveryInv

-----------------------------------------------------------------------------
(* The handlers of the client's own messages.                              *)

LEMMA NoFlowOn ==
    ASSUME NEW id, NEW b, NEW c, NoFlow(id, b, c)
    PROVE  /\ \A p \in On(b) : Asks(p) => p.id # id
           /\ \A p \in On(c) : Acks(p) => p.id # id
BY DEF NoFlow, On

LEMMA Handled ==
    ASSUME SessionInv, DeliveryInv, NEW type, type # "CONNACK", Arrives(type)
    PROVE  /\ connected /\ Head(toClient) \in On(toClient) /\ Head(toClient).type = type
           /\ On(toClient') \subseteq On(toClient)
           /\ IsSequence(toClient) /\ IsSequence(toBroker) /\ toClient # <<>> /\ toClient' = Tail(toClient)
           /\ Flows(toClient', toBroker, Mirror)
           /\ UNCHANGED <<cleanSession, link, brokerReceived, brokerSent, qosOf, sends>>
<1>1. /\ connected /\ toClient # <<>> /\ IsSequence(toClient) /\ IsSequence(toBroker)
      /\ toClient' = Tail(toClient) /\ Head(toClient).type = type
    BY Handling
<1>2. Head(toClient) \in On(toClient) /\ On(toClient') \subseteq On(toClient)
    BY <1>1, OnTail
<1>3. Flows(toClient', toBroker, Mirror)
    BY <1>1, PopBroker DEF DeliveryInv, Incoming
<1> QED
    BY <1>1, <1>2, <1>3 DEF Arrives, broker

(* The entry that an acknowledgement is for may be changed or taken out:   *)
(* no other packet has its identifier.                                     *)
LEMMA AcknowledgedEntry ==
    ASSUME SessionInv, DeliveryInv, NEW type \in {"PUBACK", "PUBREC", "PUBCOMP"}, Arrives(type),
           NEW slot, sentMessages' = [sentMessages EXCEPT ![Head(toClient).id] = slot],
           UNCHANGED <<taken, bufferedQueue, connected, receivedMessages>>,
           confirmed' = confirmed \/ confirmed' = confirmed \cup {Sent(Head(toClient).id)},
           \/ slot = NoEntry /\ Head(toClient).id \notin brokerReceived
           \/ /\ confirmed' = confirmed /\ slot # NoEntry /\ slot.type = "PUBLISH" /\ slot.msg = Sent(Head(toClient).id)
              /\ slot.qos = sentMessages[Head(toClient).id].qos /\ slot.pubRecReceived
              /\ taken[slot.msg] > 0,
           \/ toBroker' = toBroker
           \/ \E p : toBroker' = Append(toBroker, p) /\ p.type = "PUBREL"
    PROVE  DeliveryInv'
<1> DEFINE id == Head(toClient).id
<1>1. /\ connected /\ Head(toClient) \in On(toClient) /\ Head(toClient).type = type
      /\ On(toClient') \subseteq On(toClient) /\ IsSequence(toBroker)
      /\ toClient' = Tail(toClient)
      /\ UNCHANGED <<cleanSession, link, brokerReceived, brokerSent, qosOf, sends>>
    BY Handled
<1>2. id \in Ids /\ Ours(id) /\ Sent(id) \in 1..sends
    BY <1>1, ForOurs DEF DeliveryInv
<1>3. NoFlow(id, toBroker, toClient')
    BY <1>1, Handling DEF Acks
<1> HIDE DEF id
<1>4. /\ sentMessages'[id] = slot
      /\ \A other \in Ids : other # id => sentMessages'[other] = sentMessages[other]
    BY <1>2 DEF SessionInv, Tables, id
<1>5. On(toBroker') \subseteq On(toBroker) \cup {p \in On(toBroker') : p.type = "PUBREL"}
    <2>1. CASE toBroker' = toBroker
        BY <2>1
    <2>2. ASSUME NEW p, toBroker' = Append(toBroker, p), p.type = "PUBREL"
          PROVE  On(toBroker') \subseteq On(toBroker) \cup {q \in On(toBroker') : q.type = "PUBREL"}
        BY <1>1, <2>2, OnAppend
    <2> QED
        BY <2>1, <2>2
<1>6. \A other \in Ids : other # id /\ Ours(other) => Sent(other) # Sent(id) /\ Sent(other) \notin confirmed'
    BY <1>2 DEF DeliveryInv, Outgoing, OneEntry, Entries, id
<1>7. confirmed' = confirmed => Sent(id) \notin confirmed'
    BY <1>2 DEF DeliveryInv, Outgoing, Entries
<1>8. Entries'
    <2> SUFFICES ASSUME NEW other \in Ids, Ours(other)'
                 PROVE  (/\ Sent(other) \in 1..sends
                         /\ qosOf[Sent(other)] = sentMessages[other].qos /\ Sent(other) \notin confirmed
                         /\ sentMessages[other].pubRecReceived => taken[Sent(other)] > 0
                         /\ sentMessages[other].qos = 2 /\ ~sentMessages[other].pubRecReceived /\ taken[Sent(other)] > 0 =>
                                other \in brokerReceived \/ (cleanSession /\ ~connected))'
        BY DEF Entries
    <2>1. CASE other # id
        BY <1>1, <1>4, <1>6, <2>1 DEF DeliveryInv, Outgoing, Entries, Ours, Sent
    <2>2. CASE other = id
        <3>1. /\ slot # NoEntry /\ confirmed' = confirmed /\ slot.msg = Sent(id) /\ slot.qos = sentMessages[id].qos
              /\ slot.pubRecReceived /\ taken[slot.msg] > 0
            BY <1>4, <2>2 DEF Ours, id
        <3>2. qosOf[Sent(id)] = sentMessages[id].qos
            BY <1>2 DEF DeliveryInv, Outgoing, Entries
        <3> QED
            BY <1>1, <1>2, <1>4, <1>7, <2>2, <3>1, <3>2 DEF Sent
    <2> QED
        BY <2>1, <2>2
<1>9. OneEntry'
    <2>1. \A other \in Ids : Ours(other)' => Ours(other) /\ Sent(other)' = Sent(other)
        BY <1>2, <1>4 DEF Ours, Sent, id
    <2> QED
        BY <2>1 DEF DeliveryInv, Outgoing, OneEntry
<1>10. BrokerHas'
    <2>1. \A other \in brokerReceived : other \in Ids /\ Ours(other) /\ (other = id => slot # NoEntry)
        BY DEF DeliveryInv, Outgoing, BrokerHas, id
    <2> QED
        BY <1>1, <1>4, <2>1 DEF DeliveryInv, Outgoing, BrokerHas, Ours, Sent, id
<1>11. Buffered'
    BY <1>1 DEF DeliveryInv, Outgoing, Buffered
<1>12. Published'
    <2> SUFFICES ASSUME NEW p \in On(toBroker), p.type = "PUBLISH"
                 PROVE  /\ p.msg \in 1..sends /\ qosOf[p.msg] = p.qos
                        /\ p.qos # 0 => sentMessages'[p.id].msg = p.msg
        BY <1>1, <1>5 DEF Published, Sent
    <2>1. p.qos # 0 => p.id \in Ids /\ p.id # id
        BY <1>3, ForOurs, NoFlowOn DEF Asks, DeliveryInv
    <2> QED
        BY <1>4, <2>1 DEF DeliveryInv, Outgoing, Published, Sent
<1>13. Acknowledged'
    <2> SUFFICES ASSUME NEW p \in On(toClient'), p.type \in {"PUBACK", "PUBREC", "PUBCOMP"}
                 PROVE  /\ p.type \in {"PUBACK", "PUBREC"} => taken[sentMessages'[p.id].msg] > 0
                        /\ p.type = "PUBACK"  => sentMessages'[p.id].qos = 1
                        /\ p.type = "PUBCOMP" => p.id \notin brokerReceived
        BY <1>1 DEF Acknowledged, Sent
    <2>1. p \in On(toClient) /\ p.id \in Ids /\ p.id # id
        BY <1>1, <1>3, ForOurs, NoFlowOn DEF Acks, DeliveryInv
    <2> QED
        BY <1>4, <2>1 DEF DeliveryInv, Outgoing, Acknowledged, Sent
<1>14. /\ Sent(id) \in Messages /\ Sent(id) \notin Inbound
       /\ \A m \in Outbound : m > sends => m # Sent(id)
    BY <1>2, BoundsOfOutbound DEF DeliveryInv, Outbound
<1>15. History'
    BY <1>1, <1>14 DEF DeliveryInv, History, id
<1>16. Incoming'
    <2>1. \A m \in Inbound : m \in confirmed' => m \in confirmed
        BY <1>14 DEF id
    <2>2. Flows(toClient', toBroker', Mirror)
        BY Handled, PushClient DEF Acks
    <2> QED
        BY <1>1, <1>5, <2>1, <2>2, IncomingKept DEF DeliveryInv
<1> QED
    BY <1>8, <1>9, <1>10, <1>11, <1>12, <1>13, <1>15, <1>16 DEF DeliveryInv, Outgoing

LEMMA HandleCompletionDelivers ==
    ASSUME SessionInv, DeliveryInv, NEW type \in {"PUBACK", "PUBCOMP"}, HandleCompletion(type)
    PROVE  DeliveryInv' /\ Promise!Next
<1> DEFINE id == Head(toClient).id
<1>1. /\ Arrives(type) /\ sentMessages' = [sentMessages EXCEPT ![id] = NoEntry]
      /\ confirmed' = confirmed \cup {Sent(id)}
      /\ UNCHANGED <<taken, bufferedQueue, connected, receivedMessages, toBroker>>
    BY DEF HandleCompletion, Completed, Sent
<1>2. Head(toClient) \in On(toClient) /\ Head(toClient).type = type /\ UNCHANGED qosOf
    BY <1>1, Handled
<1>3. /\ id \in Ids /\ Ours(id) /\ Sent(id) \in 1..sends
      /\ sentMessages[id].pubRecReceived <=> type = "PUBCOMP"
    BY <1>2, ForOurs DEF DeliveryInv
<1>4. taken[Sent(id)] > 0 /\ id \notin brokerReceived
    <2>1. CASE type = "PUBACK"
        BY <1>2, <2>1 DEF DeliveryInv, Outgoing, Acknowledged, BrokerHas
    <2>2. CASE type = "PUBCOMP"
        BY <1>2, <1>3, <2>2 DEF DeliveryInv, Outgoing, Acknowledged, Entries
    <2> QED
        BY <2>1, <2>2
<1>5. DeliveryInv'
    BY <1>1, <1>4, AcknowledgedEntry
<1>6. Sent(id) \in Messages /\ qosOf[Sent(id)] > 0 /\ Sent(id) \notin confirmed
    <2>1. /\ Sent(id) \in Messages /\ qosOf[Sent(id)] = sentMessages[id].qos /\ Sent(id) \notin confirmed
          /\ sentMessages[id].qos # 0
        BY <1>3, BoundsOfOutbound DEF DeliveryInv, Outgoing, Entries, SessionInv, Tables, Ours
    <2> QED
        BY <2>1 DEF DeliveryInv, History, Qos
<1>7. Promise!Next
    BY <1>1, <1>2, <1>4, <1>6, PromiseConfirms DEF DeliveryInv
<1> QED
    BY <1>5, <1>7

LEMMA HandlePubrecDelivers ==
    ASSUME SessionInv, DeliveryInv, HandlePubrec
    PROVE  DeliveryInv' /\ UNCHANGED promiseVars
<1> DEFINE id == Head(toClient).id
           entry == [sentMessages[id] EXCEPT !.pubRecReceived = TRUE]
<1>1. /\ Arrives("PUBREC") /\ UNCHANGED <<taken, confirmed, bufferedQueue, connected, receivedMessages>>
    BY DEF HandlePubrec
<1>2. Head(toClient) \in On(toClient) /\ Head(toClient).type = "PUBREC" /\ UNCHANGED qosOf
    BY <1>1, Handled
<1>3. id \in Ids /\ Ours(id) /\ taken[Sent(id)] > 0
    BY <1>2, ForOurs DEF DeliveryInv, Outgoing, Acknowledged
<1>4. /\ sentMessages' = [sentMessages EXCEPT ![id] = entry]
      /\ toBroker' = Append(toBroker, Packet("PUBREL", id))
    BY <1>3 DEF HandlePubrec, Ours, Answer
<1>5. /\ entry # NoEntry /\ entry.type = "PUBLISH" /\ entry.msg = Sent(id)
      /\ entry.qos = sentMessages[id].qos /\ entry.pubRecReceived
    <2>1. sentMessages[id] \in Entry
        BY <1>3 DEF SessionInv, Tables, Slot, Ours
    <2>2. entry.msg = sentMessages[id].msg
        BY <2>1 DEF Entry
    <2> QED
        BY <1>3, <2>1, <2>2, Marked, NoEntryAssumption DEF Ours, Sent
<1>6. Packet("PUBREL", id).type = "PUBREL"
    BY DEF Packet
<1> HIDE DEF entry
<1>7. DeliveryInv'
    BY <1>1, <1>3, <1>4, <1>5, <1>6, AcknowledgedEntry
<1>8. UNCHANGED promiseVars
    BY <1>1, <1>2, PromiseStutters DEF DeliveryInv, History
<1> QED
    BY <1>7, <1>8

LEMMA HandleSubackDelivers ==
    ASSUME SessionInv, DeliveryInv, HandleSuback
    PROVE  DeliveryInv' /\ UNCHANGED promiseVars
<1> DEFINE id == Head(toClient).id
<1>1. /\ Arrives("SUBACK") /\ sentMessages' = [sentMessages EXCEPT ![id] = NoEntry]
      /\ UNCHANGED <<taken, confirmed, bufferedQueue, connected, receivedMessages, toBroker>>
    BY DEF HandleSuback
<1>2. /\ connected /\ Head(toClient).type = "SUBACK"
      /\ On(toClient') \subseteq On(toClient) /\ toClient' = Tail(toClient)
      /\ Flows(toClient', toBroker, Mirror)
      /\ UNCHANGED <<cleanSession, link, brokerReceived, brokerSent, qosOf, sends>>
    BY <1>1, Handled
<1>3. id \in Ids /\ ~Ours(id)
    BY <1>1, <1>2, Handling DEF Acks, Waits, Ours
<1>4. /\ \A other \in Ids : Ours(other)' <=> Ours(other)
      /\ \A other \in Ids : Ours(other) => sentMessages'[other] = sentMessages[other]
    BY <1>1, <1>3 DEF SessionInv, Tables, Ours
<1>5. Outgoing'
    <2>1. Entries' /\ OneEntry' /\ BrokerHas' /\ Buffered'
        BY <1>1, <1>2, <1>4 DEF DeliveryInv, Outgoing, Entries, OneEntry, BrokerHas, Buffered, Sent
    <2>2. ASSUME NEW q \in On(toBroker), q.type = "PUBLISH", q.qos # 0
          PROVE  sentMessages'[q.id] = sentMessages[q.id]
        BY <1>4, <2>2, ForOurs DEF DeliveryInv
    <2>3. ASSUME NEW q \in On(toClient), q.type \in {"PUBACK", "PUBREC"}
          PROVE  sentMessages'[q.id] = sentMessages[q.id]
        BY <1>4, <2>3, ForOurs DEF DeliveryInv
    <2>4. Published'
        BY <1>1, <1>2, <2>2 DEF DeliveryInv, Outgoing, Published, Sent
    <2>5. Acknowledged'
        BY <1>1, <1>2, <2>3 DEF DeliveryInv, Outgoing, Acknowledged, Sent
    <2> QED
        BY <2>1, <2>4, <2>5 DEF Outgoing
<1>6. Incoming'
    BY <1>1, <1>2, IncomingKept DEF DeliveryInv
<1>7. History'
    BY <1>1, <1>2 DEF DeliveryInv, History
<1>8. UNCHANGED promiseVars
    BY <1>1, <1>2, PromiseStutters DEF DeliveryInv, History
<1> QED
    BY <1>5, <1>6, <1>7, <1>8 DEF DeliveryInv

-----------------------------------------------------------------------------
(* The broker and the client's messages.                                   *)

LEMMA AtBroker ==
    ASSUME SessionInv, DeliveryInv, BrokerReceive
    PROVE  /\ connected /\ IsSequence(toBroker) /\ IsSequence(toClient) /\ toBroker # <<>>
           /\ Head(toBroker) \in On(toBroker) /\ toBroker' = Tail(toBroker)
           /\ On(toBroker') \subseteq On(toBroker)
           /\ Asks(Head(toBroker)) => NoFlow(Head(toBroker).id, Tail(toBroker), toClient)
           /\ Flows(toClient, toBroker', Mirror)
           /\ Acks(Head(toBroker)) => NoFlow(Head(toBroker).id, toClient, toBroker')
           /\ UNCHANGED <<cleanSession, link, qosOf, sends, connected, sentMessages, bufferedQueue, receivedMessages>>
<1>1. /\ toBroker # <<>> /\ toBroker' = Tail(toBroker)
      /\ UNCHANGED <<cleanSession, link, qosOf, sends, connected, sentMessages, bufferedQueue, receivedMessages>>
    BY DEF BrokerReceive, ByBroker, client
<1>2. IsSequence(toBroker) /\ IsSequence(toClient) /\ Flows(toBroker, toClient, sentMessages)
    BY DEF SessionInv, Phase
<1>3. connected
    <2>1. Len(toBroker) # 0
        BY <1>1, <1>2, Popped
    <2> QED
        BY <2>1 DEF SessionInv, Phase
<1>4. Asks(Head(toBroker)) => NoFlow(Head(toBroker).id, Tail(toBroker), toClient)
    BY <1>1, <1>2, PopBroker
<1>5. /\ Flows(toClient, Tail(toBroker), Mirror)
      /\ Acks(Head(toBroker)) => NoFlow(Head(toBroker).id, toClient, Tail(toBroker))
    BY <1>1, <1>2, PopClient DEF DeliveryInv, Incoming
<1>6. Head(toBroker) \in On(toBroker) /\ On(toBroker') \subseteq On(toBroker)
    BY <1>1, <1>2, OnTail
<1> QED
    BY <1>1, <1>2, <1>3, <1>4, <1>5, <1>6

LEMMA AnsweredIncoming ==
    ASSUME SessionInv, DeliveryInv, BrokerReceive, UNCHANGED <<brokerSent, confirmed>>,
           \A m \in Inbound : taken'[m] = taken[m],
           \/ toClient' = toClient
           \/ \E q : /\ toClient' = Append(toClient, q)
                     /\ q.type \in {"PUBACK", "PUBREC", "PUBCOMP", "SUBACK"}
    PROVE  Incoming'
<1>1. /\ IsSequence(toClient) /\ On(toBroker') \subseteq On(toBroker) /\ Flows(toClient, toBroker', Mirror)
      /\ UNCHANGED <<cleanSession, link, qosOf, connected, receivedMessages>>
    BY AtBroker
<1>2. CASE toClient' = toClient
    BY <1>1, <1>2, IncomingKept DEF DeliveryInv
<1>3. ASSUME NEW q, toClient' = Append(toClient, q), q.type \in {"PUBACK", "PUBREC", "PUBCOMP", "SUBACK"}
      PROVE  Incoming'
    <2>1. Flows(toClient', toBroker', Mirror)
        BY <1>1, <1>3, PushBroker DEF Asks
    <2>2. On(toClient') = On(toClient) \cup {q}
        BY <1>1, <1>3, OnAppend
    <2> QED
        BY <1>1, <1>3, <2>1, <2>2, IncomingKept DEF DeliveryInv
<1> QED
    BY <1>2, <1>3

(* The broker takes the message of a PUBLISH, or has it already.           *)
LEMMA BrokerTakesDelivers ==
    ASSUME SessionInv, DeliveryInv, BrokerReceive, BrokerTakes(Head(toBroker))
    PROVE  DeliveryInv' /\ (Promise!Next \/ UNCHANGED promiseVars)
<1> DEFINE p == Head(toBroker)
           id == p.id
           m == p.msg
<1>1. /\ connected /\ IsSequence(toClient) /\ p \in On(toBroker)
      /\ On(toBroker') \subseteq On(toBroker)
      /\ Asks(p) => NoFlow(id, Tail(toBroker), toClient)
      /\ UNCHANGED <<cleanSession, link, qosOf, sends, connected, sentMessages, bufferedQueue, receivedMessages>>
    BY AtBroker
<1>2. /\ p.type = "PUBLISH" /\ UNCHANGED <<brokerSent, confirmed>>
      /\ IF p.qos = 2 /\ id \in brokerReceived THEN UNCHANGED taken ELSE taken' = [taken EXCEPT ![m] = @ + 1]
      /\ brokerReceived' = IF p.qos = 2 THEN brokerReceived \cup {id} ELSE brokerReceived
    BY DEF BrokerTakes, Takes
<1>3. m \in 1..sends /\ qosOf[m] = p.qos
    BY <1>1, <1>2 DEF DeliveryInv, Outgoing, Published
<1>4. /\ m \in Messages /\ m \notin Inbound /\ p.qos \in {0, 1, 2} /\ m <= sends /\ m \in Outbound
      /\ Inbound \subseteq Messages /\ 1..sends \subseteq Messages /\ sends \in Nat
    BY <1>3, BoundsOfOutbound DEF DeliveryInv, History, Qos
<1>5. p.qos # 0 => /\ id \in Ids /\ Ours(id) /\ Sent(id) = m /\ ~sentMessages[id].pubRecReceived
                   /\ sentMessages[id].qos = p.qos /\ m \notin confirmed
    <2>1. ASSUME p.qos # 0
          PROVE  id \in Ids /\ Ours(id) /\ Sent(id) = m /\ ~sentMessages[id].pubRecReceived
        BY <1>1, <1>2, <2>1, ForOurs DEF DeliveryInv, Outgoing, Published
    <2> QED
        BY <1>3, <2>1 DEF DeliveryInv, Outgoing, Entries
<1>6. \/ toClient' = toClient /\ p.qos = 0
      \/ toClient' = Append(toClient, Packet("PUBACK", id)) /\ p.qos = 1
      \/ toClient' = Append(toClient, Packet("PUBREC", id)) /\ p.qos = 2
    <2>1. /\ toClient \o <<>> = toClient
          /\ \A x : toClient \o <<x>> = Append(toClient, x)
        BY <1>1, JoinOne
    <2>2. PICK x : /\ toClient' = toClient \o x
                   /\ x = CASE p.qos = 0 -> <<>>
                            [] p.qos = 1 -> <<Packet("PUBACK", id)>>
                            [] OTHER     -> <<Packet("PUBREC", id)>>
        BY DEF BrokerTakes
    <2>3. CASE p.qos = 0
        <3>1. x = <<>>
            BY <2>2, <2>3
        <3>2. toClient' = toClient
            BY <2>1, <2>2, <3>1, Zenon
        <3> QED
            BY <2>3, <3>2
    <2>4. CASE p.qos = 1
        BY <2>1, <2>2, <2>4
    <2>5. CASE p.qos = 2
        BY <2>1, <2>2, <2>5
    <2> QED
        BY <1>4, <2>3, <2>4, <2>5
<1> HIDE DEF p
<1>7. /\ taken' \in [Messages -> Nat]
      /\ \A n \in Messages : n # m => taken'[n] = taken[n]
      /\ \A n \in Messages : taken[n] > 0 => taken'[n] > 0
      /\ p.qos # 2 \/ id \notin brokerReceived => taken'[m] > 0
    BY <1>2, <1>4 DEF DeliveryInv, History
<1>8. p.qos = 2 => taken'[m] > 0
    BY <1>2, <1>5, <1>7 DEF DeliveryInv, Outgoing, BrokerHas
<1>9. History'
    BY <1>1, <1>2, <1>4, <1>7 DEF DeliveryInv, History, Outbound, Messages
<1>10. Entries'
    <2> SUFFICES ASSUME NEW other \in Ids, Ours(other)
                 PROVE  /\ Sent(other) \in 1..sends
                        /\ qosOf[Sent(other)] = sentMessages[other].qos /\ Sent(other) \notin confirmed
                        /\ sentMessages[other].pubRecReceived => taken'[Sent(other)] > 0
                        /\ sentMessages[other].qos = 2 /\ ~sentMessages[other].pubRecReceived /\ taken'[Sent(other)] > 0 =>
                               other \in brokerReceived'
        BY <1>1, <1>2 DEF Entries, Ours, Sent
    <2>1. /\ Sent(other) \in 1..sends
          /\ qosOf[Sent(other)] = sentMessages[other].qos /\ Sent(other) \notin confirmed
          /\ sentMessages[other].pubRecReceived => taken[Sent(other)] > 0
          /\ sentMessages[other].qos = 2 /\ ~sentMessages[other].pubRecReceived /\ taken[Sent(other)] > 0 =>
                 other \in brokerReceived
        BY <1>1 DEF DeliveryInv, Outgoing, Entries
    <2>2. CASE Sent(other) # m
        BY <1>2, <1>4, <1>7, <2>1, <2>2
    <2>3. CASE Sent(other) = m
        <3>1. sentMessages[other].qos = 2 => other = id
            BY <1>3, <1>5, <2>1, <2>3 DEF DeliveryInv, Outgoing, OneEntry
        <3>2. sentMessages[other].qos = 2 => other \in brokerReceived'
            BY <1>2, <1>3, <2>1, <2>3, <3>1
        <3> QED
            BY <1>4, <1>7, <2>1, <3>2
    <2> QED
        BY <2>2, <2>3
<1>11. OneEntry'
    BY <1>1 DEF DeliveryInv, Outgoing, OneEntry, Ours, Sent
<1>12. BrokerHas'
    <2>1. \A other \in brokerReceived : other \in Ids /\ Ours(other) /\ Sent(other) \in Messages
        BY <1>4 DEF DeliveryInv, Outgoing, BrokerHas, Entries
    <2> QED
        BY <1>1, <1>2, <1>5, <1>7, <1>8, <2>1 DEF DeliveryInv, Outgoing, BrokerHas, Ours, Sent
<1>13. Buffered' /\ Published'
    BY <1>1 DEF DeliveryInv, Outgoing, Buffered, Published, Sent
<1>14. Acknowledged'
    <2> SUFFICES ASSUME NEW q \in On(toClient'), q.type \in {"PUBACK", "PUBREC", "PUBCOMP"}
                 PROVE  /\ q.type \in {"PUBACK", "PUBREC"} => taken'[Sent(q.id)] > 0
                        /\ q.type = "PUBACK"  => sentMessages[q.id].qos = 1
                        /\ q.type = "PUBCOMP" => q.id \notin brokerReceived'
        BY <1>1 DEF Acknowledged, Sent
    <2>1. CASE q \in On(toClient)
        <3>1. p.qos # 0 => q.id # id
            BY <1>1, <1>2, <2>1, NoFlowOn DEF Acks, Asks
        <3>2. Sent(q.id) \in Messages
            BY <1>4, <2>1, ForOurs DEF DeliveryInv
        <3> QED
            BY <1>2, <1>7, <2>1, <3>1, <3>2 DEF DeliveryInv, Outgoing, Acknowledged
    <2>2. CASE q = Packet("PUBACK", id) /\ p.qos = 1
        BY <1>5, <1>7, <2>2 DEF Packet
    <2>3. CASE q = Packet("PUBREC", id) /\ p.qos = 2
        BY <1>5, <1>8, <2>3 DEF Packet
    <2>4. \A x : On(Append(toClient, x)) = On(toClient) \cup {x}
        BY <1>1, OnAppend
    <2>5. \/ q \in On(toClient)
          \/ q = Packet("PUBACK", id) /\ p.qos = 1
          \/ q = Packet("PUBREC", id) /\ p.qos = 2
        <3>1. CASE toClient' = toClient
            BY <3>1
        <3>2. CASE toClient' = Append(toClient, Packet("PUBACK", id)) /\ p.qos = 1
            BY <2>4, <3>2
        <3>3. CASE toClient' = Append(toClient, Packet("PUBREC", id)) /\ p.qos = 2
            BY <2>4, <3>3
        <3> QED
            BY <1>6, <3>1, <3>2, <3>3
    <2> QED
        BY <2>1, <2>2, <2>3, <2>5
<1>15. Incoming'
    <2>1. \/ toClient' = toClient
          \/ \E q : /\ toClient' = Append(toClient, q)
                    /\ q.type \in {"PUBACK", "PUBREC", "PUBCOMP", "SUBACK"}
        BY <1>6 DEF Packet
    <2> QED
        BY <1>2, <1>4, <1>7, <2>1, AnsweredIncoming
<1>16. CASE p.qos = 0 \/ (p.qos = 2 /\ id \in brokerReceived)
    <2>1. \A n \in Messages : qosOf[n] > 0 => taken'[n] = taken[n]
        BY <1>2, <1>3, <1>7, <1>16
    <2> QED
        BY <1>1, <1>2, <1>9, <1>10, <1>11, <1>12, <1>13, <1>14, <1>15, <2>1, PromiseStutters
           DEF DeliveryInv, Outgoing, History
<1>17. CASE p.qos = 1 \/ (p.qos = 2 /\ id \notin brokerReceived)
    <2>1. taken' = [taken EXCEPT ![m] = @ + 1] /\ qosOf[m] > 0 /\ m \notin confirmed
        BY <1>2, <1>3, <1>5, <1>17
    <2>2. qosOf[m] = 2 => taken[m] = 0
        <3>1. qosOf[m] = 2 => ~(taken[m] > 0)
            BY <1>1, <1>3, <1>5, <1>17 DEF DeliveryInv, Outgoing, Entries
        <3> QED
            BY <1>4, <3>1 DEF DeliveryInv, History
    <2>3. Promise!Next
        BY <1>1, <1>2, <1>4, <2>1, <2>2, PromiseTakes DEF DeliveryInv
    <2> QED
        BY <1>9, <1>10, <1>11, <1>12, <1>13, <1>14, <1>15, <2>3 DEF DeliveryInv, Outgoing
<1> QED
    BY <1>4, <1>16, <1>17

LEMMA BrokerReleasesDelivers ==
    ASSUME SessionInv, DeliveryInv, BrokerReceive, BrokerReleases(Head(toBroker))
    PROVE  DeliveryInv' /\ UNCHANGED promiseVars
<1> DEFINE p == Head(toBroker)
           id == p.id
           q == Packet("PUBCOMP", id)
<1>1. /\ connected /\ IsSequence(toClient) /\ p \in On(toBroker)
      /\ On(toBroker') \subseteq On(toBroker)
      /\ UNCHANGED <<cleanSession, link, qosOf, sends, connected, sentMessages, bufferedQueue, receivedMessages>>
    BY AtBroker
<1>2. /\ p.type = "PUBREL" /\ brokerReceived' = brokerReceived \ {id}
      /\ toClient' = Append(toClient, q) /\ UNCHANGED <<brokerSent, taken, confirmed>>
    BY DEF BrokerReleases
<1>3. q.type = "PUBCOMP" /\ q.id = id
    BY DEF Packet
<1>4. id \in Ids /\ Ours(id) /\ sentMessages[id].pubRecReceived
    BY <1>1, <1>2, ForOurs DEF DeliveryInv
<1> HIDE DEF p, q
<1>5. On(toClient') = On(toClient) \cup {q}
    BY <1>1, <1>2, OnAppend
<1>6. Outgoing'
    <2>1. Entries'
        BY <1>1, <1>2, <1>4 DEF DeliveryInv, Outgoing, Entries, Ours, Sent
    <2>2. OneEntry' /\ BrokerHas' /\ Buffered' /\ Published'
        BY <1>1, <1>2 DEF DeliveryInv, Outgoing, OneEntry, BrokerHas, Buffered, Published, Ours, Sent
    <2>3. Acknowledged'
        BY <1>1, <1>2, <1>3, <1>5 DEF DeliveryInv, Outgoing, Acknowledged, Sent
    <2> QED
        BY <2>1, <2>2, <2>3 DEF Outgoing
<1>7. Incoming'
    BY <1>2, <1>3, AnsweredIncoming
<1>8. History' /\ UNCHANGED promiseVars
    BY <1>1, <1>2, PromiseStutters DEF DeliveryInv, History
<1> QED
    BY <1>6, <1>7, <1>8 DEF DeliveryInv

LEMMA BrokerSubscribesDelivers ==
    ASSUME SessionInv, DeliveryInv, BrokerReceive, BrokerSubscribes(Head(toBroker))
    PROVE  DeliveryInv' /\ UNCHANGED promiseVars
<1> DEFINE q == Packet("SUBACK", Head(toBroker).id)
<1>1. /\ IsSequence(toClient) /\ On(toBroker') \subseteq On(toBroker)
      /\ UNCHANGED <<cleanSession, link, qosOf, sends, connected, sentMessages, bufferedQueue, receivedMessages>>
    BY AtBroker
<1>2. toClient' = Append(toClient, q) /\ UNCHANGED <<brokerReceived, brokerSent, taken, confirmed>>
    BY DEF BrokerSubscribes, broker
<1>3. q.type = "SUBACK"
    BY DEF Packet
<1> HIDE DEF q
<1>4. On(toClient') = On(toClient) \cup {q} /\ sends \in Nat
    BY <1>1, <1>2, OnAppend, BoundsOfOutbound DEF DeliveryInv
<1>5. Outgoing'
    BY <1>1, <1>2, <1>3, <1>4, OutgoingKept DEF DeliveryInv
<1>6. Incoming'
    BY <1>2, <1>3, AnsweredIncoming
<1>7. History' /\ UNCHANGED promiseVars
    BY <1>1, <1>2, PromiseStutters DEF DeliveryInv, History
<1> QED
    BY <1>5, <1>6, <1>7 DEF DeliveryInv

-----------------------------------------------------------------------------
(* The handlers of the broker's messages.                                  *)

LEMMA InboundIsNotOutbound ==
    ASSUME History, NEW m \in Inbound
    PROVE  m \in Messages /\ m \notin Outbound /\ m \notin 1..sends
BY SessionAssumption, BoundsOfOutbound DEF Messages

(* A packet of an exchange is answered, and the message kept or given to   *)
(* the application: nothing else is under way for its identifier.          *)
LEMMA AnswersAsked ==
    ASSUME SessionInv, DeliveryInv, NEW type \in {"PUBLISH", "PUBREL"}, Arrives(type), Asks(Head(toClient)),
           NEW id, id = Head(toClient).id, NEW m, m = brokerSent[id].msg,
           UNCHANGED <<sentMessages, bufferedQueue, connected, confirmed>>,
           NEW answer \in {"PUBACK", "PUBREC", "PUBCOMP"}, toBroker' = Append(toBroker, Packet(answer, id)),
           answer = "PUBCOMP" <=> brokerSent[id].released,
           NEW slot \in {NoEntry, m}, receivedMessages' = [receivedMessages EXCEPT ![id] = slot],
           taken' = taken \/ taken' = [taken EXCEPT ![m] = @ + 1],
           Paired(id)',
           answer = "PUBACK"  => taken'[m] > 0 /\ brokerSent[id].qos = 1,
           answer = "PUBREC"  => slot # NoEntry,
           answer = "PUBCOMP" => slot = NoEntry
    PROVE  DeliveryInv'
<1> DEFINE a == Packet(answer, id)
<1>1. /\ connected /\ Head(toClient) \in On(toClient) /\ Head(toClient).type = type
      /\ On(toClient') \subseteq On(toClient) /\ IsSequence(toBroker)
      /\ toClient' = Tail(toClient) /\ Flows(toClient', toBroker, Mirror)
      /\ UNCHANGED <<cleanSession, link, brokerReceived, brokerSent, qosOf, sends>>
    BY Handled
<1>2. id \in Ids /\ Theirs(id) /\ m \in Inbound
    BY <1>1, ForTheirs DEF DeliveryInv, Asks, BrokerEntry
<1>3. NoFlow(id, toClient', toBroker)
    BY <1>1, Handled, PopBroker DEF DeliveryInv, Incoming
<1>4. a.type = answer /\ a.id = id /\ Acks(a)
    BY DEF Packet, Acks
<1>5. Waits(a, Mirror)
    <2>1. Mirror[id] = Mirrored(brokerSent[id].released) /\ brokerSent[id].released \in BOOLEAN
        BY <1>1, <1>2, ForTheirs DEF Mirror, BrokerEntry, DeliveryInv, Asks
    <2> QED
        BY <1>2, <1>4, <2>1, MirroredFields DEF Waits
<1> HIDE DEF a
<1>6. m \in Messages /\ m \notin Outbound /\ m \notin 1..sends /\ sends \in Nat /\ 1..sends \subseteq Messages
    BY <1>2, InboundIsNotOutbound, BoundsOfOutbound DEF DeliveryInv
<1>7. /\ taken' \in [Messages -> Nat]
      /\ \A n \in Messages : n # m => taken'[n] = taken[n]
      /\ \A n \in Messages : taken[n] > 0 => taken'[n] > 0
    BY <1>6 DEF DeliveryInv, History
<1>8. On(toBroker') = On(toBroker) \cup {a}
    BY <1>1, OnAppend DEF a
<1>9. History'
    BY <1>1, <1>6, <1>7 DEF DeliveryInv, History, Outbound, Messages
<1>10. Outgoing'
    BY <1>1, <1>4, <1>6, <1>7, <1>8, OutgoingKept DEF DeliveryInv
<1>11. BrokerEntries' /\ OneBrokerEntry'
    BY <1>1, <1>2 DEF DeliveryInv, Incoming, BrokerEntries, OneBrokerEntry, Theirs
<1>12. Pairs'
    <2> SUFFICES ASSUME NEW other \in Ids, other # id PROVE Paired(other)'
        BY DEF Pairs
    <2>1. Paired(other) /\ receivedMessages'[other] = receivedMessages[other]
        BY <1>1 DEF DeliveryInv, Incoming, Pairs, BrokerEntries
    <2>2. Theirs(other) => brokerSent[other].msg # m /\ brokerSent[other].msg \in Messages
        BY <1>2 DEF DeliveryInv, Incoming, OneBrokerEntry, BrokerEntries, BrokerEntry, Theirs, Messages
    <2> QED
        BY <1>1, <1>7, <2>1, <2>2 DEF Paired, Theirs
<1>13. Told'
    BY <1>1 DEF DeliveryInv, Incoming, Told
<1>14. Answered'
    <2> SUFFICES ASSUME NEW q \in On(toBroker'), q.type \in {"PUBACK", "PUBREC", "PUBCOMP"}
                 PROVE  /\ q.type = "PUBACK"  => taken'[brokerSent[q.id].msg] > 0 /\ brokerSent[q.id].qos = 1
                        /\ q.type = "PUBREC"  => receivedMessages'[q.id] # NoEntry
                        /\ q.type = "PUBCOMP" => receivedMessages'[q.id] = NoEntry
        BY <1>1 DEF Answered
    <2>1. CASE q = a
        BY <1>2, <1>4, <2>1 DEF DeliveryInv, Incoming, BrokerEntries
    <2>2. CASE q \in On(toBroker)
        <3>1. q.id \in Ids /\ q.id # id /\ brokerSent[q.id].msg \in Messages
            BY <1>3, <2>2, ForTheirs, NoFlowOn DEF DeliveryInv, Acks, BrokerEntry, Messages
        <3>2. receivedMessages'[q.id] = receivedMessages[q.id]
            BY <3>1 DEF DeliveryInv, Incoming, BrokerEntries
        <3> QED
            BY <1>7, <2>2, <3>1, <3>2 DEF DeliveryInv, Incoming, Answered
    <2> QED
        BY <1>8, <2>1, <2>2
<1>15. Flows(toClient', toBroker', Mirror')
    <2>1. Mirror' = Mirror
        BY <1>1 DEF Mirror, Theirs
    <2> QED
        BY <1>1, <1>3, <1>4, <1>5, <2>1, PushClient DEF a
<1> QED
    BY <1>9, <1>10, <1>11, <1>12, <1>13, <1>14, <1>15 DEF DeliveryInv, Incoming

LEMMA HandlePublishDelivers ==
    ASSUME SessionInv, DeliveryInv, HandlePublish
    PROVE  DeliveryInv' /\ (Promise!Next \/ UNCHANGED promiseVars)
<1> PICK id : id = Head(toClient).id
    OBVIOUS
<1> PICK m : m = Head(toClient).msg
    OBVIOUS
<1> PICK qos : qos = Head(toClient).qos
    OBVIOUS
<1>1. /\ Arrives("PUBLISH") /\ UNCHANGED <<sentMessages, bufferedQueue, connected, confirmed>>
    BY DEF HandlePublish
<1>2. /\ connected /\ Head(toClient) \in On(toClient) /\ Head(toClient).type = "PUBLISH"
      /\ On(toClient') \subseteq On(toClient) /\ Flows(toClient', toBroker, Mirror)
      /\ UNCHANGED <<cleanSession, link, brokerReceived, brokerSent, qosOf, sends>>
    BY <1>1, Handled
<1>3. m \in Inbound /\ qosOf[m] = qos /\ (qos # 0 => brokerSent[id].msg = m)
    BY <1>2 DEF DeliveryInv, Incoming, Told
<1>4. m \in Messages /\ m \notin Outbound /\ m \notin 1..sends
    BY <1>3, InboundIsNotOutbound DEF DeliveryInv
<1>5. qos # 0 => /\ id \in Ids /\ Theirs(id) /\ brokerSent[id] \in BrokerEntry /\ ~brokerSent[id].released
                 /\ brokerSent[id].qos = qos /\ m \notin confirmed /\ Paired(id)
    <2>1. ASSUME qos # 0
          PROVE  id \in Ids /\ Theirs(id) /\ brokerSent[id] \in BrokerEntry /\ ~brokerSent[id].released
        BY <1>2, <2>1, ForTheirs DEF DeliveryInv
    <2> QED
        BY <1>2, <1>3, <2>1 DEF DeliveryInv, Incoming, BrokerEntries, Pairs
<1>6. qos # 0 => Asks(Head(toClient))
    BY <1>2 DEF Asks
<1>7. CASE qos = 0
    <2>1. taken' = [taken EXCEPT ![m] = @ + 1] /\ UNCHANGED <<toBroker, receivedMessages>>
        BY <1>7 DEF HandlePublish, Delivered
    <2>2. taken' \in [Messages -> Nat] /\ \A n \in Messages : n # m => taken'[n] = taken[n]
        BY <1>4, <2>1 DEF DeliveryInv, History
    <2>3. History'
        BY <1>1, <1>2, <1>4, <2>2 DEF DeliveryInv, History, Messages
    <2>4. Outgoing'
        BY <1>1, <1>2, <1>4, <2>1, <2>2, BoundsOfOutbound, OutgoingKept DEF DeliveryInv
    <2>5. Incoming'
        BY <1>1, <1>2, <1>3, <1>7, <2>1, <2>2, IncomingKept DEF DeliveryInv, Messages
    <2>6. UNCHANGED promiseVars
        BY <1>1, <1>2, <1>3, <1>7, <2>2, PromiseStutters DEF DeliveryInv, History
    <2> QED
        BY <2>3, <2>4, <2>5, <2>6 DEF DeliveryInv
<1>8. CASE qos = 1
    <2>1. /\ taken' = [taken EXCEPT ![m] = @ + 1] /\ UNCHANGED receivedMessages
          /\ toBroker' = Append(toBroker, Packet("PUBACK", id))
        BY <1>8 DEF HandlePublish, Delivered, Answer
    <2>2. receivedMessages[id] = NoEntry /\ receivedMessages' = [receivedMessages EXCEPT ![id] = NoEntry]
        BY <1>5, <1>8, <2>1 DEF Paired, DeliveryInv, Incoming, BrokerEntries
    <2>3. taken'[m] > 0
        BY <1>4, <2>1 DEF DeliveryInv, History
    <2>4. Paired(id)'
        BY <1>2, <1>5, <1>8, <2>1, <2>2 DEF Paired, Theirs
    <2>5. /\ m = brokerSent[id].msg /\ ~brokerSent[id].released /\ brokerSent[id].qos = 1
          /\ qosOf[m] = 1 /\ m \notin confirmed /\ Asks(Head(toClient))
        BY <1>3, <1>5, <1>6, <1>8
    <2>6. DeliveryInv'
        BY <1>1, <2>1, <2>2, <2>3, <2>4, <2>5, AnswersAsked
    <2>7. Promise!Next
        <3>1. History /\ qosOf[m] > 0 /\ (qosOf[m] = 2 => taken[m] = 0)
            BY <2>5 DEF DeliveryInv
        <3> QED
            BY <1>1, <1>2, <1>4, <2>1, <2>5, <3>1, PromiseTakes
    <2> QED
        BY <2>6, <2>7
<1>9. CASE qos = 2
    <2>1. /\ receivedMessages' = [receivedMessages EXCEPT ![id] = m] /\ UNCHANGED taken
          /\ toBroker' = Append(toBroker, Packet("PUBREC", id))
        BY <1>9 DEF HandlePublish, Received, Answer
    <2>2. m # NoEntry
        BY <1>4, NoEntryAssumption
    <2>3. Paired(id)'
        <3>1. receivedMessages'[id] = m
            BY <1>5, <1>9, <2>1 DEF DeliveryInv, Incoming, BrokerEntries
        <3>2. ~(taken[m] > 0)
            BY <1>3, <1>5, <1>9 DEF Paired
        <3> QED
            BY <1>2, <1>3, <1>5, <1>9, <2>1, <2>2, <3>1, <3>2 DEF Paired, Theirs
    <2>6. m = brokerSent[id].msg /\ ~brokerSent[id].released /\ Asks(Head(toClient))
        BY <1>3, <1>5, <1>6, <1>9
    <2>4. DeliveryInv'
        BY <1>1, <2>1, <2>2, <2>3, <2>6, AnswersAsked
    <2>5. UNCHANGED promiseVars
        BY <1>1, <1>2, <2>1, PromiseStutters DEF DeliveryInv, History
    <2> QED
        BY <2>4, <2>5
<1>10. qos \in {0, 1, 2}
    BY <1>3, <1>4 DEF DeliveryInv, History, Qos
<1> QED
    BY <1>7, <1>8, <1>9, <1>10

LEMMA HandlePubrelDelivers ==
    ASSUME SessionInv, DeliveryInv, HandlePubrel
    PROVE  DeliveryInv' /\ (Promise!Next \/ UNCHANGED promiseVars)
<1> PICK id : id = Head(toClient).id
    OBVIOUS
<1> PICK m : m = brokerSent[id].msg
    OBVIOUS
<1>1. /\ Arrives("PUBREL") /\ UNCHANGED <<sentMessages, bufferedQueue, connected, confirmed>>
      /\ toBroker' = Append(toBroker, Packet("PUBCOMP", id))
      /\ IF receivedMessages[id] # NoEntry
         THEN /\ taken' = [taken EXCEPT ![receivedMessages[id]] = @ + 1]
              /\ receivedMessages' = [receivedMessages EXCEPT ![id] = NoEntry]
         ELSE UNCHANGED <<taken, receivedMessages>>
    BY DEF HandlePubrel, Answer, Delivered
<1>2. /\ connected /\ Head(toClient) \in On(toClient) /\ Head(toClient).type = "PUBREL"
      /\ UNCHANGED <<brokerSent, qosOf>>
    BY <1>1, Handled
<1>3. id \in Ids /\ Theirs(id) /\ brokerSent[id] \in BrokerEntry /\ brokerSent[id].released
    BY <1>2, ForTheirs DEF DeliveryInv
<1>4. /\ m \in Inbound /\ m \in Messages /\ Paired(id) /\ qosOf[m] = brokerSent[id].qos /\ m \notin confirmed
    BY <1>2, <1>3 DEF DeliveryInv, Incoming, BrokerEntries, Pairs, BrokerEntry, Messages
<1>5. /\ brokerSent[id].qos = 2 /\ receivedMessages[id] \in {NoEntry, m}
      /\ taken[m] > 0 <=> receivedMessages[id] = NoEntry
    BY <1>3, <1>4 DEF Paired, BrokerEntry
<1>6. /\ receivedMessages' = [receivedMessages EXCEPT ![id] = NoEntry] /\ receivedMessages'[id] = NoEntry
    BY <1>1, <1>3 DEF DeliveryInv, Incoming, BrokerEntries
<1>7. taken' = taken \/ taken' = [taken EXCEPT ![m] = @ + 1]
    BY <1>1, <1>5
<1>8. taken'[m] > 0
    BY <1>1, <1>4, <1>5 DEF DeliveryInv, History
<1>9. Paired(id)'
    BY <1>2, <1>3, <1>5, <1>6, <1>8 DEF Paired, Theirs
<1>10. DeliveryInv'
    <2>1. Asks(Head(toClient))
        BY <1>2 DEF Asks
    <2> QED
        BY <1>1, <1>3, <1>6, <1>7, <1>9, <2>1, AnswersAsked
<1>11. CASE receivedMessages[id] = NoEntry
    <2>1. UNCHANGED promiseVars
        BY <1>1, <1>2, <1>11, PromiseStutters DEF DeliveryInv, History
    <2> QED
        BY <1>10, <2>1
<1>12. CASE receivedMessages[id] # NoEntry
    <2>1. taken[m] = 0
        BY <1>4, <1>5, <1>12 DEF DeliveryInv, History
    <2>2. Promise!Next
        BY <1>1, <1>2, <1>4, <1>5, <1>12, <2>1, PromiseTakes DEF DeliveryInv
    <2> QED
        BY <1>10, <2>2
<1> QED
    BY <1>11, <1>12

-----------------------------------------------------------------------------
(* The broker and its own messages.                                        *)

LEMMA BrokerSendQos0Delivers ==
    ASSUME SessionInv, DeliveryInv, NEW m \in Inbound, BrokerSendQos0(m)
    PROVE  DeliveryInv' /\ UNCHANGED promiseVars
<1> DEFINE p == Publish(0, m, 0)
<1>1. /\ qosOf[m] = 0 /\ toClient' = Append(toClient, p)
      /\ UNCHANGED <<link, toBroker, brokerReceived, brokerSent, qosOf, taken, confirmed, sends, cleanSession,
                     connected, sentMessages, bufferedQueue, receivedMessages>>
    BY DEF BrokerSendQos0, broker, ByBroker, client
<1>2. p.type = "PUBLISH" /\ p.msg = m /\ p.qos = 0
    BY DEF Publish
<1> HIDE DEF p
<1>3. IsSequence(toClient) /\ On(toClient') = On(toClient) \cup {p} /\ sends \in Nat
    BY <1>1, OnAppend, BoundsOfOutbound DEF SessionInv, Phase, DeliveryInv
<1>4. History'
    BY <1>1 DEF DeliveryInv, History
<1>5. Outgoing'
    BY <1>1, <1>2, <1>3, OutgoingKept DEF DeliveryInv
<1>6. Incoming'
    <2>1. Flows(toClient', toBroker', Mirror)
        BY <1>1, <1>2, <1>3, PushBroker DEF DeliveryInv, Incoming, Asks
    <2> QED
        BY <1>1, <1>2, <1>3, <2>1, IncomingKept DEF DeliveryInv
<1>7. UNCHANGED promiseVars
    BY <1>1, PromiseStutters DEF DeliveryInv, History
<1> QED
    BY <1>4, <1>5, <1>6, <1>7 DEF DeliveryInv

LEMMA BrokerSendDelivers ==
    ASSUME SessionInv, DeliveryInv, NEW m \in Inbound, NEW qos \in {1, 2}, BrokerSend(m, qos)
    PROVE  DeliveryInv' /\ Promise!Next
<1> PICK id : id = CHOOSE i \in Ids : brokerSent[i] = NoEntry
    OBVIOUS
<1> DEFINE p == Publish(id, m, qos)
           entry == [msg |-> m, qos |-> qos, released |-> FALSE]
<1>1. /\ qosOf[m] = 0 /\ taken[m] = 0 /\ Used(brokerSent) # Ids
      /\ \A i \in DOMAIN toClient : toClient[i].type # "PUBLISH"
      /\ brokerSent' = [brokerSent EXCEPT ![id] = entry]
      /\ toClient' = Append(toClient, p)
      /\ qosOf' = [qosOf EXCEPT ![m] = qos]
      /\ UNCHANGED <<link, toBroker, brokerReceived, taken, confirmed, sends, cleanSession,
                     connected, sentMessages, bufferedQueue, receivedMessages>>
    BY DEF BrokerSend, ByBroker, client
<1>2. id \in Ids /\ brokerSent[id] = NoEntry
    BY <1>1 DEF Used
<1>3. /\ m \in Messages /\ m \notin Outbound /\ m \notin 1..sends /\ m \notin confirmed
      /\ sends \in Nat /\ 1..sends \subseteq Messages
    BY <1>1, InboundIsNotOutbound, BoundsOfOutbound DEF DeliveryInv, History
<1>4. p.type = "PUBLISH" /\ p.id = id /\ p.msg = m /\ p.qos = qos
    BY DEF Publish
<1>5. /\ entry \in BrokerEntry /\ entry # NoEntry
      /\ entry.msg = m /\ entry.qos = qos /\ entry.released = FALSE
    <2>1. entry \in BrokerEntry
        BY DEF BrokerEntry
    <2> QED
        BY <2>1, NoEntryAssumption
<1> HIDE DEF p, entry
<1>6. \A q \in On(toClient) : q.type # "PUBLISH"
    BY <1>1 DEF SessionInv, Phase, IsSequence, On
<1>7. IsSequence(toClient) /\ On(toClient') = On(toClient) \cup {p}
    BY <1>1, OnAppend DEF SessionInv, Phase
<1>8. qosOf'[m] = qos /\ \A n \in Messages : n # m => qosOf'[n] = qosOf[n]
    BY <1>1, <1>3 DEF DeliveryInv, History
<1>9. brokerSent'[id] = entry /\ \A other \in Ids : other # id => brokerSent'[other] = brokerSent[other]
    BY <1>1, <1>2 DEF DeliveryInv, Incoming, BrokerEntries
<1>10. History'
    <2>1. qosOf' \in [Messages -> Qos]
        <3>1. qos \in Qos
            BY DEF Qos
        <3> QED
            BY <1>1, <3>1 DEF DeliveryInv, History
    <2>2. \A n \in Outbound : n \in Messages /\ n # m
        BY <1>3 DEF Messages
    <2> QED
        BY <1>1, <1>3, <1>8, <2>1, <2>2 DEF DeliveryInv, History, Messages
<1>11. Outgoing'
    BY <1>1, <1>3, <1>4, <1>7, <1>8, OutgoingKept DEF DeliveryInv
<1>12. \A other \in Ids : Theirs(other) => /\ other # id /\ brokerSent[other].msg \in Messages
                                          /\ brokerSent[other].msg # m
    BY <1>1, <1>2 DEF DeliveryInv, Incoming, BrokerEntries, BrokerEntry, Theirs, Messages
<1>13. BrokerEntries'
    <2>1. brokerSent' \in [Ids -> BrokerEntry \cup {NoEntry}] /\ receivedMessages' \in [Ids -> Inbound \cup {NoEntry}]
        BY <1>1, <1>5 DEF DeliveryInv, Incoming, BrokerEntries
    <2>2. ASSUME NEW other \in Ids, Theirs(other)'
          PROVE  /\ qosOf'[brokerSent'[other].msg] = brokerSent'[other].qos /\ brokerSent'[other].msg \notin confirmed
                 /\ cleanSession /\ link /\ ~connected => ~brokerSent'[other].released /\ taken[brokerSent'[other].msg] = 0
        <3>1. CASE other = id
            BY <1>1, <1>3, <1>5, <1>8, <1>9, <3>1
        <3>2. CASE other # id
            <4>1. Theirs(other) /\ brokerSent'[other] = brokerSent[other]
                BY <1>9, <2>2, <3>2 DEF Theirs
            <4> QED
                BY <1>8, <1>12, <4>1 DEF DeliveryInv, Incoming, BrokerEntries
        <3> QED
            BY <3>1, <3>2
    <2> QED
        BY <1>1, <2>1, <2>2 DEF BrokerEntries
<1>14. OneBrokerEntry'
    BY <1>5, <1>9, <1>12 DEF DeliveryInv, Incoming, OneBrokerEntry, Theirs
<1>15. Pairs'
    <2> SUFFICES ASSUME ~cleanSession \/ connected, NEW other \in Ids PROVE Paired(other)'
        BY <1>1 DEF Pairs
    <2>1. Paired(other)
        BY DEF DeliveryInv, Incoming, Pairs
    <2>2. CASE other = id
        <3>1. receivedMessages[id] = NoEntry
            BY <1>2, <2>1, <2>2 DEF Paired, Theirs
        <3> QED
            BY <1>1, <1>5, <1>9, <2>2, <3>1 DEF Paired, Theirs
    <2>3. CASE other # id
        BY <1>1, <1>9, <2>1, <2>3 DEF Paired, Theirs
    <2> QED
        BY <2>2, <2>3
<1>16. Told'
    BY <1>4, <1>5, <1>6, <1>7, <1>8, <1>9 DEF Told
<1>17. Answered'
    <2> SUFFICES ASSUME NEW q \in On(toBroker), q.type \in {"PUBACK", "PUBREC", "PUBCOMP"}
                 PROVE  /\ q.type = "PUBACK"  => taken[brokerSent'[q.id].msg] > 0 /\ brokerSent'[q.id].qos = 1
                        /\ q.type = "PUBREC"  => receivedMessages[q.id] # NoEntry
                        /\ q.type = "PUBCOMP" => receivedMessages[q.id] = NoEntry
        BY <1>1 DEF Answered
    <2>1. q.id \in Ids /\ Theirs(q.id)
        BY ForTheirs DEF DeliveryInv
    <2>2. brokerSent'[q.id] = brokerSent[q.id]
        BY <1>9, <1>12, <2>1
    <2> QED
        BY <2>2 DEF DeliveryInv, Incoming, Answered
<1>18. Flows(toClient', toBroker', Mirror')
    <2> DEFINE new == Mirrored(FALSE)
    <2>1. Mirror' = [Mirror EXCEPT ![id] = new]
        BY <1>5, <1>9 DEF Mirror, Theirs
    <2>2. Mirror \in [Ids -> {Mirror[i] : i \in Ids}] /\ Mirror[id] = NoEntry
        BY <1>2 DEF Mirror, Theirs
    <2>3. NoFlow(id, toClient, toBroker) /\ Flows(toClient, toBroker, Mirror)
        <3>1. Mirror[id] = NoEntry /\ Flows(toClient, toBroker, Mirror)
            BY <2>2 DEF DeliveryInv, Incoming
        <3> QED
            BY <3>1, FreeHasNoFlow
    <2>4. Flows(toClient, toBroker, Mirror')
        BY <2>1, <2>2, <2>3, ChangeEntry
    <2>5. Mirror'[id] = new
        BY <1>2, <2>1, <2>2
    <2>6. new # NoEntry /\ new.type = "PUBLISH" /\ new.pubRecReceived = FALSE
        BY MirroredFields
    <2> HIDE DEF new
    <2>8. Waits(p, Mirror')
        BY <1>2, <1>4, <2>5, <2>6 DEF Waits
    <2> QED
        BY <1>1, <1>4, <1>7, <2>3, <2>4, <2>8, PushBroker
<1>19. Promise!Next
    BY <1>1, <1>3, PromiseAccepts DEF DeliveryInv
<1> QED
    BY <1>10, <1>11, <1>13, <1>14, <1>15, <1>16, <1>17, <1>18, <1>19 DEF DeliveryInv, Incoming

(* The broker's entry goes a step further, or leaves its table, with the   *)
(* answer that it waits for.                                               *)
LEMMA BrokerAnswered ==
    ASSUME SessionInv, DeliveryInv, BrokerReceive, NEW p, p = Head(toBroker),
           p.type \in {"PUBACK", "PUBREC", "PUBCOMP"}, NEW id, id = p.id, NEW m, m = brokerSent[id].msg,
           NEW slot, brokerSent' = [brokerSent EXCEPT ![id] = slot],
           UNCHANGED <<brokerReceived, taken>>,
           \/ /\ slot = NoEntry /\ receivedMessages[id] = NoEntry
              /\ confirmed' = confirmed \cup {m} /\ toClient' = toClient
           \/ /\ slot \in BrokerEntry /\ slot # NoEntry /\ slot.msg = m /\ slot.qos = brokerSent[id].qos /\ slot.released
              /\ receivedMessages[id] # NoEntry /\ ~brokerSent[id].released
              /\ confirmed' = confirmed /\ toClient' = Append(toClient, Packet("PUBREL", id))
    PROVE  DeliveryInv'
<1> DEFINE a == Packet("PUBREL", id)
<1>1. /\ connected /\ IsSequence(toClient) /\ p \in On(toBroker)
      /\ On(toBroker') \subseteq On(toBroker)
      /\ Flows(toClient, toBroker', Mirror)
      /\ NoFlow(id, toClient, toBroker')
      /\ UNCHANGED <<cleanSession, link, qosOf, sends, connected, sentMessages, bufferedQueue, receivedMessages>>
    BY AtBroker DEF Acks
<1>2. id \in Ids /\ Theirs(id) /\ brokerSent[id] \in BrokerEntry
    BY <1>1, ForTheirs DEF DeliveryInv
<1>3. m \in Inbound /\ Paired(id) /\ qosOf[m] = brokerSent[id].qos /\ qosOf[m] # 0 /\ m \notin confirmed
    BY <1>1, <1>2 DEF DeliveryInv, Incoming, Pairs, BrokerEntries, BrokerEntry
<1>4. m \in Messages /\ m \notin Outbound /\ m \notin 1..sends /\ sends \in Nat
    BY <1>3, InboundIsNotOutbound, BoundsOfOutbound DEF DeliveryInv
<1>5. a.type = "PUBREL" /\ a.id = id
    BY DEF Packet
<1> HIDE DEF a
<1>6. On(toClient') \subseteq On(toClient) \cup {a}
    BY <1>1, OnAppend DEF a
<1>7. brokerSent'[id] = slot /\ \A other \in Ids : other # id => brokerSent'[other] = brokerSent[other]
    BY <1>2 DEF DeliveryInv, Incoming, BrokerEntries
<1>8. \A other \in Ids : other # id /\ Theirs(other) => brokerSent[other].msg # m /\ brokerSent[other].msg \notin confirmed'
    BY <1>2 DEF DeliveryInv, Incoming, BrokerEntries, OneBrokerEntry
<1>9. History'
    BY <1>1, <1>3, <1>4 DEF DeliveryInv, History
<1>10. Outgoing'
    BY <1>1, <1>4, <1>5, <1>6, OutgoingKept DEF DeliveryInv
<1>11. BrokerEntries'
    <2>1. brokerSent' \in [Ids -> BrokerEntry \cup {NoEntry}] /\ receivedMessages' \in [Ids -> Inbound \cup {NoEntry}]
        BY <1>1 DEF DeliveryInv, Incoming, BrokerEntries
    <2>2. ASSUME NEW other \in Ids, Theirs(other)'
          PROVE  qosOf[brokerSent'[other].msg] = brokerSent'[other].qos /\ brokerSent'[other].msg \notin confirmed'
        BY <1>3, <1>7, <1>8, <2>2 DEF DeliveryInv, Incoming, BrokerEntries, Theirs
    <2> QED
        BY <1>1, <2>1, <2>2 DEF BrokerEntries
<1>12. OneBrokerEntry'
    BY <1>7, <1>8 DEF DeliveryInv, Incoming, OneBrokerEntry, Theirs
<1>13. Pairs'
    <2> SUFFICES ASSUME NEW other \in Ids PROVE Paired(other)'
        BY DEF Pairs
    <2>1. CASE other = id
        BY <1>1, <1>2, <1>3, <1>7, <2>1 DEF Paired, Theirs
    <2>2. CASE other # id
        BY <1>1, <1>7, <2>2 DEF DeliveryInv, Incoming, Pairs, Paired, Theirs
    <2> QED
        BY <2>1, <2>2
<1>14. Told'
    <2> SUFFICES ASSUME NEW q \in On(toClient), q.type = "PUBLISH"
                 PROVE  /\ q.msg \in Inbound /\ qosOf[q.msg] = q.qos
                        /\ q.qos # 0 => brokerSent'[q.id].msg = q.msg
        BY <1>1, <1>5, <1>6 DEF Told
    <2>1. q.qos # 0 => q.id \in Ids /\ q.id # id
        BY <1>1, ForTheirs, NoFlowOn DEF Asks, DeliveryInv
    <2> QED
        BY <1>7, <2>1 DEF DeliveryInv, Incoming, Told
<1>15. Answered'
    <2> SUFFICES ASSUME NEW q \in On(toBroker'), q.type \in {"PUBACK", "PUBREC", "PUBCOMP"}
                 PROVE  /\ q.type = "PUBACK"  => taken[brokerSent'[q.id].msg] > 0 /\ brokerSent'[q.id].qos = 1
                        /\ q.type = "PUBREC"  => receivedMessages[q.id] # NoEntry
                        /\ q.type = "PUBCOMP" => receivedMessages[q.id] = NoEntry
        BY <1>1 DEF Answered
    <2>1. q \in On(toBroker) /\ q.id \in Ids /\ q.id # id
        BY <1>1, ForTheirs, NoFlowOn DEF Acks, DeliveryInv
    <2> QED
        BY <1>7, <2>1 DEF DeliveryInv, Incoming, Answered
<1>16. Flows(toClient', toBroker', Mirror')
    <2> PICK new : new = IF slot = NoEntry THEN NoEntry ELSE Mirrored(TRUE)
        OBVIOUS
    <2>1. Mirror' = [Mirror EXCEPT ![id] = new]
        <3>1. \A other \in Ids : other # id => Mirror'[other] = Mirror[other]
            BY <1>7 DEF Mirror, Theirs
        <3>2. Mirror'[id] = new
            <4>1. Mirror'[id] = IF slot # NoEntry THEN Mirrored(slot.released) ELSE NoEntry
                BY <1>2, <1>7 DEF Mirror, Theirs
            <4>2. slot # NoEntry => slot.released = TRUE
                BY DEF BrokerEntry
            <4> QED
                BY <4>1, <4>2
        <3>3. Mirror' = [i \in Ids |-> Mirror'[i]] /\ Mirror = [i \in Ids |-> Mirror[i]]
            BY DEF Mirror
        <3> QED
            BY <3>1, <3>2, <3>3
    <2>2. Mirror \in [Ids -> {Mirror[i] : i \in Ids}]
        BY DEF Mirror
    <2>3. Flows(toClient, toBroker', Mirror')
        BY <1>1, <2>1, <2>2, ChangeEntry
    <2>4. CASE toClient' = toClient
        BY <2>3, <2>4
    <2>5. CASE slot # NoEntry /\ toClient' = Append(toClient, a)
        <3>1. Mirror'[id] = Mirrored(TRUE)
            BY <1>2, <2>1, <2>2, <2>5
        <3>2. Waits(a, Mirror')
            BY <1>2, <1>5, <3>1, MirroredFields DEF Waits
        <3> QED
            BY <1>1, <1>5, <2>3, <2>5, <3>2, PushBroker
    <2> QED
        BY <2>4, <2>5 DEF a
<1> QED
    BY <1>9, <1>10, <1>11, <1>12, <1>13, <1>14, <1>15, <1>16 DEF DeliveryInv, Incoming

LEMMA BrokerPubrecDelivers ==
    ASSUME SessionInv, DeliveryInv, BrokerReceive, BrokerPubrec(Head(toBroker))
    PROVE  DeliveryInv' /\ UNCHANGED promiseVars
<1> PICK p : p = Head(toBroker)
    OBVIOUS
<1> DEFINE id == p.id
<1>1. /\ p.type = "PUBREC" /\ brokerSent' = [brokerSent EXCEPT ![id] = [brokerSent[id] EXCEPT !.released = TRUE]]
      /\ toClient' = Append(toClient, Packet("PUBREL", id)) /\ UNCHANGED <<brokerReceived, taken, confirmed>>
    BY DEF BrokerPubrec
<1>2. p \in On(toBroker) /\ UNCHANGED qosOf
    BY AtBroker
<1>3. id \in Ids /\ brokerSent[id] \in BrokerEntry /\ ~brokerSent[id].released /\ receivedMessages[id] # NoEntry
    BY <1>1, <1>2, ForTheirs DEF DeliveryInv, Incoming, Answered
<1> PICK slot : slot = [brokerSent[id] EXCEPT !.released = TRUE]
    OBVIOUS
<1>4. /\ slot \in BrokerEntry /\ slot.msg = brokerSent[id].msg /\ slot.qos = brokerSent[id].qos /\ slot.released
    BY <1>3 DEF BrokerEntry
<1>5. slot # NoEntry
    BY <1>4, NoEntryAssumption
<1>6. DeliveryInv'
    BY <1>1, <1>3, <1>4, <1>5, BrokerAnswered
<1>7. UNCHANGED promiseVars
    BY <1>1, <1>2, PromiseStutters DEF DeliveryInv, History
<1> QED
    BY <1>6, <1>7

LEMMA BrokerCompletesDelivers ==
    ASSUME SessionInv, DeliveryInv, BrokerReceive, BrokerCompletes(Head(toBroker))
    PROVE  DeliveryInv' /\ Promise!Next
<1> PICK p : p = Head(toBroker)
    OBVIOUS
<1> PICK id : id = p.id
    OBVIOUS
<1> PICK m : m = brokerSent[id].msg
    OBVIOUS
<1>1. /\ p.type \in {"PUBACK", "PUBCOMP"} /\ brokerSent' = [brokerSent EXCEPT ![id] = NoEntry]
      /\ confirmed' = confirmed \cup {m} /\ UNCHANGED <<brokerReceived, toClient, taken>>
    BY DEF BrokerCompletes
<1>2. connected /\ p \in On(toBroker) /\ UNCHANGED qosOf
    BY AtBroker
<1>3. /\ id \in Ids /\ Theirs(id) /\ brokerSent[id] \in BrokerEntry
      /\ brokerSent[id].released <=> p.type = "PUBCOMP"
    BY <1>1, <1>2, ForTheirs DEF DeliveryInv
<1>4. /\ m \in Inbound /\ m \in Messages /\ Paired(id) /\ qosOf[m] = brokerSent[id].qos /\ m \notin confirmed
      /\ brokerSent[id].qos \in {1, 2}
    BY <1>2, <1>3 DEF DeliveryInv, Incoming, Pairs, BrokerEntries, BrokerEntry, Messages
<1>5. taken[m] > 0 /\ receivedMessages[id] = NoEntry
    <2>1. CASE p.type = "PUBACK"
        BY <1>2, <1>3, <1>4, <2>1 DEF DeliveryInv, Incoming, Answered, Paired
    <2>2. CASE p.type = "PUBCOMP"
        BY <1>2, <1>3, <1>4, <2>2 DEF DeliveryInv, Incoming, Answered, Paired
    <2> QED
        BY <1>1, <2>1, <2>2
<1>6. DeliveryInv'
    BY <1>1, <1>5, BrokerAnswered
<1>7. Promise!Next
    BY <1>1, <1>2, <1>4, <1>5, PromiseConfirms DEF DeliveryInv
<1> QED
    BY <1>6, <1>7

LEMMA BrokerReceiveDelivers ==
    ASSUME SessionInv, DeliveryInv, BrokerReceive
    PROVE  DeliveryInv' /\ (Promise!Next \/ UNCHANGED promiseVars)
<1>1. LET p == Head(toBroker) IN
          BrokerTakes(p) \/ BrokerReleases(p) \/ BrokerSubscribes(p) \/ BrokerPubrec(p) \/ BrokerCompletes(p)
    BY DEF BrokerReceive
<1> QED
    BY <1>1, BrokerTakesDelivers, BrokerReleasesDelivers, BrokerSubscribesDelivers, BrokerPubrecDelivers,
       BrokerCompletesDelivers

-----------------------------------------------------------------------------
(* The steps of both halves: a connection begins, and is lost.             *)

LEMMA ResentPublish ==
    ASSUME SessionInv, History, Outgoing, NEW item \in Sequenced
    PROVE  /\ ~Acks(Resend(item)) /\ Resend(item).type # "CONNACK"
           /\ Resend(item).type = "PUBLISH" =>
                  /\ Resend(item).msg \in 1..sends /\ qosOf[Resend(item).msg] = Resend(item).qos
                  /\ Resend(item).qos # 0 => ~cleanSession /\ Sent(Resend(item).id) = Resend(item).msg
<1>1. CASE \E i \in DOMAIN bufferedQueue : item = [id |-> 0, entry |-> bufferedQueue[i]]
    <2>1. PICK i \in DOMAIN bufferedQueue : item = [id |-> 0, entry |-> bufferedQueue[i]]
        BY <1>1
    <2>2. i \in 1..Len(bufferedQueue)
        <3>1. PICK S : bufferedQueue \in Seq(S)
            BY DEF SessionInv, Tables, IsSequence
        <3> QED
            BY <2>1, <3>1, LenProperties
    <2>3. bufferedQueue[i].type = "PUBLISH" /\ bufferedQueue[i].qos = 0 /\ ~bufferedQueue[i].pubRecReceived
        BY <2>2 DEF SessionInv, Tables
    <2>4. bufferedQueue[i].msg \in 1..sends /\ qosOf[bufferedQueue[i].msg] = 0
        BY <2>2 DEF Outgoing, Buffered, On
    <2>5. Resend(item) = Publish(0, bufferedQueue[i].msg, bufferedQueue[i].qos)
        BY <2>1, <2>3 DEF Resend
    <2> QED
        BY <2>3, <2>4, <2>5 DEF Publish, Acks
<1>2. CASE \E id \in Used(sentMessages) : ~cleanSession /\ item = [id |-> id, entry |-> sentMessages[id]]
    <2>1. PICK id \in Used(sentMessages) : ~cleanSession /\ item = [id |-> id, entry |-> sentMessages[id]]
        BY <1>2
    <2>2. id \in Ids /\ sentMessages[id] # NoEntry /\ item.id = id /\ item.entry = sentMessages[id]
        BY <2>1 DEF Used
    <2>3. sentMessages[id].type \in {"PUBLISH", "SUBSCRIBE"}
        BY <2>2 DEF SessionInv, Tables, Slot, Entry
    <2>4. CASE sentMessages[id].type = "SUBSCRIBE"
        BY <2>2, <2>4 DEF Resend, Packet, Acks
    <2>5. CASE sentMessages[id].type = "PUBLISH" /\ sentMessages[id].pubRecReceived
        BY <2>2, <2>5 DEF Resend, Packet, Acks
    <2>6. CASE sentMessages[id].type = "PUBLISH" /\ ~sentMessages[id].pubRecReceived
        <3>1. Resend(item) = Publish(id, sentMessages[id].msg, sentMessages[id].qos)
            BY <2>2, <2>6 DEF Resend
        <3>2. Sent(id) \in 1..sends /\ qosOf[Sent(id)] = sentMessages[id].qos
            BY <2>2, <2>6 DEF Outgoing, Entries, Ours
        <3> QED
            BY <2>1, <3>1, <3>2 DEF Publish, Acks, Sent
    <2> QED
        BY <2>3, <2>4, <2>5, <2>6
<1> QED
    BY <1>1, <1>2 DEF Sequenced

LEMMA HandleConnackDelivers ==
    ASSUME SessionInv, DeliveryInv, HandleConnack
    PROVE  DeliveryInv' /\ UNCHANGED promiseVars
<1>1. /\ connected' = TRUE /\ bufferedQueue' = <<>> /\ toClient # <<>>
      /\ Head(toClient).type = "CONNACK" /\ toClient' = Tail(toClient)
      /\ confirmed' = confirmed \cup {bufferedQueue[i].msg : i \in DOMAIN bufferedQueue}
      /\ UNCHANGED <<cleanSession, link, brokerReceived, brokerSent, qosOf, taken, sends>>
    BY DEF HandleConnack, Arrives, broker
<1>2. IsSequence(toClient) /\ ~connected /\ link
    <2>1. IsSequence(toClient)
        BY DEF SessionInv, Phase
    <2> QED
        BY <1>1, <2>1, Popped DEF SessionInv, Phase
<1>3. On(toClient') \subseteq On(toClient) /\ Flows(toClient', toBroker, Mirror)
    BY <1>1, <1>2, OnTail, PopBroker DEF DeliveryInv, Incoming
<1>4. \A p \in On(toClient) : ~Acks(p)
    BY <1>2 DEF SessionInv, Phase, On
<1>5. \A p \in On(toBroker') :
          /\ ~Acks(p)
          /\ p.type = "PUBLISH" =>
                 /\ p.msg \in 1..sends /\ qosOf[p.msg] = p.qos
                 /\ p.qos # 0 => ~cleanSession /\ Sent(p.id) = p.msg
    <2>1. PICK s : \A i \in 1..Len(toBroker') : s[i] \in Sequenced /\ toBroker'[i] = Resend(s[i])
        BY ConnackResends
    <2>2. ASSUME NEW i \in 1..Len(toBroker')
          PROVE  LET p == toBroker'[i] IN
                 /\ ~Acks(p)
                 /\ p.type = "PUBLISH" =>
                        /\ p.msg \in 1..sends /\ qosOf[p.msg] = p.qos
                        /\ p.qos # 0 => ~cleanSession /\ Sent(p.id) = p.msg
        BY <2>1, ResentPublish DEF DeliveryInv
    <2> QED
        BY <2>2 DEF On
<1>6. \A i \in DOMAIN bufferedQueue : bufferedQueue[i].msg \in 1..sends /\ qosOf[bufferedQueue[i].msg] = 0
    <2>1. PICK S : bufferedQueue \in Seq(S)
        BY DEF SessionInv, Tables, IsSequence
    <2>2. DOMAIN bufferedQueue = 1..Len(bufferedQueue)
        BY <2>1, LenProperties
    <2> QED
        BY <2>2 DEF DeliveryInv, Outgoing, Buffered, On
<1>7. /\ confirmed \subseteq confirmed'
      /\ \A m \in confirmed' : m \in confirmed \/ (m \in 1..sends /\ qosOf[m] = 0)
    BY <1>1, <1>6
<1>8. sends \in Nat /\ 1..sends \subseteq Outbound /\ Outbound \subseteq Messages /\ \A m \in 1..sends : m \notin Inbound
    BY BoundsOfOutbound DEF DeliveryInv
<1>9. History'
    <2>1. \A m \in Outbound : m > sends => m \notin 1..sends
        BY <1>8
    <2> QED
        BY <1>1, <1>7, <1>8, <2>1 DEF DeliveryInv, History
<1>10. UNCHANGED promiseVars
    BY <1>1, <1>7, <1>8, PromiseStutters DEF DeliveryInv, History
<1>11. \/ ~cleanSession /\ UNCHANGED <<sentMessages, receivedMessages>>
       \/ cleanSession /\ sentMessages' = Nothing /\ receivedMessages' = Nothing
    BY DEF HandleConnack
<1>12. \A id \in Ids : Ours(id)' => ~cleanSession /\ Ours(id) /\ sentMessages'[id] = sentMessages[id]
    BY <1>11 DEF Ours, Nothing
<1>13. Entries'
    <2> SUFFICES ASSUME NEW id \in Ids, Ours(id)'
                 PROVE  (/\ Sent(id) \in 1..sends
                         /\ qosOf[Sent(id)] = sentMessages[id].qos /\ Sent(id) \notin confirmed
                         /\ sentMessages[id].pubRecReceived => taken[Sent(id)] > 0
                         /\ sentMessages[id].qos = 2 /\ ~sentMessages[id].pubRecReceived /\ taken[Sent(id)] > 0 =>
                                id \in brokerReceived \/ (cleanSession /\ ~connected))'
        BY DEF Entries
    <2>1. ~cleanSession /\ Ours(id) /\ sentMessages'[id] = sentMessages[id]
        BY <1>12
    <2>2. /\ Sent(id) \in 1..sends
          /\ qosOf[Sent(id)] = sentMessages[id].qos /\ Sent(id) \notin confirmed
          /\ sentMessages[id].pubRecReceived => taken[Sent(id)] > 0
          /\ sentMessages[id].qos = 2 /\ ~sentMessages[id].pubRecReceived /\ taken[Sent(id)] > 0 => id \in brokerReceived
        BY <2>1 DEF DeliveryInv, Outgoing, Entries
    <2>3. sentMessages[id].qos # 0
        BY <2>1 DEF SessionInv, Tables, Ours
    <2>4. Sent(id) \notin confirmed'
        BY <1>7, <2>2, <2>3
    <2> QED
        BY <1>1, <2>1, <2>2, <2>4 DEF Sent
<1>14. OneEntry'
    <2>1. \A id \in Ids : Ours(id)' => Ours(id) /\ Sent(id)' = Sent(id)
        BY <1>12 DEF Sent
    <2> QED
        BY <2>1 DEF DeliveryInv, Outgoing, OneEntry
<1>15. BrokerHas'
    <2>1. CASE cleanSession
        BY <1>1, <1>2, <2>1 DEF DeliveryInv, Outgoing, BrokerHas
    <2>2. CASE ~cleanSession
        BY <1>1, <1>11, <2>2 DEF DeliveryInv, Outgoing, BrokerHas, Ours, Sent
    <2> QED
        BY <2>1, <2>2
<1>16. Buffered'
    BY <1>1, OnEmpty DEF Buffered
<1>17. Published'
    BY <1>1, <1>5, <1>11 DEF Published, Sent
<1>18. Acknowledged'
    BY <1>3, <1>4 DEF Acknowledged, Acks
<1>19. BrokerEntries'
    <2>1. receivedMessages' \in [Ids -> Inbound \cup {NoEntry}]
        BY <1>11 DEF DeliveryInv, Incoming, BrokerEntries, Nothing
    <2>2. \A id \in Ids : Theirs(id) => brokerSent[id].msg \in Inbound
        BY DEF DeliveryInv, Incoming, BrokerEntries, BrokerEntry, Theirs
    <2>3. \A m \in Inbound : m \in confirmed' => m \in confirmed
        BY <1>7, <1>8
    <2> QED
        BY <1>1, <2>1, <2>2, <2>3 DEF DeliveryInv, Incoming, BrokerEntries, Theirs
<1>20. OneBrokerEntry' /\ Told'
    BY <1>1, <1>3 DEF DeliveryInv, Incoming, OneBrokerEntry, Told, Theirs
<1>21. Pairs'
    <2> SUFFICES ASSUME NEW id \in Ids PROVE Paired(id)'
        BY DEF Pairs
    <2>1. CASE ~cleanSession
        BY <1>1, <1>11, <2>1 DEF DeliveryInv, Incoming, Pairs, Paired, Theirs
    <2>2. CASE cleanSession
        <3>1. receivedMessages'[id] = NoEntry
            BY <1>11, <2>2 DEF Nothing
        <3>2. Theirs(id) => ~brokerSent[id].released /\ taken[brokerSent[id].msg] = 0
            BY <1>2, <2>2 DEF DeliveryInv, Incoming, BrokerEntries
        <3> QED
            BY <1>1, <3>1, <3>2 DEF Paired, Theirs
    <2> QED
        BY <2>1, <2>2
<1>22. Answered'
    BY <1>5 DEF Answered, Acks
<1>23. Flows(toClient', toBroker', Mirror')
    <2>1. Mirror' = Mirror
        BY <1>1 DEF Mirror, Theirs
    <2>2. \A i \in 1..Len(toBroker') : ~Acks(toBroker'[i])
        BY <1>5 DEF On
    <2> QED
        BY <1>3, <2>1, <2>2 DEF Flows
<1> QED
    BY <1>9, <1>10, <1>13, <1>14, <1>15, <1>16, <1>17, <1>18, <1>19, <1>20, <1>21, <1>22, <1>23
       DEF DeliveryInv, Outgoing, Incoming

(* A reload restores what Recoverable says.                                *)
LEMMA GoneDelivers ==
    ASSUME SessionInv, DeliveryInv, LinkGone, bufferedQueue' \in {bufferedQueue, <<>>},
           receivedMessages' = receivedMessages,
           \A id \in Ids : Ours(id)' <=> Ours(id),
           \A id \in Ids : Ours(id) => sentMessages'[id] = sentMessages[id]
    PROVE  DeliveryInv' /\ UNCHANGED promiseVars
<1>1. /\ link' = FALSE /\ connected' = FALSE /\ toBroker' = <<>> /\ toClient' = <<>>
      /\ UNCHANGED <<cleanSession, brokerReceived, brokerSent, qosOf, taken, confirmed, sends>>
    BY DEF LinkGone, broker, history
<1>2. History' /\ UNCHANGED promiseVars
    BY <1>1, PromiseStutters DEF DeliveryInv, History
<1>3. Entries' /\ OneEntry'
    BY <1>1 DEF DeliveryInv, Outgoing, Entries, OneEntry, Sent
<1>4. BrokerHas'
    BY <1>1 DEF DeliveryInv, Outgoing, BrokerHas, Sent
<1>5. Buffered'
    BY <1>1, OnEmpty DEF DeliveryInv, Outgoing, Buffered
<1>6. Published' /\ Acknowledged' /\ Told' /\ Answered'
    BY <1>1, OnEmpty DEF Published, Acknowledged, Told, Answered
<1>7. BrokerEntries' /\ OneBrokerEntry'
    BY <1>1 DEF DeliveryInv, Incoming, BrokerEntries, OneBrokerEntry, Theirs
<1>8. Pairs'
    BY <1>1 DEF DeliveryInv, Incoming, Pairs, Paired, Theirs
<1>9. Flows(toClient', toBroker', Mirror')
    BY <1>1, Emptied DEF Flows
<1> QED
    BY <1>2, <1>3, <1>4, <1>5, <1>6, <1>7, <1>8, <1>9 DEF DeliveryInv, Outgoing, Incoming

LEMMA LoseDelivers ==
    ASSUME SessionInv, DeliveryInv, Lose
    PROVE  DeliveryInv' /\ UNCHANGED promiseVars
BY GoneDelivers DEF Lose, Ours

LEMMA ReloadDelivers ==
    ASSUME SessionInv, DeliveryInv, Reload
    PROVE  DeliveryInv' /\ UNCHANGED promiseVars
<1>1. LinkGone /\ bufferedQueue' = <<>> /\ sentMessages' = storedSent /\ receivedMessages' = storedReceived
    BY DEF Reload
<1>2. /\ storedReceived = receivedMessages
      /\ \A id \in Ids : storedSent[id] = IF Ours(id) THEN sentMessages[id] ELSE NoEntry
    BY DEF SessionInv, Recoverable, Ours
<1>3. \A id \in Ids : /\ Ours(id)' <=> Ours(id)
                      /\ Ours(id) => sentMessages'[id] = sentMessages[id]
    BY <1>1, <1>2 DEF Ours
<1> QED
    BY <1>1, <1>2, <1>3, GoneDelivers

LEMMA ConnectDelivers ==
    ASSUME SessionInv, DeliveryInv, Connect
    PROVE  DeliveryInv' /\ UNCHANGED promiseVars
<1>1. /\ ~link /\ link' = TRUE
      /\ brokerSent' = IF cleanSession THEN Nothing ELSE brokerSent
      /\ brokerReceived' = IF cleanSession THEN {} ELSE brokerReceived
      /\ UNCHANGED <<toBroker, qosOf, taken, confirmed, sends, cleanSession, connected, sentMessages, bufferedQueue,
                     receivedMessages>>
    BY DEF Connect, ByBroker, client
<1>2. ~connected /\ Len(toBroker) = 0
    BY <1>1 DEF SessionInv, Phase
<1>3. \A id \in Ids : Theirs(id)' => ~cleanSession /\ Theirs(id) /\ brokerSent'[id] = brokerSent[id]
    BY <1>1 DEF Theirs, Nothing
<1>4. PICK ids : \E n \in Nat :
          /\ IsSequence(toClient') /\ Len(toClient') = n + 1
          /\ toClient'[1] = Packet("CONNACK", 0)
          /\ \A i \in 1..n : /\ ids[i] \in Ids /\ brokerSent'[ids[i]] # NoEntry
                            /\ toClient'[i + 1] = Redelivered(ids[i])'
          /\ \A i, j \in 1..n : ids[i] = ids[j] => i = j
    BY ConnectSends
<1>5. PICK n \in Nat :
          /\ Len(toClient') = n + 1
          /\ toClient'[1] = Packet("CONNACK", 0)
          /\ \A i \in 1..n : /\ ids[i] \in Ids /\ brokerSent'[ids[i]] # NoEntry
                            /\ toClient'[i + 1] = Redelivered(ids[i])'
          /\ \A i, j \in 1..n : ids[i] = ids[j] => i = j
    BY <1>4
<1>6. ASSUME NEW i \in 1..Len(toClient'), i # 1
      PROVE  \E id \in Ids : /\ Theirs(id)' /\ toClient'[i] = Redelivered(id)'
                             /\ i - 1 \in 1..n /\ id = ids[i - 1]
    <2>1. i - 1 \in 1..n /\ (i - 1) + 1 = i
        BY <1>5, <1>6
    <2> QED
        BY <1>5, <2>1 DEF Theirs
<1>7. ASSUME NEW id \in Ids, Theirs(id)', NEW p, p = Redelivered(id)'
      PROVE  /\ p.id = id /\ ~Acks(p) /\ Waits(p, Mirror')
             /\ p.type = "PUBLISH" => p.msg = brokerSent'[id].msg /\ p.msg \in Inbound /\ qosOf'[p.msg] = p.qos
    <2>1. brokerSent'[id] = brokerSent[id] /\ brokerSent[id] \in BrokerEntry /\ Theirs(id)
          /\ qosOf[brokerSent[id].msg] = brokerSent[id].qos
        BY <1>3, <1>7 DEF DeliveryInv, Incoming, BrokerEntries, Theirs
    <2>2. brokerSent[id].released \in BOOLEAN /\ brokerSent[id].msg \in Inbound
        BY <2>1 DEF BrokerEntry
    <2>3. Mirror'[id] = Mirrored(brokerSent[id].released)
        BY <1>7, <2>1 DEF Mirror
    <2>4. CASE brokerSent[id].released
        <3>1. p = Packet("PUBREL", id)
            BY <1>7, <2>1, <2>4 DEF Redelivered
        <3> QED
            BY <2>2, <2>3, <2>4, <3>1, MirroredFields DEF Packet, Waits, Acks
    <2>5. CASE ~brokerSent[id].released
        <3>1. p = Publish(id, brokerSent[id].msg, brokerSent[id].qos)
            BY <1>7, <2>1, <2>5 DEF Redelivered
        <3>2. p.id = id /\ p.type = "PUBLISH" /\ p.msg = brokerSent[id].msg /\ p.qos = brokerSent[id].qos
            BY <3>1 DEF Publish
        <3>3. Waits(p, Mirror')
            BY <2>2, <2>3, <2>5, <3>2, MirroredFields DEF Waits
        <3> QED
            BY <1>1, <2>1, <2>2, <3>2, <3>3 DEF Acks
    <2> QED
        BY <2>4, <2>5
<1>8. ~Acks(toClient'[1]) /\ ~Asks(toClient'[1]) /\ toClient'[1].type = "CONNACK"
    BY <1>5 DEF Packet, Acks, Asks
<1>9. \A i \in 1..Len(toClient') :
          /\ ~Acks(toClient'[i])
          /\ toClient'[i].type = "PUBLISH" =>
                /\ toClient'[i].msg \in Inbound /\ qosOf'[toClient'[i].msg] = toClient'[i].qos
                /\ brokerSent'[toClient'[i].id].msg = toClient'[i].msg
          /\ Asks(toClient'[i]) =>
                i # 1 /\ i - 1 \in 1..n /\ toClient'[i].id = ids[i - 1] /\ Waits(toClient'[i], Mirror')
    <2> SUFFICES ASSUME NEW i \in 1..Len(toClient'), i # 1
                 PROVE  /\ ~Acks(toClient'[i])
                        /\ toClient'[i].type = "PUBLISH" =>
                              /\ toClient'[i].msg \in Inbound /\ qosOf'[toClient'[i].msg] = toClient'[i].qos
                              /\ brokerSent'[toClient'[i].id].msg = toClient'[i].msg
                        /\ i - 1 \in 1..n /\ toClient'[i].id = ids[i - 1] /\ Waits(toClient'[i], Mirror')
        BY <1>8
    <2>1. PICK id \in Ids : Theirs(id)' /\ toClient'[i] = Redelivered(id)' /\ i - 1 \in 1..n /\ id = ids[i - 1]
        BY <1>6
    <2> QED
        BY <1>7, <2>1
<1>10. On(toBroker') = {}
    BY <1>1, <1>2 DEF On
<1>11. Entries' /\ OneEntry' /\ BrokerHas' /\ Buffered'
    BY <1>1, <1>2 DEF DeliveryInv, Outgoing, Entries, OneEntry, BrokerHas, Buffered, Ours, Sent
<1>12. Published' /\ Answered'
    BY <1>10 DEF Published, Answered
<1>13. Acknowledged' /\ Told'
    BY <1>9 DEF Acknowledged, Told, On, Acks
<1>14. BrokerEntries'
    <2>1. brokerSent' \in [Ids -> BrokerEntry \cup {NoEntry}] /\ receivedMessages' \in [Ids -> Inbound \cup {NoEntry}]
        BY <1>1 DEF DeliveryInv, Incoming, BrokerEntries, Nothing
    <2> QED
        BY <1>1, <1>3, <2>1 DEF DeliveryInv, Incoming, BrokerEntries
<1>15. OneBrokerEntry'
    BY <1>3 DEF DeliveryInv, Incoming, OneBrokerEntry
<1>16. Pairs'
    <2>1. CASE cleanSession
        BY <1>1, <1>2, <2>1 DEF Pairs
    <2>2. CASE ~cleanSession
        BY <1>1, <2>2 DEF DeliveryInv, Incoming, Pairs, Paired, Theirs
    <2> QED
        BY <2>1, <2>2
<1>17. Flows(toClient', toBroker', Mirror')
    <2>1. 1..Len(toBroker') = {}
        BY <1>1, <1>2
    <2>2. \A i, j \in 1..Len(toClient') : i # j /\ Asks(toClient'[i]) /\ Asks(toClient'[j]) =>
              toClient'[i].id # toClient'[j].id
        <3> SUFFICES ASSUME NEW i \in 1..Len(toClient'), NEW j \in 1..Len(toClient'), i # j,
                            Asks(toClient'[i]), Asks(toClient'[j])
                     PROVE  toClient'[i].id # toClient'[j].id
            OBVIOUS
        <3>1. i - 1 \in 1..n /\ j - 1 \in 1..n /\ i - 1 # j - 1
            BY <1>9
        <3> QED
            BY <1>5, <1>9, <3>1
    <2> QED
        BY <1>9, <2>1, <2>2 DEF Flows
<1>18. History' /\ UNCHANGED promiseVars
    BY <1>1, PromiseStutters DEF DeliveryInv, History
<1> QED
    BY <1>11, <1>12, <1>13, <1>14, <1>15, <1>16, <1>17, <1>18 DEF DeliveryInv, Outgoing, Incoming

-----------------------------------------------------------------------------
LEMMA InitDelivers == ASSUME Init PROVE DeliveryInv /\ Promise!Init
<1>1. /\ qosOf = [m \in Messages |-> 0] /\ taken = [m \in Messages |-> 0] /\ confirmed = {}
      /\ sentMessages = Nothing /\ receivedMessages = Nothing /\ brokerSent = Nothing /\ brokerReceived = {}
      /\ toBroker = <<>> /\ toClient = <<>> /\ bufferedQueue = <<>> /\ sends = 0
    BY DEF Init
<1>2. \A id \in Ids : ~Ours(id) /\ ~Theirs(id)
    BY <1>1 DEF Ours, Theirs, Nothing
<1>3. History
    BY <1>1, SessionAssumption DEF History, Messages, Qos
<1>4. Outgoing
    BY <1>1, <1>2, OnEmpty DEF Outgoing, Entries, OneEntry, BrokerHas, Buffered, Published, Acknowledged
<1>5. BrokerEntries /\ OneBrokerEntry /\ Pairs
    BY <1>1, <1>2 DEF BrokerEntries, OneBrokerEntry, Pairs, Paired, Nothing
<1>6. Told /\ Answered /\ Flows(toClient, toBroker, Mirror)
    BY <1>1, OnEmpty, Emptied DEF Told, Answered, Flows
<1>7. Promise!Init
    BY <1>1 DEF Promise!Init, Acked
<1> QED
    BY <1>3, <1>4, <1>5, <1>6, <1>7 DEF DeliveryInv, Incoming

LEMMA StutterDelivers == ASSUME DeliveryInv, UNCHANGED vars PROVE DeliveryInv' /\ UNCHANGED promiseVars
<1>1. UNCHANGED <<cleanSession, link, connected, sentMessages, receivedMessages, bufferedQueue, brokerReceived,
                  brokerSent, toBroker, toClient, qosOf, taken, confirmed, sends>>
    BY DEF vars, client, network, broker, history
<1>2. History' /\ UNCHANGED promiseVars
    BY <1>1, PromiseStutters DEF DeliveryInv, History
<1>3. Outgoing'
    BY <1>1 DEF DeliveryInv, Outgoing, Entries, OneEntry, BrokerHas, Buffered, Published, Acknowledged, Ours, Sent
<1>4. Incoming'
    BY <1>1 DEF DeliveryInv, Incoming, BrokerEntries, OneBrokerEntry, Pairs, Paired, Told, Answered, Theirs, Mirror
<1> QED
    BY <1>2, <1>3, <1>4 DEF DeliveryInv

LEMMA StepDelivers ==
    ASSUME SessionInv, DeliveryInv, Next
    PROVE  DeliveryInv' /\ (Promise!Next \/ UNCHANGED promiseVars)
<1>1. ASSUME NEW m \in Outbound, Send(m) PROVE DeliveryInv' /\ (Promise!Next \/ UNCHANGED promiseVars)
    BY <1>1, SendQos0Delivers, SendAckedDelivers, SendDisconnectedDelivers DEF Send
<1>2. CASE Subscribe
    BY <1>2, SubscribeDelivers
<1>3. CASE Receive
    BY <1>3, HandleConnackDelivers, HandlePublishDelivers, HandlePubrelDelivers, HandleCompletionDelivers,
       HandlePubrecDelivers, HandleSubackDelivers DEF Receive, HandlePuback, HandlePubcomp
<1>4. CASE Lose \/ Reload
    BY <1>4, LoseDelivers, ReloadDelivers
<1>5. CASE Connect
    BY <1>5, ConnectDelivers
<1>6. ASSUME NEW m \in Inbound, BrokerSendQos0(m) \/ \E qos \in {1, 2} : BrokerSend(m, qos)
      PROVE  DeliveryInv' /\ (Promise!Next \/ UNCHANGED promiseVars)
    BY <1>6, BrokerSendQos0Delivers, BrokerSendDelivers
<1>7. CASE BrokerReceive
    BY <1>7, BrokerReceiveDelivers
<1> QED
    BY <1>1, <1>2, <1>3, <1>4, <1>5, <1>6, <1>7 DEF Next

(* Whatever is lost and whenever the page is reloaded: a message of QoS 2  *)
(* is taken over once, and a message is confirmed once and only after it   *)
(* was taken over, in both directions.                                     *)
THEOREM Exchanged == Spec => Delivers
<1>1. Init => DeliveryInv /\ Promise!Init
    BY InitDelivers
<1>2. SessionInv /\ DeliveryInv /\ [Next]_vars => DeliveryInv'
    BY StepDelivers, StutterDelivers
<1>3. SessionInv /\ DeliveryInv /\ [Next]_vars => [Promise!Next]_promiseVars
    BY StepDelivers, StutterDelivers
<1>4. [Promise!Next]_promiseVars =>
      [Promise!Next]_<<qosOf, [m \in Messages |-> IF Acked(m) THEN taken[m] ELSE 0],
                      {m \in confirmed : Acked(m)}>>
    BY DEF promiseVars, AckedTaken, AckedConfirmed
<1> QED
    BY <1>1, <1>2, <1>3, <1>4, SessionInvariant, PTL DEF Spec, Delivers, Promise!Spec

-----------------------------------------------------------------------------
(***************************************************************************)
(* InOrder: messages arrive for the first time in the order of send().     *)
(*                                                                         *)
(* Of a message that has arrived, every earlier one has arrived or will    *)
(* never do so (Behind): this needs that what has not arrived is under way *)
(* while the client is connected (Underway), in order (Aligned), and that  *)
(* the sequence numbers by which it is sorted after a loss are in the      *)
(* order of the messages (Sequences).                                      *)
(***************************************************************************)

Ordered == reloads = 0 /\ ~unsorted

Known == {sentMessages[id] : id \in {i \in Ids : Ours(i)}} \cup On(bufferedQueue)
Publishes(p, m) == p.type = "PUBLISH" /\ p.msg = m
Waiting(m) == (\E e \in Known : e.msg = m) \/ (\E p \in On(toBroker) : Publishes(p, m))

Sequences ==
    /\ \A e \in Known : e.sequence <= sequence
    /\ \A e, f \in Known : e.msg < f.msg => e.sequence < f.sequence
    /\ \A i, j \in 1..Len(bufferedQueue) : i < j => bufferedQueue[i].msg < bufferedQueue[j].msg

Behind == \A n \in Outbound : taken[n] > 0 => \A m \in 1..(n-1) : Waiting(m) => taken[m] > 0
Underway ==
    connected => \A e \in Known : taken[e.msg] = 0 => \E p \in On(toBroker) : Publishes(p, e.msg)
Aligned ==
    \A i, j \in 1..Len(toBroker) :
        /\ i < j /\ toBroker[i].type = "PUBLISH" /\ toBroker[j].type = "PUBLISH"
        /\ taken[toBroker[i].msg] = 0 /\ taken[toBroker[j].msg] = 0
        => toBroker[i].msg < toBroker[j].msg

Lined == Sequences /\ Behind /\ Underway /\ Aligned

Arrived ==
    /\ IsSequence(arrivals)
    /\ \A m \in Outbound : taken[m] > 0 <=> m \in On(arrivals)
    /\ Ordered => \A m, n \in Outbound : m < n /\ taken[m] > 0 =>
           \A i \in 1..Len(arrivals) : arrivals[i] = n => \E j \in 1..i : arrivals[j] = m

NoBuffer == connected => bufferedQueue = <<>>

OrderInv == reloads \in Nat /\ NoBuffer /\ Arrived /\ (Ordered => Lined)

LEMMA KnownMessages ==
    ASSUME SessionInv, DeliveryInv
    PROVE  /\ \A e \in Known : e.msg \in 1..sends /\ e.msg \in Outbound /\ e.sequence \in Nat
           /\ \A e, f \in Known : e.msg = f.msg =>
                  e = f \/ (e \in On(bufferedQueue) /\ f \in On(bufferedQueue))
           /\ \A m : Waiting(m) => m \in 1..sends
<1>1. ASSUME NEW id \in Ids, Ours(id)
      PROVE  /\ sentMessages[id].msg \in 1..sends /\ sentMessages[id].sequence \in Nat
             /\ qosOf[sentMessages[id].msg] # 0
    <2>1. sentMessages[id] \in Entry /\ sentMessages[id].qos # 0
        BY <1>1 DEF SessionInv, Tables, Slot, Ours
    <2> QED
        BY <1>1, <2>1 DEF DeliveryInv, Outgoing, Entries, Sent, Entry
<1>2. ASSUME NEW e \in On(bufferedQueue)
      PROVE  e.msg \in 1..sends /\ e.sequence \in Nat /\ qosOf[e.msg] = 0
    <2>1. e \in Entry
        BY DEF On, SessionInv, Tables
    <2> QED
        BY <2>1 DEF DeliveryInv, Outgoing, Buffered, Entry
<1>3. 1..sends \subseteq Outbound
    BY BoundsOfOutbound DEF DeliveryInv
<1>4. \A e \in Known : e.msg \in 1..sends /\ e.sequence \in Nat
    BY <1>1, <1>2 DEF Known
<1>5. ASSUME NEW e \in Known, NEW f \in Known, e.msg = f.msg, e \notin On(bufferedQueue)
      PROVE  e = f
    <2>1. PICK id \in Ids : Ours(id) /\ e = sentMessages[id]
        BY <1>5 DEF Known
    <2>2. f \notin On(bufferedQueue)
        BY <1>1, <1>2, <1>5, <2>1
    <2>3. PICK other \in Ids : Ours(other) /\ f = sentMessages[other]
        BY <2>2 DEF Known
    <2> QED
        BY <1>5, <2>1, <2>3 DEF DeliveryInv, Outgoing, OneEntry, Sent
<1>6. \A m : Waiting(m) => m \in 1..sends
    BY <1>4 DEF Waiting, Publishes, DeliveryInv, Outgoing, Published
<1> QED
    BY <1>3, <1>4, <1>5, <1>6

(* Steps that send, deliver and confirm nothing new of the client's.       *)
LEMMA OrderKept ==
    ASSUME SessionInv, DeliveryInv, OrderInv,
           Ordered' => Ordered, UNCHANGED <<reloads, arrivals>>, \A m \in Outbound : taken'[m] = taken[m],
           connected' => connected, sequence' = sequence, bufferedQueue' \in {bufferedQueue, <<>>},
           \A e \in Known' : \E f \in Known : f.msg = e.msg /\ f.sequence = e.sequence,
           \/ toBroker' = toBroker
           \/ toBroker' = <<>> /\ ~connected'
           \/ \E p : toBroker' = Append(toBroker, p) /\ p.type # "PUBLISH"
    PROVE  OrderInv'
<1>1. /\ \A e \in Known : e.msg \in 1..sends /\ e.msg \in Outbound /\ e.sequence \in Nat
      /\ \A m : Waiting(m) => m \in 1..sends
      /\ 1..sends \subseteq Outbound
    BY KnownMessages, BoundsOfOutbound DEF DeliveryInv
<1>2. /\ \A i \in 1..Len(toBroker') : toBroker'[i].type = "PUBLISH" =>
             i \in 1..Len(toBroker) /\ toBroker'[i] = toBroker[i]
      /\ connected' => On(toBroker) \subseteq On(toBroker')
      /\ \A p \in On(toBroker') : p.type = "PUBLISH" => p \in On(toBroker)
    <2>1. CASE toBroker' = toBroker
        BY <2>1
    <2>2. CASE toBroker' = <<>> /\ ~connected'
        BY <2>2, Emptied, OnEmpty
    <2>3. ASSUME NEW p, toBroker' = Append(toBroker, p), p.type # "PUBLISH"
          PROVE  /\ \A i \in 1..Len(toBroker') : toBroker'[i].type = "PUBLISH" =>
                        i \in 1..Len(toBroker) /\ toBroker'[i] = toBroker[i]
                 /\ On(toBroker) \subseteq On(toBroker')
                 /\ \A q \in On(toBroker') : q.type = "PUBLISH" => q \in On(toBroker)
        <3>1. /\ Len(toBroker) \in Nat /\ Len(toBroker') = Len(toBroker) + 1 /\ toBroker'[Len(toBroker) + 1] = p
              /\ \A i \in 1..Len(toBroker) : toBroker'[i] = toBroker[i]
              /\ On(toBroker') = On(toBroker) \cup {p}
            BY <2>3, Appended, OnAppend DEF SessionInv, Phase
        <3>2. \A i \in 1..Len(toBroker') : i = Len(toBroker) + 1 \/ i \in 1..Len(toBroker)
            BY <3>1
        <3> QED
            BY <2>3, <3>1, <3>2
    <2> QED
        BY <2>1, <2>2, <2>3
<1>3. \A m : Waiting(m)' => Waiting(m)
    BY <1>2 DEF Waiting, Publishes
<1>4. NoBuffer'
    BY DEF OrderInv, NoBuffer
<1>5. Arrived'
    BY DEF OrderInv, Arrived
<1>6. ASSUME Ordered' PROVE Lined'
    <2>1. Lined
        BY <1>6 DEF OrderInv
    <2>2. Sequences'
        <3>1. /\ \A e \in Known' : e.sequence <= sequence'
              /\ \A e, f \in Known' : e.msg < f.msg => e.sequence < f.sequence
            <4>1. \A e \in Known' : e.sequence <= sequence'
                BY <2>1 DEF Lined, Sequences
            <4>2. ASSUME NEW e \in Known', NEW f \in Known', e.msg < f.msg PROVE e.sequence < f.sequence
                <5>1. PICK d \in Known : d.msg = e.msg /\ d.sequence = e.sequence
                    OBVIOUS
                <5>2. PICK g \in Known : g.msg = f.msg /\ g.sequence = f.sequence
                    OBVIOUS
                <5> QED
                    BY <2>1, <4>2, <5>1, <5>2 DEF Lined, Sequences
            <4> QED
                BY <4>1, <4>2
        <3>2. \A i, j \in 1..Len(bufferedQueue') : i < j => bufferedQueue'[i].msg < bufferedQueue'[j].msg
            BY <2>1, Emptied DEF Lined, Sequences
        <3> QED
            BY <3>1, <3>2 DEF Sequences
    <2>3. Behind'
        BY <1>1, <1>3, <2>1 DEF Lined, Behind
    <2>4. Underway'
        <3> SUFFICES ASSUME connected', NEW e \in Known', taken'[e.msg] = 0
                     PROVE  \E p \in On(toBroker') : Publishes(p, e.msg)
            BY DEF Underway, Publishes
        <3>1. PICK f \in Known : f.msg = e.msg
            OBVIOUS
        <3>2. taken[f.msg] = 0
            BY <1>1, <3>1
        <3>3. PICK p \in On(toBroker) : Publishes(p, f.msg)
            BY <2>1, <3>2 DEF Lined, Underway
        <3> QED
            BY <1>2, <3>1, <3>3
    <2>5. Aligned'
        <3> SUFFICES ASSUME NEW i \in 1..Len(toBroker'), NEW j \in 1..Len(toBroker'), i < j,
                            toBroker'[i].type = "PUBLISH", toBroker'[j].type = "PUBLISH",
                            taken'[toBroker'[i].msg] = 0, taken'[toBroker'[j].msg] = 0
                     PROVE  toBroker'[i].msg < toBroker'[j].msg
            BY DEF Aligned
        <3>1. /\ i \in 1..Len(toBroker) /\ toBroker'[i] = toBroker[i]
              /\ j \in 1..Len(toBroker) /\ toBroker'[j] = toBroker[j]
            BY <1>2
        <3>2. toBroker[i].msg \in Outbound /\ toBroker[j].msg \in Outbound
            BY <1>1, <3>1 DEF DeliveryInv, Outgoing, Published, On
        <3> QED
            BY <2>1, <3>1, <3>2 DEF Lined, Aligned
    <2> QED
        BY <2>2, <2>3, <2>4, <2>5 DEF Lined
<1> QED
    BY <1>4, <1>5, <1>6 DEF OrderInv

(* A message that is sent is the last of those waiting.                    *)
LEMMA OrderSent ==
    ASSUME SessionInv, DeliveryInv, OrderInv, NEW m \in Outbound, m = sends + 1,
           Ordered' => Ordered, UNCHANGED <<reloads, arrivals, taken, connected>>,
           NEW entry, entry.msg = m, entry.sequence = sequence + 1,
           \/ Known' = Known /\ sequence' = sequence
           \/ Known' = Known \cup {entry} /\ sequence' = sequence + 1,
           \/ bufferedQueue' = bufferedQueue
           \/ bufferedQueue' = Append(bufferedQueue, entry) /\ ~connected,
           \/ toBroker' = toBroker /\ ~connected
           \/ \E p : toBroker' = Append(toBroker, p) /\ Publishes(p, m)
    PROVE  OrderInv'
<1>1. /\ \A e \in Known : e.msg \in 1..sends /\ e.msg \in Outbound /\ e.sequence \in Nat
      /\ \A n : Waiting(n) => n \in 1..sends
      /\ 1..sends \subseteq Outbound /\ sends \in Nat /\ sequence \in Nat
    BY KnownMessages, BoundsOfOutbound DEF DeliveryInv, SessionInv, Tables
<1>2. /\ taken[m] = 0 /\ \A n \in Outbound : taken[n] > 0 => n \in 1..sends
      /\ Outbound \subseteq Nat /\ Outbound \subseteq Messages /\ \A n \in Outbound : taken[n] \in Nat /\ n >= 1
    <2>1. m > sends
        BY <1>1
    <2>2. \A n \in Outbound : n \in Nat /\ n >= 1 /\ n \in Messages
        BY SessionAssumption DEF Outbound, Messages
    <2> QED
        BY <1>1, <2>1, <2>2 DEF DeliveryInv, History
<1>3. /\ Len(toBroker) \in Nat /\ Len(toBroker') \in Nat
      /\ \A i \in 1..Len(toBroker') :
             \/ i \in 1..Len(toBroker) /\ toBroker'[i] = toBroker[i]
             \/ Publishes(toBroker'[i], m) /\ \A j \in 1..Len(toBroker') : j <= i
      /\ \A p \in On(toBroker') : p \in On(toBroker) \/ Publishes(p, m)
      /\ On(toBroker) \subseteq On(toBroker')
      /\ connected => \E p \in On(toBroker') : Publishes(p, m)
    <2>1. CASE toBroker' = toBroker /\ ~connected
        <3>1. Len(toBroker) \in Nat
            BY Appended DEF SessionInv, Phase
        <3> QED
            BY <2>1, <3>1
    <2>2. ASSUME NEW p, toBroker' = Append(toBroker, p), Publishes(p, m)
          PROVE  <1>3!:
        <3>1. /\ Len(toBroker) \in Nat /\ Len(toBroker') = Len(toBroker) + 1 /\ toBroker'[Len(toBroker) + 1] = p
              /\ \A i \in 1..Len(toBroker) : toBroker'[i] = toBroker[i]
              /\ On(toBroker') = On(toBroker) \cup {p}
            BY <2>2, Appended, OnAppend DEF SessionInv, Phase
        <3>2. \A i \in 1..Len(toBroker') :
                 \/ i = Len(toBroker) + 1 /\ \A j \in 1..Len(toBroker') : j <= i
                 \/ i \in 1..Len(toBroker)
            BY <3>1
        <3> QED
            BY <2>2, <3>1, <3>2
    <2> QED
        BY <2>1, <2>2
<1>4. \A n : Waiting(n)' => Waiting(n) \/ n = m
    BY <1>3 DEF Waiting, Publishes
<1>5. NoBuffer' /\ Arrived'
    BY DEF OrderInv, NoBuffer, Arrived
<1>6. ASSUME Ordered' PROVE Lined'
    <2>1. Lined
        BY <1>6 DEF OrderInv
    <2>2. Sequences'
        <3>1. \A e \in Known' : e.sequence <= sequence' /\ e.sequence \in Nat
            BY <1>1, <2>1 DEF Lined, Sequences
        <3>2. ASSUME NEW e \in Known', NEW f \in Known', e.msg < f.msg PROVE e.sequence < f.sequence
            <4>1. CASE e \in Known /\ f \in Known
                BY <2>1, <3>2, <4>1 DEF Lined, Sequences
            <4>2. CASE e \in Known /\ f = entry
                <5>1. e.sequence <= sequence /\ e.sequence \in Nat
                    BY <1>1, <2>1, <4>2 DEF Lined, Sequences
                <5> QED
                    BY <1>1, <4>2, <5>1
            <4>3. CASE e = entry
                BY <1>1, <3>2, <4>3
            <4> QED
                BY <4>1, <4>2, <4>3
        <3>3. \A i, j \in 1..Len(bufferedQueue') : i < j => bufferedQueue'[i].msg < bufferedQueue'[j].msg
            <4>1. CASE bufferedQueue' = bufferedQueue
                BY <2>1, <4>1 DEF Lined, Sequences
            <4>2. CASE bufferedQueue' = Append(bufferedQueue, entry)
                <5>1. /\ Len(bufferedQueue) \in Nat /\ Len(bufferedQueue') = Len(bufferedQueue) + 1
                      /\ bufferedQueue'[Len(bufferedQueue) + 1] = entry
                      /\ \A i \in 1..Len(bufferedQueue) : bufferedQueue'[i] = bufferedQueue[i]
                    BY <4>2, Appended DEF SessionInv, Tables
                <5>2. \A i \in 1..Len(bufferedQueue) : bufferedQueue[i].msg \in 1..sends
                    BY DEF DeliveryInv, Outgoing, Buffered, On
                <5> SUFFICES ASSUME NEW i \in 1..Len(bufferedQueue'), NEW j \in 1..Len(bufferedQueue'), i < j
                             PROVE  bufferedQueue'[i].msg < bufferedQueue'[j].msg
                    OBVIOUS
                <5>3. i \in 1..Len(bufferedQueue) /\ (j \in 1..Len(bufferedQueue) \/ j = Len(bufferedQueue) + 1)
                    BY <5>1
                <5>4. CASE j \in 1..Len(bufferedQueue)
                    BY <2>1, <5>1, <5>3, <5>4 DEF Lined, Sequences
                <5>5. CASE j = Len(bufferedQueue) + 1
                    BY <1>1, <5>1, <5>2, <5>3, <5>5
                <5> QED
                    BY <5>3, <5>4, <5>5
            <4> QED
                BY <4>1, <4>2
        <3> QED
            BY <3>1, <3>2, <3>3 DEF Sequences
    <2>3. Behind'
        <3> SUFFICES ASSUME NEW n \in Outbound, taken[n] > 0, NEW k \in 1..(n-1), Waiting(k)'
                     PROVE  taken[k] > 0
            BY DEF Behind
        <3>1. k # m
            BY <1>1, <1>2
        <3> QED
            BY <1>4, <2>1, <3>1 DEF Lined, Behind
    <2>4. Underway'
        <3> SUFFICES ASSUME connected, NEW e \in Known', taken[e.msg] = 0
                     PROVE  \E p \in On(toBroker') : Publishes(p, e.msg)
            BY DEF Underway, Publishes
        <3>1. CASE e \in Known
            BY <1>3, <2>1, <3>1 DEF Lined, Underway
        <3>2. CASE e = entry
            BY <1>3, <3>2
        <3> QED
            BY <3>1, <3>2
    <2>5. Aligned'
        <3> SUFFICES ASSUME NEW i \in 1..Len(toBroker'), NEW j \in 1..Len(toBroker'), i < j,
                            toBroker'[i].type = "PUBLISH", toBroker'[j].type = "PUBLISH",
                            taken[toBroker'[i].msg] = 0, taken[toBroker'[j].msg] = 0
                     PROVE  toBroker'[i].msg < toBroker'[j].msg
            BY DEF Aligned
        <3>1. i \in 1..Len(toBroker) /\ toBroker'[i] = toBroker[i]
            BY <1>3
        <3>2. toBroker[i].msg \in 1..sends
            BY <3>1 DEF DeliveryInv, Outgoing, Published, On
        <3>3. CASE j \in 1..Len(toBroker) /\ toBroker'[j] = toBroker[j]
            BY <2>1, <3>1, <3>3 DEF Lined, Aligned
        <3>4. CASE Publishes(toBroker'[j], m)
            BY <1>1, <3>1, <3>2, <3>4 DEF Publishes
        <3> QED
            BY <1>3, <3>3, <3>4
    <2> QED
        BY <2>2, <2>3, <2>4, <2>5 DEF Lined
<1> QED
    BY <1>5, <1>6 DEF OrderInv

(* An entry under a free identifier is one more.                           *)
LEMMA OneMoreKnown ==
    ASSUME SessionInv, NEW id \in Ids, sentMessages[id] = NoEntry,
           NEW entry, entry # NoEntry, sentMessages' = [sentMessages EXCEPT ![id] = entry],
           UNCHANGED bufferedQueue
    PROVE  Known' = IF entry.type = "PUBLISH" THEN Known \cup {entry} ELSE Known
<1>1. /\ sentMessages'[id] = entry /\ ~Ours(id)
      /\ \A other \in Ids : other # id => sentMessages'[other] = sentMessages[other]
    BY DEF SessionInv, Tables, Ours
<1> QED
    BY <1>1 DEF Known, Ours

LEMMA SendOrders ==
    ASSUME SessionInv, DeliveryInv, OrderInv, NEW m \in Outbound, Send(m)
    PROVE  OrderInv'
<1>1. ASSUME NEW qos \in Qos, Accepted(m, qos)
      PROVE  /\ m = sends + 1 /\ Requests < MaxRequests
             /\ UNCHANGED <<reloads, arrivals, taken, connected>> /\ (Ordered' => Ordered)
             /\ NewEntry(m, qos).msg = m /\ NewEntry(m, qos).sequence = sequence + 1
             /\ NewEntry(m, qos) # NoEntry /\ NewEntry(m, qos).type = "PUBLISH"
    <2>1. m = sends + 1 /\ Requests < MaxRequests /\ UNCHANGED <<arrivals, taken, connected, reloads, unsorted>>
        BY <1>1 DEF Accepted, Requests, bounds
    <2> QED
        BY <2>1, NewEntryFields, Zenon DEF Ordered
<1>2. ASSUME NEW qos \in Qos, Accepted(m, qos), RequiresAck(NewEntry(m, qos)), StoreSent(NewEntry(m, qos)),
             UNCHANGED bufferedQueue
      PROVE  Known' = Known \cup {NewEntry(m, qos)} /\ sequence' = sequence + 1
    <2> PICK entry : entry = NewEntry(m, qos)
        OBVIOUS
    <2>1. NextId \in Ids /\ sentMessages[NextId] = NoEntry
        BY <1>1, <1>2, FreeId
    <2>2. entry # NoEntry /\ entry.type = "PUBLISH" /\ entry.sequence = sequence + 1
        BY <1>1, <1>2
    <2>3. sentMessages' = [sentMessages EXCEPT ![NextId] = entry] /\ sequence' = entry.sequence
        BY <1>2 DEF RequiresAck, StoreSent
    <2>4. Known' = Known \cup {entry}
        BY <1>2, <2>1, <2>2, <2>3, OneMoreKnown
    <2> QED
        BY <2>2, <2>3, <2>4
<1>3. CASE SendQos0(m)
    <2>1. 0 \in Qos /\ Publishes(Publish(0, m, 0), m)
        BY DEF Qos, Publishes, Publish
    <2>2. /\ Accepted(m, 0) /\ toBroker' = Append(toBroker, Publish(0, m, 0))
          /\ UNCHANGED <<sentMessages, bufferedQueue, sequence>>
        BY <1>3 DEF SendQos0
    <2>3. Known' = Known
        BY <2>2 DEF Known, Ours
    <2> QED
        BY <1>1, <2>1, <2>2, <2>3, OrderSent
<1>4. ASSUME NEW qos \in {1, 2}, SendAcked(m, qos) PROVE OrderInv'
    <2>1. qos \in Qos
        BY DEF Qos
    <2>2. /\ Accepted(m, qos) /\ RequiresAck(NewEntry(m, qos)) /\ StoreSent(NewEntry(m, qos))
          /\ UNCHANGED bufferedQueue /\ toBroker' = Append(toBroker, Publish(NextId, m, qos))
        BY <1>4 DEF SendAcked
    <2>3. Publishes(Publish(NextId, m, qos), m)
        BY DEF Publishes, Publish
    <2>4. Known' = Known \cup {NewEntry(m, qos)} /\ sequence' = sequence + 1
        BY <1>2, <2>1, <2>2
    <2> PICK entry : entry = NewEntry(m, qos)
        OBVIOUS
    <2> QED
        BY <1>1, <2>1, <2>2, <2>3, <2>4, OrderSent
<1>5. ASSUME NEW qos \in Qos, SendDisconnected(m, qos) PROVE OrderInv'
    <2>1. /\ Accepted(m, qos) /\ ~connected /\ UNCHANGED toBroker
          /\ \/ RequiresAck(NewEntry(m, qos)) /\ StoreSent(NewEntry(m, qos)) /\ UNCHANGED bufferedQueue
             \/ /\ bufferedQueue' = Append(bufferedQueue, NewEntry(m, qos)) /\ sequence' = sequence + 1
                /\ UNCHANGED sentMessages
        BY <1>5 DEF SendDisconnected
    <2>2. CASE RequiresAck(NewEntry(m, qos)) /\ StoreSent(NewEntry(m, qos)) /\ UNCHANGED bufferedQueue
        <3>1. Known' = Known \cup {NewEntry(m, qos)} /\ sequence' = sequence + 1
            BY <1>2, <2>1, <2>2
        <3> QED
            BY <1>1, <2>1, <2>2, <3>1, OrderSent
    <2>3. CASE /\ bufferedQueue' = Append(bufferedQueue, NewEntry(m, qos)) /\ sequence' = sequence + 1
               /\ UNCHANGED sentMessages
        <3>1. On(bufferedQueue') = On(bufferedQueue) \cup {NewEntry(m, qos)}
            BY <2>3, OnAppend DEF SessionInv, Tables
        <3>2. Known' = Known \cup {NewEntry(m, qos)}
            BY <2>3, <3>1 DEF Known, Ours
        <3> QED
            BY <1>1, <2>1, <2>3, <3>2, OrderSent
    <2> QED
        BY <2>1, <2>2, <2>3
<1> QED
    BY <1>3, <1>4, <1>5 DEF Send

-----------------------------------------------------------------------------
(* The handlers.                                                           *)

LEMMA SameKnown ==
    ASSUME sentMessages' = sentMessages, bufferedQueue' = bufferedQueue
    PROVE  Known' = Known
BY DEF Known, Ours

(* An entry that changes keeps its message and its sequence, or leaves.    *)
LEMMA ChangedKnown ==
    ASSUME SessionInv, NEW id, NEW slot, sentMessages' = [sentMessages EXCEPT ![id] = slot],
           UNCHANGED bufferedQueue,
           \/ slot = NoEntry
           \/ Ours(id) /\ slot.msg = sentMessages[id].msg /\ slot.sequence = sentMessages[id].sequence
    PROVE  \A e \in Known' : \E f \in Known : f.msg = e.msg /\ f.sequence = e.sequence
<1>1. \A other \in Ids : IF other = id THEN sentMessages'[other] = slot ELSE sentMessages'[other] = sentMessages[other]
    BY DEF SessionInv, Tables
<1> SUFFICES ASSUME NEW e \in Known', e \notin On(bufferedQueue)
             PROVE  \E f \in Known : f.msg = e.msg /\ f.sequence = e.sequence
    BY DEF Known
<1>2. PICK other \in Ids : Ours(other)' /\ e = sentMessages'[other]
    BY DEF Known
<1>3. CASE other # id
    <2>1. Ours(other) /\ e = sentMessages[other]
        BY <1>1, <1>2, <1>3 DEF Ours
    <2> QED
        BY <2>1 DEF Known
<1>4. CASE other = id
    <2>1. Ours(id) /\ e.msg = sentMessages[id].msg /\ e.sequence = sentMessages[id].sequence /\ id \in Ids
        BY <1>1, <1>2, <1>4 DEF Ours
    <2> QED
        BY <2>1 DEF Known
<1> QED
    BY <1>3, <1>4

LEMMA HandlersOrder ==
    ASSUME SessionInv, DeliveryInv, OrderInv,
           \/ Subscribe \/ HandlePublish \/ HandlePubrel \/ HandlePuback \/ HandlePubcomp \/ HandlePubrec
           \/ HandleSuback
    PROVE  OrderInv'
<1>1. CASE Subscribe
    <2> PICK entry : entry = [type |-> "SUBSCRIBE", msg |-> NoEntry, qos |-> 1, sequence |-> 0,
                              pubRecReceived |-> FALSE]
        OBVIOUS
    <2>1. /\ RequiresAck(entry) /\ toBroker' = Append(toBroker, Packet("SUBSCRIBE", NextId))
          /\ Requests < MaxRequests
          /\ UNCHANGED <<taken, arrivals, reloads, unsorted, connected, bufferedQueue, sequence>>
        BY <1>1 DEF Subscribe, history, Requests
    <2>2. NextId \in Ids /\ sentMessages[NextId] = NoEntry
        BY <2>1, FreeId
    <2>3. entry \in Entry /\ entry.type = "SUBSCRIBE"
        BY DEF Entry, Qos
    <2>4. Known' = Known
        BY <2>1, <2>2, <2>3, OneMoreKnown, NoEntryAssumption DEF RequiresAck
    <2>5. Packet("SUBSCRIBE", NextId).type # "PUBLISH"
        BY DEF Packet
    <2> QED
        BY <2>1, <2>4, <2>5, OrderKept DEF Ordered
<1>2. ASSUME NEW type, type # "CONNACK", Arrives(type), UNCHANGED <<connected, sequence, bufferedQueue, unsorted>>,
             \A m \in Outbound : taken'[m] = taken[m],
             \A e \in Known' : \E f \in Known : f.msg = e.msg /\ f.sequence = e.sequence,
             \/ toBroker' = toBroker
             \/ \E answer \in {"PUBACK", "PUBREC", "PUBREL", "PUBCOMP"} : Answer(answer)
      PROVE  OrderInv'
    <2>1. UNCHANGED <<arrivals, reloads>>
        BY <1>2 DEF Arrives
    <2>2. toBroker' = toBroker \/ \E p : toBroker' = Append(toBroker, p) /\ p.type # "PUBLISH"
        BY <1>2 DEF Answer, Packet
    <2> QED
        BY <1>2, <2>1, <2>2, OrderKept DEF Ordered
<1>3. CASE HandlePublish
    <2>1. /\ Arrives("PUBLISH") /\ UNCHANGED <<connected, sequence, bufferedQueue, sentMessages, unsorted>>
          /\ taken' = taken \/ taken' = [taken EXCEPT ![Head(toClient).msg] = @ + 1]
          /\ toBroker' = toBroker \/ Answer("PUBACK") \/ Answer("PUBREC")
        BY <1>3 DEF HandlePublish, Delivered
    <2>2. Head(toClient).msg \in Inbound
        BY <2>1, Handled DEF DeliveryInv, Incoming, Told
    <2>3. \A m \in Outbound : taken'[m] = taken[m]
        BY <2>1, <2>2, InboundIsNotOutbound DEF DeliveryInv, History, Messages
    <2> QED
        BY <1>2, <2>1, <2>3, SameKnown
<1>4. CASE HandlePubrel
    <2> PICK id : id = Head(toClient).id
        OBVIOUS
    <2>1. /\ Arrives("PUBREL") /\ UNCHANGED <<connected, sequence, bufferedQueue, sentMessages, unsorted>>
          /\ \/ taken' = taken
             \/ receivedMessages[id] # NoEntry /\ taken' = [taken EXCEPT ![receivedMessages[id]] = @ + 1]
          /\ Answer("PUBCOMP")
        BY <1>4 DEF HandlePubrel, Delivered
    <2>2. id \in Ids
        BY <2>1, Handled, ForTheirs DEF DeliveryInv
    <2>3. receivedMessages[id] # NoEntry => receivedMessages[id] \in Inbound
        BY <2>2 DEF DeliveryInv, Incoming, BrokerEntries
    <2>4. \A m \in Outbound : taken'[m] = taken[m]
        BY <2>1, <2>3, InboundIsNotOutbound DEF DeliveryInv, History, Messages
    <2> QED
        BY <1>2, <2>1, <2>4, SameKnown
<1>5. ASSUME NEW type \in {"PUBACK", "PUBCOMP"}, HandleCompletion(type) PROVE OrderInv'
    BY <1>2, <1>5, ChangedKnown DEF HandleCompletion, Completed
<1>6. CASE HandlePubrec
    <2> PICK id : id = Head(toClient).id
        OBVIOUS
    <2> PICK entry : entry = [sentMessages[id] EXCEPT !.pubRecReceived = TRUE]
        OBVIOUS
    <2>1. /\ Arrives("PUBREC") /\ UNCHANGED <<connected, sequence, bufferedQueue, unsorted, taken>>
        BY <1>6 DEF HandlePubrec
    <2>2. id \in Ids /\ Ours(id)
        BY <2>1, Handled, ForOurs DEF DeliveryInv
    <2>3. sentMessages' = [sentMessages EXCEPT ![id] = entry] /\ Answer("PUBREL")
        BY <1>6, <2>2 DEF HandlePubrec, Ours
    <2>4. entry.msg = sentMessages[id].msg /\ entry.sequence = sentMessages[id].sequence
        <3>1. sentMessages[id] \in Entry
            BY <2>2 DEF SessionInv, Tables, Slot, Ours
        <3> QED
            BY <3>1 DEF Entry
    <2>5. \A e \in Known' : \E f \in Known : f.msg = e.msg /\ f.sequence = e.sequence
        BY <2>1, <2>2, <2>3, <2>4, ChangedKnown
    <2> QED
        BY <1>2, <2>1, <2>3, <2>5
<1>7. CASE HandleSuback
    BY <1>2, <1>7, ChangedKnown DEF HandleSuback
<1> QED
    BY <1>1, <1>3, <1>4, <1>5, <1>6, <1>7 DEF HandlePuback, HandlePubcomp

LEMMA LossesOrder ==
    ASSUME SessionInv, DeliveryInv, OrderInv, Lose \/ Reload \/ Connect
    PROVE  OrderInv'
<1>1. CASE Lose
    <2>1. /\ UNCHANGED <<taken, arrivals, sequence, sentMessages, reloads, unsorted>>
          /\ ~connected' /\ toBroker' = <<>> /\ bufferedQueue' \in {bufferedQueue, <<>>}
        BY <1>1 DEF Lose, LinkGone, history
    <2>2. Known' \subseteq Known
        BY <2>1, OnEmpty DEF Known, Ours
    <2> QED
        BY <2>1, <2>2, OrderKept DEF Ordered
<1>2. CASE Reload
    <2>1. UNCHANGED <<taken, arrivals>> /\ ~connected' /\ reloads' = reloads + 1 /\ reloads \in Nat
        BY <1>2 DEF Reload, LinkGone, history, OrderInv
    <2>2. ~Ordered'
        BY <2>1 DEF Ordered
    <2> QED
        BY <2>1, <2>2 DEF OrderInv, NoBuffer, Arrived
<1>3. CASE Connect
    <2>1. UNCHANGED <<taken, arrivals, sequence, sentMessages, bufferedQueue, reloads, unsorted, connected, toBroker>>
        BY <1>3 DEF Connect, ByBroker, client, bounds
    <2> QED
        BY <2>1, SameKnown, OrderKept DEF Ordered
<1> QED
    BY <1>1, <1>2, <1>3

(* CONNACK: what is sent again is sorted by its sequence.                  *)
LEMMA EveryItemResent ==
    ASSUME SessionInv, NEW s \in Orders(Sequenced)
    PROVE  \A item \in Sequenced : \E i \in DOMAIN s : s[i] = item
<1> DEFINE n == Cardinality(Sequenced)
<1>1. IsFiniteSet(Sequenced) /\ n \in Nat
    BY FiniteResent
<1>2. s \in [1..n -> Sequenced] /\ \A i, j \in 1..n : s[i] = s[j] => i = j
    BY DEF Orders
<1> HIDE DEF n
<1>3. s \in Injection(1..n, Sequenced)
    BY <1>2 DEF Injection, IsInjective
<1>4. Cardinality(1..n) = n
    BY <1>1, FS_Interval
<1>5. s \in Surjection(1..n, Sequenced)
    BY <1>1, <1>3, <1>4, FS_Injection DEF n
<1> QED
    BY <1>2, <1>5 DEF Surjection

(* What is published again is known, and no other item has its message.    *)
LEMMA RepublishedKnown ==
    ASSUME SessionInv, NEW item \in Sequenced, Resend(item).type = "PUBLISH"
    PROVE  /\ item.entry \in Known /\ Resend(item).msg = item.entry.msg
           /\ \/ item.id # 0 /\ item.id \in Ids /\ Ours(item.id) /\ item.entry = sentMessages[item.id]
              \/ /\ item.id = 0
                 /\ \E i \in 1..Len(bufferedQueue) : item.entry = bufferedQueue[i]
           /\ item = [id |-> item.id, entry |-> item.entry]
<1>1. 0 \notin Ids
    BY DEF Ids
<1>2. CASE \E i \in DOMAIN bufferedQueue : item = [id |-> 0, entry |-> bufferedQueue[i]]
    <2>1. PICK i \in DOMAIN bufferedQueue : item = [id |-> 0, entry |-> bufferedQueue[i]]
        BY <1>2
    <2>2. i \in 1..Len(bufferedQueue)
        <3>1. PICK S : bufferedQueue \in Seq(S)
            BY DEF SessionInv, Tables, IsSequence
        <3> QED
            BY <2>1, <3>1, LenProperties
    <2>3. bufferedQueue[i].type = "PUBLISH" /\ ~bufferedQueue[i].pubRecReceived
        BY <2>2 DEF SessionInv, Tables
    <2>4. Resend(item) = Publish(0, bufferedQueue[i].msg, bufferedQueue[i].qos)
        BY <2>1, <2>3 DEF Resend
    <2> QED
        BY <2>1, <2>2, <2>4 DEF Publish, Known, On
<1>3. CASE \E id \in Used(sentMessages) : ~cleanSession /\ item = [id |-> id, entry |-> sentMessages[id]]
    <2>1. PICK id \in Used(sentMessages) : ~cleanSession /\ item = [id |-> id, entry |-> sentMessages[id]]
        BY <1>3
    <2>2. id \in Ids /\ sentMessages[id] # NoEntry /\ item.id = id /\ item.entry = sentMessages[id]
        BY <2>1 DEF Used
    <2>3. sentMessages[id].type \in {"PUBLISH", "SUBSCRIBE"}
        BY <2>2 DEF SessionInv, Tables, Slot, Entry
    <2>4. sentMessages[id].type = "PUBLISH" /\ Resend(item) = Publish(id, sentMessages[id].msg, sentMessages[id].qos)
        BY <2>2, <2>3 DEF Resend, Packet
    <2>5. Ours(id) /\ sentMessages[id] \in Known
        BY <2>2, <2>4 DEF Ours, Known
    <2> QED
        BY <1>1, <2>1, <2>2, <2>4, <2>5 DEF Publish
<1> QED
    BY <1>2, <1>3 DEF Sequenced

LEMMA OneItem ==
    ASSUME SessionInv, DeliveryInv, Sequences, NEW a \in Sequenced, NEW b \in Sequenced,
           Resend(a).type = "PUBLISH", Resend(b).type = "PUBLISH", a.entry.msg = b.entry.msg
    PROVE  a = b
<1>1. /\ a.entry \in Known /\ b.entry \in Known
      /\ a = [id |-> a.id, entry |-> a.entry] /\ b = [id |-> b.id, entry |-> b.entry]
      /\ \/ a.id # 0 /\ a.id \in Ids /\ Ours(a.id) /\ a.entry = sentMessages[a.id]
         \/ a.id = 0 /\ \E i \in 1..Len(bufferedQueue) : a.entry = bufferedQueue[i]
      /\ \/ b.id # 0 /\ b.id \in Ids /\ Ours(b.id) /\ b.entry = sentMessages[b.id]
         \/ b.id = 0 /\ \E i \in 1..Len(bufferedQueue) : b.entry = bufferedQueue[i]
    BY RepublishedKnown
<1>2. \A id \in Ids : Ours(id) => qosOf[sentMessages[id].msg] # 0
    BY DEF DeliveryInv, Outgoing, Entries, Sent, SessionInv, Tables, Ours
<1>3. \A i \in 1..Len(bufferedQueue) : qosOf[bufferedQueue[i].msg] = 0 /\ bufferedQueue[i].msg \in Nat
    BY BoundsOfOutbound DEF DeliveryInv, Outgoing, Buffered, On
<1>4. CASE a.id # 0 /\ b.id # 0
    <2>1. a.id = b.id
        BY <1>1, <1>4 DEF DeliveryInv, Outgoing, OneEntry, Sent
    <2> QED
        BY <1>1, <1>4, <2>1
<1>5. CASE a.id = 0 /\ b.id = 0
    <2>1. PICK i \in 1..Len(bufferedQueue) : a.entry = bufferedQueue[i]
        BY <1>1, <1>5
    <2>2. PICK j \in 1..Len(bufferedQueue) : b.entry = bufferedQueue[j]
        BY <1>1, <1>5
    <2>3. i < j \/ j < i \/ i = j
        OBVIOUS
    <2>4. i = j
        BY <1>3, <2>1, <2>2, <2>3 DEF Sequences
    <2> QED
        BY <1>1, <1>5, <2>1, <2>2, <2>4
<1>6. CASE a.id = 0 <=> b.id # 0
    BY <1>1, <1>2, <1>3, <1>6
<1> QED
    BY <1>4, <1>5, <1>6

LEMMA ConnackOrders == ASSUME SessionInv, DeliveryInv, OrderInv, HandleConnack PROVE OrderInv'
<1>1. /\ connected' = TRUE /\ bufferedQueue' = <<>>
      /\ unsorted' = (unsorted \/ (NotSorted /\ Cardinality(Sequenced) > 1))
      /\ UNCHANGED <<taken, arrivals, reloads, sequence, cleanSession>>
      /\ \/ ~cleanSession /\ sentMessages' = sentMessages
         \/ cleanSession /\ sentMessages' = Nothing
    BY DEF HandleConnack, Arrives
<1>2. NoBuffer' /\ Arrived'
    BY <1>1 DEF OrderInv, NoBuffer, Arrived, Ordered
<1> SUFFICES ASSUME Ordered' PROVE Lined'
    BY <1>1, <1>2 DEF OrderInv
<1>3. Lined
    BY <1>1 DEF OrderInv, Ordered
<1>4. PICK s \in Orders(Sequenced) :
              /\ NotSorted \/ Sorted(s)
              /\ IsSequence(toBroker') /\ Len(toBroker') \in Nat /\ Len(toBroker') = Cardinality(Sequenced)
              /\ DOMAIN s = 1..Len(toBroker')
              /\ \A i \in 1..Len(toBroker') : s[i] \in Sequenced /\ toBroker'[i] = Resend(s[i])
              /\ \A i, j \in 1..Len(toBroker') : s[i] = s[j] => i = j
    BY ConnackResends
<1>5. \A e \in Known' : /\ e \in Known /\ ~cleanSession
                        /\ \E id \in Ids : Ours(id) /\ e = sentMessages[id]
    <2>1. \A id \in Ids : Ours(id)' => ~cleanSession /\ Ours(id) /\ sentMessages'[id] = sentMessages[id]
        BY <1>1 DEF Ours, Nothing
    <2> QED
        BY <1>1, <2>1, OnEmpty DEF Known
<1>6. \A i \in 1..Len(toBroker') : toBroker'[i].type = "PUBLISH" =>
          s[i].entry \in Known /\ toBroker'[i].msg = s[i].entry.msg
    BY <1>4, RepublishedKnown
<1>7. \A m : Waiting(m)' => Waiting(m)
    BY <1>5, <1>6 DEF Waiting, Publishes, On
<1>8. Sequences'
    BY <1>1, <1>3, <1>5, Emptied DEF Lined, Sequences
<1>9. Behind'
    BY <1>1, <1>3, <1>7 DEF Lined, Behind
<1>10. Underway'
    <2> SUFFICES ASSUME NEW e \in Known', taken[e.msg] = 0
                 PROVE  \E p \in On(toBroker') : Publishes(p, e.msg)
        BY <1>1 DEF Underway, Publishes
    <2>1. PICK id \in Ids : Ours(id) /\ e = sentMessages[id] /\ ~cleanSession
        BY <1>5
    <2>2. e.type = "PUBLISH" /\ ~e.pubRecReceived
        <3>1. e.pubRecReceived => taken[e.msg] > 0
            BY <2>1 DEF DeliveryInv, Outgoing, Entries, Sent
        <3>2. e \in Entry
            BY <2>1 DEF SessionInv, Tables, Slot, Ours
        <3> QED
            BY <2>1, <3>1, <3>2 DEF Ours, Entry
    <2> PICK item : item = [id |-> id, entry |-> e]
        OBVIOUS
    <2>3. item \in Sequenced
        BY <2>1 DEF Sequenced, Used, Ours
    <2>4. Resend(item) = Publish(id, e.msg, e.qos)
        BY <2>2 DEF Resend
    <2>5. PICK i \in DOMAIN s : s[i] = item
        BY <2>3, EveryItemResent
    <2>6. toBroker'[i] = Publish(id, e.msg, e.qos) /\ toBroker'[i] \in On(toBroker')
        BY <1>4, <2>4, <2>5 DEF On
    <2> QED
        BY <2>6 DEF Publishes, Publish
<1>11. Aligned'
    <2> SUFFICES ASSUME NEW i \in 1..Len(toBroker'), NEW j \in 1..Len(toBroker'), i < j,
                        toBroker'[i].type = "PUBLISH", toBroker'[j].type = "PUBLISH"
                 PROVE  toBroker'[i].msg < toBroker'[j].msg
        BY DEF Aligned
    <2> PICK a : a = s[i]
        OBVIOUS
    <2> PICK b : b = s[j]
        OBVIOUS
    <2>1. /\ a \in Sequenced /\ b \in Sequenced /\ a # b /\ a.entry \in Known /\ b.entry \in Known
          /\ Resend(a).type = "PUBLISH" /\ Resend(b).type = "PUBLISH"
          /\ toBroker'[i].msg = a.entry.msg /\ toBroker'[j].msg = b.entry.msg
        BY <1>4, <1>6
    <2>2. /\ a.entry.msg \in Nat /\ b.entry.msg \in Nat
          /\ a.entry.sequence \in Nat /\ b.entry.sequence \in Nat
        BY <2>1, KnownMessages
    <2>3. Sorted(s)
        <3>1. Cardinality(Sequenced) > 1
            BY <1>4
        <3>2. ~(NotSorted /\ Cardinality(Sequenced) > 1)
            BY <1>1, Zenon DEF Ordered
        <3> QED
            BY <1>4, <3>1, <3>2
    <2>4. a.entry.sequence <= b.entry.sequence
        BY <1>4, <2>2, <2>3 DEF Sorted, Before
    <2>5. a.entry.msg # b.entry.msg
        BY <1>3, <2>1, OneItem DEF Lined
    <2>6. ~(b.entry.msg < a.entry.msg)
        BY <1>3, <2>1, <2>2, <2>4 DEF Lined, Sequences
    <2> QED
        BY <2>1, <2>2, <2>5, <2>6
<1> QED
    BY <1>8, <1>9, <1>10, <1>11 DEF Lined

-----------------------------------------------------------------------------
(* The broker.                                                             *)

(* A packet behind the first stays.                                        *)
LEMMA StaysOn ==
    ASSUME NEW q, IsSequence(q), q # <<>>, NEW p \in On(q), p # Head(q)
    PROVE  p \in On(Tail(q))
<1>1. PICK i \in 1..Len(q) : p = q[i]
    BY DEF On
<1>2. /\ Len(q) \in Nat /\ Len(Tail(q)) = Len(q) - 1 /\ Head(q) = q[1]
      /\ \A j \in 1..Len(Tail(q)) : Tail(q)[j] = q[j + 1]
    BY Popped
<1>3. i # 1 /\ i - 1 \in 1..Len(Tail(q)) /\ (i - 1) + 1 = i
    BY <1>1, <1>2
<1> QED
    BY <1>1, <1>2, <1>3 DEF On

(* The broker has handled a packet: if it was a message, that one is taken.*)
LEMMA LinedAtBroker ==
    ASSUME SessionInv, DeliveryInv, OrderInv, Lined, BrokerReceive, UNCHANGED sequence,
           taken' \in [Messages -> Nat],
           Head(toBroker).type = "PUBLISH" => taken'[Head(toBroker).msg] > 0,
           \A m \in Outbound : taken[m] > 0 => taken'[m] > 0,
           \A m \in Outbound : taken'[m] > 0 => taken[m] > 0 \/ Publishes(Head(toBroker), m)
    PROVE  Lined'
<1> PICK p : p = Head(toBroker)
    OBVIOUS
<1>1. /\ connected /\ IsSequence(toBroker) /\ toBroker # <<>> /\ toBroker' = Tail(toBroker)
      /\ p \in On(toBroker) /\ On(toBroker') \subseteq On(toBroker)
      /\ UNCHANGED <<connected, sentMessages, bufferedQueue>>
    BY AtBroker
<1>2. Known' = Known
    BY <1>1, SameKnown
<1>3. /\ p = toBroker[1] /\ 1 \in 1..Len(toBroker)
      /\ \A i \in 1..Len(toBroker') : i + 1 \in 1..Len(toBroker) /\ toBroker'[i] = toBroker[i + 1]
    BY <1>1, Popped
<1>4. /\ \A e \in Known : e.msg \in Outbound
      /\ \A q \in On(toBroker) : q.type = "PUBLISH" => q.msg \in Outbound
      /\ \A m \in Outbound : m \in Nat /\ taken[m] \in Nat /\ taken'[m] \in Nat
    BY KnownMessages, BoundsOfOutbound DEF DeliveryInv, History, Outgoing, Published, Outbound
<1>5. Sequences'
    BY <1>1, <1>2 DEF Lined, Sequences
<1>6. Behind'
    <2> SUFFICES ASSUME NEW n \in Outbound, taken'[n] > 0, NEW m \in 1..(n-1), Waiting(m)', taken[m] = 0
                 PROVE  FALSE
        <3>1. \A n \in Outbound : \A m \in 1..(n-1) : m \in Outbound
            BY SessionAssumption DEF Outbound
        <3> QED
            BY <1>4, <3>1 DEF Behind
    <2>1. Waiting(m)
        BY <1>1, <1>2 DEF Waiting
    <2>2. m \in Outbound /\ m < n
        BY SessionAssumption DEF Outbound
    <2>3. taken[n] = 0 /\ Publishes(p, n)
        BY <1>4, <2>1, <2>2 DEF Lined, Behind
    <2>4. PICK q \in On(toBroker) : Publishes(q, m)
        BY <1>1, <2>1 DEF Waiting, Lined, Underway
    <2>5. PICK i \in 1..Len(toBroker) : q = toBroker[i]
        BY DEF On
    <2>6. i # 1 /\ 1 < i
        BY <1>3, <2>2, <2>3, <2>4, <2>5 DEF Publishes
    <2>7. n < m
        BY <1>3, <2>3, <2>4, <2>5, <2>6 DEF Lined, Aligned, Publishes
    <2> QED
        BY <1>4, <2>2, <2>7
<1>7. Underway'
    <2> SUFFICES ASSUME NEW e \in Known, taken'[e.msg] = 0
                 PROVE  \E q \in On(toBroker') : Publishes(q, e.msg)
        BY <1>2 DEF Underway, Publishes
    <2>1. taken[e.msg] = 0
        BY <1>4
    <2>2. PICK q \in On(toBroker) : Publishes(q, e.msg)
        BY <1>1, <2>1 DEF Lined, Underway
    <2>3. q # p
        BY <2>2 DEF Publishes
    <2> QED
        BY <1>1, <2>2, <2>3, StaysOn
<1>8. Aligned'
    <2> SUFFICES ASSUME NEW i \in 1..Len(toBroker'), NEW j \in 1..Len(toBroker'), i < j,
                        toBroker'[i].type = "PUBLISH", toBroker'[j].type = "PUBLISH",
                        taken'[toBroker'[i].msg] = 0, taken'[toBroker'[j].msg] = 0
                 PROVE  toBroker'[i].msg < toBroker'[j].msg
        BY DEF Aligned
    <2>1. /\ i + 1 \in 1..Len(toBroker) /\ toBroker'[i] = toBroker[i + 1]
          /\ j + 1 \in 1..Len(toBroker) /\ toBroker'[j] = toBroker[j + 1] /\ i + 1 < j + 1
        BY <1>3
    <2>2. toBroker'[i] \in On(toBroker) /\ toBroker'[j] \in On(toBroker)
        BY <2>1 DEF On
    <2>3. taken[toBroker'[i].msg] = 0 /\ taken[toBroker'[j].msg] = 0
        BY <1>4, <2>2
    <2> QED
        BY <2>1, <2>3 DEF Lined, Aligned
<1> QED
    BY <1>5, <1>6, <1>7, <1>8 DEF Lined

LEMMA BrokerOrders ==
    ASSUME SessionInv, DeliveryInv, OrderInv, BrokerReceive
    PROVE  OrderInv'
<1> PICK p : p = Head(toBroker)
    OBVIOUS
<1>1. /\ UNCHANGED <<connected, sequence, bufferedQueue, reloads, unsorted>> /\ p \in On(toBroker)
      /\ Ordered' = Ordered
    BY AtBroker DEF BrokerReceive, ByBroker, client, bounds, Ordered
<1>2. NoBuffer'
    BY <1>1 DEF OrderInv, NoBuffer
<1>3. p.type = "PUBLISH" => p.msg \in Outbound /\ p.msg \in Messages
    BY <1>1, BoundsOfOutbound DEF DeliveryInv, Outgoing, Published
<1>4. taken \in [Messages -> Nat] /\ Outbound \subseteq Messages
    BY BoundsOfOutbound DEF DeliveryInv, History
<1>5. ASSUME UNCHANGED <<taken, arrivals>>, p.type = "PUBLISH" => taken[p.msg] > 0
      PROVE  OrderInv'
    <2>1. Arrived'
        BY <1>1, <1>5 DEF OrderInv, Arrived
    <2>2. Ordered' => Lined'
        BY <1>1, <1>4, <1>5, LinedAtBroker DEF OrderInv
    <2> QED
        BY <1>1, <1>2, <2>1, <2>2 DEF OrderInv
<1>6. ASSUME p.type = "PUBLISH", Takes(p.msg)
      PROVE  OrderInv'
    <2> PICK k : k = p.msg
        OBVIOUS
    <2>1. k \in Outbound /\ k \in Messages /\ taken' = [taken EXCEPT ![k] = @ + 1] /\ arrivals' = Append(arrivals, k)
        BY <1>3, <1>6 DEF Takes
    <2>2. /\ taken' \in [Messages -> Nat] /\ taken'[k] > 0
          /\ \A m \in Messages : m # k => taken'[m] = taken[m]
        BY <1>4, <2>1
    <2>3. Ordered' => Lined'
        BY <1>1, <1>4, <1>6, <2>1, <2>2, LinedAtBroker DEF OrderInv, Publishes
    <2>4. /\ IsSequence(arrivals') /\ Len(arrivals) \in Nat /\ Len(arrivals') = Len(arrivals) + 1
          /\ arrivals'[Len(arrivals) + 1] = k
          /\ \A i \in 1..Len(arrivals) : arrivals'[i] = arrivals[i]
          /\ On(arrivals') = On(arrivals) \cup {k}
        BY <2>1, Appended, OnAppend DEF OrderInv, Arrived
    <2>5. \A m \in Outbound : taken[m] \in Nat /\ (taken[m] > 0 <=> m \in On(arrivals))
        BY <1>4 DEF OrderInv, Arrived
    <2>6. \A m \in Outbound : taken'[m] > 0 <=> m \in On(arrivals')
        BY <1>4, <2>2, <2>4, <2>5
    <2>7. ASSUME Ordered, NEW m \in Outbound, NEW n \in Outbound, m < n, taken'[m] > 0,
                 NEW i \in 1..Len(arrivals'), arrivals'[i] = n
          PROVE  \E j \in 1..i : arrivals'[j] = m
        <3>1. CASE i \in 1..Len(arrivals)
            <4>1. arrivals[i] = n /\ taken[n] > 0
                BY <2>4, <2>5, <2>7, <3>1 DEF On
            <4>2. taken[m] > 0
                <5>1. CASE m # k
                    BY <1>4, <2>2, <2>7, <5>1
                <5>2. CASE m = k
                    <6>1. Waiting(m)
                        BY <1>1, <1>6, <5>2 DEF Waiting, Publishes
                    <6>2. m \in 1..(n-1)
                        BY <2>7, SessionAssumption DEF Outbound
                    <6> QED
                        BY <2>7, <4>1, <6>1, <6>2 DEF OrderInv, Lined, Behind
                <5> QED
                    BY <5>1, <5>2
            <4>3. PICK j \in 1..i : arrivals[j] = m
                BY <2>7, <3>1, <4>1, <4>2 DEF OrderInv, Arrived
            <4>4. j \in 1..Len(arrivals)
                BY <2>4, <3>1
            <4> QED
                BY <2>4, <4>3, <4>4
        <3>2. CASE i = Len(arrivals) + 1
            <4>1. m # k
                BY <2>4, <2>7, <3>2, SessionAssumption DEF Outbound
            <4>2. m \in On(arrivals)
                BY <1>4, <2>2, <2>5, <2>7, <4>1
            <4>3. PICK j \in 1..Len(arrivals) : arrivals[j] = m
                BY <4>2 DEF On
            <4>4. j \in 1..i /\ arrivals'[j] = m
                BY <2>4, <3>2, <4>3
            <4> QED
                BY <4>4
        <3> QED
            BY <2>4, <3>1, <3>2
    <2>8. Arrived'
        BY <1>1, <2>4, <2>6, <2>7 DEF Arrived
    <2> QED
        BY <1>1, <1>2, <2>3, <2>8 DEF OrderInv
<1>7. CASE BrokerTakes(p)
    <2>1. CASE p.qos = 2 /\ p.id \in brokerReceived
        <3>1. /\ p.type = "PUBLISH" /\ UNCHANGED <<taken, arrivals>> /\ taken[Sent(p.id)] > 0
              /\ p.qos # 0
            BY <1>7, <2>1 DEF BrokerTakes, DeliveryInv, Outgoing, BrokerHas
        <3>2. Sent(p.id) = p.msg
            BY <1>1, <3>1 DEF DeliveryInv, Outgoing, Published
        <3> QED
            BY <1>5, <3>1, <3>2
    <2>2. CASE ~(p.qos = 2 /\ p.id \in brokerReceived)
        BY <1>6, <1>7, <2>2 DEF BrokerTakes
    <2> QED
        BY <2>1, <2>2
<1>8. CASE BrokerReleases(p) \/ BrokerSubscribes(p) \/ BrokerPubrec(p) \/ BrokerCompletes(p)
    <2>1. UNCHANGED <<taken, arrivals>> /\ p.type # "PUBLISH"
        BY <1>8 DEF BrokerReleases, BrokerSubscribes, BrokerPubrec, BrokerCompletes
    <2> QED
        BY <1>5, <2>1
<1> QED
    BY <1>7, <1>8 DEF BrokerReceive

LEMMA BrokerSendsOrder ==
    ASSUME SessionInv, DeliveryInv, OrderInv, NEW m \in Inbound,
           BrokerSendQos0(m) \/ \E qos \in {1, 2} : BrokerSend(m, qos)
    PROVE  OrderInv'
<1>1. UNCHANGED <<taken, arrivals, sequence, sentMessages, bufferedQueue, reloads, unsorted, connected, toBroker>>
    BY DEF BrokerSendQos0, BrokerSend, ByBroker, client, bounds
<1> QED
    BY <1>1, SameKnown, OrderKept DEF Ordered

-----------------------------------------------------------------------------
LEMMA InitOrder == ASSUME Init PROVE OrderInv
<1>1. /\ taken = [m \in Messages |-> 0] /\ arrivals = <<>> /\ ~connected /\ toBroker = <<>> /\ bufferedQueue = <<>>
      /\ sentMessages = Nothing /\ reloads = 0
    BY DEF Init
<1>2. On(arrivals) = {} /\ On(bufferedQueue) = {} /\ Len(arrivals) = 0 /\ Len(toBroker) = 0 /\ IsSequence(arrivals)
    BY <1>1, OnEmpty, Emptied
<1>3. \A m \in Outbound : taken[m] = 0
    BY <1>1 DEF Messages
<1>4. Known = {}
    BY <1>1, <1>2 DEF Known, Ours, Nothing
<1>5. Arrived
    BY <1>2, <1>3 DEF Arrived
<1>6. Sequences
    BY <1>1, <1>4, Emptied DEF Sequences
<1>7. Behind /\ Underway /\ Aligned
    BY <1>1, <1>2, <1>3 DEF Behind, Underway, Aligned
<1> QED
    BY <1>1, <1>5, <1>6, <1>7 DEF OrderInv, NoBuffer, Lined

LEMMA StutterOrder == ASSUME SessionInv, DeliveryInv, OrderInv, UNCHANGED vars PROVE OrderInv'
<1>1. UNCHANGED <<taken, arrivals, sequence, sentMessages, bufferedQueue, reloads, unsorted, connected, toBroker>>
    BY DEF vars, client, network, history, bounds
<1> QED
    BY <1>1, SameKnown, OrderKept DEF Ordered

LEMMA StepOrder == ASSUME SessionInv, DeliveryInv, OrderInv, Next PROVE OrderInv'
<1>1. ASSUME NEW m \in Outbound, Send(m) PROVE OrderInv'
    BY <1>1, SendOrders
<1>2. CASE Subscribe \/ Receive
    BY <1>2, HandlersOrder, ConnackOrders DEF Receive
<1>3. CASE Lose \/ Reload \/ Connect
    BY <1>3, LossesOrder
<1>4. ASSUME NEW m \in Inbound, BrokerSendQos0(m) \/ \E qos \in {1, 2} : BrokerSend(m, qos) PROVE OrderInv'
    BY <1>4, BrokerSendsOrder
<1>5. CASE BrokerReceive
    BY <1>5, BrokerOrders
<1> QED
    BY <1>1, <1>2, <1>3, <1>4, <1>5 DEF Next

LEMMA ArrivesFirst ==
    ASSUME Arrived, NEW m \in Outbound, taken[m] > 0
    PROVE  /\ FirstArrival(m) \in 1..Len(arrivals) /\ arrivals[FirstArrival(m)] = m
           /\ \A j \in 1..(FirstArrival(m) - 1) : arrivals[j] # m
<1> DEFINE At == {i \in 1..Len(arrivals) : arrivals[i] = m}
<1>1. At # {} /\ At \subseteq Nat
    BY DEF Arrived, On
<1>2. PICK k \in At : \A n \in At : k <= n
    BY <1>1, Least
<1>3. Len(arrivals) \in Nat /\ DOMAIN arrivals = 1..Len(arrivals)
    <2>1. PICK S : arrivals \in Seq(S)
        BY DEF Arrived, IsSequence
    <2> QED
        BY <2>1, LenProperties
<1>4. \A j \in 1..(k-1) : arrivals[j] # m
    BY <1>2, <1>3
<1>5. \E i \in DOMAIN arrivals : arrivals[i] = m /\ \A j \in 1..(i-1) : arrivals[j] # m
    BY <1>2, <1>3, <1>4
<1>6. /\ FirstArrival(m) \in DOMAIN arrivals /\ arrivals[FirstArrival(m)] = m
      /\ \A j \in 1..(FirstArrival(m) - 1) : arrivals[j] # m
    BY <1>5 DEF FirstArrival
<1> QED
    BY <1>3, <1>6

LEMMA Lining == ASSUME OrderInv PROVE InOrder
<1> SUFFICES ASSUME Ordered, NEW m \in Outbound, NEW n \in Outbound, m < n, taken[m] > 0, taken[n] > 0
             PROVE  FirstArrival(m) < FirstArrival(n)
    BY DEF InOrder, Ordered
<1> PICK first : first = FirstArrival(m)
    OBVIOUS
<1> PICK i : i = FirstArrival(n)
    OBVIOUS
<1>1. first \in 1..Len(arrivals) /\ arrivals[first] = m /\ \A j \in 1..(first - 1) : arrivals[j] # m
    BY ArrivesFirst DEF OrderInv
<1>2. i \in 1..Len(arrivals) /\ arrivals[i] = n
    BY ArrivesFirst DEF OrderInv
<1>3. PICK j \in 1..i : arrivals[j] = m
    BY <1>2 DEF OrderInv, Arrived
<1>4. j # i /\ m \in Nat /\ n \in Nat
    BY <1>2, <1>3, SessionAssumption DEF Outbound
<1>5. j \notin 1..(first - 1)
    BY <1>1, <1>3
<1> QED
    BY <1>1, <1>2, <1>3, <1>4, <1>5

(* However often the connection is lost, messages arrive for the first     *)
(* time in the order they were sent: unless the page was reloaded, or a    *)
(* subscription was among what was sent again.                             *)
THEOREM SentOrder == Spec => []InOrder
<1>1. Init => DeliveryInv /\ OrderInv
    BY InitDelivers, InitOrder
<1>2. SessionInv /\ DeliveryInv /\ OrderInv /\ [Next]_vars => DeliveryInv' /\ OrderInv'
    BY StepDelivers, StutterDelivers, StepOrder, StutterOrder
<1>3. OrderInv => InOrder
    BY Lining
<1> QED
    BY <1>1, <1>2, <1>3, SessionInvariant, PTL DEF Spec
=============================================================================
