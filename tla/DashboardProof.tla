--------------------------- MODULE DashboardProof ---------------------------
(***************************************************************************)
(* Proofs about the two halves of the dashboard, which share no variable:  *)
(* that the connector ends with what the service has; and of the pages     *)
(* type correctness, that no content is lost between the threads that work *)
(* on a page, and that an open page is rendered with the current state.    *)
(***************************************************************************)
EXTENDS TwinConnector, Updates, FiniteSetTheorems, SequenceTheorems, TLAPS

-----------------------------------------------------------------------------
(***************************************************************************)
(* The connector.                                                          *)
(*                                                                         *)
(* Settled speaks of the moment when nothing is under way.  The invariant  *)
(* says the same at every moment of what will be, when the requests are    *)
(* served and the news is read: the last one about a thing decides.        *)
(***************************************************************************)

\* Queues of pairs, of which the k-th component names a thing.
Mentioned(q, k, t) == \E i \in 1..Len(q) : q[i][k] = t
LastAbout(q, k, t, i) ==
    i \in 1..Len(q) /\ q[i][k] = t /\ \A j \in 1..Len(q) : j > i => q[j][k] # t
Final(q, k, l, t, v) == \E i \in 1..Len(q) : LastAbout(q, k, t, i) /\ q[i][l] = v

Requests == {"subscribe", "unsubscribe"} \X Things
News     == ({Root} \X SUBSET Children) \cup (Children \X Nat)

WireTypes ==
    /\ requests \in Seq(Requests) /\ news \in Seq(News)
    /\ values \in [Children -> Nat \cup {Unlisted}] /\ latest \in [Children -> Nat]
    /\ subscribed \subseteq Things /\ children \subseteq Children

\* A new attempt is made only when there is no connection.
OneAttempt ==
    /\ timer => socket = "none"
    /\ connect = "checked" => socket = "none" /\ ~timer
    /\ start = "connect" => socket = "none" /\ ~timer /\ connect = "no"

NothingYet ==
    socket # "open" =>
        /\ requests = <<>> /\ news = <<>> /\ subscribed = {}
        /\ values = Unknown /\ ~ws

\* Once the requests are served, the service tells of c.
Subscribing(c) ==
    \/ Final(requests, 2, 1, c, "subscribe")
    \/ c \in subscribed /\ ~Mentioned(requests, 2, c)
Aimed == \A c \in Children : Subscribing(c) <=> c \in Known

RootAsked ==
    /\ requests = <<<<"subscribe", Root>>>> /\ news = <<>> /\ subscribed = {}
    /\ Known = {}
RootComing ==
    /\ ~Mentioned(requests, 2, Root) /\ Root \in subscribed
    /\ \/ Final(news, 1, 2, Root, children)
       \/ ~Mentioned(news, 1, Root) /\ Known = children

StatesComing ==
    \A c \in Known : ~Mentioned(requests, 2, c) =>
        \/ Final(news, 1, 2, c, latest[c])
        \/ ~Mentioned(news, 1, c) /\ values[c] = latest[c]

Settling == ws => Aimed /\ (RootAsked \/ RootComing) /\ StatesComing

TwinInv == WireTypes /\ OneAttempt /\ NothingYet /\ Settling

-----------------------------------------------------------------------------
(* What is known of a queue when it grows at one end or shrinks at the     *)
(* other.                                                                  *)

LEMMA FinalMentioned ==
    ASSUME NEW q, NEW k, NEW l, NEW t, NEW v, Final(q, k, l, t, v)
    PROVE  Mentioned(q, k, t)
BY DEF Final, LastAbout, Mentioned

LEMMA Nothing ==
    ASSUME NEW k, NEW l, NEW t, NEW v
    PROVE  ~Mentioned(<<>>, k, t) /\ ~Final(<<>>, k, l, t, v)
BY DEF Mentioned, Final

LEMMA Joined ==
    ASSUME NEW S, NEW q \in Seq(S), NEW r \in Seq(S), NEW k, NEW l, NEW t, NEW v
    PROVE  /\ q \o r \in Seq(S)
           /\ Mentioned(q \o r, k, t) <=> Mentioned(q, k, t) \/ Mentioned(r, k, t)
           /\ Final(q \o r, k, l, t, v) <=>
                  Final(r, k, l, t, v) \/ (Final(q, k, l, t, v) /\ ~Mentioned(r, k, t))
<1> PICK a : a = q \o r
    OBVIOUS
<1>1. /\ a \in Seq(S) /\ Len(a) = Len(q) + Len(r) /\ Len(q) \in Nat /\ Len(r) \in Nat
      /\ \A i \in 1..Len(a) : a[i] = IF i <= Len(q) THEN q[i] ELSE r[i - Len(q)]
    BY ConcatProperties, LenProperties
<1>2. \A i \in 1..Len(q) : i \in 1..Len(a) /\ a[i] = q[i]
    BY <1>1
<1>3. \A i \in 1..Len(r) : i + Len(q) \in 1..Len(a) /\ a[i + Len(q)] = r[i]
    BY <1>1
<1>4. \A i \in 1..Len(a) : i \in 1..Len(q) \/ i - Len(q) \in 1..Len(r)
    BY <1>1
<1>5. \A i \in 1..Len(a) : i \notin 1..Len(q) => a[i] = r[i - Len(q)]
    BY <1>1
<1>6. Mentioned(a, k, t) <=> Mentioned(q, k, t) \/ Mentioned(r, k, t)
    <2>1. ASSUME Mentioned(a, k, t) PROVE Mentioned(q, k, t) \/ Mentioned(r, k, t)
        BY <1>4, <1>5, <2>1 DEF Mentioned
    <2>2. ASSUME Mentioned(q, k, t) PROVE Mentioned(a, k, t)
        BY <1>2, <2>2 DEF Mentioned
    <2>3. ASSUME Mentioned(r, k, t) PROVE Mentioned(a, k, t)
        BY <1>3, <2>3 DEF Mentioned
    <2> QED
        BY <2>1, <2>2, <2>3
<1>7. ASSUME NEW i \in 1..Len(q)
      PROVE  LastAbout(a, k, t, i) <=> LastAbout(q, k, t, i) /\ ~Mentioned(r, k, t)
    <2>1. ASSUME LastAbout(a, k, t, i) PROVE LastAbout(q, k, t, i)
        BY <1>2, <2>1 DEF LastAbout
    <2>2. ASSUME LastAbout(a, k, t, i), Mentioned(r, k, t) PROVE FALSE
        <3>1. PICK j \in 1..Len(r) : r[j][k] = t
            BY <2>2 DEF Mentioned
        <3>2. j + Len(q) > i
            BY <1>1
        <3> QED
            BY <1>3, <2>2, <3>1, <3>2 DEF LastAbout
    <2>3. ASSUME LastAbout(q, k, t, i), ~Mentioned(r, k, t) PROVE LastAbout(a, k, t, i)
        <3>1. ASSUME NEW j \in 1..Len(a), j > i PROVE a[j][k] # t
            BY <1>2, <1>4, <1>5, <2>3, <3>1 DEF LastAbout, Mentioned
        <3> QED
            BY <1>2, <2>3, <3>1 DEF LastAbout
    <2> QED
        BY <2>1, <2>2, <2>3
<1>8. ASSUME NEW i \in 1..Len(r)
      PROVE  LastAbout(a, k, t, i + Len(q)) <=> LastAbout(r, k, t, i)
    <2>1. ASSUME LastAbout(a, k, t, i + Len(q)) PROVE LastAbout(r, k, t, i)
        <3>1. ASSUME NEW j \in 1..Len(r), j > i PROVE r[j][k] # t
            <4>1. j + Len(q) > i + Len(q)
                BY <1>1, <3>1
            <4> QED
                BY <1>3, <2>1, <4>1 DEF LastAbout
        <3> QED
            BY <1>3, <2>1, <3>1 DEF LastAbout
    <2>2. ASSUME LastAbout(r, k, t, i) PROVE LastAbout(a, k, t, i + Len(q))
        <3>1. ASSUME NEW j \in 1..Len(a), j > i + Len(q) PROVE a[j][k] # t
            <4>1. j \notin 1..Len(q) /\ j - Len(q) \in 1..Len(r) /\ j - Len(q) > i
                BY <1>1, <3>1
            <4> QED
                BY <1>5, <2>2, <4>1 DEF LastAbout
        <3> QED
            BY <1>3, <2>2, <3>1 DEF LastAbout
    <2> QED
        BY <2>1, <2>2
<1>9. ASSUME Final(a, k, l, t, v)
      PROVE  Final(r, k, l, t, v) \/ (Final(q, k, l, t, v) /\ ~Mentioned(r, k, t))
    <2>1. PICK i \in 1..Len(a) : LastAbout(a, k, t, i) /\ a[i][l] = v
        BY <1>9 DEF Final
    <2>2. CASE i \in 1..Len(q)
        BY <1>2, <1>7, <2>1, <2>2 DEF Final
    <2>3. CASE i \notin 1..Len(q)
        <3>1. i - Len(q) \in 1..Len(r) /\ (i - Len(q)) + Len(q) = i
            BY <1>1, <1>4, <2>3
        <3> QED
            BY <1>5, <1>8, <2>1, <2>3, <3>1 DEF Final
    <2> QED
        BY <2>2, <2>3
<1>10. ASSUME Final(r, k, l, t, v) \/ (Final(q, k, l, t, v) /\ ~Mentioned(r, k, t))
       PROVE  Final(a, k, l, t, v)
    BY <1>2, <1>3, <1>7, <1>8, <1>10 DEF Final
<1> QED
    BY <1>1, <1>6, <1>9, <1>10

LEMMA One ==
    ASSUME NEW S, NEW m \in S
    PROVE  /\ <<m>> \in Seq(S)
           /\ \A k, t : Mentioned(<<m>>, k, t) <=> m[k] = t
           /\ \A k, l, t, v : Final(<<m>>, k, l, t, v) <=> m[k] = t /\ m[l] = v
<1> PICK q : q = <<m>>
    OBVIOUS
<1>1. q \in Seq(S) /\ 1..Len(q) = {1} /\ q[1] = m
    OBVIOUS
<1>2. \A k, t : Mentioned(q, k, t) <=> m[k] = t
    BY <1>1 DEF Mentioned
<1>3. ASSUME NEW k, NEW t PROVE LastAbout(q, k, t, 1) <=> m[k] = t
    BY <1>1 DEF LastAbout
<1>4. ASSUME NEW k, NEW l, NEW t, NEW v PROVE Final(q, k, l, t, v) <=> m[k] = t /\ m[l] = v
    BY <1>1, <1>3 DEF Final
<1> QED
    BY <1>1, <1>2, <1>4

LEMMA Added ==
    ASSUME NEW S, NEW q \in Seq(S), NEW m \in S, NEW k, NEW l, NEW t, NEW v
    PROVE  /\ Append(q, m) \in Seq(S)
           /\ Mentioned(Append(q, m), k, t) <=> Mentioned(q, k, t) \/ m[k] = t
           /\ Final(Append(q, m), k, l, t, v) <=>
                  \/ m[k] = t /\ m[l] = v
                  \/ m[k] # t /\ Final(q, k, l, t, v)
<1>1. Append(q, m) = q \o <<m>>
    OBVIOUS
<1>0. PICK r : r = <<m>>
    OBVIOUS
<1>2. /\ r \in Seq(S)
      /\ Mentioned(r, k, t) <=> m[k] = t
      /\ Final(r, k, l, t, v) <=> m[k] = t /\ m[l] = v
    BY <1>0, One
<1>3. /\ q \o r \in Seq(S)
      /\ Mentioned(q \o r, k, t) <=> Mentioned(q, k, t) \/ Mentioned(r, k, t)
      /\ Final(q \o r, k, l, t, v) <=>
             Final(r, k, l, t, v) \/ (Final(q, k, l, t, v) /\ ~Mentioned(r, k, t))
    BY <1>2, Joined
<1>4. Append(q, m) = q \o r
    BY <1>0, <1>1
<1> QED
    BY <1>2, <1>3, <1>4

LEMMA Handled ==
    ASSUME NEW S, NEW q \in Seq(S), q # <<>>, NEW k, NEW l, NEW t, NEW v
    PROVE  /\ Tail(q) \in Seq(S) /\ Head(q) \in S
           /\ Mentioned(q, k, t) <=> Head(q)[k] = t \/ Mentioned(Tail(q), k, t)
           /\ Final(q, k, l, t, v) <=>
                  \/ Final(Tail(q), k, l, t, v)
                  \/ Head(q)[k] = t /\ Head(q)[l] = v /\ ~Mentioned(Tail(q), k, t)
<1>1. Head(q) \in S /\ Tail(q) \in Seq(S) /\ q = <<Head(q)>> \o Tail(q)
    BY HeadTailProperties
<1> PICK m : m = Head(q)
    OBVIOUS
<1> PICK one : one = <<m>>
    OBVIOUS
<1> PICK r : r = Tail(q)
    OBVIOUS
<1>2. /\ one \in Seq(S)
      /\ Mentioned(one, k, t) <=> m[k] = t
      /\ Final(one, k, l, t, v) <=> m[k] = t /\ m[l] = v
    BY <1>1, One
<1>3. r \in Seq(S) /\ q = one \o r
    BY <1>1
<1>4. /\ Mentioned(one \o r, k, t) <=> Mentioned(one, k, t) \/ Mentioned(r, k, t)
      /\ Final(one \o r, k, l, t, v) <=>
             Final(r, k, l, t, v) \/ (Final(one, k, l, t, v) /\ ~Mentioned(r, k, t))
    BY <1>2, <1>3, Joined
<1> QED
    BY <1>1, <1>2, <1>3, <1>4

LEMMA AskFacts ==
    ASSUME NEW S \in SUBSET Children, NEW kind \in {"subscribe", "unsubscribe"}, ws
    PROVE  /\ Ask(kind, S) \in Seq(Requests)
           /\ \A t : Mentioned(Ask(kind, S), 2, t) <=> t \in S
           /\ \A t, v : Final(Ask(kind, S), 2, 1, t, v) <=> t \in S /\ v = kind
<1> DEFINE Q == {<<kind, c>> : c \in S}
<1>1. IsFiniteSet(S)
    BY ChildrenAssumption, FS_Subset
<1>2. IsFiniteSet(Q)
    <2>1. [c \in S |-> <<kind, c>>] \in Surjection(S, Q)
        BY DEF Surjection
    <2> QED
        BY <1>1, <2>1, FS_Surjection
<1>3. Q \subseteq Requests /\ \A x \in Q : x[1] = kind /\ x[2] \in S
    BY DEF Requests, Things
<1>4. ASSUME NEW c \in S PROVE \E x \in Q : x[2] = c
    <2>1. <<kind, c>> \in Q /\ <<kind, c>>[2] = c
        OBVIOUS
    <2> QED
        BY <2>1
<1>5. \A x, y \in Q : x[2] = y[2] => x = y
    OBVIOUS
<1> PICK set : set = Q
    OBVIOUS
<1> PICK n : n = Cardinality(set)
    OBVIOUS
<1> PICK f : f = SetToSeq(set)
    OBVIOUS
<1>6. n \in Nat /\ Bijection(1..n, set) # {}
    <2>1. n \in Nat /\ ExistsBijection(1..n, set)
        BY <1>2, FS_CardinalityType
    <2> QED
        BY <2>1 DEF ExistsBijection
<1>7. \E g \in [1..n -> set] : IsInjective(g)
    BY <1>6 DEF Bijection, Injection
<1>8. f \in [1..n -> set] /\ IsInjective(f)
    BY <1>7 DEF SetToSeq
<1>9. f \in Injection(1..n, set)
    BY <1>8 DEF Injection
<1>10. f \in Surjection(1..n, set)
    <2>1. Cardinality(1..n) = n
        BY <1>6, FS_Interval
    <2> QED
        BY <1>2, <1>9, <2>1, FS_Injection
<1>11. /\ f \in Seq(Requests) /\ Len(f) = n
       /\ \A i \in 1..Len(f) : f[i] \in set
       /\ \A i, j \in 1..Len(f) : f[i] = f[j] => i = j
       /\ \A x \in set : \E i \in 1..Len(f) : f[i] = x
    <2>1. f \in [1..n -> Requests]
        BY <1>3, <1>8
    <2>2. f \in Seq(Requests) /\ Len(f) = n
        BY <1>6, <2>1, SeqDef, LenProperties
    <2>3. \A x \in set : \E i \in 1..n : f[i] = x
        BY <1>10 DEF Surjection
    <2> QED
        BY <1>8, <2>2, <2>3 DEF IsInjective
<1>12. Ask(kind, S) = f
    BY DEF Ask
<1>13. ASSUME NEW t PROVE Mentioned(f, 2, t) <=> t \in S
    <2>1. ASSUME NEW i \in 1..Len(f), f[i][2] = t PROVE t \in S
        BY <1>3, <1>11, <2>1
    <2>2. ASSUME t \in S PROVE \E i \in 1..Len(f) : f[i][2] = t
        <3>1. PICK x \in Q : x[2] = t
            BY <1>4, <2>2
        <3>2. PICK i \in 1..Len(f) : f[i] = x
            BY <1>11
        <3> QED
            BY <3>1, <3>2
    <2> QED
        BY <2>1, <2>2 DEF Mentioned
<1>14. ASSUME NEW t, NEW v PROVE Final(f, 2, 1, t, v) <=> t \in S /\ v = kind
    <2>1. ASSUME NEW i \in 1..Len(f), f[i][2] = t PROVE LastAbout(f, 2, t, i) /\ f[i][1] = kind
        <3>1. ASSUME NEW j \in 1..Len(f), j > i, f[j][2] = t PROVE FALSE
            BY <1>5, <1>11, <2>1, <3>1
        <3> QED
            BY <1>3, <1>11, <2>1, <3>1 DEF LastAbout
    <2> QED
        <3>1. ASSUME Final(f, 2, 1, t, v) PROVE t \in S /\ v = kind
            BY <1>3, <1>11, <3>1 DEF Final, LastAbout
        <3>2. ASSUME t \in S, v = kind PROVE Final(f, 2, 1, t, v)
            BY <1>13, <2>1, <3>2 DEF Final, Mentioned
        <3> QED
            BY <3>1, <3>2
<1> QED
    BY <1>11, <1>12, <1>13, <1>14

-----------------------------------------------------------------------------
(* The steps.                                                              *)

LEMMA TwinInitial == ASSUME TwinInit PROVE TwinInv
<1>1. WireTypes
    BY DEF TwinInit, WireTypes, Unknown
<1>2. OneAttempt /\ NothingYet /\ Settling
    BY DEF TwinInit, OneAttempt, NothingYet, Settling
<1> QED
    BY <1>1, <1>2 DEF TwinInv

LEMMA LinkKeeps ==
    ASSUME TwinInv, wire' = wire, children' = children, latest' = latest, ws' => ws
    PROVE  WireTypes' /\ Settling'
<1>1. WireTypes'
    BY DEF TwinInv, WireTypes, wire
<1>2. UNCHANGED <<values, requests, news, subscribed>>
    BY DEF wire
<1>3. Settling'
    BY <1>2 DEF TwinInv, Settling, Aimed, Subscribing, RootAsked, RootComing, StatesComing, Known
<1> QED
    BY <1>1, <1>3

LEMMA ConnectingKeeps == ASSUME TwinInv, Connecting PROVE TwinInv'
<1>1. wire' = wire /\ children' = children /\ latest' = latest /\ ws' = ws
    BY DEF Connecting, StartConnect, StartClient, TimerFires, Subscribe, Assign, link, service
<1>2. OneAttempt'
    BY DEF TwinInv, OneAttempt, Connecting, StartConnect, StartClient, TimerFires, Subscribe,
           Assign, Check, link
<1>3. socket' # "open" => socket # "open"
    BY DEF TwinInv, OneAttempt, Connecting, StartConnect, StartClient, TimerFires, Subscribe,
           Assign, link
<1>4. NothingYet'
    BY <1>1, <1>3 DEF TwinInv, NothingYet, wire, Unknown
<1> QED
    BY <1>1, <1>2, <1>4, LinkKeeps DEF TwinInv

LEMMA StoppingKeeps == ASSUME TwinInv, Stop \/ Stopping PROVE TwinInv'
<1>1. wire' = wire /\ children' = children /\ latest' = latest /\ (ws' => ws)
    BY DEF Stop, Stopping, StopCancel, CancelConnecting, StopClose, CloseSocket, StopHttp, link, service
<1>2. OneAttempt' /\ (socket' # "open" => socket # "open")
    <2>1. ASSUME CancelConnecting
          PROVE  (timer' => timer) /\ socket' \in {socket, "none"} /\ (socket' # socket => socket = "trying")
        BY <2>1 DEF CancelConnecting
    <2>2. UNCHANGED <<connect, start>>
        BY DEF Stop, Stopping, StopCancel, CancelConnecting, StopClose, CloseSocket, StopHttp
    <2>3. CASE CancelConnecting
        BY <2>1, <2>2, <2>3 DEF TwinInv, OneAttempt
    <2>4. CASE Stop \/ StopCancel \/ StopClose \/ CloseSocket \/ StopHttp
        BY <2>2, <2>4 DEF TwinInv, OneAttempt, Stop, StopCancel, StopClose, CloseSocket, StopHttp, link
    <2> QED
        BY <2>3, <2>4 DEF Stopping
<1>3. NothingYet'
    BY <1>1, <1>2 DEF TwinInv, NothingYet, wire, Unknown
<1> QED
    BY <1>1, <1>2, <1>3, LinkKeeps DEF TwinInv

LEMMA ConnectedKeeps == ASSUME TwinInv, Connected PROVE TwinInv'
<1>1. /\ requests' = <<<<"subscribe", Root>>>> /\ news' = <<>> /\ subscribed' = {}
      /\ values' = Unknown /\ UNCHANGED <<children, latest, connect, start, timer>>
      /\ socket = "trying" /\ socket' = "open"
    BY DEF TwinInv, NothingYet, Connected, service, threads
<1>2. WireTypes'
    <2>1. <<"subscribe", Root>> \in Requests
        BY DEF Requests, Things
    <2> QED
        BY <1>1, <2>1 DEF TwinInv, WireTypes, Unknown
<1>3. OneAttempt' /\ NothingYet'
    BY <1>1 DEF TwinInv, OneAttempt, NothingYet
<1>4. Known' = {}
    BY <1>1 DEF Known, Unknown
<1>5. RootAsked' /\ StatesComing'
    BY <1>1, <1>4 DEF RootAsked, StatesComing
<1>6. ASSUME NEW c \in Children PROVE ~Subscribing(c)'
    <2>1. c # Root /\ <<"subscribe", Root>> \in Requests
        BY RootAssumption DEF Requests, Things
    <2>2. ~Final(requests', 2, 1, c, "subscribe")
        BY <1>1, <2>1, One
    <2> QED
        BY <1>1, <2>2 DEF Subscribing
<1> QED
    BY <1>2, <1>3, <1>4, <1>5, <1>6 DEF TwinInv, Settling, Aimed

LEMMA DisconnectedKeeps ==
    ASSUME TwinInv, NEW field, Disconnected(field), socket # "none",
           UNCHANGED <<connect, start, children, latest>>
    PROVE  TwinInv'
<1>1. /\ socket' = "none" /\ ~ws' /\ requests' = <<>> /\ news' = <<>> /\ subscribed' = {}
      /\ values' = Unknown
    BY DEF Disconnected
<1>2. WireTypes'
    BY <1>1 DEF TwinInv, WireTypes, Unknown
<1>3. OneAttempt' /\ NothingYet' /\ Settling'
    BY <1>1 DEF TwinInv, OneAttempt, NothingYet, Settling, Disconnected, Reconnect, Unknown
<1> QED
    BY <1>2, <1>3 DEF TwinInv

\* What only has to do with the wire of an open connection.
LEMMA WireKeeps ==
    ASSUME TwinInv, UNCHANGED <<threads, link>>, socket = "open", WireTypes', ws => Settling'
    PROVE  TwinInv'
BY DEF TwinInv, threads, link, OneAttempt, NothingYet, Settling

\* News that is sent is the last of its thing.
LEMMA Told ==
    ASSUME news \in Seq(News), NEW t, NEW state, <<t, state>> \in News,
           news' = Append(news, <<t, state>>)
    PROVE  /\ news' \in Seq(News)
           /\ \A c : Mentioned(news', 1, c) <=> Mentioned(news, 1, c) \/ t = c
           /\ \A c, v : Final(news', 1, 2, c, v) <=>
                \/ t = c /\ state = v
                \/ t # c /\ Final(news, 1, 2, c, v)
<1>1. PICK m : m = <<t, state>>
    OBVIOUS
<1>2. m \in News /\ m[1] = t /\ m[2] = state
    BY <1>1
<1>3. PICK q : q = Append(news, m)
    OBVIOUS
<1>4. /\ q \in Seq(News)
      /\ \A c : Mentioned(q, 1, c) <=> Mentioned(news, 1, c) \/ t = c
      /\ \A c, v : Final(q, 1, 2, c, v) <=>
            \/ t = c /\ m[2] = v
            \/ t # c /\ Final(news, 1, 2, c, v)
    BY <1>2, <1>3, Added
<1>5. news' = q
    BY <1>1, <1>3
<1> QED
    BY <1>2, <1>4, <1>5

LEMMA ServeKeeps == ASSUME TwinInv, Serve PROVE TwinInv'
<1> DEFINE kind == Head(requests)[1]
           t    == Head(requests)[2]
<1>0. requests \in Seq(Requests) /\ requests # <<>> /\ news \in Seq(News)
    BY DEF TwinInv, WireTypes, Serve
<1>1. /\ Head(requests) \in Requests /\ requests' \in Seq(Requests) /\ requests' = Tail(requests)
      /\ \A c : Mentioned(requests, 2, c) <=> t = c \/ Mentioned(requests', 2, c)
      /\ \A c, v : Final(requests, 2, 1, c, v) <=>
            Final(requests', 2, 1, c, v) \/ (t = c /\ kind = v /\ ~Mentioned(requests', 2, c))
    BY <1>0, Handled DEF Serve
<1>2. t \in Things /\ kind \in {"subscribe", "unsubscribe"}
    BY <1>1 DEF Requests
<1>3. StateOf(t) \in News /\ StateOf(t)[1] = t /\ StateOf(t)[2] = (IF t = Root THEN children ELSE latest[t])
    BY <1>2 DEF TwinInv, WireTypes, StateOf, News, Things
<1>4. /\ UNCHANGED <<threads, link, values, children, latest>> /\ socket = "open"
      /\ kind = "subscribe" => subscribed' = subscribed \cup {t} /\ news' = Append(news, StateOf(t))
      /\ kind # "subscribe" => subscribed' = subscribed \ {t} /\ news' = news
    BY DEF Serve, service
<1>5. kind = "subscribe" =>
          /\ news' \in Seq(News)
          /\ \A c : Mentioned(news', 1, c) <=> Mentioned(news, 1, c) \/ t = c
          /\ \A c, v : Final(news', 1, 2, c, v) <=>
                \/ t = c /\ StateOf(t)[2] = v
                \/ t # c /\ Final(news, 1, 2, c, v)
    <2>1. ASSUME kind = "subscribe"
          PROVE  news' = Append(news, <<t, StateOf(t)[2]>>) /\ <<t, StateOf(t)[2]>> \in News
        BY <1>3, <1>4, <2>1 DEF StateOf
    <2> HIDE DEF kind, t
    <2> QED
        BY <1>0, <2>1, Told
<1> HIDE DEF kind, t
<1>6. WireTypes'
    BY <1>0, <1>1, <1>2, <1>4, <1>5 DEF TwinInv, WireTypes
<1>7. Known' = Known
    BY <1>4 DEF Known
<1>8. ASSUME ws PROVE Settling'
    <2>0. Aimed /\ (RootAsked \/ RootComing) /\ StatesComing
        BY <1>8 DEF TwinInv, Settling
    <2>1. ASSUME NEW c \in Children PROVE Subscribing(c)' <=> Subscribing(c)
        <3>1. CASE t = c /\ ~Mentioned(requests', 2, c)
            <4>1. ~Final(requests', 2, 1, c, "subscribe")
                BY <3>1, FinalMentioned
            <4>2. Subscribing(c)' <=> c \in subscribed'
                BY <3>1, <4>1 DEF Subscribing
            <4>3. Subscribing(c) <=> kind = "subscribe"
                BY <1>1, <3>1, <4>1 DEF Subscribing
            <4> QED
                BY <1>4, <3>1, <4>2, <4>3
        <3>2. CASE t = c /\ Mentioned(requests', 2, c)
            BY <1>1, <3>2 DEF Subscribing
        <3>3. CASE t # c
            BY <1>1, <1>4, <3>3 DEF Subscribing
        <3> QED
            BY <3>1, <3>2, <3>3
    <2>2. Aimed'
        BY <1>7, <2>0, <2>1 DEF Aimed
    <2>3. RootComing'
        <3>1. CASE RootAsked
            <4>1. requests' = <<>> /\ kind = "subscribe" /\ t = Root
                BY <1>1, <3>1 DEF RootAsked, kind, t
            <4>2. ~Mentioned(requests', 2, Root)
                BY <4>1, Nothing
            <4>3. Final(news', 1, 2, Root, children')
                BY <1>3, <1>4, <1>5, <4>1
            <4> QED
                BY <1>4, <4>1, <4>2, <4>3 DEF RootComing
        <3>2. CASE RootComing
            <4>1. t # Root /\ ~Mentioned(requests', 2, Root)
                BY <1>1, <3>2 DEF RootComing
            <4>2. Root \in subscribed'
                BY <1>4, <3>2, <4>1 DEF RootComing
            <4>3. /\ Final(news, 1, 2, Root, children) => Final(news', 1, 2, Root, children')
                  /\ ~Mentioned(news, 1, Root) => ~Mentioned(news', 1, Root)
                BY <1>4, <1>5, <4>1
            <4> QED
                BY <1>4, <1>7, <3>2, <4>1, <4>2, <4>3 DEF RootComing
        <3> QED
            BY <2>0, <3>1, <3>2
    <2>4. ASSUME NEW c \in Known', ~Mentioned(requests', 2, c)
          PROVE  Final(news', 1, 2, c, latest'[c]) \/ (~Mentioned(news', 1, c) /\ values'[c] = latest'[c])
        <3>0. c \in Children /\ c \in Known /\ c # Root
            BY <1>7, RootAssumption DEF Known
        <3>1. CASE t = c
            <4>1. Subscribing(c)
                BY <2>0, <3>0 DEF Aimed
            <4>2. ~Final(requests', 2, 1, c, "subscribe")
                BY <2>4, FinalMentioned
            <4>3. kind = "subscribe"
                BY <1>1, <3>1, <4>1, <4>2 DEF Subscribing
            <4> QED
                BY <1>3, <1>4, <1>5, <3>0, <3>1, <4>3
        <3>2. CASE t # c
            <4>1. ~Mentioned(requests, 2, c)
                BY <1>1, <2>4, <3>2
            <4>2. Final(news, 1, 2, c, latest[c]) \/ (~Mentioned(news, 1, c) /\ values[c] = latest[c])
                BY <2>0, <3>0, <4>1 DEF StatesComing
            <4> QED
                BY <1>4, <1>5, <3>2, <4>2
        <3> QED
            BY <3>1, <3>2
    <2> QED
        BY <2>2, <2>3, <2>4 DEF Settling, StatesComing
<1> QED
    BY <1>4, <1>6, <1>8, WireKeeps

LEMMA ChildChangesKeeps == ASSUME TwinInv, NEW d \in Children, ChildChanges(d) PROVE TwinInv'
<1>0. /\ UNCHANGED <<threads, link, values, requests, subscribed, children>>
      /\ latest' = [latest EXCEPT ![d] = latest[d] + 1] /\ Tell(d, latest[d] + 1)
    BY DEF ChildChanges
<1>1. /\ latest' \in [Children -> Nat] /\ latest'[d] = latest[d] + 1
      /\ \A c \in Children : c # d => latest'[c] = latest[c]
    BY <1>0 DEF TwinInv, WireTypes
<1>2. d # Root /\ <<d, latest[d] + 1>> \in News /\ news \in Seq(News)
    BY RootAssumption DEF TwinInv, WireTypes, News
<1>3. d \in subscribed =>
          /\ news' \in Seq(News)
          /\ \A c : Mentioned(news', 1, c) <=> Mentioned(news, 1, c) \/ d = c
          /\ \A c, v : Final(news', 1, 2, c, v) <=>
                \/ d = c /\ latest[d] + 1 = v
                \/ d # c /\ Final(news, 1, 2, c, v)
    BY <1>0, <1>2, Told DEF Tell
<1>4. d \notin subscribed => news' = news
    BY <1>0 DEF Tell
<1>5. WireTypes'
    BY <1>0, <1>1, <1>2, <1>3, <1>4 DEF TwinInv, WireTypes
<1>6. Known' = Known
    BY <1>0 DEF Known
<1>7. ASSUME ws PROVE Settling'
    <2>0. Aimed /\ (RootAsked \/ RootComing) /\ StatesComing
        BY <1>7 DEF TwinInv, Settling
    <2>1. Aimed'
        BY <1>0, <1>6, <2>0 DEF Aimed, Subscribing
    <2>2. RootAsked' \/ RootComing'
        <3>1. CASE RootAsked
            BY <1>0, <1>4, <1>6, <3>1 DEF RootAsked
        <3>2. CASE RootComing
            <4>1. /\ Final(news, 1, 2, Root, children) => Final(news', 1, 2, Root, children)
                  /\ ~Mentioned(news, 1, Root) => ~Mentioned(news', 1, Root)
                BY <1>2, <1>3, <1>4
            <4> QED
                BY <1>0, <1>6, <3>2, <4>1 DEF RootComing
        <3> QED
            BY <2>0, <3>1, <3>2
    <2>3. ASSUME NEW c \in Known', ~Mentioned(requests', 2, c)
          PROVE  Final(news', 1, 2, c, latest'[c]) \/ (~Mentioned(news', 1, c) /\ values'[c] = latest'[c])
        <3>0. c \in Children /\ c \in Known /\ ~Mentioned(requests, 2, c)
            BY <1>0, <1>6, <2>3 DEF Known
        <3>1. c \in subscribed
            <4>1. Subscribing(c)
                BY <2>0, <3>0 DEF Aimed
            <4>2. ~Final(requests, 2, 1, c, "subscribe")
                BY <3>0, FinalMentioned
            <4> QED
                BY <4>1, <4>2 DEF Subscribing
        <3>2. Final(news, 1, 2, c, latest[c]) \/ (~Mentioned(news, 1, c) /\ values[c] = latest[c])
            BY <2>0, <3>0 DEF StatesComing
        <3>3. CASE c = d
            BY <1>1, <1>3, <3>1, <3>3
        <3>4. CASE c # d
            BY <1>0, <1>1, <1>3, <1>4, <3>0, <3>2, <3>4
        <3> QED
            BY <3>3, <3>4
    <2> QED
        BY <2>1, <2>2, <2>3 DEF Settling, StatesComing
<1>8. CASE socket = "open"
    BY <1>0, <1>5, <1>7, <1>8, WireKeeps
<1>9. CASE socket # "open"
    <2>1. d \notin subscribed /\ ~ws
        BY <1>9 DEF TwinInv, NothingYet
    <2> QED
        BY <1>0, <1>4, <1>5, <1>9, <2>1
        DEF TwinInv, OneAttempt, NothingYet, Settling, threads, link, Unknown
<1> QED
    BY <1>8, <1>9

LEMMA RootChangesKeeps == ASSUME TwinInv, RootChanges PROVE TwinInv'
<1>0. /\ UNCHANGED <<threads, link, values, requests, subscribed, latest>>
      /\ children' \subseteq Children /\ Tell(Root, children')
    BY DEF RootChanges
<1>2. <<Root, children'>> \in News /\ news \in Seq(News)
    BY <1>0 DEF TwinInv, WireTypes, News
<1>3. Root \in subscribed =>
          /\ news' \in Seq(News)
          /\ \A c : Mentioned(news', 1, c) <=> Mentioned(news, 1, c) \/ Root = c
          /\ \A c, v : Final(news', 1, 2, c, v) <=>
                \/ Root = c /\ children' = v
                \/ Root # c /\ Final(news, 1, 2, c, v)
    <2>1. PICK S : S = children'
        OBVIOUS
    <2>2. <<Root, S>> \in News /\ (Root \in subscribed => news' = Append(news, <<Root, S>>))
        BY <1>0, <1>2, <2>1 DEF Tell
    <2>3. Root \in subscribed =>
              /\ news' \in Seq(News)
              /\ \A c : Mentioned(news', 1, c) <=> Mentioned(news, 1, c) \/ Root = c
              /\ \A c, v : Final(news', 1, 2, c, v) <=>
                    \/ Root = c /\ S = v
                    \/ Root # c /\ Final(news, 1, 2, c, v)
        BY <1>2, <2>2, Told
    <2> QED
        BY <2>1, <2>3
<1>4. Root \notin subscribed => news' = news
    BY <1>0 DEF Tell
<1>5. WireTypes'
    BY <1>0, <1>2, <1>3, <1>4 DEF TwinInv, WireTypes
<1>6. Known' = Known
    BY <1>0 DEF Known
<1>7. ASSUME ws PROVE Settling'
    <2>0. Aimed /\ (RootAsked \/ RootComing) /\ StatesComing
        BY <1>7 DEF TwinInv, Settling
    <2>1. Aimed'
        BY <1>0, <1>6, <2>0 DEF Aimed, Subscribing
    <2>2. RootAsked' \/ RootComing'
        <3>1. CASE RootAsked
            BY <1>0, <1>4, <1>6, <3>1 DEF RootAsked
        <3>2. CASE RootComing
            BY <1>0, <1>3, <3>2 DEF RootComing
        <3> QED
            BY <2>0, <3>1, <3>2
    <2>3. ASSUME NEW c \in Known', ~Mentioned(requests', 2, c)
          PROVE  Final(news', 1, 2, c, latest'[c]) \/ (~Mentioned(news', 1, c) /\ values'[c] = latest'[c])
        <3>0. c # Root /\ c \in Known /\ ~Mentioned(requests, 2, c)
            BY <1>0, <1>6, <2>3, RootAssumption DEF Known
        <3>1. Final(news, 1, 2, c, latest[c]) \/ (~Mentioned(news, 1, c) /\ values[c] = latest[c])
            BY <2>0, <3>0 DEF StatesComing
        <3> QED
            BY <1>0, <1>3, <1>4, <3>0, <3>1
    <2> QED
        BY <2>1, <2>2, <2>3 DEF Settling, StatesComing
<1>8. CASE socket = "open"
    BY <1>0, <1>5, <1>7, <1>8, WireKeeps
<1>9. CASE socket # "open"
    <2>1. Root \notin subscribed /\ ~ws
        BY <1>9 DEF TwinInv, NothingYet
    <2> QED
        BY <1>0, <1>4, <1>5, <1>9, <2>1
        DEF TwinInv, OneAttempt, NothingYet, Settling, threads, link, Unknown
<1> QED
    BY <1>8, <1>9

\* setRoot: what is new is asked for and what is gone asked to stop, after all that
\* was asked for before.
LEMMA SetRootAsks ==
    ASSUME TwinInv, ws, NEW S \in SUBSET Children, SetRoot(S)
    PROVE  /\ values' \in [Children -> Nat \cup {Unlisted}] /\ Known' = S
           /\ \A c \in Known \cap S : values'[c] = values[c]
           /\ requests' \in Seq(Requests)
           /\ \A t : Mentioned(requests', 2, t) <=>
                  Mentioned(requests, 2, t) \/ t \in S \ Known \/ t \in Known \ S
           /\ \A t : Final(requests', 2, 1, t, "subscribe") <=>
                  \/ t \in S \ Known
                  \/ t \notin Known \ S /\ Final(requests, 2, 1, t, "subscribe")
<1>0. requests \in Seq(Requests) /\ values \in [Children -> Nat \cup {Unlisted}]
    BY DEF TwinInv, WireTypes
<1>1. /\ values' \in [Children -> Nat \cup {Unlisted}]
      /\ \A c \in Known \cap S : values'[c] = values[c]
    BY <1>0 DEF SetRoot, Known
<1>2. Known' = S
    BY <1>0, UnlistedAssumption DEF SetRoot, Known
<1>3. Known \subseteq Children
    BY DEF Known
<1>4. PICK new : new = S \ Known
    OBVIOUS
<1>5. PICK gone : gone = Known \ S
    OBVIOUS
<1>6. PICK add : add = Ask("subscribe", new)
    OBVIOUS
<1>7. PICK remove : remove = Ask("unsubscribe", gone)
    OBVIOUS
<1>8. /\ add \in Seq(Requests)
      /\ \A t : Mentioned(add, 2, t) <=> t \in new
      /\ \A t, v : Final(add, 2, 1, t, v) <=> t \in new /\ v = "subscribe"
    BY <1>4, <1>6, AskFacts
<1>9. /\ remove \in Seq(Requests)
      /\ \A t : Mentioned(remove, 2, t) <=> t \in gone
      /\ \A t, v : Final(remove, 2, 1, t, v) <=> t \in gone /\ v = "unsubscribe"
    BY <1>3, <1>5, <1>7, AskFacts
<1>10. PICK first : first = requests \o add
    OBVIOUS
<1>11. PICK all : all = first \o remove
    OBVIOUS
<1>12. requests' = all
    BY <1>4, <1>5, <1>6, <1>7, <1>10, <1>11 DEF SetRoot
<1>13. /\ first \in Seq(Requests)
       /\ \A t : Mentioned(first, 2, t) <=> Mentioned(requests, 2, t) \/ t \in new
       /\ \A t : Final(first, 2, 1, t, "subscribe") <=>
              t \in new \/ (Final(requests, 2, 1, t, "subscribe") /\ t \notin new)
    BY <1>0, <1>8, <1>10, Joined
<1>14. /\ all \in Seq(Requests)
       /\ \A t : Mentioned(all, 2, t) <=> Mentioned(first, 2, t) \/ t \in gone
       /\ \A t : Final(all, 2, 1, t, "subscribe") <=>
              Final(first, 2, 1, t, "subscribe") /\ t \notin gone
    BY <1>9, <1>11, <1>13, Joined
<1> QED
    BY <1>1, <1>2, <1>4, <1>5, <1>12, <1>13, <1>14

\* Without a connection nothing is asked for.
LEMMA SetRootSilent ==
    ASSUME TwinInv, ~ws, NEW S \in SUBSET Children, SetRoot(S)
    PROVE  values' \in [Children -> Nat \cup {Unlisted}] /\ requests' \in Seq(Requests)
<1>1. requests \in Seq(Requests) /\ values \in [Children -> Nat \cup {Unlisted}]
    BY DEF TwinInv, WireTypes
<1>2. requests' = (requests \o <<>>) \o <<>>
    BY DEF SetRoot, Ask
<1>3. <<>> \in Seq(Requests) /\ requests \o <<>> = requests
    BY <1>1
<1>4. values' \in [Children -> Nat \cup {Unlisted}]
    BY <1>1 DEF SetRoot, Known
<1> QED
    BY <1>1, <1>2, <1>3, <1>4

LEMMA OnMessageKeeps == ASSUME TwinInv, OnMessage PROVE TwinInv'
<1>0. /\ UNCHANGED <<threads, link, subscribed, children, latest>> /\ socket = "open"
      /\ news \in Seq(News) /\ news # <<>> /\ news' = Tail(news)
    BY DEF OnMessage, TwinInv, WireTypes, service
<1>1. PICK m : m = Head(news)
    OBVIOUS
<1>2. PICK rest : rest = Tail(news)
    OBVIOUS
<1>3. /\ m \in News /\ rest \in Seq(News) /\ news' = rest
      /\ \A t : Mentioned(news, 1, t) <=> m[1] = t \/ Mentioned(rest, 1, t)
      /\ \A t, v : Final(news, 1, 2, t, v) <=>
            Final(rest, 1, 2, t, v) \/ (m[1] = t /\ m[2] = v /\ ~Mentioned(rest, 1, t))
    BY <1>0, <1>1, <1>2, Handled
<1>4. ASSUME ws PROVE Aimed /\ RootComing /\ StatesComing
    BY <1>0, <1>4 DEF TwinInv, Settling, RootAsked
<1>5. CASE m[1] = Root
    <2>1. m[2] \in SUBSET Children /\ SetRoot(m[2])
        BY <1>1, <1>3, <1>5, RootAssumption DEF OnMessage, News
    <2>2. PICK S \in SUBSET Children : S = m[2] /\ SetRoot(S)
        BY <2>1
    <2>3. WireTypes'
        <3>1. values' \in [Children -> Nat \cup {Unlisted}] /\ requests' \in Seq(Requests)
            BY <2>2, SetRootAsks, SetRootSilent
        <3> QED
            BY <1>0, <1>3, <3>1 DEF TwinInv, WireTypes
    <2>4. ASSUME ws PROVE Settling'
        <3>0. /\ Known' = S
              /\ \A c \in Known \cap S : values'[c] = values[c]
              /\ \A t : Mentioned(requests', 2, t) <=>
                     Mentioned(requests, 2, t) \/ t \in S \ Known \/ t \in Known \ S
              /\ \A t : Final(requests', 2, 1, t, "subscribe") <=>
                     \/ t \in S \ Known
                     \/ t \notin Known \ S /\ Final(requests, 2, 1, t, "subscribe")
            BY <2>2, <2>4, SetRootAsks
        <3>1. Known \subseteq Children
            BY DEF Known
        <3>2. ASSUME NEW c \in Children PROVE Subscribing(c)' <=> c \in S
            <4>1. CASE c \in S \ Known
                BY <3>0, <4>1 DEF Subscribing
            <4>2. CASE c \in Known \ S
                BY <3>0, <4>2 DEF Subscribing
            <4>3. CASE c \notin S \ Known /\ c \notin Known \ S
                <5>1. Subscribing(c)' <=> Subscribing(c)
                    BY <1>0, <3>0, <4>3 DEF Subscribing
                <5> QED
                    BY <1>4, <2>4, <4>3, <5>1 DEF Aimed
            <4> QED
                BY <4>1, <4>2, <4>3
        <3>3. Aimed'
            BY <3>0, <3>2 DEF Aimed
        <3>4. RootComing'
            <4>1. ~Mentioned(requests', 2, Root) /\ Root \in subscribed'
                BY <1>0, <1>4, <2>4, <3>0, <3>1, RootAssumption DEF RootComing
            <4>2. Mentioned(news, 1, Root)
                BY <1>3, <1>5
            <4>3. Final(news, 1, 2, Root, children)
                BY <1>4, <2>4, <4>2 DEF RootComing
            <4>4. Final(rest, 1, 2, Root, children) \/ (S = children /\ ~Mentioned(rest, 1, Root))
                BY <1>3, <2>2, <4>3
            <4> QED
                BY <1>0, <1>3, <3>0, <4>1, <4>4 DEF RootComing
        <3>5. ASSUME NEW c \in Known', ~Mentioned(requests', 2, c)
              PROVE  Final(news', 1, 2, c, latest'[c]) \/ (~Mentioned(news', 1, c) /\ values'[c] = latest'[c])
            <4>1. c \in Known \cap S /\ ~Mentioned(requests, 2, c) /\ values'[c] = values[c] /\ c # Root
                BY <3>0, <3>1, <3>5, RootAssumption
            <4>2. Final(news, 1, 2, c, latest[c]) \/ (~Mentioned(news, 1, c) /\ values[c] = latest[c])
                BY <1>4, <2>4, <4>1 DEF StatesComing
            <4> QED
                BY <1>0, <1>3, <1>5, <4>1, <4>2
        <3> QED
            BY <3>3, <3>4, <3>5 DEF Settling, StatesComing
    <2> QED
        BY <1>0, <2>3, <2>4, WireKeeps
<1>6. CASE m[1] # Root
    <2>1. PICK d \in Children, v \in Nat : m[1] = d /\ m[2] = v
        BY <1>3, <1>6 DEF News
    <2>2. requests' = requests /\ values' = IF d \in Known THEN [values EXCEPT ![d] = v] ELSE values
        BY <1>1, <1>6, <2>1 DEF OnMessage, SetThing
    <2>3. /\ values' \in [Children -> Nat \cup {Unlisted}]
          /\ d \in Known => values'[d] = v
          /\ \A c \in Children : c # d => values'[c] = values[c]
          /\ d \notin Known => values' = values
        BY <2>2 DEF TwinInv, WireTypes
    <2>4. Known' = Known
        BY <2>3, UnlistedAssumption DEF Known
    <2>5. WireTypes'
        BY <1>0, <1>3, <2>2, <2>3 DEF TwinInv, WireTypes
    <2>6. ASSUME ws PROVE Settling'
        <3>1. Aimed'
            BY <1>0, <1>4, <2>2, <2>4, <2>6 DEF Aimed, Subscribing
        <3>2. RootComing'
            <4>1. /\ Final(news, 1, 2, Root, children) => Final(rest, 1, 2, Root, children)
                  /\ ~Mentioned(news, 1, Root) => ~Mentioned(rest, 1, Root)
                BY <1>3, <1>6
            <4> QED
                BY <1>0, <1>3, <1>4, <2>2, <2>4, <2>6, <4>1 DEF RootComing
        <3>3. ASSUME NEW c \in Known', ~Mentioned(requests', 2, c)
              PROVE  Final(news', 1, 2, c, latest'[c]) \/ (~Mentioned(news', 1, c) /\ values'[c] = latest'[c])
            <4>1. c \in Children /\ c \in Known /\ ~Mentioned(requests, 2, c)
                BY <2>2, <2>4, <3>3 DEF Known
            <4>2. Final(news, 1, 2, c, latest[c]) \/ (~Mentioned(news, 1, c) /\ values[c] = latest[c])
                BY <1>4, <2>6, <4>1 DEF StatesComing
            <4>3. CASE c = d
                BY <1>0, <1>3, <2>1, <2>3, <4>1, <4>2, <4>3
            <4>4. CASE c # d
                BY <1>0, <1>3, <2>1, <2>3, <4>1, <4>2, <4>4
            <4> QED
                BY <4>3, <4>4
        <3> QED
            BY <3>1, <3>2, <3>3 DEF Settling, StatesComing
    <2> QED
        BY <1>0, <2>5, <2>6, WireKeeps
<1> QED
    BY <1>5, <1>6

LEMMA TwinStep == ASSUME TwinInv, [TwinNext]_twinVars PROVE TwinInv'
<1>1. CASE Connecting
    BY <1>1, ConnectingKeeps
<1>2. CASE Connected
    BY <1>2, ConnectedKeeps
<1>3. CASE Failed \/ Closed
    <2>1. /\ \E field \in {"null", connecting} : Disconnected(field)
          /\ socket # "none" /\ UNCHANGED <<connect, start, children, latest>>
        BY <1>3 DEF Failed, Closed, threads, service
    <2> QED
        BY <2>1, DisconnectedKeeps
<1>4. CASE Stop \/ Stopping
    BY <1>4, StoppingKeeps
<1>5. CASE OnMessage
    BY <1>5, OnMessageKeeps
<1>6. CASE Serve
    BY <1>6, ServeKeeps
<1>7. CASE RootChanges
    BY <1>7, RootChangesKeeps
<1>8. ASSUME NEW c \in Children, ChildChanges(c) PROVE TwinInv'
    BY <1>8, ChildChangesKeeps
<1>9. CASE UNCHANGED twinVars
    <2>1. /\ wire' = wire /\ children' = children /\ latest' = latest /\ ws' = ws
          /\ UNCHANGED <<socket, timer, connect, start>>
        BY <1>9 DEF twinVars, threads, link, service
    <2>2. OneAttempt' /\ NothingYet'
        BY <2>1 DEF TwinInv, OneAttempt, NothingYet, wire, Unknown
    <2> QED
        BY <2>1, <2>2, LinkKeeps DEF TwinInv
<1> QED
    BY <1>1, <1>2, <1>3, <1>4, <1>5, <1>6, <1>7, <1>8, <1>9 DEF TwinNext

\* What is under way on the wire of the connector always leads to what the service
\* has.
THEOREM TwinInvariant == TwinSpec => []TwinInv
BY TwinInitial, TwinStep, PTL DEF TwinSpec

\* When nothing is under way on an open connection, the dashboard knows the root's
\* children and no others and the latest state of each, and is subscribed to them,
\* for any number of children, states, changes and reconnects.
THEOREM AllSettled == TwinSpec => []Settled
<1>1. ASSUME TwinInv PROVE Settled
    <2> SUFFICES ASSUME ws, requests = <<>>, news = <<>>
                 PROVE  /\ Known = children
                        /\ subscribed = children \cup {Root}
                        /\ \A c \in children : values[c] = latest[c]
        BY DEF Settled
    <2>1. /\ \A t : ~Mentioned(requests, 2, t) /\ ~Mentioned(news, 1, t)
          /\ \A t, v : ~Final(requests, 2, 1, t, v) /\ ~Final(news, 1, 2, t, v)
        BY Nothing
    <2>2. Aimed /\ RootComing /\ StatesComing
        BY <1>1 DEF TwinInv, Settling, RootAsked
    <2>3. Known = children /\ Root \in subscribed
        BY <2>1, <2>2 DEF RootComing
    <2>4. \A c \in Children : c \in subscribed <=> c \in Known
        BY <2>1, <2>2 DEF Aimed, Subscribing
    <2>5. subscribed \subseteq Children \cup {Root} /\ children \subseteq Children
        BY <1>1 DEF TwinInv, WireTypes, Things
    <2> QED
        BY <2>1, <2>2, <2>3, <2>4, <2>5 DEF StatesComing
<1> QED
    BY <1>1, TwinInvariant, PTL

-----------------------------------------------------------------------------
(***************************************************************************)
(* The pages.                                                              *)
(*                                                                         *)
(* NothingHeldBack is not inductive by itself: a thread counts as about to *)
(* push a page only while its place and its page agree, which is what      *)
(* Placed adds.                                                            *)
(***************************************************************************)

\* A thread has a page exactly while it works, a page's thread only its own, and
\* none before the page is opened.
Placed ==
    /\ \A t \in Threads : on[t] = None <=> at[t] = "idle"
    /\ \A p \in Pages : on[p] \in {None, p}
    /\ \A t \in Threads : at[t] = "put" => t \in Pages
    /\ \A p \in Pages : page[p] = "new" => at[p] = "idle"
    /\ \A p \in connections : page[p] = "open"

IndInv == TypeOK /\ Placed /\ NothingHeldBack

\* The dashboard starts without pages to push to.
LEMMA InitIndInv == Init => IndInv
  <1>1. ASSUME Init PROVE TypeOK
    <2>1. (CHOOSE s \in Sortings : TRUE) \in Sortings
      BY ContentAssumption
    <2>2. QED
      BY <1>1, <2>1, ContentAssumption DEF Init, TypeOK, Threads
  <1>2. ASSUME Init PROVE Placed /\ NothingHeldBack
    BY <1>2, ThreadsAssumption DEF Init, Placed, NothingHeldBack, Threads
  <1>3. QED
    BY <1>1, <1>2 DEF IndInv

\* Every step of a thread preserves the invariant.
LEMMA NextIndInv == IndInv /\ [Next]_vars => IndInv'
  <1> SUFFICES ASSUME IndInv, [Next]_vars PROVE IndInv'
    OBVIOUS
  <1>0. TypeOK /\ Placed /\ NothingHeldBack
    BY DEF IndInv
  <1>1. CASE SetState
    <2>1. TypeOK'
      BY <1>0, <1>1, ContentAssumption DEF SetState, TypeOK, connection, thread
    <2>2. Placed' /\ NothingHeldBack'
      BY <1>0, <1>1 DEF SetState, Placed, NothingHeldBack, connection, thread
    <2>3. QED
      BY <2>1, <2>2 DEF IndInv
  <1>2. ASSUME NEW p \in Pages, UpdatePage(p) PROVE IndInv'
    <2>1. TypeOK'
      BY <1>0, <1>2 DEF UpdatePage, Goto, TypeOK, connection, ghost, Threads
    <2>2. Placed'
      BY <1>0, <1>2, ThreadsAssumption, NoneAssumption DEF UpdatePage, Goto, TypeOK, Placed, Threads
    <2>3. NothingHeldBack'
      BY <1>0, <1>2 DEF UpdatePage, Goto, TypeOK, NothingHeldBack, connection, Threads
    <2>4. QED
      BY <2>1, <2>2, <2>3 DEF IndInv
  <1>3. ASSUME NEW p \in Pages, Open(p) PROVE IndInv'
    <2>1. TypeOK'
      BY <1>0, <1>3 DEF Open, Goto, TypeOK, ghost, Threads
    <2>2. Placed'
      BY <1>0, <1>3, NoneAssumption DEF Open, Goto, TypeOK, Placed, Threads
    <2>3. NothingHeldBack'
      BY <1>0, <1>3, NoneAssumption DEF Open, Goto, TypeOK, Placed, NothingHeldBack, Threads
    <2>4. QED
      BY <2>1, <2>2, <2>3 DEF IndInv
  <1>4. ASSUME NEW p \in Pages, Put(p) PROVE IndInv'
    <2>1. TypeOK'
      BY <1>0, <1>4 DEF Put, Goto, Return, TypeOK, Threads, connection, ghost
    <2>2. Placed'
      BY <1>0, <1>4, ThreadsAssumption, NoneAssumption
         DEF Put, Goto, Return, TypeOK, Placed, Threads
    <2>3. NothingHeldBack'
      BY <1>0, <1>4, NoneAssumption DEF Put, Goto, Return, TypeOK, Placed, NothingHeldBack, Threads, connection
    <2>4. QED
      BY <2>1, <2>2, <2>3 DEF IndInv
  <1>5. ASSUME NEW p \in Pages, Resort(p) PROVE IndInv'
    <2>1. TypeOK'
      BY <1>0, <1>5 DEF Resort, Goto, Return, TypeOK, Threads, ghost
    <2>2. Placed'
      BY <1>0, <1>5, ThreadsAssumption, NoneAssumption
         DEF Resort, Goto, Return, TypeOK, Placed, Threads
    <2>3. NothingHeldBack'
      BY <1>0, <1>5, NoneAssumption DEF Resort, Goto, Return, TypeOK, Placed, NothingHeldBack, Threads, ghost
    <2>4. QED
      BY <2>1, <2>2, <2>3 DEF IndInv
  <1>6. ASSUME NEW p \in Pages, Close(p) PROVE IndInv'
    <2>1. TypeOK'
      BY <1>0, <1>6 DEF Close, TypeOK, Threads, connection, thread, ghost
    <2>2. Placed'
      BY <1>0, <1>6, ThreadsAssumption, NoneAssumption
         DEF Close, TypeOK, Placed, thread, Threads
    <2>3. NothingHeldBack'
      BY <1>0, <1>6, NoneAssumption DEF Close, TypeOK, Placed, NothingHeldBack, Threads, connection, thread
    <2>4. QED
      BY <2>1, <2>2, <2>3 DEF IndInv
  <1>7. ASSUME NEW p \in Pages, Tick(p) PROVE IndInv'
    <2>1. TypeOK'
      BY <1>0, <1>7 DEF Tick, Goto, Return, TypeOK, Threads, connection, ghost
    <2>2. Placed'
      BY <1>0, <1>7, ThreadsAssumption, NoneAssumption
         DEF Tick, Goto, Return, TypeOK, Placed, Threads
    <2>3. NothingHeldBack'
      BY <1>0, <1>7, NoneAssumption DEF Tick, Goto, Return, TypeOK, Placed, NothingHeldBack, Threads, connection
    <2>4. QED
      BY <2>1, <2>2, <2>3 DEF IndInv
  <1>8. ASSUME NEW p \in Pages, Pass(p) PROVE IndInv'
    <2>1. TypeOK'
      BY <1>0, <1>8 DEF Pass, TypeOK, Threads, thread, ghost
    <2>2. Placed'
      BY <1>0, <1>8, ThreadsAssumption, NoneAssumption
         DEF Pass, TypeOK, Placed, thread, Threads
    <2>3. NothingHeldBack'
      BY <1>0, <1>8, NoneAssumption DEF Pass, TypeOK, Placed, NothingHeldBack, Threads, thread
    <2>4. QED
      BY <2>1, <2>2, <2>3 DEF IndInv
  <1>9. ASSUME NEW t \in Threads, Render(t) PROVE IndInv'
    <2>1. TypeOK'
      <3>1. on[t] \in Pages
        BY <1>0, <1>9 DEF Render, TypeOK, Placed
      <3>2. QED
        BY <1>0, <1>9, <3>1 DEF Render, Goto, Return, TypeOK, Threads, Content, connection
    <2>2. Placed'
      BY <1>0, <1>9, ThreadsAssumption, NoneAssumption
         DEF Render, Goto, Return, TypeOK, Placed, Threads
    <2>3. NothingHeldBack'
      BY <1>0, <1>9, NoneAssumption DEF Render, Goto, Return, TypeOK, Placed, NothingHeldBack, Threads, connection
    <2>4. QED
      BY <2>1, <2>2, <2>3 DEF IndInv
  <1>10. ASSUME NEW t \in Threads, Keep(t) PROVE IndInv'
    <2>1. TypeOK'
      BY <1>0, <1>10 DEF Keep, Goto, Return, TypeOK, Threads, ghost
    <2>2. Placed'
      BY <1>0, <1>10, ThreadsAssumption, NoneAssumption
         DEF Keep, Goto, Return, TypeOK, Placed, Threads
    <2>3. NothingHeldBack'
      BY <1>0, <1>10, NoneAssumption DEF Keep, Goto, Return, TypeOK, Placed, NothingHeldBack, Threads, Forced
    <2>4. QED
      BY <2>1, <2>2, <2>3 DEF IndInv
  <1>11. ASSUME NEW t \in Threads, Hold(t) PROVE IndInv'
    <2>1. TypeOK'
      <3>1. on[t] \in Pages
        BY <1>0, <1>11 DEF Hold, TypeOK, Placed
      <3>2. QED
        BY <1>0, <1>11, <3>1 DEF Hold, Goto, Return, TypeOK, Threads, ghost
    <2>2. Placed'
      BY <1>0, <1>11, ThreadsAssumption, NoneAssumption
         DEF Hold, Goto, Return, TypeOK, Placed, Threads
    <2>3. NothingHeldBack'
      BY <1>0, <1>11, NoneAssumption DEF Hold, Goto, Return, TypeOK, Placed, NothingHeldBack, Threads, ghost
    <2>4. QED
      BY <2>1, <2>2, <2>3 DEF IndInv
  <1>12. ASSUME NEW t \in Threads, SendContent(t) PROVE IndInv'
    <2>1. TypeOK'
      <3>1. on[t] \in Pages
        BY <1>0, <1>12 DEF SendContent, TypeOK, Placed
      <3>2. /\ UNCHANGED <<version, connections, todo, page, sortBy, lastContent, rendered>>
            /\ UNCHANGED <<missed, crossed>>
        BY <1>12 DEF SendContent, ghost
      <3>3. /\ at' \in [Threads -> {"idle", "render", "keep", "send", "push", "hold", "put"}]
            /\ on' \in [Threads -> Pages \cup {None}]
        BY <1>0, <1>12, <3>1 DEF SendContent, Goto, Return, TypeOK, Threads
      <3>4. needSend' \in [Pages -> BOOLEAN] /\ held' \in [Pages -> BOOLEAN]
        BY <1>0, <1>12, <3>1, Zenon DEF SendContent, TypeOK
      <3>5. shown' \in [Pages -> Content \cup {None}]
        BY <1>0, <1>12, <3>1 DEF SendContent, TypeOK
      <3>6. QED
        BY <1>0, <3>2, <3>3, <3>4, <3>5 DEF TypeOK, Content
    <2>2. Placed'
      BY <1>0, <1>12, ThreadsAssumption, NoneAssumption
         DEF SendContent, Goto, Return, TypeOK, Placed, Threads
    <2>3. NothingHeldBack'
      BY <1>0, <1>12, NoneAssumption DEF SendContent, Goto, Return, TypeOK, Placed, NothingHeldBack, Threads, ghost
    <2>4. QED
      BY <2>1, <2>2, <2>3 DEF IndInv
  <1>13. CASE UNCHANGED vars
    BY <1>0, <1>13 DEF vars, connection, thread, ghost, IndInv, TypeOK, Placed, NothingHeldBack
  <1>14. QED
    BY <1>1, <1>2, <1>3, <1>4, <1>5, <1>6, <1>7, <1>8, <1>9, <1>10, <1>11, <1>12, <1>13
       DEF Next, Work

\* The invariant holds in every state of the dashboard.
THEOREM Inductive == Spec => []IndInv
  BY InitIndInv, NextIndInv, PTL DEF Spec

\* Every field keeps its type, whatever the numbers of pages, sortings and states.
THEOREM TypeCorrect == Spec => []TypeOK
  <1>1. IndInv => TypeOK
    BY DEF IndInv
  <1>2. QED
    BY Inductive, <1>1, PTL

\* What was rendered last for a page is pushed, about to be, or marked for the
\* ticker: needSend is never lost between the threads.
THEOREM NothingLost == Spec => []NothingHeldBack
  <1>1. IndInv => NothingHeldBack
    BY DEF IndInv
  <1>2. QED
    BY Inductive, <1>1, PTL

-----------------------------------------------------------------------------
(* What a page has been rendered with.  InSync says nothing of a page that *)
(* a thread is rendering; the invariant says what that thread has in hand. *)

Fresh(p) == [version |-> version, sorting |-> sortBy[p]]

\* It will be rendered again, or the property exempts it.
Due(p) ==
    \/ p \in todo \cup missed \cup crossed
    \/ \E t \in Threads : at[t] = "render" /\ on[t] = p

Synced ==
    \A p \in Pages : page[p] \in {"opening", "open"} /\ ~Due(p) =>
        /\ \A t \in Rendering(p) : rendered[t] = Fresh(p)
        /\ Rendering(p) = {} => lastContent[p] = Fresh(p)

OneAtATime == \A p \in Pages \ crossed : \A t, u \in Rendering(p) : t = u

Registered ==
    \A p \in Pages : /\ page[p] = "open" => p \in connections
                     /\ at[p] = "put" => page[p] = "opening"

SyncInv == Synced /\ OneAtATime /\ Registered

Shown(p) == page[p] \in {"opening", "open"}

\* A step that begins and ends no rendering keeps what is known of the pages that
\* it leaves as they were, and of the others nothing need be known.
LEMMA Undisturbed ==
    ASSUME SyncInv, UNCHANGED <<lastContent, rendered, crossed>>,
           \A p \in Pages : Rendering(p)' = Rendering(p),
           \A p \in Pages : Shown(p)' /\ ~Due(p)' => Shown(p) /\ ~Due(p) /\ Fresh(p)' = Fresh(p)
    PROVE  Synced' /\ OneAtATime'
  BY DEF SyncInv, Synced, OneAtATime, Shown

\* A thread that goes from one step to another, neither of them a rendering.
LEMMA Moves ==
    ASSUME TypeOK, NEW t \in Threads, NEW step, NEW p,
           at[t] \notin {"render", "keep"}, step \notin {"render", "keep"}, Goto(t, step, p)
    PROVE  /\ \A q \in Pages : Rendering(q)' = Rendering(q)
           /\ \A u \in Threads : at'[u] = "render" <=> at[u] = "render"
           /\ \A u \in Threads : at[u] = "render" => on'[u] = on[u]
  <1>1. /\ at' = [at EXCEPT ![t] = step] /\ on' = [on EXCEPT ![t] = p]
        /\ DOMAIN at = Threads /\ DOMAIN on = Threads
    BY DEF Goto, TypeOK
  <1>2. \A u \in Threads : u # t => at'[u] = at[u] /\ on'[u] = on[u]
    BY <1>1
  <1>3. at'[t] = step
    BY <1>1
  <1>4. QED
    BY <1>2, <1>3 DEF Rendering

\* A thread that begins to render a page: the page is due.
LEMMA Begins ==
    ASSUME TypeOK, NEW t \in Threads, NEW p \in Pages, at[t] = "idle", Goto(t, "render", p)
    PROVE  /\ \A q \in Pages : Rendering(q)' = Rendering(q)
           /\ at'[t] = "render" /\ on'[t] = p
           /\ \A u \in Threads : at[u] = "render" => at'[u] = "render" /\ on'[u] = on[u]
  <1>1. /\ at' = [at EXCEPT ![t] = "render"] /\ on' = [on EXCEPT ![t] = p]
        /\ DOMAIN at = Threads /\ DOMAIN on = Threads
    BY DEF Goto, TypeOK
  <1>2. \A u \in Threads : u # t => at'[u] = at[u] /\ on'[u] = on[u]
    BY <1>1
  <1>3. at'[t] = "render" /\ on'[t] = p
    BY <1>1
  <1>4. QED
    BY <1>2, <1>3 DEF Rendering

LEMMA SetStateSyncs == ASSUME IndInv, SyncInv, SetState PROVE SyncInv'
  <1>1. /\ UNCHANGED <<connections, page, sortBy, lastContent, at, on, rendered, crossed>>
        /\ todo' = connections
        /\ missed' = missed \cup {p \in Pages : page[p] = "opening" /\ at[p] # "render"}
    BY DEF SetState, connection, thread
  <1>2. \A p \in Pages : Rendering(p)' = Rendering(p)
    BY <1>1 DEF Rendering
  <1>3. ASSUME NEW p \in Pages, Shown(p)' PROVE Due(p)'
    <2>1. CASE page[p] = "open"
      BY <1>1, <2>1 DEF SyncInv, Registered, Due
    <2>2. CASE page[p] = "opening" /\ at[p] # "render"
      BY <1>1, <2>2 DEF Due
    <2>3. CASE at[p] = "render"
      <3>1. on[p] = p /\ p \in Threads
        BY <2>3 DEF IndInv, Placed, Threads
      <3>2. QED
        BY <1>1, <2>3, <3>1 DEF Due
    <2>4. QED
      BY <1>1, <1>3, <2>1, <2>2, <2>3 DEF Shown
  <1>4. Synced' /\ OneAtATime'
    BY <1>1, <1>2, <1>3, Undisturbed
  <1>5. Registered'
    BY <1>1 DEF SyncInv, Registered
  <1>6. QED
    BY <1>4, <1>5 DEF SyncInv

LEMMA UpdatePageSyncs == ASSUME IndInv, SyncInv, NEW p \in Pages, UpdatePage(p) PROVE SyncInv'
  <1>1. /\ UNCHANGED <<version, connections, page, sortBy, lastContent, rendered, missed, crossed>>
        /\ todo' = todo \ {p}
    BY DEF UpdatePage, connection, ghost
  <1>2. /\ \A q \in Pages : Rendering(q)' = Rendering(q)
        /\ at'[source] = "render" /\ on'[source] = p
        /\ \A u \in Threads : at[u] = "render" => at'[u] = "render" /\ on'[u] = on[u]
    BY Begins, source \in Threads DEF UpdatePage, IndInv, Threads
  <1>3. Due(p)'
    BY <1>2, source \in Threads DEF Due, Threads
  <1>4. \A q \in Pages : Due(q) => Due(q)'
    BY <1>1, <1>2, <1>3 DEF Due
  <1>5. Synced' /\ OneAtATime'
    BY <1>1, <1>2, <1>4, Undisturbed DEF Shown, Fresh
  <1>6. Registered'
    BY <1>1 DEF SyncInv, Registered, UpdatePage, Goto, IndInv, TypeOK, Threads
  <1>7. QED
    BY <1>5, <1>6 DEF SyncInv

LEMMA OpenSyncs == ASSUME IndInv, SyncInv, NEW p \in Pages, Open(p) PROVE SyncInv'
  <1>1. /\ UNCHANGED <<version, connections, todo, sortBy, lastContent, rendered, missed, crossed>>
        /\ page' = [page EXCEPT ![p] = "opening"] /\ page \in [Pages -> {"new", "opening", "open", "closed"}]
    BY DEF Open, ghost, IndInv, TypeOK
  <1>2. p \in Threads /\ at[p] = "idle"
    BY DEF Open, IndInv, Placed, Threads
  <1>3. /\ \A q \in Pages : Rendering(q)' = Rendering(q)
        /\ at'[p] = "render" /\ on'[p] = p
        /\ \A u \in Threads : at[u] = "render" => at'[u] = "render" /\ on'[u] = on[u]
    BY <1>2, Begins DEF Open, IndInv
  <1>4. Due(p)' /\ \A q \in Pages : Due(q) => Due(q)'
    BY <1>1, <1>2, <1>3 DEF Due
  <1>5. \A q \in Pages : q # p => page'[q] = page[q]
    BY <1>1
  <1>6. Synced' /\ OneAtATime'
    BY <1>1, <1>3, <1>4, <1>5, Undisturbed DEF Shown, Fresh
  <1>7. Registered'
    BY <1>1 DEF SyncInv, Registered, Open, Goto, IndInv, TypeOK, Threads
  <1>8. QED
    BY <1>6, <1>7 DEF SyncInv

LEMMA PutSyncs == ASSUME IndInv, SyncInv, NEW p \in Pages, Put(p) PROVE SyncInv'
  <1>1. /\ UNCHANGED <<version, sortBy, lastContent, rendered, missed, crossed>>
        /\ todo \subseteq todo' /\ connections' = connections \cup {p}
        /\ page' = [page EXCEPT ![p] = "open"] /\ page \in [Pages -> {"new", "opening", "open", "closed"}]
    BY DEF Put, connection, ghost, IndInv, TypeOK
  <1>2. p \in Threads
    BY DEF Threads
  <1>3. /\ \A q \in Pages : Rendering(q)' = Rendering(q)
        /\ \A u \in Threads : at'[u] = "render" <=> at[u] = "render"
        /\ \A u \in Threads : at[u] = "render" => on'[u] = on[u]
    BY <1>2, Moves DEF Put, IndInv
  <1>4. \A q \in Pages : Due(q) => Due(q)'
    BY <1>1, <1>3 DEF Due
  <1>5. Shown(p)
    BY DEF Put, SyncInv, Registered, Shown
  <1>6. \A q \in Pages : q # p => page'[q] = page[q]
    BY <1>1
  <1>7. Synced' /\ OneAtATime'
    BY <1>1, <1>3, <1>4, <1>5, <1>6, Undisturbed DEF Shown, Fresh
  <1>8. Registered'
    BY <1>1 DEF SyncInv, Registered, Put, Goto, IndInv, TypeOK, Threads
  <1>9. QED
    BY <1>7, <1>8 DEF SyncInv

LEMMA ResortSyncs == ASSUME IndInv, SyncInv, NEW p \in Pages, Resort(p) PROVE SyncInv'
  <1>1. /\ UNCHANGED <<version, connections, todo, page, lastContent, rendered, missed, crossed>>
        /\ \A q \in Pages : q # p => sortBy'[q] = sortBy[q]
    BY DEF Resort, ghost, IndInv, TypeOK
  <1>2. p \in Threads /\ at[p] = "idle"
    BY DEF Resort, Threads
  <1>3. /\ \A q \in Pages : Rendering(q)' = Rendering(q)
        /\ at'[p] = "render" /\ on'[p] = p
        /\ \A u \in Threads : at[u] = "render" => at'[u] = "render" /\ on'[u] = on[u]
    BY <1>2, Begins DEF Resort, IndInv
  <1>4. Due(p)' /\ \A q \in Pages : Due(q) => Due(q)'
    BY <1>1, <1>2, <1>3 DEF Due
  <1>5. Synced' /\ OneAtATime'
    BY <1>1, <1>3, <1>4, Undisturbed DEF Shown, Fresh
  <1>6. Registered'
    BY <1>1 DEF SyncInv, Registered, Resort, Goto, IndInv, TypeOK, Threads
  <1>7. QED
    BY <1>5, <1>6 DEF SyncInv

LEMMA CloseSyncs == ASSUME IndInv, SyncInv, NEW p \in Pages, Close(p) PROVE SyncInv'
  <1>1. /\ UNCHANGED <<version, sortBy, lastContent, at, on, rendered, missed, crossed>>
        /\ todo' = todo \ {p} /\ connections' = connections \ {p}
        /\ page' = [page EXCEPT ![p] = "closed"] /\ page \in [Pages -> {"new", "opening", "open", "closed"}]
        /\ at[p] = "idle"
    BY DEF Close, connection, thread, ghost, IndInv, TypeOK
  <1>2. ~Shown(p)' /\ \A q \in Pages : q # p => page'[q] = page[q] /\ (Due(q) => Due(q)')
    BY <1>1 DEF Shown, Due
  <1>3. \A q \in Pages : Rendering(q)' = Rendering(q)
    BY <1>1 DEF Rendering
  <1>4. Synced' /\ OneAtATime'
    BY <1>1, <1>2, <1>3, Undisturbed DEF Shown, Fresh
  <1>5. Registered'
    BY <1>1 DEF SyncInv, Registered
  <1>6. QED
    BY <1>4, <1>5 DEF SyncInv

\* Neither the ticker, nor the clock, nor what follows a rendering disturbs any page.
LEMMA MovesSync ==
    ASSUME IndInv, SyncInv, NEW t \in Threads, NEW step, NEW p,
           at[t] \notin {"render", "keep"}, step \notin {"render", "keep"}, Goto(t, step, p),
           step = "put" => t \in Pages /\ page[t] = "opening",
           UNCHANGED <<version, connections, todo, page, sortBy, lastContent, rendered, missed, crossed>>
    PROVE  SyncInv'
  <1>1. /\ \A q \in Pages : Rendering(q)' = Rendering(q)
        /\ \A u \in Threads : at'[u] = "render" <=> at[u] = "render"
        /\ \A u \in Threads : at[u] = "render" => on'[u] = on[u]
    BY Moves DEF IndInv
  <1>2. \A q \in Pages : Due(q) => Due(q)'
    BY <1>1 DEF Due
  <1>3. Synced' /\ OneAtATime'
    BY <1>1, <1>2, Undisturbed DEF Shown, Fresh
  <1>4. Registered'
    BY DEF SyncInv, Registered, Goto, IndInv, TypeOK, Threads
  <1>5. QED
    BY <1>3, <1>4 DEF SyncInv

LEMMA ReturnSyncs ==
    ASSUME IndInv, SyncInv, NEW t \in Threads, at[t] \notin {"render", "keep"}, Return(t),
           UNCHANGED <<version, connections, todo, page, sortBy, lastContent, rendered, missed, crossed>>
    PROVE  SyncInv'
  <1>1. CASE t \in Pages /\ page[t] = "opening"
    BY <1>1, MovesSync DEF Return
  <1>2. CASE ~(t \in Pages /\ page[t] = "opening")
    BY <1>2, MovesSync DEF Return
  <1>3. QED
    BY <1>1, <1>2

LEMMA RenderSyncs == ASSUME IndInv, SyncInv, NEW t \in Threads, Render(t) PROVE SyncInv'
  <1>0. PICK p \in Pages : p = on[t]
    BY DEF Render, IndInv, TypeOK, Placed
  <1>1. p = on[t] /\ at[t] = "render" /\ UNCHANGED <<version, connections, todo, page, sortBy, lastContent>>
    BY <1>0 DEF Render, connection
  <1>2. /\ rendered' = [rendered EXCEPT ![t] = Fresh(p)]
        /\ crossed' = IF Rendering(p) = {} THEN crossed \ {p} ELSE crossed \cup {p}
        /\ missed' = IF p \in connections THEN missed \ {p} ELSE missed
        /\ at' = [at EXCEPT ![t] = "keep"] /\ on' = [on EXCEPT ![t] = p]
    BY <1>1 DEF Render, Goto, Fresh
  <1>3. /\ at'[t] = "keep" /\ on'[t] = p /\ rendered'[t] = Fresh(p)
        /\ \A u \in Threads : u # t => at'[u] = at[u] /\ on'[u] = on[u] /\ rendered'[u] = rendered[u]
    BY <1>2 DEF IndInv, TypeOK
  <1>4. Rendering(p)' = Rendering(p) \cup {t}
    BY <1>1, <1>3 DEF Rendering
  <1>5. \A q \in Pages : q # p => /\ Rendering(q)' = Rendering(q) /\ t \notin Rendering(q)
                                  /\ (Due(q) => Due(q)') /\ Fresh(q)' = Fresh(q)
                                  /\ (q \in crossed' <=> q \in crossed)
    <2>1. ASSUME NEW q \in Pages, q # p
          PROVE  /\ Rendering(q)' = Rendering(q) /\ t \notin Rendering(q)
                 /\ (q \in crossed' <=> q \in crossed) /\ (q \in missed' <=> q \in missed)
      BY <1>1, <1>2, <1>3, <2>1 DEF Rendering
    <2>2. ASSUME NEW q \in Pages, q # p, Due(q) PROVE Due(q)'
      <3>1. CASE q \in todo \cup missed \cup crossed
        BY <1>1, <2>1, <2>2, <3>1 DEF Due
      <3>2. CASE \E u \in Threads : at[u] = "render" /\ on[u] = q
        <4>1. PICK u \in Threads : at[u] = "render" /\ on[u] = q
          BY <3>2
        <4>2. u # t
          BY <1>1, <2>2, <4>1
        <4>3. QED
          BY <1>3, <4>1, <4>2 DEF Due
      <3>3. QED
        BY <2>2, <3>1, <3>2 DEF Due
    <2>3. QED
      BY <1>1, <2>1, <2>2 DEF Fresh
  <1>6. p \notin crossed' => Rendering(p)' = {t}
    BY <1>2, <1>4
  <1>7. OneAtATime'
    <2>1. ASSUME NEW q \in Pages, q \notin crossed', NEW u \in Rendering(q)', NEW v \in Rendering(q)'
          PROVE  u = v
      <3>1. CASE q = p
        BY <1>6, <2>1, <3>1
      <3>2. CASE q # p
        BY <1>5, <2>1, <3>2 DEF SyncInv, OneAtATime
      <3>3. QED
        BY <3>1, <3>2
    <2>2. QED
      BY <2>1 DEF OneAtATime
  <1>8. Synced'
    <2>1. ASSUME NEW q \in Pages, Shown(q)', ~Due(q)'
          PROVE  /\ \A u \in Rendering(q)' : rendered'[u] = Fresh(q)'
                 /\ Rendering(q)' = {} => lastContent'[q] = Fresh(q)'
      <3>1. CASE q = p
        <4>1. Rendering(q)' = {t}
          BY <1>6, <2>1, <3>1 DEF Due
        <4>2. Fresh(q)' = Fresh(p)
          BY <1>1, <3>1 DEF Fresh
        <4>3. QED
          BY <1>3, <4>1, <4>2
      <3>2. CASE q # p
        <4>1. Shown(q) /\ ~Due(q)
          BY <1>1, <1>5, <2>1, <3>2 DEF Shown
        <4>2. \A u \in Rendering(q) : u \in Threads /\ u # t
          BY <1>5, <3>2 DEF Rendering
        <4>3. QED
          BY <1>1, <1>3, <1>5, <3>2, <4>1, <4>2 DEF SyncInv, Synced, Shown
      <3>3. QED
        BY <3>1, <3>2
    <2>2. QED
      BY <2>1 DEF Synced, Shown
  <1>9. Registered'
    BY <1>1, <1>3 DEF SyncInv, Registered, Threads
  <1>10. QED
    BY <1>7, <1>8, <1>9 DEF SyncInv

LEMMA KeepSyncs == ASSUME IndInv, SyncInv, NEW t \in Threads, Keep(t) PROVE SyncInv'
  <1>0. PICK p \in Pages : p = on[t]
    BY DEF Keep, IndInv, TypeOK, Placed
  <1>1. /\ p = on[t] /\ at[t] = "keep"
        /\ UNCHANGED <<version, connections, todo, page, sortBy, missed, crossed>>
    BY <1>0 DEF Keep, ghost
  <1>2. /\ lastContent'[p] = rendered[t]
        /\ \A q \in Pages : q # p => lastContent'[q] = lastContent[q]
        /\ \A u \in Threads : u # t => rendered'[u] = rendered[u]
    BY <1>1 DEF Keep, IndInv, TypeOK
  <1>3. PICK step \in {"put", "idle", "send", "hold"} : \E r :
            Goto(t, step, r) /\ (step = "put" => t \in Pages /\ page[t] = "opening")
    BY DEF Keep, Return
  <1>4. /\ at'[t] = step /\ \A u \in Threads : u # t => at'[u] = at[u] /\ on'[u] = on[u]
    BY <1>3 DEF Goto, IndInv, TypeOK
  <1>5. Rendering(p)' = Rendering(p) \ {t} /\ t \in Rendering(p)
    BY <1>1, <1>3, <1>4 DEF Rendering
  <1>6. \A q \in Pages : q # p => Rendering(q)' = Rendering(q) /\ t \notin Rendering(q)
    BY <1>1, <1>3, <1>4 DEF Rendering
  <1>7. \A q \in Pages : Due(q) => Due(q)'
    BY <1>1, <1>4 DEF Due
  <1>8. \A q \in Pages : Fresh(q)' = Fresh(q)
    BY <1>1 DEF Fresh
  <1>9. OneAtATime'
    BY <1>1, <1>5, <1>6 DEF SyncInv, OneAtATime
  <1>10. Synced'
    <2>1. ASSUME NEW q \in Pages, Shown(q)', ~Due(q)'
          PROVE  /\ \A u \in Rendering(q)' : rendered'[u] = Fresh(q)'
                 /\ Rendering(q)' = {} => lastContent'[q] = Fresh(q)'
      <3>1. Shown(q) /\ ~Due(q)
        BY <1>1, <1>7, <2>1 DEF Shown
      <3>2. CASE q = p
        <4>1. p \notin crossed
          BY <3>1, <3>2 DEF Due
        <4>2. Rendering(p)' = {}
          BY <1>1, <1>5, <4>1 DEF SyncInv, OneAtATime
        <4>3. lastContent'[p] = Fresh(p)
          BY <1>1, <1>2, <1>5, <3>1, <3>2 DEF SyncInv, Synced, Shown
        <4>4. QED
          BY <1>8, <3>2, <4>2, <4>3
      <3>3. CASE q # p
        <4>1. \A u \in Rendering(q) : u \in Threads /\ u # t
          BY <1>6, <3>3 DEF Rendering
        <4>2. QED
          BY <1>2, <1>6, <1>8, <3>1, <3>3, <4>1 DEF SyncInv, Synced, Shown
      <3>4. QED
        BY <3>2, <3>3
    <2>2. QED
      BY <2>1 DEF Synced, Shown
  <1>11. Registered'
    BY <1>1, <1>3, <1>4 DEF SyncInv, Registered, Threads
  <1>12. QED
    BY <1>9, <1>10, <1>11 DEF SyncInv

LEMMA NextSyncs == IndInv /\ SyncInv /\ [Next]_vars => SyncInv'
  <1> SUFFICES ASSUME IndInv, SyncInv, [Next]_vars PROVE SyncInv'
    OBVIOUS
  <1>1. ASSUME NEW p \in Pages, Tick(p) PROVE SyncInv'
    BY <1>1, MovesSync DEF Tick, Threads, connection, ghost
  <1>2. ASSUME NEW p \in Pages, Pass(p) PROVE SyncInv'
    BY <1>2 DEF Pass, thread, ghost, SyncInv, Synced, OneAtATime, Registered, Due, Rendering, Fresh
  <1>3. ASSUME NEW t \in Threads, Hold(t) PROVE SyncInv'
    BY <1>3, ReturnSyncs DEF Hold, ghost
  <1>4. ASSUME NEW t \in Threads, SendContent(t) PROVE SyncInv'
    <2>1. UNCHANGED <<version, connections, todo, page, sortBy, lastContent, rendered, missed, crossed>>
      BY <1>4 DEF SendContent, ghost
    <2>2. CASE at[t] = "send" /\ Goto(t, "push", on[t])
      BY <2>1, <2>2, MovesSync
    <2>3. CASE at[t] = "push" /\ Return(t)
      BY <2>1, <2>3, ReturnSyncs
    <2>4. QED
      BY <1>4, <2>2, <2>3 DEF SendContent
  <1>5. CASE UNCHANGED vars
    BY <1>5 DEF vars, connection, thread, ghost, SyncInv, Synced, OneAtATime, Registered, Due, Rendering, Fresh
  <1>6. QED
    BY <1>1, <1>2, <1>3, <1>4, <1>5, SetStateSyncs, UpdatePageSyncs, OpenSyncs, PutSyncs, ResortSyncs,
       CloseSyncs, RenderSyncs, KeepSyncs DEF Next, Work

\* When no thread is about to render it, an open page has been rendered with the
\* current state and its own sorting, outside the two races named (Updates.java,
\* addSession and sendRenderedState), for any number of pages and states.
THEOREM PagesInSync == Spec => []InSync
  <1>1. Init => SyncInv
    BY DEF Init, SyncInv, Synced, OneAtATime, Registered, Rendering, Threads
  <1>2. IndInv /\ SyncInv => InSync
    <2> SUFFICES ASSUME IndInv, SyncInv, NEW p \in connections, p \notin todo \cup missed \cup crossed,
                        \A t \in Threads : on[t] = p => at[t] \notin {"render", "keep"}
                 PROVE  lastContent[p] = [version |-> version, sorting |-> sortBy[p]]
      BY DEF InSync
    <2>1. p \in Pages /\ page[p] = "open"
      BY DEF IndInv, TypeOK, Placed
    <2>2. ~Due(p) /\ Rendering(p) = {}
      BY DEF Due, Rendering
    <2>3. QED
      BY <2>1, <2>2 DEF SyncInv, Synced, Fresh
  <1>3. QED
    BY <1>1, <1>2, NextSyncs, Inductive, PTL DEF Spec
=============================================================================
