--------------------------- MODULE TwinConnector ---------------------------
(***************************************************************************)
(* The dashboard's connection to the digital twin service (TwinConnector). *)
(* It keeps a WebSocket, subscribes to the root thing, follows the root's  *)
(* list of children with subscriptions of its own, and keeps their states. *)
(*                                                                         *)
(* connect() starts an attempt in one thread and assigns `connecting` when *)
(* subscribe() returns; the attempt ends in another thread.  stop() runs   *)
(* in a third, field by field.  The service is external: it answers a      *)
(* subscription with the thing's state, and tells of every change of what  *)
(* a connection is subscribed to, in order, until the connection breaks.   *)
(***************************************************************************)
EXTENDS Naturals, Sequences, SequencesExt

CONSTANTS
    Children,   \* things that may be children of the root
    Root,       \* the root thing
    Unlisted,   \* what is known of a thing that is not among the children
    MaxStates,  \* bound: states of a child
    MaxRoots,   \* bound: changes of the list of children
    MaxBreaks,  \* bound: attempts that fail and connections that break
    MaxNews     \* bound: messages from the service under way

ASSUME ChildrenAssumption == IsFiniteSet(Children)
ASSUME RootAssumption     == Root \notin Children
ASSUME UnlistedAssumption == Unlisted \notin Nat

Things == Children \cup {Root}

VARIABLES
    socket,     \* the connection: "none", "trying" or "open"
    ws,         \* the field is not null
    timer,      \* the five seconds before the next attempt are running
    connecting, \* the field: "null", or what it refers to, finished or not
    connect,    \* connect(): "no", "checked" or "subscribed"
    client,     \* httpClient is there and not closed
    start,      \* start(): "connect", "client" or "done"
    stop,       \* stop(): the step it is at, "done", or the step it has thrown at
    values,     \* what is known of a child: Unlisted, 0 (an empty map) or a version
    requests,   \* to the service: <<"subscribe" or "unsubscribe", thing>>
    news,       \* from the service: <<Root, its children>> or <<child, version>>
    subscribed, \* the service's subscriptions of this connection
    children,   \* the root's list in the service
    latest,     \* the version of a child in the service
    roots,      \* how often the list has changed
    breaks,     \* how often an attempt has failed or a connection broken
    raced       \* connected() has run before `connecting` was assigned

threads == <<connect, start, stop>>
link    == <<socket, ws, timer, connecting, client>>
wire    == <<values, requests, news, subscribed>>
service == <<children, latest, roots>>
twinVars == <<threads, link, wire, service, breaks, raced>>

stopped == stop # "no"

\* A field was null when stop() used it: nothing that follows is done.
Thrown == {"uncancelled", "unclosed"}

TwinTypeOK ==
    /\ socket \in {"none", "trying", "open"}
    /\ connecting \in {"null", "timer", "attempt"}
    /\ connect \in {"no", "checked", "subscribed"}
    /\ start \in {"connect", "client", "done"}
    /\ stop \in {"no", "cancel", "cancelling", "close", "closing", "http", "done"} \cup Thrown
    /\ <<ws, timer, client, raced>> \in BOOLEAN \X BOOLEAN \X BOOLEAN \X BOOLEAN
    /\ values \in [Children -> (0..MaxStates) \cup {Unlisted}]
    /\ \A i \in 1..Len(requests) : requests[i] \in {"subscribe", "unsubscribe"} \X Things
    /\ \A i \in 1..Len(news) : \/ news[i][1] = Root /\ news[i][2] \subseteq Children
                               \/ news[i][1] \in Children /\ news[i][2] \in 1..MaxStates
    /\ subscribed \subseteq Things /\ children \subseteq Children
    /\ latest \in [Children -> 1..MaxStates]
    /\ roots \in 0..MaxRoots /\ breaks \in 0..MaxBreaks

Unknown == [c \in Children |-> Unlisted]

TwinInit ==
    /\ socket = "none" /\ ws = FALSE /\ timer = FALSE
    /\ connecting = "null" /\ connect = "no"
    /\ client = FALSE /\ start = "connect" /\ stop = "no"
    /\ values = Unknown
    /\ requests = <<>> /\ news = <<>> /\ subscribed = {}
    /\ children \in SUBSET Children
    /\ latest = [c \in Children |-> 1]
    /\ roots = 0 /\ breaks = 0 /\ raced = FALSE

-----------------------------------------------------------------------------
(* start() and connect().                                                  *)

Check == connect' = IF stopped THEN "no" ELSE "checked"

StartConnect ==
    /\ start = "connect" /\ ~stopped
    /\ start' = "client"
    /\ Check
    /\ UNCHANGED <<stop, link, wire, service, breaks, raced>>

\* start() goes on when connect() has returned.
StartClient ==
    /\ start = "client" /\ connect = "no"
    /\ start' = "done"
    /\ client' = TRUE
    /\ UNCHANGED <<connect, stop, socket, ws, timer, connecting, wire, service, breaks, raced>>

\* By the time five seconds have passed, the last connect() has returned.
TimerFires ==
    /\ timer /\ connect = "no"
    /\ timer' = FALSE
    /\ Check
    /\ UNCHANGED <<start, stop, socket, ws, connecting, client, wire, service, breaks, raced>>

Subscribe ==
    /\ connect = "checked"
    /\ connect' = "subscribed"
    /\ socket' = "trying"
    /\ UNCHANGED <<start, stop, ws, timer, connecting, client, wire, service, breaks, raced>>

Assign ==
    /\ connect = "subscribed"
    /\ connect' = "no"
    /\ connecting' = "attempt"
    /\ UNCHANGED <<start, stop, socket, ws, timer, client, wire, service, breaks, raced>>

Connected ==
    /\ socket = "trying" /\ client
    /\ socket' = "open" /\ ws' = TRUE
    /\ connecting' = "null"
    /\ requests' = <<<<"subscribe", Root>>>>
    /\ raced' = (raced \/ connect # "no")
    /\ UNCHANGED <<threads, timer, client, values, news, subscribed, service, breaks>>

\* Mutant: the next attempt is made only after an attempt that failed.
ReconnectIfTrying(field) ==
    IF field = "null" /\ ~stopped /\ socket = "trying"
    THEN connecting' = "timer" /\ timer' = TRUE
    ELSE connecting' = field /\ UNCHANGED timer

\* reconnect(): nothing if the field, which now holds this, is not null.
Reconnect(field) ==
    IF field = "null" /\ ~stopped
    THEN connecting' = "timer" /\ timer' = TRUE
    ELSE connecting' = field /\ UNCHANGED timer

\* Mutant: the children are still known when the connection is gone.
DisconnectedKnowing(field) ==
    /\ socket' = "none" /\ ws' = FALSE
    /\ requests' = <<>> /\ news' = <<>> /\ subscribed' = {}
    /\ UNCHANGED values
    /\ Reconnect(field)

\* disconnected(), and the service forgets the connection.
Disconnected(field) ==
    /\ socket' = "none" /\ ws' = FALSE
    /\ requests' = <<>> /\ news' = <<>> /\ subscribed' = {}
    /\ values' = Unknown
    /\ Reconnect(field)

\* No token or no connection; always so without a client.
Failed ==
    /\ socket = "trying"
    /\ \/ client /\ breaks < MaxBreaks /\ breaks' = breaks + 1
       \/ ~client /\ UNCHANGED breaks
    /\ Disconnected("null")
    /\ UNCHANGED <<threads, client, service, raced>>

\* The connection breaks, or is one that stop() has closed.
Closed ==
    /\ socket = "open"
    /\ \/ ws /\ client /\ breaks < MaxBreaks /\ breaks' = breaks + 1
       \/ ~(ws /\ client) /\ UNCHANGED breaks
    /\ Disconnected(connecting)
    /\ UNCHANGED <<threads, client, service, raced>>

-----------------------------------------------------------------------------
(* stop().                                                                 *)

Stop ==
    /\ stop = "no" /\ start = "done"
    /\ stop' = "cancel"
    /\ UNCHANGED <<connect, start, link, wire, service, breaks, raced>>

\* Another thread may set the field to null between this check and its use.
StopCancel ==
    /\ stop = "cancel"
    /\ stop' = IF connecting = "null" THEN "close" ELSE "cancelling"
    /\ UNCHANGED <<connect, start, link, wire, service, breaks, raced>>

\* What has finished, or is being delivered, or is not what the field refers to,
\* is not cancelled.
CancelConnecting ==
    /\ stop = "cancelling"
    /\ stop' = IF connecting = "null" THEN "uncancelled" ELSE "close"
    /\ timer' = (timer /\ connecting # "timer")
    /\ \/ UNCHANGED socket
       \/ connecting = "attempt" /\ connect = "no" /\ socket = "trying" /\ socket' = "none"
    /\ connecting' = "null"
    /\ UNCHANGED <<connect, start, ws, client, wire, service, breaks, raced>>

StopClose ==
    /\ stop = "close"
    /\ stop' = IF ws THEN "closing" ELSE "http"
    /\ UNCHANGED <<connect, start, link, wire, service, breaks, raced>>

CloseSocket ==
    /\ stop = "closing"
    /\ stop' = IF ws THEN "http" ELSE "unclosed"
    /\ ws' = FALSE
    /\ UNCHANGED <<connect, start, socket, timer, connecting, client, wire, service, breaks, raced>>

\* Mutant: stop() does not close the HTTP client.
StopNoHttp ==
    /\ stop = "http"
    /\ stop' = "done"
    /\ UNCHANGED <<connect, start, link, wire, service, breaks, raced>>

StopHttp ==
    /\ stop = "http"
    /\ stop' = "done"
    /\ client' = FALSE
    /\ UNCHANGED <<connect, start, socket, ws, timer, connecting, wire, service, breaks, raced>>

-----------------------------------------------------------------------------
(* onMessage.                                                              *)

Known == {c \in Children : values[c] # Unlisted}

\* What is sent while ws is null is dropped.  The order within a set is arbitrary.
Ask(kind, S) == IF ws THEN SetToSeq({<<kind, c>> : c \in S}) ELSE <<>>

SetRoot(S) ==
    /\ values' = [c \in Children |->
                    IF c \notin S THEN Unlisted ELSE IF c \in Known THEN values[c] ELSE 0]
    /\ requests' = requests \o Ask("subscribe", S \ Known) \o Ask("unsubscribe", Known \ S)

\* setState: a child that is not in the list (any more) is ignored.
SetThing(c, v) ==
    /\ values' = IF c \in Known THEN [values EXCEPT ![c] = v] ELSE values
    /\ UNCHANGED requests

OnMessage ==
    /\ socket = "open" /\ news # <<>>
    /\ IF Head(news)[1] = Root THEN SetRoot(Head(news)[2])
                               ELSE SetThing(Head(news)[1], Head(news)[2])
    /\ news' = Tail(news)
    /\ UNCHANGED <<threads, link, subscribed, service, breaks, raced>>

-----------------------------------------------------------------------------
(* The service (external).                                                 *)

Room == Len(news) < MaxNews

StateOf(t) == <<t, IF t = Root THEN children ELSE latest[t]>>

Serve ==
    /\ socket = "open" /\ requests # <<>> /\ Room
    /\ LET kind == Head(requests)[1] t == Head(requests)[2] IN
        IF kind = "subscribe"
        THEN subscribed' = subscribed \cup {t} /\ news' = Append(news, StateOf(t))
        ELSE subscribed' = subscribed \ {t} /\ UNCHANGED news
    /\ requests' = Tail(requests)
    /\ UNCHANGED <<threads, link, values, service, breaks, raced>>

Tell(t, state) == news' = IF t \in subscribed THEN Append(news, <<t, state>>) ELSE news

ChildChanges(c) ==
    /\ Room /\ latest[c] < MaxStates
    /\ latest' = [latest EXCEPT ![c] = @ + 1]
    /\ Tell(c, latest[c] + 1)
    /\ UNCHANGED <<threads, link, values, requests, subscribed, children, roots, breaks, raced>>

RootChanges ==
    /\ Room /\ roots < MaxRoots
    /\ roots' = roots + 1
    /\ \E S \in SUBSET Children : children' = S /\ Tell(Root, S)
    /\ UNCHANGED <<threads, link, values, requests, subscribed, latest, breaks, raced>>

Connecting == StartConnect \/ StartClient \/ TimerFires \/ Subscribe \/ Assign
Stopping   == StopCancel \/ CancelConnecting \/ StopClose \/ CloseSocket \/ StopHttp

TwinNext ==
    \/ Connecting \/ Connected \/ Failed \/ Closed
    \/ Stop \/ Stopping
    \/ OnMessage \/ Serve \/ RootChanges \/ \E c \in Children : ChildChanges(c)

\* Threads run, the timer fires, an attempt ends, a closed connection is noticed.
TwinFairness ==
    /\ WF_twinVars(Connecting) /\ WF_twinVars(Connected \/ Failed) /\ WF_twinVars(Stopping)
    /\ WF_twinVars(Closed /\ ~(ws /\ client))

TwinSpec == TwinInit /\ [][TwinNext]_twinVars /\ TwinFairness

-----------------------------------------------------------------------------
(* Properties.                                                             *)

\* When nothing is under way on an open connection, the dashboard knows the
\* root's children and no others, holds the latest state of each, and is
\* subscribed to them: whatever list changes, state changes and reconnects
\* crossed on the way (setRoot's difference, disconnected's clear).
Settled ==
    (socket = "open" /\ ws /\ requests = <<>> /\ news = <<>>) =>
        /\ Known = children
        /\ subscribed = children \cup {Root}
        /\ \A c \in children : values[c] = latest[c]

\* The dashboard does not stay without a connection: another attempt is made,
\* unless connected() has once run before `connecting` was assigned.
Reconnects == socket = "none" ~> (socket # "none" \/ stopped \/ raced)

\* Once stop() has run no connection stays open and no attempt is made, whatever
\* connect(), an attempt and the timer were doing when it ran.  When it has thrown
\* because an attempt just ended, the connection of that attempt may stay.
StopsForGood == stopped ~> [](socket = "none" \/ (socket = "open" /\ stop = "uncancelled"))
=============================================================================
