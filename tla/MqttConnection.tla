--------------------------- MODULE MqttConnection ---------------------------
(***************************************************************************)
(* How the MQTT client of the web simulator (ClientImpl in                 *)
(* js/paho/paho-mqtt.js) connects, keeps alive, reconnects and disconnects:*)
(* its WebSockets, its three kinds of timers, and the callbacks that each  *)
(* of them runs on the one client object.                                  *)
(*                                                                         *)
(* Callbacks run one at a time; which of the due ones runs next is open.   *)
(* A socket that is replaced keeps its handlers, and they act on whatever  *)
(* the client has become (abandoned sockets); a reconnect timer that is    *)
(* replaced still runs (orphans).                                          *)
(***************************************************************************)
EXTENDS Naturals, FiniteSets

CONSTANTS
    Sockets,     \* bound: sockets the browser keeps at a time
    Options,     \* connectOptions: the number of uris (0 if there are none),
                 \* mqttVersionExplicit, and whether the application has set
                 \* onMessageDelivered; reconnect, cleanSession and
                 \* disconnectedPublishing are on, keepAliveInterval > 0
    HostsUp,     \* the hosts a server answers at; host 0 is the first
    MaxFaults,   \* bound: failures of the network and late answers
    MaxOrphans,  \* bound: replaced reconnect timers
    None

ASSUME ConnectionAssumption ==
    /\ IsFiniteSet(Sockets) /\ None \notin Sockets
    /\ Options \subseteq [hosts : Nat, explicit : BOOLEAN, delivered : BOOLEAN]
    /\ MaxFaults \in Nat /\ MaxOrphans \in Nat /\ HostsUp \subseteq Nat

VARIABLES
    options,      \* the connectOptions in use
    state,        \* of each socket: "none", "opening", "open", "failed", "closed"
    hooked,       \* the sockets with handlers
    hostOf,       \* the host each socket connects to
    greeted,      \* of each socket: CONNECT sent "no", "once", "twice", or "answered",
                  \* or "ended": refused, or DISCONNECT sent
    socket,       \* this.socket, None if deleted
    connected, reconnecting, \* _reconnecting
    hostIndex, mqttVersion,
    connectTimer, \* _connectTimeout is pending
    retry,        \* _reconnectTimeout: "null", "pending", or "done" (fired or cancelled)
    orphans,      \* pending reconnect timers that _reconnectTimeout no longer names
    pinger,       \* sendPinger: its timer is pending, isReset
    disconnectQueued, \* the next message of _msg_queue (DISCONNECT, unless that was
                  \* lost in a throw) has _disconnected in _notify_msg_sent
    buffered,     \* there are messages in _buffered_msg_queue
    calls,        \* what the application called last: "none", "connect", "disconnect"
    calm,         \* disconnect() returned, with no abandoned socket or orphan timer
                  \* about and no callback to be lost
    faults

sockets == <<state, hooked, hostOf, greeted, socket>>
flags   == <<connected, reconnecting, hostIndex, mqttVersion, disconnectQueued, buffered>>
timers  == <<connectTimer, retry, orphans, pinger>>
vars    == <<options, sockets, flags, timers, calls, calm, faults>>

Idle  == [timer |-> FALSE, isReset |-> FALSE]
Reset == [timer |-> TRUE, isReset |-> TRUE]

Init ==
    /\ options \in Options
    /\ state = [s \in Sockets |-> "none"] /\ hooked = {}
    /\ greeted = [s \in Sockets |-> "no"] /\ hostOf = [s \in Sockets |-> 0]
    /\ socket = None
    /\ connected = FALSE /\ reconnecting = FALSE
    /\ hostIndex = 0 /\ mqttVersion = 4
    /\ connectTimer = FALSE /\ retry = "null" /\ orphans = 0 /\ pinger = Idle
    /\ disconnectQueued = FALSE /\ buffered = FALSE
    /\ calls = "none" /\ calm = FALSE /\ faults = 0

(* Sockets the client no longer holds that still run its handlers.         *)
Abandoned == hooked \ {socket}

(* What a handler has made of the client so far; it starts with Now.       *)
Now == [state |-> state, hooked |-> hooked, greeted |-> greeted, connected |-> connected,
        reconnecting |-> reconnecting, hostIndex |-> hostIndex,
        disconnectQueued |-> disconnectQueued, buffered |-> buffered,
        connectTimer |-> connectTimer, retry |-> retry, orphans |-> orphans, pinger |-> pinger]

Becomes(c) ==
    /\ state' = c.state /\ hooked' = c.hooked /\ greeted' = c.greeted
    /\ connected' = c.connected /\ reconnecting' = c.reconnecting /\ hostIndex' = c.hostIndex
    /\ disconnectQueued' = c.disconnectQueued /\ buffered' = c.buffered
    /\ connectTimer' = c.connectTimer /\ retry' = c.retry /\ orphans' = c.orphans
    /\ pinger' = c.pinger

-----------------------------------------------------------------------------
(* What the handlers share.                                                *)

(* _doConnect: this.socket is set to a new socket, whatever it was.        *)
DoConnect(host, c) ==
    \E s \in Sockets \ ({socket} \cup c.hooked) :
        /\ Becomes([c EXCEPT !.state = [@ EXCEPT ![s] = "opening"], !.hooked = @ \cup {s},
                             !.greeted = [@ EXCEPT ![s] = "no"],
                             !.connected = FALSE, !.hostIndex = host,
                             !.connectTimer = TRUE, !.pinger = Idle])
        /\ hostOf' = [hostOf EXCEPT ![s] = host]
        /\ socket' = s

(* _reconnect, to the first host, when there is no connection.             *)
Reconnect(c) ==
    IF c.connected
    THEN Becomes(c) /\ UNCHANGED <<hostOf, socket>>
    ELSE DoConnect(0, [c EXCEPT !.reconnecting = TRUE])

(* The message buffers are cleared, the socket is closed and its handlers  *)
(* are taken off.                                                          *)
Released(c) ==
    [c EXCEPT !.state = [s \in Sockets |-> IF s = socket THEN "closed" ELSE @[s]],
              !.hooked = @ \ {socket}, !.disconnectQueued = FALSE, !.buffered = FALSE,
              !.pinger = Idle, !.connectTimer = FALSE]

(* _disconnected, past its first lines: the next host; an automatic        *)
(* reconnect; or the end, reported by onConnectionLost or onFailure.       *)
TearDown(error, c) ==
    LET gone == Released(c) IN
    IF c.hostIndex + 1 < options.hosts
    THEN DoConnect(c.hostIndex + 1, gone) /\ UNCHANGED mqttVersion
    ELSE IF c.connected /\ error
    THEN Reconnect([gone EXCEPT !.connected = FALSE]) /\ UNCHANGED mqttVersion
    ELSE IF ~c.connected /\ mqttVersion = 4 /\ ~options.explicit
    THEN DoConnect(0, gone) /\ mqttVersion' = 3
    ELSE /\ Becomes([gone EXCEPT !.connected = FALSE])
         /\ socket' = None
         /\ UNCHANGED <<hostOf, mqttVersion>>

\* Mutant: only the first failure of a reconnect starts a timer.
RetryOnce(c) == Becomes(IF c.retry = "null" THEN [c EXCEPT !.retry = "pending"] ELSE c)

Retry(c) ==
    LET pending == IF c.retry = "pending" THEN c.orphans + 1 ELSE c.orphans IN
    /\ pending <= MaxOrphans
    /\ Becomes([c EXCEPT !.retry = "pending", !.orphans = pending])

(* _disconnected.  While the client reconnects an error only starts the    *)
(* next reconnect timer; one that is pending is not cancelled.             *)
Disconnected(error, c) ==
    IF error /\ c.reconnecting
    THEN Retry(c) /\ UNCHANGED <<hostOf, socket, mqttVersion>>
    ELSE TearDown(error, c)

(* socket.send() throws on no socket and on one that is opening; on a      *)
(* closed one it does nothing.                                             *)
SendThrows(c) == socket = None \/ (socket # None /\ c.state[socket] = "opening")

\* Mutant: CONNACK leaves the reconnect timer running.
NotCancelled(timer) == timer

Cancelled(timer) == IF timer = "pending" THEN "done" ELSE timer

Faulty(isFault) ==
    /\ isFault => faults < MaxFaults
    /\ faults' = IF isFault THEN faults + 1 ELSE faults

-----------------------------------------------------------------------------
(* The application.                                                        *)

(* connect() throws while there is a socket, and so does the branch that   *)
(* would end a reconnect.                                                  *)
Connect ==
    /\ calls # "disconnect" /\ ~connected /\ socket = None
    /\ calls' = "connect"
    /\ DoConnect(0, [Now EXCEPT !.reconnecting = FALSE])
    /\ mqttVersion' = 4
    /\ UNCHANGED <<options, calm, faults>>

(* disconnect() while the client reconnects cancels _reconnectTimeout, and *)
(* throws if there never was one.  DISCONNECT is sent, with _disconnected  *)
(* as its callback, when there is a connection.                            *)
Disconnect ==
    /\ calls = "connect" /\ calls' = "disconnect"
    /\ LET neverTimed == reconnecting /\ retry = "null"
           c == IF reconnecting /\ ~neverTimed
                THEN [Now EXCEPT !.retry = "null", !.reconnecting = FALSE] ELSE Now
           throws == neverTimed \/ socket = None \/ (connected /\ SendThrows(Now)) IN
       /\ calm' = (~throws /\ orphans = 0 /\ Abandoned = {} /\ ~(buffered /\ options.delivered))
       /\ IF connected /\ ~throws
          THEN Disconnected(FALSE, c)
          ELSE /\ Becomes([c EXCEPT !.disconnectQueued = ~throws])
               /\ UNCHANGED <<hostOf, socket, mqttVersion>>
    /\ UNCHANGED <<options, faults>>

(* send() of a message with QoS 0 while the client reconnects.             *)
SendBuffered ==
    /\ ~connected /\ reconnecting /\ calls = "connect"
    /\ ~buffered /\ buffered' = TRUE
    /\ UNCHANGED <<sockets, connected, reconnecting, hostIndex, mqttVersion, disconnectQueued,
                   timers, options, calls, calm, faults>>

(* Any packet that is sent puts off the ping.                              *)
SendPacket ==
    /\ connected /\ calls = "connect" /\ ~SendThrows(Now)
    /\ pinger # Reset /\ pinger' = Reset
    /\ UNCHANGED <<sockets, flags, connectTimer, retry, orphans, options, calls, calm, faults>>

-----------------------------------------------------------------------------
(* The sockets.                                                            *)

Twice == [no |-> "once", once |-> "twice", twice |-> "twice", answered |-> "twice",
          ended |-> "ended"]

ConnectSent(c) ==
    IF c.state[socket] = "open" THEN [c.greeted EXCEPT ![socket] = Twice[@]] ELSE c.greeted

(* _on_socket_open: whichever socket has opened, CONNECT is sent on        *)
(* this.socket.                                                            *)
SocketOpens(s) ==
    /\ s \in hooked /\ state[s] = "opening" /\ hostOf[s] \in HostsUp
    /\ LET opened == [Now EXCEPT !.state = [@ EXCEPT ![s] = "open"]] IN
       IF SendThrows(opened)
       THEN Becomes(opened)
       ELSE Becomes([opened EXCEPT !.greeted = ConnectSent(opened), !.pinger = Reset])
    /\ UNCHANGED <<hostOf, socket, mqttVersion, options, calls, calm, faults>>

Connack(s) ==
    /\ s \in hooked /\ state[s] = "open" /\ greeted[s] = "once"

Answered(s, answer) == [Now EXCEPT !.greeted = [@ EXCEPT ![s] = answer]]

\* Mutant: CONNACK leaves the connect timer running.
StillTimed(c) ==
    [c EXCEPT !.connected = TRUE, !.retry = Cancelled(@), !.hostIndex = options.hosts]

(* CONNACK, accepted, before and after the messages are sent that waited.  *)
Greeted(c) ==
    [c EXCEPT !.connected = TRUE, !.connectTimer = FALSE,
              !.retry = Cancelled(@), !.hostIndex = options.hosts]

Accepted(c) == [Greeted(c) EXCEPT !.reconnecting = FALSE]

(* The buffered messages are sent, after DISCONNECT if that waits too.  The*)
(* result of onMessageDelivered replaces its callback, for all messages    *)
(* have one entry of _notify_msg_sent.  If sending throws, the entry stays *)
(* for whichever message comes next.                                       *)
SendBuffers(s) ==
    LET c == [Greeted(Answered(s, "answered")) EXCEPT !.buffered = FALSE] IN
    IF SendThrows(c)
    THEN Disconnected(TRUE, [c EXCEPT !.disconnectQueued = @ /\ ~options.delivered])
    ELSE /\ Becomes([c EXCEPT
                !.greeted = IF disconnectQueued THEN [@ EXCEPT ![socket] = "ended"] ELSE @,
                !.reconnecting = FALSE, !.disconnectQueued = FALSE, !.pinger = Reset])
         /\ UNCHANGED <<hostOf, socket, mqttVersion>>

(* DISCONNECT is sent first and its callback is there: it deletes the      *)
(* socket, and sending the buffered message throws, to a second            *)
(* _disconnected.                                                          *)
DisconnectThenThrow(s) ==
    LET ended == [Released(Greeted(Answered(s, "answered"))) EXCEPT !.connected = FALSE] IN
    IF reconnecting
    THEN Retry(ended) /\ socket' = None /\ UNCHANGED <<hostOf, mqttVersion>>
    ELSE TearDown(TRUE, ended)

(* CONNACK, accepted: a queued DISCONNECT is sent after all and ends it,   *)
(* unless its callback is lost.                                            *)
ConnackAccepted(s) ==
    /\ Connack(s) /\ socket # None
    /\ LET c == Accepted(Answered(s, "answered"))
           running == disconnectQueued /\ ~SendThrows(Now) /\ ~options.delivered IN
       \/ /\ ~buffered /\ disconnectQueued
          /\ Disconnected(SendThrows(c), c)
       \/ /\ ~buffered /\ ~disconnectQueued
          /\ Becomes(c) /\ UNCHANGED <<hostOf, socket, mqttVersion>>
       \/ buffered /\ running /\ DisconnectThenThrow(s)
       \/ buffered /\ ~running /\ SendBuffers(s)
    /\ UNCHANGED <<options, calls, calm, faults>>

ConnackRefused(s) ==
    /\ Connack(s) /\ socket # None
    /\ Faulty(TRUE)
    /\ Disconnected(TRUE, [Answered(s, "ended") EXCEPT !.connectTimer = FALSE, !.retry = Cancelled(@)])
    /\ UNCHANGED <<options, calls, calm>>

(* CONNACK of an abandoned socket when there is no other: there is no      *)
(* _connectTimeout to cancel, an error.                                    *)
ConnackLate(s) ==
    /\ Connack(s) /\ socket = None
    /\ Disconnected(TRUE, Answered(s, "answered"))
    /\ UNCHANGED <<options, calls, calm, faults>>

(* The server ends a connection with no CONNECT, or two, or that it has    *)
(* refused, or after DISCONNECT.                                           *)
Rejected(s) == greeted[s] \in {"no", "twice", "ended"}

(* _on_socket_error and _on_socket_close, which follows.                   *)
SocketFails(s) ==
    /\ s \in hooked /\ state[s] \in {"opening", "open"}
    /\ Faulty(hostOf[s] \in HostsUp)
    /\ LET c == [Now EXCEPT !.state = [@ EXCEPT ![s] = "failed"]] IN
       IF reconnecting
       THEN Becomes(c) /\ UNCHANGED <<hostOf, socket, mqttVersion>>
       ELSE Disconnected(TRUE, c)
    /\ UNCHANGED <<options, calls, calm>>

SocketCloses(s) ==
    /\ s \in hooked /\ state[s] \in {"open", "failed"}
    /\ Faulty(state[s] = "open" /\ ~Rejected(s))
    /\ LET c == [Now EXCEPT !.state = [@ EXCEPT ![s] = "closed"], !.hooked = @ \ {s}] IN
       IF reconnecting
       THEN Becomes(c) /\ UNCHANGED <<hostOf, socket, mqttVersion>>
       ELSE Disconnected(TRUE, c)
    /\ UNCHANGED <<options, calls, calm>>

-----------------------------------------------------------------------------
(* The timers.                                                             *)

(* A server that is up answers before any timer, or the network was slow,  *)
(* which counts as a fault.                                                *)
Answering == socket # None /\ state[socket] \in {"opening", "open"} /\ hostOf[socket] \in HostsUp

ConnectTimeout ==
    /\ connectTimer
    /\ Faulty(Answering /\ greeted[socket] # "answered")
    /\ Disconnected(TRUE, [Now EXCEPT !.connectTimer = FALSE])
    /\ UNCHANGED <<options, calls, calm>>

RetryFires ==
    /\ Faulty(Answering /\ ~connected)
    /\ \/ retry = "pending" /\ Reconnect([Now EXCEPT !.retry = "done"])
       \/ orphans > 0 /\ Reconnect([Now EXCEPT !.orphans = @ - 1])
    /\ UNCHANGED <<mqttVersion, options, calls, calm>>

(* doPing: PINGREQ, or, if nothing was sent or answered since, an error.   *)
PingFires ==
    /\ pinger.timer
    /\ \/ /\ pinger.isReset
          /\ Becomes([Now EXCEPT !.pinger = [timer |-> ~SendThrows(Now), isReset |-> FALSE]])
          /\ UNCHANGED <<hostOf, socket, mqttVersion, faults>>
       \/ /\ ~pinger.isReset
          /\ Faulty(Answering)
          /\ Disconnected(TRUE, [Now EXCEPT !.pinger = [timer |-> FALSE, isReset |-> FALSE]])
    /\ UNCHANGED <<options, calls, calm>>

Pingresp(s) ==
    /\ s \in hooked /\ state[s] = "open" /\ greeted[s] = "answered"
    /\ pinger.timer /\ ~pinger.isReset
    /\ pinger' = Reset
    /\ UNCHANGED <<sockets, flags, connectTimer, retry, orphans, options, calls, calm, faults>>

Next ==
    \/ Connect \/ Disconnect \/ SendBuffered \/ SendPacket
    \/ \E s \in Sockets :
          \/ SocketOpens(s) \/ ConnackAccepted(s) \/ ConnackRefused(s) \/ ConnackLate(s)
          \/ SocketFails(s) \/ SocketCloses(s) \/ Pingresp(s)
    \/ ConnectTimeout \/ RetryFires \/ PingFires

(* The browser's timers run, a server that is up answers, a dead host's    *)
(* socket fails.                                                           *)
Fairness ==
    /\ WF_vars(ConnectTimeout) /\ WF_vars(RetryFires)
    /\ \A s \in Sockets :
          /\ WF_vars(SocketOpens(s)) /\ WF_vars(ConnackAccepted(s) \/ ConnackLate(s))
          /\ WF_vars(Pingresp(s))
          /\ WF_vars(SocketCloses(s) /\ (state[s] = "failed" \/ Rejected(s)))
          /\ WF_vars(SocketFails(s) /\ hostOf[s] \notin HostsUp)

Spec == Init /\ [][Next]_vars /\ Fairness

-----------------------------------------------------------------------------
(* After disconnect() the client is never connected again ("Terminate the  *)
(* auto reconnect process"), with one host and an explicit version: the    *)
(* next host, or the older version, would be tried all the same, and so    *)
(* would an abandoned socket or an orphan timer connect it.  A client that *)
(* reports buffered messages (onMessageDelivered) loses the callback of a  *)
(* DISCONNECT that waits with them, and stays connected.                   *)
StaysDown ==
    calls = "disconnect" /\ calm /\ options.hosts < 2 /\ options.explicit => ~connected

(* A connection ends because the network failed it, the server rejected    *)
(* it, or the application disconnected: never for a timer or an event that *)
(* an earlier attempt left behind (_disconnected takes whatever connection *)
(* there is), provided no abandoned socket is about.  The application has  *)
(* disconnected, too, if its DISCONNECT was queued.                        *)
Held ==
    [][connected /\ ~connected' /\ Abandoned = {} =>
          calls # calls' \/ disconnectQueued \/ faults # faults' \/ Rejected(socket)]_vars

(* A connection that was lost is made again once the network is up, unless *)
(* the application disconnects.                                            *)
Recovers == reconnecting ~> (connected \/ calls = "disconnect")
=============================================================================
