-------------------------- MODULE MqttClientProof --------------------------
(***************************************************************************)
(* Proofs about two parts of the web simulator's MQTT client that share    *)
(* no variable.                                                            *)
(*                                                                         *)
(* The connection, for any numbers of sockets, hosts, failures and timers: *)
(* the client stays disconnected, and only the network, the server or the  *)
(* application ends a connection, each with the exceptions its property    *)
(* names.  Every handler but a few ends in _disconnected, and that in a    *)
(* new attempt, in a timer for one, or in nothing; the lemmas say once     *)
(* what each of these leaves behind.                                       *)
(*                                                                         *)
(* The wire, for any packets that fit their fields and any cut of the      *)
(* stream: the client handles the packets that have arrived whole, and a   *)
(* broker reads what the client writes.  Strings, lengths and streams are  *)
(* defined by recursion; each definition is first shown to satisfy its     *)
(* equation, then what it computes by induction over the length.           *)
(***************************************************************************)
EXTENDS MqttConnection, MqttWire, WellFoundedInduction, SequenceTheorems, TLAPS

-----------------------------------------------------------------------------
(* The invariant.                                                          *)

States  == {"none", "opening", "open", "failed", "closed"}
Timers  == {"null", "pending", "done"}
Pingers == [timer : BOOLEAN, isReset : BOOLEAN]
Answers == {"no", "once", "twice", "answered", "ended"}
Clients == [state : [Sockets -> States], hooked : SUBSET Sockets, greeted : [Sockets -> Answers],
            connected : BOOLEAN, reconnecting : BOOLEAN, hostIndex : Nat,
            disconnectQueued : BOOLEAN, buffered : BOOLEAN,
            connectTimer : BOOLEAN, retry : Timers, orphans : Nat, pinger : Pingers]

ConnTypes ==
    /\ options \in Options
    /\ Now \in Clients
    /\ socket \in Sockets \cup {None}
    /\ hostOf \in [Sockets -> Nat] /\ faults \in Nat /\ calm \in BOOLEAN

\* What belongs to an attempt or to disconnect() is there only for it.
Attempts ==
    /\ connected => socket # None /\ ~connectTimer
    /\ retry = "pending" => reconnecting
    /\ reconnecting => socket # None \/ calls = "disconnect"
    /\ disconnectQueued => calls = "disconnect"

\* Nothing is left that could run.
Dead == socket = None /\ hooked = {} /\ ~connected /\ ~connectTimer /\ ~pinger.timer
\* Whatever happens next ends the only attempt there is.
Queued ==
    /\ disconnectQueued /\ socket # None /\ hooked \subseteq {socket}
    /\ ~connected /\ ~reconnecting /\ ~(buffered /\ options.delivered)
Quitting ==
    calls = "disconnect" /\ calm /\ options.hosts < 2 /\ options.explicit =>
        orphans = 0 /\ retry # "pending" /\ (Dead \/ Queued)

\* An open socket is one of a host that is up; nothing was sent on one that is opening.
SocketsSound ==
    \A s \in Sockets :
        /\ state[s] = "open" => hostOf[s] \in HostsUp
        /\ state[s] = "opening" => greeted[s] = "no"

\* A connection without abandoned sockets is that of its socket, unless the client
\* reconnects all the same and takes no notice of its socket.
Own ==
    /\ SocketsSound
    /\ connected /\ Abandoned = {} => reconnecting \/ state[socket] \in {"opening", "open"}

ConnInv == ConnTypes /\ Attempts /\ Quitting /\ Own

-----------------------------------------------------------------------------
(* What the handlers share.                                                *)

\* What SocketsSound says, of what a handler has made of the client.
Kept(c) ==
    \A s \in Sockets :
        /\ c.state[s] = "open" => hostOf[s] \in HostsUp
        /\ c.state[s] = "opening" => c.greeted[s] = "no"

SocketTypes ==
    /\ Now \in Clients /\ socket \in Sockets \cup {None}
    /\ hostOf \in [Sockets -> Nat]

LEMMA BecomesFields ==
    ASSUME NEW c \in Clients, Becomes(c)
    PROVE  /\ Now' = c
           /\ state' = c.state /\ hooked' = c.hooked /\ greeted' = c.greeted
           /\ connected' = c.connected /\ reconnecting' = c.reconnecting
           /\ disconnectQueued' = c.disconnectQueued /\ buffered' = c.buffered
           /\ hostIndex' = c.hostIndex /\ connectTimer' = c.connectTimer /\ retry' = c.retry
           /\ orphans' = c.orphans /\ pinger' = c.pinger
<1>1. /\ state' = c.state /\ hooked' = c.hooked /\ greeted' = c.greeted
      /\ connected' = c.connected /\ reconnecting' = c.reconnecting
      /\ disconnectQueued' = c.disconnectQueued /\ buffered' = c.buffered
      /\ hostIndex' = c.hostIndex /\ connectTimer' = c.connectTimer /\ retry' = c.retry
      /\ orphans' = c.orphans /\ pinger' = c.pinger
    BY DEF Becomes
<1>2. c = [state |-> c.state, hooked |-> c.hooked, greeted |-> c.greeted,
           connected |-> c.connected, reconnecting |-> c.reconnecting,
           hostIndex |-> c.hostIndex, disconnectQueued |-> c.disconnectQueued,
           buffered |-> c.buffered, connectTimer |-> c.connectTimer, retry |-> c.retry,
           orphans |-> c.orphans, pinger |-> c.pinger]
    BY DEF Clients
<1> QED
    BY <1>1, <1>2 DEF Now

\* What holds of the client's record holds of the client.
LEMMA BecomesSound ==
    ASSUME NEW c \in Clients, Becomes(c), Kept(c), UNCHANGED hostOf
    PROVE  SocketsSound'
BY BecomesFields DEF Kept, SocketsSound

LEMMA DoConnectDoes ==
    ASSUME ConnTypes, NEW host \in Nat, NEW c \in Clients, DoConnect(host, c), Kept(c)
    PROVE  /\ SocketTypes' /\ socket' # None /\ ~connected' /\ SocketsSound'
           /\ reconnecting' = c.reconnecting /\ retry' = c.retry /\ orphans' = c.orphans
           /\ disconnectQueued' = c.disconnectQueued
<1>1. PICK s \in Sockets \ ({socket} \cup c.hooked) :
        /\ Becomes([c EXCEPT !.state = [@ EXCEPT ![s] = "opening"], !.hooked = @ \cup {s},
                             !.greeted = [@ EXCEPT ![s] = "no"],
                             !.connected = FALSE, !.hostIndex = host,
                             !.connectTimer = TRUE, !.pinger = Idle])
        /\ hostOf' = [hostOf EXCEPT ![s] = host]
        /\ socket' = s
    BY DEF DoConnect
<1> DEFINE st == [c.state EXCEPT ![s] = "opening"]
           gr == [c.greeted EXCEPT ![s] = "no"]
           hk == c.hooked \cup {s}
<1>2. /\ st \in [Sockets -> States] /\ gr \in [Sockets -> Answers] /\ hk \in SUBSET Sockets
      /\ Idle \in Pingers
    BY <1>1 DEF Clients, States, Answers, Idle, Pingers
<1>3. PICK d : d = [c EXCEPT !.state = st, !.hooked = hk, !.greeted = gr,
                             !.connected = FALSE, !.hostIndex = host,
                             !.connectTimer = TRUE, !.pinger = Idle]
    OBVIOUS
<1>4. Becomes(d)
    BY <1>1, <1>3
<1> HIDE DEF st, gr, hk
<1>5. /\ d \in Clients /\ d.connected = FALSE /\ d.reconnecting = c.reconnecting
      /\ d.retry = c.retry /\ d.orphans = c.orphans
      /\ d.state = st /\ d.greeted = gr /\ d.disconnectQueued = c.disconnectQueued
    BY <1>2, <1>3 DEF Clients
<1>6. /\ Now' = d /\ state' = st /\ greeted' = gr /\ ~connected'
      /\ reconnecting' = d.reconnecting /\ retry' = d.retry /\ orphans' = d.orphans
      /\ disconnectQueued' = d.disconnectQueued
    BY <1>4, <1>5, BecomesFields
<1>7. SocketTypes'
    BY <1>1, <1>5, <1>6 DEF SocketTypes, ConnTypes
<1>8. socket' # None
    BY <1>1, ConnectionAssumption
<1>9. SocketsSound'
    <2> SUFFICES ASSUME NEW o \in Sockets
                 PROVE  /\ state'[o] = "open" => hostOf'[o] \in HostsUp
                        /\ state'[o] = "opening" => greeted'[o] = "no"
        BY DEF SocketsSound
    <2>1. c.state \in [Sockets -> States] /\ c.greeted \in [Sockets -> Answers]
        BY DEF Clients
    <2>2. CASE o = s
        BY <1>6, <2>1, <2>2 DEF st, gr
    <2>3. CASE o # s
        <3>1. state'[o] = c.state[o] /\ greeted'[o] = c.greeted[o]
            BY <1>6, <2>1, <2>3 DEF st, gr
        <3>2. hostOf'[o] = hostOf[o]
            BY <1>1, <2>3 DEF ConnTypes
        <3> QED
            BY <3>1, <3>2 DEF Kept
    <2> QED
        BY <2>2, <2>3
<1> QED
    BY <1>6, <1>7, <1>8, <1>9, <1>5

LEMMA ReconnectDoes ==
    ASSUME ConnTypes, NEW c \in Clients, Reconnect(c), Kept(c)
    PROVE  /\ SocketTypes' /\ retry' = c.retry /\ orphans' = c.orphans
           /\ connected' = c.connected /\ SocketsSound'
           /\ disconnectQueued' = c.disconnectQueued
           /\ ~c.connected => socket' # None /\ reconnecting' = TRUE
           /\ c.connected => Now' = c /\ UNCHANGED <<hostOf, socket>>
<1>1. CASE c.connected
    <2>1. Becomes(c) /\ UNCHANGED <<hostOf, socket>>
        BY <1>1 DEF Reconnect
    <2> QED
        BY <1>1, <2>1, BecomesFields, BecomesSound DEF SocketTypes, ConnTypes
<1>2. CASE ~c.connected
    <2>1. PICK d : d = [c EXCEPT !.reconnecting = TRUE]
        OBVIOUS
    <2>2. /\ d \in Clients /\ d.reconnecting = TRUE /\ d.retry = c.retry /\ d.orphans = c.orphans
          /\ d.state = c.state /\ d.greeted = c.greeted
          /\ d.disconnectQueued = c.disconnectQueued
        BY <2>1 DEF Clients
    <2>3. DoConnect(0, d) /\ Kept(d)
        BY <1>2, <2>1, <2>2 DEF Reconnect, Kept
    <2>4. c.connected = FALSE
        BY <1>2 DEF Clients
    <2> QED
        BY <1>2, <2>2, <2>3, <2>4, DoConnectDoes, connected' \in BOOLEAN
        DEF SocketTypes, Now, Clients
<1> QED
    BY <1>1, <1>2

LEMMA ReleasedDoes ==
    ASSUME NEW c \in Clients
    PROVE  LET gone == Released(c) IN
           /\ gone \in Clients /\ gone.connected = c.connected
           /\ gone.reconnecting = c.reconnecting /\ gone.hostIndex = c.hostIndex
           /\ gone.retry = c.retry /\ gone.orphans = c.orphans
           /\ gone.hooked = c.hooked \ {socket}
           /\ ~gone.connectTimer /\ ~gone.pinger.timer
           /\ gone.greeted = c.greeted /\ gone.disconnectQueued = FALSE
           /\ \A s \in Sockets : gone.state[s] = "closed" \/ gone.state[s] = c.state[s]
<1> DEFINE st == [s \in Sockets |-> IF s = socket THEN "closed" ELSE c.state[s]]
           hk == c.hooked \ {socket}
<1>1. /\ st \in [Sockets -> States] /\ hk \in SUBSET Sockets /\ Idle \in Pingers /\ ~Idle.timer
    BY DEF Clients, States, Idle, Pingers
<1>2. PICK gone : gone = [c EXCEPT !.state = st, !.hooked = hk, !.disconnectQueued = FALSE,
                                   !.buffered = FALSE, !.pinger = Idle, !.connectTimer = FALSE]
    OBVIOUS
<1>3. gone = Released(c)
    BY <1>2 DEF Released
<1>4. \A s \in Sockets : st[s] = "closed" \/ st[s] = c.state[s]
    OBVIOUS
<1> HIDE DEF st
<1>5. /\ gone \in Clients /\ gone.connected = c.connected
      /\ gone.reconnecting = c.reconnecting /\ gone.hostIndex = c.hostIndex
      /\ gone.retry = c.retry /\ gone.orphans = c.orphans
      /\ gone.hooked = hk /\ gone.connectTimer = FALSE /\ gone.pinger = Idle
      /\ gone.greeted = c.greeted /\ gone.disconnectQueued = FALSE
      /\ gone.state = st
    BY <1>1, <1>2 DEF Clients
<1> QED
    BY <1>1, <1>3, <1>4, <1>5

\* The connection is gone or is made anew; with one host and an explicit version
\* nothing takes the place of one that was not lost.
LEMMA TearDownDoes ==
    ASSUME ConnTypes, NEW c \in Clients, NEW error \in BOOLEAN, TearDown(error, c), Kept(c),
           ~c.reconnecting
    PROVE  /\ SocketTypes' /\ ~connected' /\ SocketsSound'
           /\ retry' = c.retry /\ orphans' = c.orphans
           /\ disconnectQueued' = FALSE /\ (reconnecting' => socket' # None)
           /\ options.hosts < 2 /\ options.explicit /\ (c.connected => ~error)
                => /\ socket' = None /\ hooked' = c.hooked \ {socket}
                   /\ ~connectTimer' /\ ~pinger'.timer
<1>1. PICK gone : gone = Released(c)
    OBVIOUS
<1>2. /\ gone \in Clients /\ gone.connected = c.connected /\ gone.reconnecting = c.reconnecting
      /\ gone.retry = c.retry /\ gone.orphans = c.orphans
      /\ gone.hooked = c.hooked \ {socket}
      /\ ~gone.connectTimer /\ ~gone.pinger.timer
      /\ gone.greeted = c.greeted /\ gone.disconnectQueued = FALSE
      /\ \A s \in Sockets : gone.state[s] = "closed" \/ gone.state[s] = c.state[s]
    BY <1>1, ReleasedDoes
<1>3. PICK over : over = [gone EXCEPT !.connected = FALSE]
    OBVIOUS
<1>4. /\ over \in Clients /\ over.connected = FALSE /\ over.reconnecting = c.reconnecting
      /\ over.retry = c.retry /\ over.orphans = c.orphans
      /\ over.hooked = c.hooked \ {socket}
      /\ ~over.connectTimer /\ ~over.pinger.timer
      /\ over.state = gone.state /\ over.greeted = gone.greeted
      /\ over.disconnectQueued = FALSE
    BY <1>2, <1>3 DEF Clients
<1>5. Kept(gone) /\ Kept(over)
    BY <1>2, <1>4 DEF Kept
<1>6. c.hostIndex \in Nat /\ options.hosts \in Nat /\ c.hostIndex + 1 \in Nat /\ 0 \in Nat
    BY ConnectionAssumption DEF ConnTypes, Clients
<1>7. CASE c.hostIndex + 1 < options.hosts
    <2>1. DoConnect(c.hostIndex + 1, gone)
        BY <1>1, <1>7 DEF TearDown
    <2>2. ~(options.hosts < 2)
        BY <1>6, <1>7
    <2> QED
        BY <1>2, <1>5, <1>6, <2>1, <2>2, DoConnectDoes
<1>8. CASE ~(c.hostIndex + 1 < options.hosts) /\ c.connected /\ error
    <2>1. Reconnect(over)
        BY <1>1, <1>3, <1>8 DEF TearDown
    <2> QED
        BY <1>4, <1>5, <1>8, <2>1, ReconnectDoes
<1>9. CASE /\ ~(c.hostIndex + 1 < options.hosts) /\ ~(c.connected /\ error)
           /\ ~c.connected /\ mqttVersion = 4 /\ ~options.explicit
    <2>1. DoConnect(0, gone)
        BY <1>1, <1>9 DEF TearDown
    <2> QED
        BY <1>2, <1>5, <1>6, <1>9, <2>1, DoConnectDoes
<1>10. CASE /\ ~(c.hostIndex + 1 < options.hosts) /\ ~(c.connected /\ error)
            /\ ~(~c.connected /\ mqttVersion = 4 /\ ~options.explicit)
    <2>1. /\ Becomes(over) /\ socket' = None /\ UNCHANGED hostOf
        BY <1>1, <1>3, <1>10 DEF TearDown
    <2>2. /\ Now' = over /\ state' = over.state /\ hooked' = over.hooked
          /\ connected' = over.connected /\ reconnecting' = over.reconnecting
          /\ connectTimer' = over.connectTimer /\ retry' = over.retry
          /\ orphans' = over.orphans /\ pinger' = over.pinger
          /\ disconnectQueued' = over.disconnectQueued
        BY <1>4, <2>1, BecomesFields
    <2>3. SocketTypes'
        BY <1>4, <2>1, <2>2 DEF SocketTypes, ConnTypes
    <2>4. SocketsSound'
        BY <1>4, <1>5, <2>1, BecomesSound
    <2> QED
        BY <1>4, <2>1, <2>2, <2>3, <2>4
<1> QED
    BY <1>7, <1>8, <1>9, <1>10

\* Nothing runs that could connect, but for the socket in use.
Ended(c) ==
    /\ options.hosts < 2 /\ options.explicit
    /\ c.orphans = 0 /\ c.retry # "pending" /\ c.hooked \subseteq {socket}

LEMMA DisconnectedDoes ==
    ASSUME ConnTypes, NEW c \in Clients, NEW error \in BOOLEAN, Disconnected(error, c), Kept(c),
           ~error => ~c.reconnecting,
           c.retry = "pending" => c.reconnecting,
           c.connected => socket # None /\ ~c.connectTimer,
           c.reconnecting => socket # None \/ calls' = "disconnect",
           c.disconnectQueued => calls' = "disconnect"
    PROVE  /\ SocketTypes' /\ Attempts' /\ SocketsSound'
           /\ connected' <=> error /\ c.reconnecting /\ c.connected
           /\ connected' => reconnecting'
           /\ Ended(c) /\ ~c.reconnecting /\ (c.connected => ~error)
                => orphans' = 0 /\ retry' # "pending" /\ Dead'
<1>1. CASE error /\ c.reconnecting
    <2>1. Retry(c) /\ UNCHANGED <<hostOf, socket>>
        BY <1>1 DEF Disconnected
    <2>2. PICK d : /\ \E pending \in Nat : d = [c EXCEPT !.retry = "pending", !.orphans = pending]
                   /\ Becomes(d)
        <3>1. (IF c.retry = "pending" THEN c.orphans + 1 ELSE c.orphans) \in Nat
            BY DEF Clients
        <3> QED
            BY <2>1, <3>1 DEF Retry
    <2>3. /\ d \in Clients /\ d.state = c.state /\ d.greeted = c.greeted
          /\ d.connected = c.connected /\ d.reconnecting = c.reconnecting
          /\ d.connectTimer = c.connectTimer /\ d.disconnectQueued = c.disconnectQueued
        BY <2>2 DEF Clients, Timers
    <2>4. /\ Now' = d /\ connected' = d.connected
          /\ reconnecting' = d.reconnecting /\ connectTimer' = d.connectTimer
          /\ disconnectQueued' = d.disconnectQueued
        BY <2>2, <2>3, BecomesFields
    <2>5. Kept(d)
        BY <2>3 DEF Kept
    <2>6. SocketsSound'
        BY <2>1, <2>2, <2>3, <2>5, BecomesSound
    <2> QED
        BY <1>1, <2>1, <2>3, <2>4, <2>6 DEF SocketTypes, ConnTypes, Attempts
<1>2. CASE ~(error /\ c.reconnecting)
    <2>1. TearDown(error, c) /\ ~c.reconnecting
        BY <1>2 DEF Disconnected
    <2>2. /\ SocketTypes' /\ ~connected' /\ SocketsSound'
          /\ retry' = c.retry /\ orphans' = c.orphans
          /\ disconnectQueued' = FALSE /\ (reconnecting' => socket' # None)
          /\ options.hosts < 2 /\ options.explicit /\ (c.connected => ~error)
               => /\ socket' = None /\ hooked' = c.hooked \ {socket}
                  /\ ~connectTimer' /\ ~pinger'.timer
        BY <2>1, TearDownDoes
    <2>3. Attempts'
        BY <2>1, <2>2 DEF Attempts
    <2> QED
        BY <2>1, <2>2, <2>3 DEF Ended, Dead
<1> QED
    BY <1>1, <1>2

-----------------------------------------------------------------------------
(* Every step keeps the invariant, and a connection.                       *)

HeldStep ==
    connected /\ ~connected' /\ Abandoned = {} =>
        calls # calls' \/ disconnectQueued \/ faults # faults' \/ Rejected(socket)

\* An event that ends whatever there is, unless the client reconnects.  If disconnect()
\* has returned there is nothing left that it could end, or it ends the last attempt.
LEMMA Ending ==
    ASSUME ConnInv, NEW c \in Clients, NEW error \in BOOLEAN, Disconnected(error, c), Kept(c),
           c.reconnecting = reconnecting, c.hooked \subseteq hooked, c.orphans = orphans,
           c.retry = "pending" => retry = "pending",
           c.connected = connected, c.disconnectQueued => disconnectQueued,
           c.connectTimer => connectTimer, ~error => ~reconnecting,
           UNCHANGED <<options, calls, calm>>, faults' \in Nat, ~Dead
    PROVE  ConnInv' /\ (connected' <=> error /\ reconnecting /\ connected)
<1>1. /\ c.retry = "pending" => c.reconnecting
      /\ c.reconnecting => socket # None \/ calls' = "disconnect"
      /\ c.disconnectQueued => calls' = "disconnect"
    BY DEF ConnInv, Attempts
<1>2. c.connected => socket # None /\ ~c.connectTimer
    BY DEF ConnInv, Attempts
<1>3. ConnTypes
    BY DEF ConnInv
<1>4. /\ SocketTypes' /\ Attempts' /\ SocketsSound'
      /\ connected' <=> error /\ c.reconnecting /\ c.connected
      /\ connected' => reconnecting'
      /\ Ended(c) /\ ~c.reconnecting /\ (c.connected => ~error)
            => orphans' = 0 /\ retry' # "pending" /\ Dead'
    BY <1>1, <1>2, <1>3, DisconnectedDoes
<1>5. ConnTypes'
    BY <1>3, <1>4 DEF ConnTypes, SocketTypes
<1>6. Own'
    BY <1>4 DEF Own
<1>7. Quitting'
    <2> SUFFICES ASSUME calls' = "disconnect", calm', options'.hosts < 2, options'.explicit
                 PROVE  orphans' = 0 /\ retry' # "pending" /\ Dead'
        BY DEF Quitting
    <2>1. orphans = 0 /\ retry # "pending" /\ Queued
        BY DEF ConnInv, Quitting
    <2>2. Ended(c) /\ ~c.reconnecting /\ (c.connected => ~error)
        BY <2>1 DEF Ended, Queued
    <2> QED
        BY <1>4, <2>2
<1> QED
    BY <1>4, <1>5, <1>6, <1>7 DEF ConnInv

LEMMA NowFields ==
    ASSUME ConnTypes
    PROVE  /\ Now \in Clients
           /\ state \in [Sockets -> States] /\ hooked \in SUBSET Sockets /\ connected \in BOOLEAN
           /\ reconnecting \in BOOLEAN /\ hostIndex \in Nat /\ connectTimer \in BOOLEAN
           /\ disconnectQueued \in BOOLEAN /\ buffered \in BOOLEAN
           /\ greeted \in [Sockets -> Answers]
           /\ retry \in Timers /\ orphans \in Nat /\ pinger \in Pingers
           /\ Now.state = state /\ Now.hooked = hooked /\ Now.connected = connected
           /\ Now.greeted = greeted /\ Now.disconnectQueued = disconnectQueued
           /\ Now.reconnecting = reconnecting /\ Now.hostIndex = hostIndex
           /\ Now.connectTimer = connectTimer /\ Now.retry = retry /\ Now.orphans = orphans
           /\ Now.pinger = pinger /\ Now.buffered = buffered
BY DEF ConnTypes, Now, Clients

LEMMA Faults ==
    ASSUME ConnTypes, NEW isFault \in BOOLEAN, Faulty(isFault)
    PROVE  faults' \in Nat /\ (isFault => faults # faults')
BY DEF ConnTypes, Faulty

\* The client's record with the answer of a server noted.
LEMMA AnsweredDoes ==
    ASSUME ConnTypes, NEW s \in Sockets, NEW answer \in Answers
    PROVE  LET c == Answered(s, answer) IN
           /\ c \in Clients /\ c.state = state /\ c.hooked = hooked /\ c.connected = connected
           /\ c.greeted = [greeted EXCEPT ![s] = answer]
           /\ c.disconnectQueued = disconnectQueued /\ c.buffered = buffered
           /\ c.reconnecting = reconnecting /\ c.hostIndex = hostIndex
           /\ c.connectTimer = connectTimer /\ c.retry = retry /\ c.orphans = orphans
           /\ c.pinger = pinger
<1> DEFINE gr == [greeted EXCEPT ![s] = answer]
<1>1. gr \in [Sockets -> Answers]
    BY NowFields
<1>2. PICK c : c = [Now EXCEPT !.greeted = gr]
    OBVIOUS
<1>3. c = Answered(s, answer)
    BY <1>2, NowFields DEF Answered
<1> HIDE DEF gr
<1>4. /\ c \in Clients /\ c.state = state /\ c.hooked = hooked /\ c.connected = connected
      /\ c.greeted = gr /\ c.disconnectQueued = disconnectQueued /\ c.buffered = buffered
      /\ c.reconnecting = reconnecting /\ c.hostIndex = hostIndex
      /\ c.connectTimer = connectTimer /\ c.retry = retry /\ c.orphans = orphans
      /\ c.pinger = pinger
    BY <1>1, <1>2, NowFields DEF Clients
<1> QED
    BY <1>3, <1>4 DEF gr

LEMMA ConnInitial == Init => ConnInv
<1> SUFFICES ASSUME Init PROVE ConnInv
    OBVIOUS
<1>1. ConnTypes
    BY ConnectionAssumption
       DEF Init, ConnTypes, Now, Clients, States, Answers, Timers, Pingers, Idle
<1>2. Attempts /\ Quitting /\ Own
    BY ConnectionAssumption DEF Init, Attempts, Quitting, Own, SocketsSound
<1> QED
    BY <1>1, <1>2 DEF ConnInv

LEMMA ConnectKeeps == ASSUME ConnInv, Connect PROVE ConnInv' /\ HeldStep
<1>1. PICK c : c = [Now EXCEPT !.reconnecting = FALSE]
    OBVIOUS
<1>2. /\ c \in Clients /\ c.state = state /\ c.reconnecting = FALSE
      /\ c.retry = retry /\ c.orphans = orphans /\ c.greeted = greeted
      /\ c.disconnectQueued = disconnectQueued
    BY <1>1, NowFields DEF ConnInv, ConnTypes, Clients
<1>3. DoConnect(0, c) /\ Kept(c) /\ ConnTypes /\ ~connected /\ calls' = "connect"
    BY <1>1, <1>2 DEF Connect, ConnInv, Own, SocketsSound, Kept
<1>4. /\ SocketTypes' /\ socket' # None /\ ~connected' /\ SocketsSound'
      /\ reconnecting' = c.reconnecting /\ retry' = c.retry /\ orphans' = c.orphans
      /\ disconnectQueued' = c.disconnectQueued
    BY <1>2, <1>3, DoConnectDoes
<1>5. ConnTypes'
    BY <1>3, <1>4 DEF ConnTypes, SocketTypes, Connect
<1>6. retry # "pending" /\ ~disconnectQueued
    BY DEF ConnInv, Attempts, Connect
<1>7. Attempts'
    BY <1>2, <1>4, <1>6 DEF Attempts
<1>8. Quitting' /\ Own' /\ HeldStep
    BY <1>3, <1>4 DEF Quitting, Own, HeldStep
<1> QED
    BY <1>5, <1>7, <1>8 DEF ConnInv

LEMMA DisconnectKeeps == ASSUME ConnInv, Disconnect PROVE ConnInv' /\ HeldStep
<1> DEFINE neverTimed == reconnecting /\ retry = "null"
           throws == neverTimed \/ socket = None \/ (connected /\ SendThrows(Now))
<1>1. PICK c : c = IF reconnecting /\ ~neverTimed
                   THEN [Now EXCEPT !.retry = "null", !.reconnecting = FALSE] ELSE Now
    OBVIOUS
<1>2. /\ calm' = (~throws /\ orphans = 0 /\ Abandoned = {} /\ ~(buffered /\ options.delivered))
      /\ IF connected /\ ~throws
         THEN Disconnected(FALSE, c)
         ELSE /\ Becomes([c EXCEPT !.disconnectQueued = ~throws])
              /\ UNCHANGED <<hostOf, socket, mqttVersion>>
      /\ UNCHANGED <<options, faults>> /\ calls' = "disconnect" /\ calls # calls'
    BY <1>1 DEF Disconnect
<1>3. /\ c \in Clients /\ c.state = state /\ c.hooked = hooked /\ c.connected = connected
      /\ c.orphans = orphans /\ c.connectTimer = connectTimer /\ c.greeted = greeted
      /\ c.buffered = buffered
      /\ (c.reconnecting => socket # None \/ calls' = "disconnect")
      /\ (c.disconnectQueued => calls' = "disconnect")
      /\ c.reconnecting = (reconnecting /\ neverTimed)
      /\ c.retry = IF reconnecting /\ ~neverTimed THEN "null" ELSE retry
    <2>1. CASE reconnecting /\ ~neverTimed
        BY <1>1, <1>2, <2>1, NowFields DEF ConnInv, ConnTypes, Clients, Timers
    <2>2. CASE ~(reconnecting /\ ~neverTimed)
        BY <1>1, <1>2, <2>2, NowFields DEF ConnInv
    <2> QED
        BY <2>1, <2>2
<1>4. HeldStep
    BY <1>2 DEF HeldStep
<1>5. ConnTypes /\ Kept(c) /\ (c.connected => socket # None /\ ~c.connectTimer)
    BY <1>3 DEF ConnInv, Own, SocketsSound, Kept, Attempts
<1>6. c.retry = "pending" => c.reconnecting
    <2>1. CASE reconnecting /\ ~neverTimed
        BY <1>3, <2>1
    <2>2. CASE reconnecting /\ neverTimed
        BY <1>3, <2>2
    <2>3. CASE ~reconnecting
        BY <1>3, <2>3 DEF ConnInv, Attempts
    <2> QED
        BY <2>1, <2>2, <2>3
<1>7. CASE connected /\ ~throws
    <2>1. ~c.reconnecting
        BY <1>3, <1>7
    <2>2. /\ SocketTypes' /\ Attempts' /\ SocketsSound'
          /\ connected' <=> FALSE /\ c.reconnecting /\ c.connected
          /\ Ended(c) /\ ~c.reconnecting /\ (c.connected => ~FALSE)
                => orphans' = 0 /\ retry' # "pending" /\ Dead'
        BY <1>2, <1>3, <1>5, <1>7, <1>6, <2>1, DisconnectedDoes, FALSE \in BOOLEAN
    <2>3. ConnTypes' /\ Own'
        BY <1>2, <1>5, <2>2 DEF ConnTypes, SocketTypes, Own
    <2>4. Quitting'
        BY <1>2, <1>3, <1>6, <2>1, <2>2 DEF Quitting, Ended, Abandoned
    <2> QED
        BY <1>4, <2>2, <2>3, <2>4 DEF ConnInv
<1>8. CASE ~(connected /\ ~throws)
    <2>1. PICK d : d = [c EXCEPT !.disconnectQueued = ~throws]
        OBVIOUS
    <2>2. Becomes(d) /\ UNCHANGED <<hostOf, socket, mqttVersion>>
        BY <1>2, <1>8, <2>1
    <2>3. /\ d \in Clients /\ d.state = state /\ d.hooked = hooked /\ d.connected = connected
          /\ d.orphans = orphans /\ d.connectTimer = connectTimer /\ d.greeted = greeted
          /\ d.buffered = buffered /\ d.disconnectQueued = ~throws
          /\ d.reconnecting = c.reconnecting /\ d.retry = c.retry
        <3>1. PICK queued \in BOOLEAN : queued = ~throws
            OBVIOUS
        <3> HIDE DEF throws
        <3>2. d = [c EXCEPT !.disconnectQueued = queued]
            BY <2>1, <3>1
        <3>3. /\ d \in Clients /\ d.state = c.state /\ d.hooked = c.hooked
              /\ d.connected = c.connected /\ d.orphans = c.orphans
              /\ d.connectTimer = c.connectTimer /\ d.greeted = c.greeted
              /\ d.buffered = c.buffered /\ d.disconnectQueued = queued
              /\ d.reconnecting = c.reconnecting /\ d.retry = c.retry
            BY <1>3, <3>2 DEF Clients
        <3> QED
            BY <1>3, <3>1, <3>3
    <2>4. /\ Now' = d /\ state' = state /\ hooked' = hooked /\ greeted' = greeted
          /\ connected' = connected /\ reconnecting' = c.reconnecting
          /\ disconnectQueued' = ~throws /\ buffered' = buffered
          /\ connectTimer' = connectTimer /\ retry' = c.retry /\ orphans' = orphans
        BY <2>2, <2>3, BecomesFields
    <2>5. ConnTypes'
        BY <1>2, <1>5, <2>2, <2>3, <2>4 DEF ConnTypes
    <2>6. Attempts'
        BY <1>2, <1>6, <2>2, <2>4 DEF ConnInv, Attempts
    <2>7. Own'
        <3>1. connected => neverTimed \/ state[socket] = "opening"
            BY <1>8, NowFields DEF ConnInv, Attempts, SendThrows
        <3>2. neverTimed => c.reconnecting
            BY <1>3
        <3> QED
            BY <2>2, <2>4, <3>1, <3>2 DEF ConnInv, Own, SocketsSound, Abandoned
    <2>8. Quitting'
        <3> SUFFICES ASSUME calm' PROVE orphans' = 0 /\ retry' # "pending" /\ Queued'
            BY DEF Quitting
        <3>1. /\ ~throws /\ orphans = 0 /\ Abandoned = {} /\ ~neverTimed /\ socket # None
              /\ ~connected /\ ~(buffered /\ options.delivered) /\ options' = options
            BY <1>2, <1>8
        <3>2. ~c.reconnecting /\ c.retry # "pending"
            BY <1>3, <1>6, <3>1
        <3> QED
            BY <2>2, <2>4, <3>1, <3>2 DEF Queued, Abandoned
    <2> QED
        BY <1>4, <2>5, <2>6, <2>7, <2>8 DEF ConnInv
<1> QED
    BY <1>7, <1>8

LEMMA SendBufferedKeeps == ASSUME ConnInv, SendBuffered PROVE ConnInv' /\ HeldStep
<1>1. ConnTypes'
    BY NowFields DEF SendBuffered, ConnInv, ConnTypes, Now, Clients, sockets, timers
<1>2. Attempts' /\ Quitting' /\ Own' /\ HeldStep
    BY DEF SendBuffered, ConnInv, Attempts, Quitting, Own, SocketsSound, Abandoned, HeldStep,
           sockets, timers
<1> QED
    BY <1>1, <1>2 DEF ConnInv

\* Steps that only touch the pinger.
LEMMA PingerKeeps ==
    ASSUME ConnInv, pinger' \in Pingers, ~Dead, faults' \in Nat,
           UNCHANGED <<sockets, flags, connectTimer, retry, orphans, options, calls, calm>>
    PROVE  ConnInv' /\ HeldStep
<1>1. ConnTypes'
    BY NowFields DEF ConnInv, ConnTypes, Now, Clients, sockets, flags
<1>2. Attempts' /\ Quitting' /\ Own' /\ HeldStep
    BY DEF ConnInv, Attempts, Quitting, Queued, Own, SocketsSound, Abandoned, HeldStep, sockets, flags
<1> QED
    BY <1>1, <1>2 DEF ConnInv

LEMMA SendPacketKeeps == ASSUME ConnInv, SendPacket PROVE ConnInv' /\ HeldStep
<1>1. ~Dead /\ pinger' \in Pingers
    BY DEF SendPacket, Dead, Reset, Pingers
<1> QED
    BY <1>1, PingerKeeps DEF SendPacket, ConnInv, ConnTypes

LEMMA PingrespKeeps ==
    ASSUME ConnInv, NEW s \in Sockets, Pingresp(s) PROVE ConnInv' /\ HeldStep
<1>1. ~Dead /\ pinger' \in Pingers
    BY DEF Pingresp, Dead, Reset, Pingers
<1> QED
    BY <1>1, PingerKeeps DEF Pingresp, ConnInv, ConnTypes

LEMMA PingFiresKeeps == ASSUME ConnInv, PingFires PROVE ConnInv' /\ HeldStep
<1>1. ~Dead /\ ConnTypes
    BY DEF PingFires, Dead, ConnInv
<1>2. UNCHANGED <<options, calls, calm>>
    BY DEF PingFires
<1>3. CASE /\ Becomes([Now EXCEPT !.pinger = [timer |-> ~SendThrows(Now), isReset |-> FALSE]])
           /\ UNCHANGED <<hostOf, socket, mqttVersion, faults>>
    <2>1. PICK timer \in BOOLEAN : timer = ~SendThrows(Now)
        BY DEF SendThrows
    <2>2. PICK c : c = [Now EXCEPT !.pinger = [timer |-> timer, isReset |-> FALSE]]
        OBVIOUS
    <2>3. /\ c \in Clients /\ c.pinger \in Pingers
          /\ c.state = state /\ c.hooked = hooked /\ c.connected = connected
          /\ c.reconnecting = reconnecting /\ c.hostIndex = hostIndex
          /\ c.connectTimer = connectTimer /\ c.retry = retry /\ c.orphans = orphans
          /\ c.greeted = greeted /\ c.disconnectQueued = disconnectQueued /\ c.buffered = buffered
        BY <1>1, <2>2, NowFields DEF ConnTypes, Clients, Pingers
    <2>4. Becomes(c)
        BY <1>3, <2>1, <2>2
    <2>5. /\ pinger' \in Pingers /\ faults' \in Nat
          /\ UNCHANGED <<sockets, flags, connectTimer, retry, orphans>>
        BY <1>1, <1>3, <2>3, <2>4, BecomesFields DEF sockets, flags, ConnTypes
    <2> QED
        BY <1>1, <1>2, <2>5, PingerKeeps
<1>4. CASE /\ Faulty(Answering)
           /\ Disconnected(TRUE, [Now EXCEPT !.pinger = [timer |-> FALSE, isReset |-> FALSE]])
    <2>1. PICK c : c = [Now EXCEPT !.pinger = [timer |-> FALSE, isReset |-> FALSE]]
        OBVIOUS
    <2>2. /\ c \in Clients /\ c.state = state /\ c.hooked = hooked /\ c.connected = connected
          /\ c.reconnecting = reconnecting /\ c.retry = retry /\ c.orphans = orphans
          /\ c.greeted = greeted /\ c.disconnectQueued = disconnectQueued
          /\ c.connectTimer = connectTimer
        BY <1>1, <2>1, NowFields DEF ConnTypes, Clients, Pingers
    <2>3. Disconnected(TRUE, c) /\ Kept(c) /\ TRUE \in BOOLEAN
        BY <1>4, <2>1, <2>2 DEF ConnInv, Own, SocketsSound, Kept
    <2>4. faults' \in Nat /\ (Answering => faults # faults')
        BY <1>1, <1>4, Faults, Answering \in BOOLEAN DEF Answering
    <2>5. ConnInv' /\ (connected' <=> TRUE /\ reconnecting /\ connected)
        BY <1>1, <1>2, <2>2, <2>3, <2>4, Ending
    <2>6. HeldStep
        BY <1>1, <2>4, <2>5 DEF HeldStep, Answering, Rejected, ConnInv, Attempts, Own, SocketsSound, ConnTypes
    <2> QED
        BY <2>5, <2>6
<1> QED
    BY <1>3, <1>4 DEF PingFires

LEMMA SocketOpensKeeps ==
    ASSUME ConnInv, NEW s \in Sockets, SocketOpens(s) PROVE ConnInv' /\ HeldStep
<1>1. /\ ConnTypes /\ s \in hooked /\ state[s] = "opening" /\ hostOf[s] \in HostsUp
      /\ UNCHANGED <<hostOf, socket, mqttVersion, options, calls, calm, faults>>
    BY DEF SocketOpens, ConnInv
<1> DEFINE st == [state EXCEPT ![s] = "open"]
<1>2. st \in [Sockets -> States]
    BY <1>1, NowFields DEF States
<1>3. PICK opened : opened = [Now EXCEPT !.state = st]
    OBVIOUS
<1>4. opened = [Now EXCEPT !.state = [@ EXCEPT ![s] = "open"]]
    BY <1>1, <1>3, NowFields
<1> HIDE DEF st
<1>5. /\ opened \in Clients /\ opened.state = st /\ opened.hooked = hooked
      /\ opened.connected = connected /\ opened.reconnecting = reconnecting
      /\ opened.orphans = orphans /\ opened.connectTimer = connectTimer
      /\ opened.retry = retry /\ opened.disconnectQueued = disconnectQueued
      /\ opened.buffered = buffered /\ opened.greeted = greeted
    BY <1>1, <1>2, <1>3, NowFields DEF Clients
<1>6. PICK gr : gr = ConnectSent(opened)
    OBVIOUS
<1>7. PICK greeting : greeting = [opened EXCEPT !.greeted = gr, !.pinger = Reset]
    OBVIOUS
<1>8. (SendThrows(opened) /\ Becomes(opened)) \/ (~SendThrows(opened) /\ Becomes(greeting))
    BY <1>4, <1>6, <1>7 DEF SocketOpens
<1>9. ~SendThrows(opened) =>
        /\ gr \in [Sockets -> Answers]
        /\ \A o \in Sockets : st[o] = "opening" => gr[o] = greeted[o]
    <2> SUFFICES ASSUME ~SendThrows(opened)
                 PROVE  /\ gr \in [Sockets -> Answers]
                        /\ \A o \in Sockets : st[o] = "opening" => gr[o] = greeted[o]
        OBVIOUS
    <2>1. socket \in Sockets /\ greeted \in [Sockets -> Answers]
        BY <1>1, NowFields DEF SendThrows, ConnTypes
    <2>2. Twice[greeted[socket]] \in Answers
        BY <2>1 DEF Twice, Answers
    <2> QED
        BY <1>5, <1>6, <2>1, <2>2 DEF ConnectSent
<1>10. PICK c \in Clients :
        /\ Becomes(c) /\ c.state = st /\ c.hooked = hooked
        /\ c.connected = connected /\ c.reconnecting = reconnecting /\ c.orphans = orphans
        /\ c.connectTimer = connectTimer /\ c.retry = retry
        /\ c.disconnectQueued = disconnectQueued /\ c.buffered = buffered
        /\ \A o \in Sockets : st[o] = "opening" => c.greeted[o] = greeted[o]
    <2>1. CASE SendThrows(opened)
        BY <1>5, <1>8, <2>1
    <2>2. CASE ~SendThrows(opened)
        <3>1. Reset \in Pingers
            BY DEF Reset, Pingers
        <3>2. /\ greeting \in Clients /\ greeting.state = opened.state
              /\ greeting.hooked = opened.hooked /\ greeting.connected = opened.connected
              /\ greeting.reconnecting = opened.reconnecting
              /\ greeting.orphans = opened.orphans
              /\ greeting.connectTimer = opened.connectTimer /\ greeting.retry = opened.retry
              /\ greeting.disconnectQueued = opened.disconnectQueued
              /\ greeting.buffered = opened.buffered /\ greeting.greeted = gr
            BY <1>5, <1>7, <1>9, <2>2, <3>1 DEF Clients
        <3> QED
            BY <1>5, <1>8, <1>9, <2>2, <3>2
    <2> QED
        BY <2>1, <2>2
<1>11. /\ Now' = c /\ state' = st /\ hooked' = hooked
       /\ connected' = connected /\ reconnecting' = reconnecting /\ orphans' = orphans
       /\ connectTimer' = connectTimer /\ retry' = retry
       /\ disconnectQueued' = disconnectQueued /\ buffered' = buffered
    BY <1>10, BecomesFields
<1>12. ConnTypes'
    BY <1>1, <1>11 DEF ConnTypes
<1>13. Attempts' /\ Quitting' /\ HeldStep
    BY <1>1, <1>11 DEF ConnInv, Attempts, Quitting, Dead, Queued, HeldStep
<1>14. st[s] = "open" /\ \A o \in Sockets \ {s} : st[o] = state[o]
    BY <1>1, NowFields DEF st
<1>15. Kept(c)
    BY <1>1, <1>10, <1>14 DEF ConnInv, Own, SocketsSound, Kept
<1>16. SocketsSound'
    BY <1>1, <1>10, <1>15, BecomesSound
<1>17. Own'
    BY <1>1, <1>11, <1>14, <1>16 DEF ConnInv, Own, Attempts, ConnTypes, Abandoned
<1> QED
    BY <1>12, <1>13, <1>17 DEF ConnInv

\* CONNACK, accepted, before anything is sent.
LEMMA GreetedDoes ==
    ASSUME ConnInv, NEW s \in Sockets, state[s] = "open", socket # None
    PROVE  LET c == Greeted(Answered(s, "answered")) IN
           /\ c \in Clients /\ c.state = state /\ c.hooked = hooked /\ c.connected = TRUE
           /\ c.greeted = [greeted EXCEPT ![s] = "answered"] /\ Kept(c)
           /\ c.disconnectQueued = disconnectQueued /\ c.buffered = buffered
           /\ c.reconnecting = reconnecting /\ c.orphans = orphans
           /\ c.connectTimer = FALSE /\ c.retry # "pending"
<1>1. ConnTypes /\ "answered" \in Answers
    BY DEF ConnInv, Answers
<1>2. PICK a : a = Answered(s, "answered")
    OBVIOUS
<1>3. /\ a \in Clients /\ a.state = state /\ a.hooked = hooked
      /\ a.greeted = [greeted EXCEPT ![s] = "answered"]
      /\ a.disconnectQueued = disconnectQueued /\ a.buffered = buffered
      /\ a.reconnecting = reconnecting /\ a.retry = retry /\ a.orphans = orphans
    BY <1>1, <1>2, AnsweredDoes
<1>4. options.hosts \in Nat
    BY <1>1, ConnectionAssumption DEF ConnTypes
<1>5. Cancelled(a.retry) \in Timers /\ Cancelled(a.retry) # "pending"
    BY <1>3 DEF Clients, Timers, Cancelled
<1>6. PICK c : c = [a EXCEPT !.connected = TRUE, !.connectTimer = FALSE,
                             !.retry = Cancelled(a.retry), !.hostIndex = options.hosts]
    OBVIOUS
<1>7. c = Greeted(Answered(s, "answered"))
    BY <1>2, <1>6 DEF Greeted
<1>8. /\ c \in Clients /\ c.state = a.state /\ c.hooked = a.hooked /\ c.connected = TRUE
      /\ c.greeted = a.greeted
      /\ c.disconnectQueued = a.disconnectQueued /\ c.buffered = a.buffered
      /\ c.reconnecting = a.reconnecting /\ c.orphans = a.orphans
      /\ c.connectTimer = FALSE /\ c.retry # "pending"
    BY <1>3, <1>4, <1>5, <1>6 DEF Clients
<1>9. Kept(c)
    BY <1>1, <1>3, <1>8, NowFields DEF ConnInv, Own, SocketsSound, Kept
<1> QED
    BY <1>3, <1>7, <1>8, <1>9

\* The messages of a queue are sent on a socket that is not opening, or throw.
LEMMA Throwing ==
    ASSUME ConnTypes, NEW c \in Clients, c.state = state, socket # None
    PROVE  SendThrows(c) <=> state[socket] = "opening"
BY DEF SendThrows

LEMMA ConnackAcceptedKeeps ==
    ASSUME ConnInv, NEW s \in Sockets, ConnackAccepted(s) PROVE ConnInv' /\ HeldStep
<1>1. /\ ConnTypes /\ s \in hooked /\ state[s] = "open" /\ socket # None
      /\ UNCHANGED <<options, calls, calm, faults>>
    BY DEF ConnackAccepted, Connack, ConnInv
<1>2. PICK c : c = Greeted(Answered(s, "answered"))
    OBVIOUS
<1>3. /\ c \in Clients /\ c.state = state /\ c.hooked = hooked /\ c.connected = TRUE
      /\ c.greeted = [greeted EXCEPT ![s] = "answered"] /\ Kept(c)
      /\ c.disconnectQueued = disconnectQueued /\ c.buffered = buffered
      /\ c.reconnecting = reconnecting /\ c.orphans = orphans
      /\ c.connectTimer = FALSE /\ c.retry # "pending"
    BY <1>1, <1>2, GreetedDoes
<1>4. SendThrows(Now) <=> state[socket] = "opening"
    BY <1>1, NowFields, Throwing
<1>5. ASSUME calls = "disconnect", calm, options.hosts < 2, options.explicit
      PROVE  /\ orphans = 0 /\ ~reconnecting /\ disconnectQueued /\ hooked \subseteq {socket}
             /\ s = socket /\ ~SendThrows(Now) /\ (buffered => ~options.delivered)
    <2>1. orphans = 0 /\ Queued
        BY <1>1, <1>5 DEF ConnInv, Quitting, Dead
    <2> QED
        BY <1>1, <1>4, <2>1 DEF Queued
<1>6. /\ disconnectQueued => calls = "disconnect"
      /\ Abandoned = {} => s = socket
    BY <1>1 DEF ConnInv, Attempts, Abandoned
<1>7. CASE ~buffered /\ disconnectQueued /\ Disconnected(SendThrows(Accepted(Answered(s, "answered"))),
                                                        Accepted(Answered(s, "answered")))
    <2>1. PICK d : d = [c EXCEPT !.reconnecting = FALSE]
        OBVIOUS
    <2>2. d = Accepted(Answered(s, "answered"))
        BY <1>2, <2>1 DEF Accepted
    <2>3. /\ d \in Clients /\ d.state = state /\ d.hooked = hooked /\ d.connected = TRUE
          /\ d.greeted = c.greeted /\ d.disconnectQueued = disconnectQueued
          /\ d.reconnecting = FALSE /\ d.orphans = orphans
          /\ d.connectTimer = FALSE /\ d.retry # "pending"
        BY <1>3, <2>1 DEF Clients
    <2>4. Kept(d)
        BY <1>3, <2>3 DEF Kept
    <2>5. PICK error \in BOOLEAN : error = SendThrows(d)
        BY DEF SendThrows
    <2>6. Disconnected(error, d)
        BY <1>7, <2>2, <2>5
    <2>7. error => SendThrows(Now)
        BY <1>1, <1>4, <2>3, <2>5, Throwing
    <2>8. /\ SocketTypes' /\ Attempts' /\ SocketsSound' /\ ~connected'
          /\ Ended(d) /\ ~d.reconnecting /\ (d.connected => ~error)
                => orphans' = 0 /\ retry' # "pending" /\ Dead'
        BY <1>1, <1>6, <1>7, <2>3, <2>4, <2>6, DisconnectedDoes
    <2>9. ConnTypes' /\ Own' /\ HeldStep
        BY <1>1, <1>7, <2>8 DEF ConnTypes, SocketTypes, Own, HeldStep
    <2>10. Quitting'
        BY <1>1, <1>5, <2>3, <2>7, <2>8 DEF Quitting, Ended
    <2> QED
        BY <2>8, <2>9, <2>10 DEF ConnInv
<1>8. CASE /\ ~buffered /\ ~disconnectQueued
           /\ Becomes(Accepted(Answered(s, "answered"))) /\ UNCHANGED <<hostOf, socket, mqttVersion>>
    <2>1. PICK d : d = [c EXCEPT !.reconnecting = FALSE]
        OBVIOUS
    <2>2. d = Accepted(Answered(s, "answered"))
        BY <1>2, <2>1 DEF Accepted
    <2>3. /\ d \in Clients /\ d.state = state /\ d.hooked = hooked /\ d.connected = TRUE
          /\ d.greeted = c.greeted /\ d.disconnectQueued = disconnectQueued
          /\ d.reconnecting = FALSE /\ d.connectTimer = FALSE /\ d.retry # "pending"
        BY <1>3, <2>1 DEF Clients
    <2>4. Becomes(d) /\ Kept(d)
        BY <1>3, <1>8, <2>2, <2>3 DEF Kept
    <2>5. /\ Now' = d /\ state' = state /\ hooked' = hooked /\ connected'
          /\ ~reconnecting' /\ ~connectTimer' /\ retry' # "pending" /\ ~disconnectQueued'
        BY <1>8, <2>3, <2>4, BecomesFields
    <2>6. ConnTypes' /\ Attempts' /\ HeldStep
        BY <1>1, <1>8, <2>3, <2>5 DEF ConnTypes, Attempts, HeldStep
    <2>7. SocketsSound'
        BY <1>8, <2>3, <2>4, BecomesSound
    <2>8. Own'
        BY <1>1, <1>6, <1>8, <2>5, <2>7 DEF Own, Abandoned
    <2>9. Quitting'
        BY <1>1, <1>5, <1>8 DEF Quitting
    <2> QED
        BY <2>6, <2>8, <2>9 DEF ConnInv
<1>9. CASE /\ buffered /\ disconnectQueued /\ ~SendThrows(Now) /\ ~options.delivered
           /\ DisconnectThenThrow(s)
    <2>1. PICK gone : gone = Released(c)
        OBVIOUS
    <2>2. /\ gone \in Clients /\ gone.reconnecting = reconnecting
          /\ gone.retry # "pending" /\ gone.orphans = orphans
          /\ gone.hooked = hooked \ {socket} /\ ~gone.connectTimer
          /\ gone.greeted = c.greeted /\ gone.disconnectQueued = FALSE
          /\ \A o \in Sockets : gone.state[o] = "closed" \/ gone.state[o] = state[o]
        <3>1. /\ gone \in Clients /\ gone.reconnecting = c.reconnecting
              /\ gone.retry = c.retry /\ gone.orphans = c.orphans
              /\ gone.hooked = c.hooked \ {socket} /\ ~gone.connectTimer
              /\ gone.greeted = c.greeted /\ gone.disconnectQueued = FALSE
              /\ \A o \in Sockets : gone.state[o] = "closed" \/ gone.state[o] = c.state[o]
            BY <1>3, <2>1, ReleasedDoes
        <3> QED
            BY <1>3, <3>1
    <2>3. PICK ended : ended = [gone EXCEPT !.connected = FALSE]
        OBVIOUS
    <2>4. ended = [Released(Greeted(Answered(s, "answered"))) EXCEPT !.connected = FALSE]
        BY <1>2, <2>1, <2>3
    <2>5. /\ ended \in Clients /\ ended.connected = FALSE
          /\ ended.reconnecting = gone.reconnecting
          /\ ended.retry = gone.retry /\ ended.orphans = gone.orphans
          /\ ended.hooked = gone.hooked /\ ended.connectTimer = gone.connectTimer
          /\ ended.greeted = gone.greeted /\ ended.state = gone.state
          /\ ended.disconnectQueued = gone.disconnectQueued
        BY <2>2, <2>3 DEF Clients
    <2>6. Kept(ended)
        BY <1>3, <2>2, <2>5 DEF Kept
    <2>7. CASE reconnecting
        <3>1. Retry(ended) /\ socket' = None /\ UNCHANGED hostOf
            BY <1>9, <2>7, <2>4 DEF DisconnectThenThrow
        <3>2. PICK d : /\ \E pending \in Nat :
                              d = [ended EXCEPT !.retry = "pending", !.orphans = pending]
                       /\ Becomes(d)
            <4>1. (IF ended.retry = "pending" THEN ended.orphans + 1 ELSE ended.orphans) \in Nat
                BY <2>5 DEF Clients
            <4> QED
                BY <3>1, <4>1 DEF Retry
        <3>3. /\ d \in Clients /\ d.state = ended.state /\ d.greeted = ended.greeted
              /\ d.connected = FALSE /\ d.reconnecting /\ d.disconnectQueued = FALSE
            BY <2>2, <2>5, <2>7, <3>2 DEF Clients, Timers
        <3>4. Now' = d /\ ~connected' /\ reconnecting' /\ ~disconnectQueued'
            BY <3>2, <3>3, BecomesFields
        <3>5. SocketsSound'
            BY <2>6, <3>1, <3>2, <3>3, BecomesSound DEF Kept
        <3>6. ConnTypes' /\ Attempts' /\ Own' /\ HeldStep
            BY <1>1, <1>6, <1>9, <3>1, <3>3, <3>4, <3>5 DEF ConnTypes, Attempts, Own, HeldStep
        <3>7. Quitting'
            BY <1>1, <1>5, <2>7 DEF Quitting
        <3> QED
            BY <3>6, <3>7 DEF ConnInv
    <2>8. CASE ~reconnecting
        <3>1. TearDown(TRUE, ended)
            BY <1>9, <2>8, <2>4 DEF DisconnectThenThrow
        <3>2. /\ SocketTypes' /\ ~connected' /\ SocketsSound'
              /\ retry' = ended.retry /\ orphans' = ended.orphans
              /\ disconnectQueued' = FALSE /\ (reconnecting' => socket' # None)
              /\ options.hosts < 2 /\ options.explicit
                   => /\ socket' = None /\ hooked' = ended.hooked \ {socket}
                      /\ ~connectTimer' /\ ~pinger'.timer
            BY <1>1, <2>2, <2>5, <2>6, <2>8, <3>1, TearDownDoes, TRUE \in BOOLEAN
        <3>3. ConnTypes' /\ Attempts' /\ Own' /\ HeldStep
            BY <1>1, <1>9, <2>2, <2>5, <3>2 DEF ConnTypes, SocketTypes, Attempts, Own, HeldStep
        <3>4. Quitting'
            BY <1>1, <1>5, <2>2, <2>5, <3>2 DEF Quitting, Dead
        <3> QED
            BY <3>3, <3>4 DEF ConnInv
    <2> QED
        BY <2>7, <2>8
<1>10. CASE /\ buffered /\ ~(disconnectQueued /\ ~SendThrows(Now) /\ ~options.delivered)
            /\ SendBuffers(s)
    <2>1. PICK e : e = [c EXCEPT !.buffered = FALSE]
        OBVIOUS
    <2>2. /\ e \in Clients /\ e.state = state /\ e.hooked = hooked /\ e.connected = TRUE
          /\ e.greeted = c.greeted /\ e.disconnectQueued = disconnectQueued
          /\ e.reconnecting = reconnecting /\ e.orphans = orphans
          /\ e.connectTimer = FALSE /\ e.retry # "pending"
        BY <1>3, <2>1 DEF Clients
    <2>3. ~(calls = "disconnect" /\ calm /\ options.hosts < 2 /\ options.explicit)
        BY <1>5, <1>10
    <2>4. Quitting'
        BY <1>1, <2>3 DEF Quitting
    <2>5. SendThrows(e) <=> state[socket] = "opening"
        BY <1>1, <2>2, Throwing
    <2>6. CASE state[socket] = "opening"
        <3>1. PICK queued \in BOOLEAN : queued = (e.disconnectQueued /\ ~options.delivered)
            BY <2>2 DEF Clients
        <3>2. PICK d : d = [e EXCEPT !.disconnectQueued = queued]
            OBVIOUS
        <3>3. Disconnected(TRUE, d)
            BY <1>2, <1>10, <2>1, <2>5, <2>6, <3>1, <3>2 DEF SendBuffers
        <3>4. /\ d \in Clients /\ d.state = e.state /\ d.connected = TRUE
              /\ d.greeted = e.greeted /\ d.disconnectQueued = queued
              /\ d.reconnecting = e.reconnecting
              /\ d.connectTimer = FALSE /\ d.retry # "pending"
            BY <2>2, <3>2 DEF Clients
        <3>5. Kept(d)
            BY <1>3, <2>2, <3>4 DEF Kept
        <3>6. /\ d.reconnecting => socket # None \/ calls' = "disconnect"
              /\ d.disconnectQueued => calls' = "disconnect"
            BY <1>1, <1>6, <2>2, <3>1, <3>4
        <3>7. /\ SocketTypes' /\ Attempts' /\ SocketsSound' /\ (connected' => reconnecting')
            BY <1>1, <3>3, <3>4, <3>5, <3>6, DisconnectedDoes, TRUE \in BOOLEAN
        <3>8. Abandoned # {}
            BY <1>1, <1>6, <2>6
        <3> QED
            BY <1>1, <2>4, <3>7, <3>8 DEF ConnInv, ConnTypes, SocketTypes, Own, HeldStep
    <2>7. CASE state[socket] # "opening"
        <3>1. PICK gr : gr = IF disconnectQueued THEN [e.greeted EXCEPT ![socket] = "ended"]
                             ELSE e.greeted
            OBVIOUS
        <3>2. /\ gr \in [Sockets -> Answers]
              /\ \A o \in Sockets : state[o] = "opening" => gr[o] = e.greeted[o]
            BY <1>1, <2>2, <2>7, <3>1 DEF Clients, Answers, ConnTypes
        <3>3. Reset \in Pingers
            BY DEF Reset, Pingers
        <3>4. PICK d : d = [e EXCEPT !.greeted = gr, !.reconnecting = FALSE,
                                     !.disconnectQueued = FALSE, !.pinger = Reset]
            OBVIOUS
        <3>5. Becomes(d) /\ UNCHANGED <<hostOf, socket, mqttVersion>>
            BY <1>2, <1>10, <2>1, <2>5, <2>7, <3>1, <3>4 DEF SendBuffers
        <3>6. /\ d \in Clients /\ d.state = e.state /\ d.hooked = e.hooked /\ d.connected = TRUE
              /\ d.greeted = gr /\ d.disconnectQueued = FALSE /\ d.reconnecting = FALSE
              /\ d.connectTimer = FALSE /\ d.retry # "pending"
            BY <2>2, <3>2, <3>3, <3>4 DEF Clients
        <3>7. Kept(d)
            BY <1>3, <2>2, <3>2, <3>6 DEF Kept
        <3>8. /\ Now' = d /\ state' = state /\ hooked' = hooked /\ connected'
              /\ ~reconnecting' /\ ~connectTimer' /\ retry' # "pending" /\ ~disconnectQueued'
            BY <2>2, <3>5, <3>6, BecomesFields
        <3>9. ConnTypes' /\ Attempts' /\ HeldStep
            BY <1>1, <3>5, <3>6, <3>8 DEF ConnTypes, Attempts, HeldStep
        <3>10. SocketsSound'
            BY <3>5, <3>6, <3>7, BecomesSound
        <3>11. Own'
            BY <1>1, <1>6, <3>5, <3>8, <3>10 DEF Own, Abandoned
        <3> QED
            BY <2>4, <3>9, <3>11 DEF ConnInv
    <2> QED
        BY <2>6, <2>7
<1> QED
    BY <1>7, <1>8, <1>9, <1>10 DEF ConnackAccepted

LEMMA ConnackRefusedKeeps ==
    ASSUME ConnInv, NEW s \in Sockets, ConnackRefused(s) PROVE ConnInv' /\ HeldStep
<1>1. /\ ConnTypes /\ s \in hooked /\ state[s] = "open" /\ socket # None
      /\ Faulty(TRUE) /\ UNCHANGED <<options, calls, calm>> /\ "ended" \in Answers
    BY DEF ConnackRefused, Connack, ConnInv, Answers
<1>2. PICK a : a = Answered(s, "ended")
    OBVIOUS
<1>3. /\ a \in Clients /\ a.state = state /\ a.hooked = hooked /\ a.connected = connected
      /\ a.greeted = [greeted EXCEPT ![s] = "ended"] /\ a.disconnectQueued = disconnectQueued
      /\ a.reconnecting = reconnecting /\ a.retry = retry /\ a.orphans = orphans
    BY <1>1, <1>2, AnsweredDoes
<1>4. Cancelled(a.retry) \in Timers /\ Cancelled(a.retry) # "pending"
    BY <1>3 DEF Clients, Timers, Cancelled
<1>5. PICK c : c = [a EXCEPT !.connectTimer = FALSE, !.retry = Cancelled(a.retry)]
    OBVIOUS
<1>6. /\ c \in Clients /\ c.state = a.state /\ c.hooked = a.hooked /\ c.connected = a.connected
      /\ c.greeted = a.greeted /\ c.disconnectQueued = a.disconnectQueued
      /\ c.connectTimer = FALSE
      /\ c.reconnecting = a.reconnecting /\ c.orphans = a.orphans /\ c.retry # "pending"
    BY <1>3, <1>4, <1>5 DEF Clients
<1>7. Disconnected(TRUE, c)
    BY <1>2, <1>5 DEF ConnackRefused
<1>8. Kept(c)
    BY <1>1, <1>3, <1>6, NowFields DEF ConnInv, Own, SocketsSound, Kept
<1>9. ~Dead /\ faults' \in Nat /\ faults # faults'
    BY <1>1, Faults DEF Dead
<1> QED
    BY <1>1, <1>3, <1>6, <1>7, <1>8, <1>9, Ending DEF HeldStep

LEMMA ConnackLateKeeps ==
    ASSUME ConnInv, NEW s \in Sockets, ConnackLate(s) PROVE ConnInv' /\ HeldStep
<1>1. /\ ConnTypes /\ s \in hooked /\ state[s] = "open" /\ socket = None
      /\ UNCHANGED <<options, calls, calm, faults>>
      /\ faults' \in Nat /\ "answered" \in Answers
    BY DEF ConnackLate, Connack, ConnInv, ConnTypes, Answers
<1>2. PICK c : c = Answered(s, "answered")
    OBVIOUS
<1>3. /\ c \in Clients /\ c.state = state /\ c.hooked = hooked /\ c.connected = connected
      /\ c.greeted = [greeted EXCEPT ![s] = "answered"] /\ c.disconnectQueued = disconnectQueued
      /\ c.connectTimer = connectTimer
      /\ c.reconnecting = reconnecting /\ c.orphans = orphans /\ c.retry = retry
    BY <1>1, <1>2, AnsweredDoes
<1>4. Disconnected(TRUE, c)
    BY <1>2 DEF ConnackLate
<1>5. Kept(c)
    BY <1>1, <1>3, NowFields DEF ConnInv, Own, SocketsSound, Kept
<1>6. ~Dead /\ ~connected
    BY <1>1 DEF ConnInv, Attempts, Dead
<1>7. ConnInv'
    BY <1>1, <1>3, <1>4, <1>5, <1>6, Ending
<1> QED
    BY <1>6, <1>7 DEF HeldStep

\* An event of a socket while the client reconnects, which takes no notice of it.
LEMMA EventWhileReconnecting ==
    ASSUME ConnInv, NEW c \in Clients, Becomes(c), reconnecting, Kept(c),
           c.hooked \subseteq hooked, c.connected = connected, c.reconnecting = reconnecting,
           c.orphans = orphans, c.retry = retry, c.disconnectQueued = disconnectQueued,
           c.connectTimer = connectTimer,
           UNCHANGED <<hostOf, socket, options, calls, calm>>,
           faults' \in Nat, ~Dead
    PROVE  ConnInv' /\ HeldStep
<1>1. ~Queued /\ ConnTypes
    BY DEF ConnInv, Queued
<1>2. /\ Now' = c /\ connected' = connected /\ reconnecting' = reconnecting
      /\ orphans' = orphans /\ retry' = retry /\ disconnectQueued' = disconnectQueued
      /\ connectTimer' = connectTimer
    BY BecomesFields
<1>3. ConnTypes' /\ Attempts' /\ HeldStep
    BY <1>1, <1>2 DEF ConnInv, ConnTypes, Attempts, HeldStep
<1>4. Own'
    BY <1>2, BecomesSound DEF Own
<1>5. Quitting'
    BY <1>1 DEF ConnInv, Quitting
<1> QED
    BY <1>3, <1>4, <1>5 DEF ConnInv

LEMMA SocketFailsKeeps ==
    ASSUME ConnInv, NEW s \in Sockets, SocketFails(s) PROVE ConnInv' /\ HeldStep
<1>1. /\ ConnTypes /\ s \in hooked /\ state[s] \in {"opening", "open"}
      /\ Faulty(hostOf[s] \in HostsUp) /\ UNCHANGED <<options, calls, calm>>
    BY DEF SocketFails, ConnInv
<1>2. PICK c : c = [Now EXCEPT !.state = [@ EXCEPT ![s] = "failed"]]
    OBVIOUS
<1>3. /\ c \in Clients /\ c.hooked = hooked /\ c.connected = connected
      /\ c.state = [state EXCEPT ![s] = "failed"]
      /\ c.reconnecting = reconnecting /\ c.orphans = orphans /\ c.retry = retry
      /\ c.greeted = greeted /\ c.disconnectQueued = disconnectQueued
      /\ c.connectTimer = connectTimer
    BY <1>1, <1>2, NowFields DEF ConnTypes, Clients, States
<1>4. Kept(c) /\ ~Dead
    BY <1>1, <1>3, NowFields DEF ConnInv, Own, SocketsSound, Kept, Dead
<1>5. faults' \in Nat /\ (hostOf[s] \in HostsUp => faults # faults')
    BY <1>1 DEF Faulty, ConnTypes
<1>6. CASE reconnecting
    <2>1. Becomes(c) /\ UNCHANGED <<hostOf, socket>>
        BY <1>2, <1>6 DEF SocketFails
    <2> QED
        BY <1>1, <1>3, <1>4, <1>5, <1>6, <2>1, EventWhileReconnecting
<1>7. CASE ~reconnecting
    <2>1. Disconnected(TRUE, c)
        BY <1>2, <1>7 DEF SocketFails
    <2>2. ConnInv'
        BY <1>1, <1>3, <1>4, <1>5, <1>7, <2>1, Ending
    <2>3. HeldStep
        BY <1>1, <1>5, <1>7 DEF HeldStep, Rejected, ConnInv, Own, SocketsSound, Abandoned
    <2> QED
        BY <2>2, <2>3
<1> QED
    BY <1>6, <1>7

LEMMA SocketClosesKeeps ==
    ASSUME ConnInv, NEW s \in Sockets, SocketCloses(s) PROVE ConnInv' /\ HeldStep
<1>1. /\ ConnTypes /\ s \in hooked /\ state[s] \in {"open", "failed"}
      /\ Faulty(state[s] = "open" /\ ~Rejected(s)) /\ UNCHANGED <<options, calls, calm>>
    BY DEF SocketCloses, ConnInv
<1>2. PICK c : c = [Now EXCEPT !.state = [@ EXCEPT ![s] = "closed"], !.hooked = @ \ {s}]
    OBVIOUS
<1>3. /\ c \in Clients /\ c.hooked = hooked \ {s} /\ c.connected = connected
      /\ c.state = [state EXCEPT ![s] = "closed"]
      /\ c.reconnecting = reconnecting /\ c.orphans = orphans /\ c.retry = retry
      /\ c.greeted = greeted /\ c.disconnectQueued = disconnectQueued
      /\ c.connectTimer = connectTimer
    BY <1>1, <1>2, NowFields DEF ConnTypes, Clients, States
<1>4. Kept(c) /\ ~Dead
    BY <1>1, <1>3, NowFields DEF ConnInv, Own, SocketsSound, Kept, Dead
<1>5. faults' \in Nat /\ (state[s] = "open" /\ ~Rejected(s) => faults # faults')
    <2>1. PICK isFault \in BOOLEAN : isFault = (state[s] = "open" /\ ~Rejected(s))
        OBVIOUS
    <2> QED
        BY <1>1, <2>1, Faults
<1>6. CASE reconnecting
    <2>1. Becomes(c) /\ UNCHANGED <<hostOf, socket>>
        BY <1>2, <1>6 DEF SocketCloses
    <2> QED
        BY <1>1, <1>3, <1>4, <1>5, <1>6, <2>1, EventWhileReconnecting
<1>7. CASE ~reconnecting
    <2>1. Disconnected(TRUE, c)
        BY <1>2, <1>7 DEF SocketCloses
    <2>2. ConnInv'
        BY <1>1, <1>3, <1>4, <1>5, <1>7, <2>1, Ending
    <2>3. HeldStep
        BY <1>1, <1>5, <1>7 DEF HeldStep, Rejected, ConnInv, Own, SocketsSound, Abandoned
    <2> QED
        BY <2>2, <2>3
<1> QED
    BY <1>6, <1>7

LEMMA ConnectTimeoutKeeps == ASSUME ConnInv, ConnectTimeout PROVE ConnInv' /\ HeldStep
<1>1. /\ ConnTypes /\ connectTimer /\ Faulty(Answering /\ greeted[socket] # "answered")
      /\ UNCHANGED <<options, calls, calm>>
    BY DEF ConnectTimeout, ConnInv
<1>2. PICK c : c = [Now EXCEPT !.connectTimer = FALSE]
    OBVIOUS
<1>3. /\ c \in Clients /\ c.state = state /\ c.hooked = hooked /\ c.connected = connected
      /\ c.reconnecting = reconnecting /\ c.orphans = orphans /\ c.retry = retry
      /\ c.greeted = greeted /\ c.disconnectQueued = disconnectQueued /\ c.connectTimer = FALSE
    BY <1>1, <1>2, NowFields DEF ConnTypes, Clients
<1>4. Disconnected(TRUE, c) /\ Kept(c)
    BY <1>2, <1>3 DEF ConnectTimeout, ConnInv, Own, SocketsSound, Kept
<1>5. ~Dead /\ ~connected
    BY <1>1 DEF ConnInv, Attempts, Dead
<1>6. faults' \in Nat
    <2>1. PICK isFault \in BOOLEAN : isFault = (Answering /\ greeted[socket] # "answered")
        OBVIOUS
    <2> QED
        BY <1>1, <2>1, Faults
<1>7. ConnInv'
    BY <1>1, <1>3, <1>4, <1>5, <1>6, Ending
<1> QED
    BY <1>5, <1>7 DEF HeldStep

LEMMA RetryFiresKeeps == ASSUME ConnInv, RetryFires PROVE ConnInv' /\ HeldStep
<1>1. /\ ConnTypes /\ Faulty(Answering /\ ~connected)
      /\ UNCHANGED <<mqttVersion, options, calls, calm>>
    BY DEF RetryFires, ConnInv
<1>2. PICK c : /\ Reconnect(c)
               /\ \/ retry = "pending" /\ c = [Now EXCEPT !.retry = "done"]
                  \/ orphans > 0 /\ c = [Now EXCEPT !.orphans = @ - 1]
    BY DEF RetryFires
<1>3. /\ c \in Clients /\ c.state = state /\ c.hooked = hooked /\ c.connected = connected
      /\ c.reconnecting = reconnecting /\ c.connectTimer = connectTimer
      /\ c.greeted = greeted /\ c.disconnectQueued = disconnectQueued
      /\ c.retry = "pending" => retry = "pending"
      /\ retry = "pending" \/ orphans # 0
    <2>1. orphans > 0 => orphans - 1 \in Nat /\ orphans # 0
        BY <1>1, NowFields
    <2> QED
        BY <1>1, <1>2, <2>1, NowFields DEF ConnTypes, Clients, Timers
<1>4. Kept(c)
    BY <1>3 DEF ConnInv, Own, SocketsSound, Kept
<1>5. /\ SocketTypes' /\ retry' = c.retry /\ orphans' = c.orphans /\ connected' = c.connected
      /\ SocketsSound' /\ disconnectQueued' = c.disconnectQueued
      /\ ~c.connected => socket' # None /\ reconnecting' = TRUE
      /\ c.connected => Now' = c /\ UNCHANGED <<hostOf, socket>>
    BY <1>1, <1>2, <1>3, <1>4, ReconnectDoes
<1>6. faults' \in Nat
    <2>1. PICK isFault \in BOOLEAN : isFault = (Answering /\ ~connected)
        OBVIOUS
    <2> QED
        BY <1>1, <2>1, Faults
<1>7. ConnTypes'
    BY <1>1, <1>5, <1>6 DEF ConnTypes, SocketTypes
<1>8. connected =>
        /\ state' = state /\ hooked' = hooked /\ reconnecting' = reconnecting
        /\ connectTimer' = connectTimer /\ UNCHANGED <<hostOf, socket>>
    BY <1>3, <1>5 DEF Now
<1>9. Attempts'
    BY <1>1, <1>3, <1>5, <1>8 DEF ConnInv, Attempts
<1>10. Own' /\ HeldStep
    BY <1>3, <1>5, <1>8 DEF ConnInv, Own, Abandoned, HeldStep
<1>11. Quitting'
    BY <1>1, <1>3 DEF ConnInv, Quitting
<1> QED
    BY <1>7, <1>9, <1>10, <1>11 DEF ConnInv

LEMMA ConnStep == ConnInv /\ [Next]_vars => ConnInv' /\ (HeldStep \/ UNCHANGED vars)
<1> SUFFICES ASSUME ConnInv, [Next]_vars PROVE ConnInv' /\ (HeldStep \/ UNCHANGED vars)
    OBVIOUS
<1>1. CASE UNCHANGED vars
    <2>1. ConnTypes'
        BY <1>1 DEF ConnInv, ConnTypes, Now, vars, sockets, flags, timers
    <2>2. Attempts' /\ Quitting' /\ Own'
        BY <1>1 DEF ConnInv, Attempts, Quitting, Dead, Queued, Own, SocketsSound, Abandoned,
                    vars, sockets, flags, timers
    <2> QED
        BY <1>1, <2>1, <2>2 DEF ConnInv
<1>2. CASE Connect
    BY <1>2, ConnectKeeps
<1>3. CASE Disconnect
    BY <1>3, DisconnectKeeps
<1>4. CASE SendPacket
    BY <1>4, SendPacketKeeps
<1>5. CASE SendBuffered
    BY <1>5, SendBufferedKeeps
<1>6. ASSUME NEW s \in Sockets,
             \/ SocketOpens(s) \/ ConnackAccepted(s) \/ ConnackRefused(s) \/ ConnackLate(s)
             \/ SocketFails(s) \/ SocketCloses(s) \/ Pingresp(s)
      PROVE  ConnInv' /\ HeldStep
    BY <1>6, SocketOpensKeeps, ConnackAcceptedKeeps, ConnackRefusedKeeps, ConnackLateKeeps,
       SocketFailsKeeps, SocketClosesKeeps, PingrespKeeps
<1>7. CASE ConnectTimeout
    BY <1>7, ConnectTimeoutKeeps
<1>8. CASE RetryFires
    BY <1>8, RetryFiresKeeps
<1>9. CASE PingFires
    BY <1>9, PingFiresKeeps
<1> QED
    BY <1>1, <1>2, <1>3, <1>4, <1>6, <1>7, <1>8, <1>9, <1>5 DEF Next

-----------------------------------------------------------------------------
(* The inductive invariant: what a timer or socket may still do follows    *)
(* from the fields that name it.                                           *)
THEOREM ConnInvariant == Spec => []ConnInv
<1>1. ConnInv /\ [Next]_vars => ConnInv'
    BY ConnStep
<1> QED
    BY ConnInitial, <1>1, PTL DEF Spec

(* Once disconnect() has returned, with one host, an explicit version,     *)
(* neither an abandoned socket nor an orphan timer about and no callback   *)
(* to be lost, the client is never connected again, for any number of      *)
(* sockets, losses and timers.                                             *)
THEOREM DownForGood == Spec => []StaysDown
<1>1. ConnInv => StaysDown
    BY DEF ConnInv, Quitting, Dead, Queued, StaysDown
<1> QED
    BY <1>1, ConnInvariant, PTL

(* A connection with no abandoned socket about is ended by the network,    *)
(* the server or the application, never by a timer of an earlier attempt.  *)
THEOREM ConnectionHeld == Spec => Held
<1>1. ConnInv /\ [Next]_vars => [HeldStep]_vars
    BY ConnStep
<1>2. [HeldStep]_vars =>
        [connected /\ ~connected' /\ Abandoned = {} =>
             calls # calls' \/ disconnectQueued \/ faults # faults' \/ Rejected(socket)]_vars
    BY DEF HeldStep
<1> QED
    BY <1>1, <1>2, ConnInvariant, PTL DEF Spec, Held

(***************************************************************************)
(*                               The wire                                  *)
(***************************************************************************)
-----------------------------------------------------------------------------
(* Induction over numbers, of sets of them, and the recursive functions it *)
(* shows to exist.                                                         *)

Below == {p \in Nat \X Nat : p[1] < p[2]}

\* A set of numbers has a least one.
LEMMA Least ==
    ASSUME NEW T, T \subseteq Nat, T # {}
    PROVE  \E x \in T : \A y \in T : x <= y
<1>1. IsWellFoundedOn(Below, Nat)
    <2>1. OpToRel(<, Nat) = Below
        BY DEF OpToRel, Below
    <2> QED
        BY <2>1, NatLessThanWellFounded
<1>2. PICK x \in T : \A y \in T : ~ (<<y, x>> \in Below)
    BY <1>1, WFMin
<1>3. \A y \in T : x <= y
    <2> SUFFICES ASSUME NEW y \in T PROVE x <= y
        OBVIOUS
    <2>1. x \in Nat /\ y \in Nat
        OBVIOUS
    <2>2. <<y, x>> \in Nat \X Nat /\ <<y, x>>[1] = y /\ <<y, x>>[2] = x
        BY <2>1
    <2>3. ~(y < x)
        BY <1>2, <2>2 DEF Below
    <2> QED
        BY <2>1, <2>3
<1> QED
    BY <1>3

\* What holds of 0, and of n + 1 if of n, holds of every number.
LEMMA Upwards ==
    ASSUME NEW S, 0 \in S, \A n \in Nat : n \in S => n + 1 \in S
    PROVE  \A n \in Nat : n \in S
<1> SUFFICES ASSUME Nat \ S # {} PROVE FALSE
    OBVIOUS
<1>1. PICK x \in Nat \ S : \A y \in Nat \ S : x <= y
    BY Least
<1>2. x - 1 \in Nat /\ x - 1 \in S
    BY <1>1
<1> QED
    BY <1>1, <1>2

\* A function whose value at d rests on that at next[d], which measures less.
Recurs(D, V, m, stop, base, next, G) ==
    /\ m \in [D -> Nat] /\ base \in [D -> V] /\ next \in [D -> D] /\ G \in [D \X V -> V]
    /\ \A d \in D : d \notin stop => m[next[d]] < m[d]
Solves(f, D, V, stop, base, next, G) ==
    /\ f \in [D -> V]
    /\ \A d \in D : f[d] = IF d \in stop THEN base[d] ELSE G[<<d, f[next[d]]>>]

\* There is a function that satisfies the equation of its definition.
LEMMA Recursion ==
    ASSUME NEW D, NEW V, NEW m, NEW stop, NEW base, NEW next, NEW G,
           Recurs(D, V, m, stop, base, next, G)
    PROVE  \E f : Solves(f, D, V, stop, base, next, G)
<1> USE DEF Recurs
<1> DEFINE Value(f, d) == IF d \in stop THEN base[d] ELSE G[<<d, f[next[d]]>>]
           Right(f, k) == \A d \in D : m[d] < k => f[d] = Value(f, d)
           T == {k \in Nat : \E f \in [D -> V] : Right(f, k)}
<1>1. ASSUME NEW f \in [D -> V], NEW d \in D PROVE Value(f, d) \in V
    <2>1. d \notin stop => <<d, f[next[d]]>> \in D \X V
        OBVIOUS
    <2> QED
        BY <2>1
<1>2. ASSUME NEW f \in [D -> V], NEW g \in [D -> V], NEW k \in Nat, Right(f, k), Right(g, k)
      PROVE  \A d \in D : m[d] < k => f[d] = g[d]
    <2> DEFINE U == {n \in Nat : n <= k => \A d \in D : m[d] < n => f[d] = g[d]}
    <2>1. 0 \in U
        OBVIOUS
    <2>2. \A n \in Nat : n \in U => n + 1 \in U
        <3> SUFFICES ASSUME NEW n \in Nat, n + 1 <= k, \A d \in D : m[d] < n => f[d] = g[d],
                            NEW d \in D, m[d] < n + 1
                     PROVE  f[d] = g[d]
            OBVIOUS
        <3>1. m[d] < k
            OBVIOUS
        <3>2. f[d] = Value(f, d) /\ g[d] = Value(g, d)
            BY <1>2, <3>1
        <3>3. d \notin stop => f[next[d]] = g[next[d]]
            OBVIOUS
        <3> QED
            BY <3>2, <3>3
    <2> HIDE DEF U
    <2>3. k \in U
        BY <2>1, <2>2, Upwards
    <2> QED
        BY <2>3 DEF U
<1>3. 0 \in T
    OBVIOUS
<1>4. \A k \in Nat : k \in T => k + 1 \in T
    <2> SUFFICES ASSUME NEW k \in Nat, \E f \in [D -> V] : Right(f, k)
                 PROVE  \E f \in [D -> V] : Right(f, k + 1)
        <3> HIDE DEF Right
        <3> QED
            OBVIOUS
    <2>1. PICK f \in [D -> V] : Right(f, k)
        OBVIOUS
    <2> DEFINE v == [d \in D |-> IF m[d] < k THEN f[d] ELSE Value(f, d)]
    <2>2. v \in [D -> V]
        <3> HIDE DEF Value
        <3> QED
            BY <1>1
    <2>3. PICK g : g = v
        OBVIOUS
    <2>4. \A d \in D : m[d] < k => g[d] = f[d]
        BY <2>3
    <2>5. \A d \in D : ~(m[d] < k) => g[d] = Value(f, d)
        <3> HIDE DEF Value
        <3> QED
            BY <2>3
    <2>6. ASSUME NEW d \in D, m[d] < k + 1 PROVE g[d] = Value(g, d)
        <3>1. d \notin stop => m[next[d]] < k /\ next[d] \in D
            BY <2>6
        <3>2. d \notin stop => g[next[d]] = f[next[d]]
            BY <2>4, <3>1
        <3>3. Value(f, d) = Value(g, d)
            BY <3>2
        <3>4. g[d] = Value(f, d)
            <4> HIDE DEF Value
            <4>1. m[d] < k => f[d] = Value(f, d)
                BY <2>1
            <4> QED
                BY <2>4, <2>5, <4>1
        <3> QED
            BY <3>3, <3>4
    <2>7. Right(g, k + 1)
        BY <2>6
    <2> HIDE DEF Right, v
    <2> QED
        BY <2>2, <2>3, <2>7
<1>5. \A k \in Nat : \E f \in [D -> V] : Right(f, k)
    <2> HIDE DEF T, Right
    <2>1. \A k \in Nat : k \in T
        BY <1>3, <1>4, Upwards
    <2> QED
        BY <2>1 DEF T
<1> DEFINE F == [k \in Nat |-> CHOOSE f \in [D -> V] : Right(f, k)]
<1>6. \A k \in Nat : F[k] \in [D -> V] /\ Right(F[k], k)
    <2> HIDE DEF Right
    <2> QED
        BY <1>5
<1> HIDE DEF F
<1>7. PICK h : h = [d \in D |-> F[m[d] + 1][d]]
    OBVIOUS
<1>8. h \in [D -> V] /\ \A d \in D : h[d] = F[m[d] + 1][d]
    <2> HIDE DEF Right
    <2> QED
        BY <1>6, <1>7
<1>9. ASSUME NEW d \in D PROVE h[d] = Value(h, d)
    <2>1. PICK k \in Nat : k = m[d] + 1
        OBVIOUS
    <2>2. F[k][d] = Value(F[k], d)
        <3> HIDE DEF Value
        <3> QED
            BY <1>6, <2>1
    <2>3. ASSUME d \notin stop PROVE F[k][next[d]] = h[next[d]]
        <3>1. next[d] \in D /\ m[next[d]] < m[d] /\ m[d] \in Nat /\ m[next[d]] \in Nat
            BY <2>3
        <3>2. PICK n \in Nat : n = m[next[d]] + 1
            BY <3>1
        <3>3. n < k /\ m[next[d]] < n
            BY <2>1, <3>1, <3>2
        <3>4. F[k] \in [D -> V] /\ F[n] \in [D -> V] /\ Right(F[k], k) /\ Right(F[n], n)
            <4> HIDE DEF Right
            <4> QED
                BY <1>6
        <3>5. Right(F[k], n)
            <4> HIDE DEF Value
            <4> QED
                BY <3>3, <3>4
        <3>6. F[k][next[d]] = F[n][next[d]]
            <4> HIDE DEF Right
            <4> QED
                BY <1>2, <3>1, <3>3, <3>4, <3>5
        <3> QED
            BY <1>8, <3>1, <3>2, <3>6
    <2>4. Value(F[k], d) = Value(h, d)
        BY <2>3
    <2> QED
        BY <1>8, <2>1, <2>2, <2>4
<1> QED
    BY <1>8, <1>9 DEF Solves
-----------------------------------------------------------------------------
(* Sequences.                                                              *)

Inherits(D, m, S) ==
    /\ m \in [D -> Nat]
    /\ \A d \in D : (\A e \in D : m[e] < m[d] => e \in S) => d \in S

\* What holds of d if it holds of all that measure less holds of all.
LEMMA ByLength ==
    ASSUME NEW D, NEW m, NEW S, Inherits(D, m, S)
    PROVE  \A d \in D : d \in S
<1>a. /\ m \in [D -> Nat]
      /\ \A d \in D : (\A e \in D : m[e] < m[d] => e \in S) => d \in S
    BY DEF Inherits
<1> DEFINE T == {k \in Nat : \A d \in D : m[d] < k => d \in S}
<1>1. 0 \in T
    BY <1>a
<1>2. \A k \in Nat : k \in T => k + 1 \in T
    <2> SUFFICES ASSUME NEW k \in Nat, \A d \in D : m[d] < k => d \in S,
                        NEW d \in D, m[d] < k + 1
                 PROVE  d \in S
        OBVIOUS
    <2>1. \A e \in D : m[e] < m[d] => e \in S
        <3> SUFFICES ASSUME NEW e \in D, m[e] < m[d] PROVE e \in S
            OBVIOUS
        <3>1. m[e] \in Nat /\ m[d] \in Nat
            BY <1>a
        <3> QED
            BY <3>1
    <2> QED
        BY <1>a, <2>1
<1> HIDE DEF T
<1>3. \A k \in Nat : k \in T
    BY <1>1, <1>2, Upwards
<1> SUFFICES ASSUME NEW d \in D PROVE d \in S
    OBVIOUS
<1>4. m[d] \in Nat /\ m[d] + 1 \in T
    BY <1>a, <1>3
<1> QED
    BY <1>4 DEF T

\* The same of sequences and their lengths.
LEMMA ByLen ==
    ASSUME NEW B, NEW D, D \subseteq Seq(B), NEW S,
           \A d \in D : (\A e \in D : Len(e) < Len(d) => e \in S) => d \in S
    PROVE  \A d \in D : d \in S
<1>1. PICK m : m = [d \in D |-> Len(d)]
    OBVIOUS
<1>2. m \in [D -> Nat] /\ \A d \in D : m[d] = Len(d)
    BY <1>1
<1>3. \A d \in D : (\A e \in D : m[e] < m[d] => e \in S) => d \in S
    BY <1>2
<1>4. Inherits(D, m, S)
    BY <1>2, <1>3 DEF Inherits
<1> QED
    BY <1>4, ByLength

Shrinks(B, D, V, stop, base, next, G) ==
    /\ D \subseteq Seq(B) /\ base \in [D -> V] /\ next \in [D -> D] /\ G \in [D \X V -> V]
    /\ \A d \in D : d \notin stop => Len(next[d]) < Len(d)

\* A recursive function of sequences exists if each call is of a shorter one.
LEMMA SeqRecursion ==
    ASSUME NEW B, NEW D, NEW V, NEW stop, NEW base, NEW next, NEW G,
           Shrinks(B, D, V, stop, base, next, G)
    PROVE  \E f : Solves(f, D, V, stop, base, next, G)
<1>1. PICK m : m = [d \in D |-> Len(d)]
    OBVIOUS
<1>2. m \in [D -> Nat] /\ \A d \in D : m[d] = Len(d)
    BY <1>1 DEF Shrinks
<1>3. Recurs(D, V, m, stop, base, next, G)
    BY <1>2 DEF Recurs, Shrinks
<1> QED
    BY <1>3, Recursion

\* What Drop leaves.
LEMMA DropProperties ==
    ASSUME NEW B, NEW s \in Seq(B), NEW n \in Nat
    PROVE  /\ Drop(s, n) \in Seq(B)
           /\ n <= Len(s) => Len(Drop(s, n)) = Len(s) - n
           /\ n >= Len(s) => Drop(s, n) = <<>>
           /\ \A i \in 1..Len(Drop(s, n)) : Drop(s, n)[i] = s[i + n]
<1>1. CASE n <= Len(s)
    <2>1. n + 1 \in 1..(Len(s) + 1) /\ Len(s) \in (n + 1 - 1)..Len(s)
        BY <1>1
    <2>2. Drop(s, n) \in Seq(B) /\ Len(Drop(s, n)) = Len(s) - n
        BY <2>1, SubSeqProperties DEF Drop
    <2> QED
        BY <1>1, <2>1, <2>2, SubSeqProperties, EmptySeq DEF Drop
<1>2. CASE n > Len(s)
    <2>1. Drop(s, n) = <<>>
        BY <1>2 DEF Drop
    <2> QED
        BY <1>2, <2>1
<1> QED
    BY <1>1, <1>2

LEMMA ConcatOf ==
    ASSUME NEW B, NEW u \in Seq(B), NEW r \in Seq(B)
    PROVE  /\ u \o r \in Seq(B) /\ Len(u \o r) = Len(u) + Len(r)
           /\ \A i \in 1..Len(u) : (u \o r)[i] = u[i]
           /\ \A i \in 1..Len(r) : (u \o r)[Len(u) + i] = r[i]
OBVIOUS

LEMMA SameSeq ==
    ASSUME NEW B, NEW s \in Seq(B), NEW t \in Seq(B), Len(s) = Len(t),
           \A i \in 1..Len(s) : s[i] = t[i]
    PROVE  s = t
BY SeqEqual

\* The second of two sequences is what is left without the first.
LEMMA DropConcat ==
    ASSUME NEW B, NEW u \in Seq(B), NEW r \in Seq(B)
    PROVE  Drop(u \o r, Len(u)) = r /\ SubSeq(u \o r, 1, Len(u)) = u
<1>1. Drop(u \o r, Len(u)) = r
    <2>1. PICK t : t = u \o r /\ t \in Seq(B)
        BY ConcatOf
    <2>2. /\ Len(t) = Len(u) + Len(r) /\ Len(u) \in Nat /\ Len(r) \in Nat
          /\ \A i \in 1..Len(r) : t[Len(u) + i] = r[i]
        BY <2>1, ConcatOf
    <2>3. PICK n \in Nat : n = Len(u)
        BY <2>2
    <2>4. /\ Drop(t, n) \in Seq(B) /\ Len(Drop(t, n)) = Len(r)
          /\ \A i \in 1..Len(Drop(t, n)) : Drop(t, n)[i] = t[i + n]
        <3>1. n <= Len(t) /\ Len(t) - n = Len(r)
            BY <2>2, <2>3
        <3> QED
            BY <2>1, <2>3, <3>1, DropProperties
    <2>5. \A i \in 1..Len(r) : Drop(t, Len(u))[i] = r[i]
        BY <2>2, <2>3, <2>4
    <2>6. Drop(t, Len(u)) = r
        BY <2>3, <2>4, <2>5, SameSeq
    <2> QED
        BY <2>1, <2>6
<1>2. SubSeq(u \o r, 1, Len(u)) = u
    <2>1. /\ SubSeq(u \o r, 1, Len(u)) \in Seq(B)
          /\ Len(SubSeq(u \o r, 1, Len(u))) = Len(u)
          /\ \A i \in 1..Len(u) : SubSeq(u \o r, 1, Len(u))[i] = u[i]
        BY ConcatOf, SubSeqProperties
    <2> QED
        BY <2>1, SameSeq
<1> QED
    BY <1>1, <1>2

\* A sequence is its first n elements and the others.
LEMMA TakeDrop ==
    ASSUME NEW B, NEW s \in Seq(B), NEW n \in 0..Len(s)
    PROVE  /\ SubSeq(s, 1, n) \in Seq(B) /\ Len(SubSeq(s, 1, n)) = n
           /\ s = SubSeq(s, 1, n) \o Drop(s, n)
           /\ \A i \in 1..n : SubSeq(s, 1, n)[i] = s[i]
<1>1. /\ SubSeq(s, 1, n) \in Seq(B) /\ Len(SubSeq(s, 1, n)) = n
      /\ \A i \in 1..n : SubSeq(s, 1, n)[i] = s[i]
    BY SubSeqProperties
<1>2. /\ Drop(s, n) \in Seq(B) /\ Len(Drop(s, n)) = Len(s) - n
      /\ \A i \in 1..(Len(s) - n) : Drop(s, n)[i] = s[i + n]
    BY DropProperties
<1>3. PICK t : t = SubSeq(s, 1, n) \o Drop(s, n)
    OBVIOUS
<1>4. t \in Seq(B) /\ Len(t) = Len(s)
    BY <1>1, <1>2, <1>3, ConcatOf
<1>5. ASSUME NEW i \in 1..Len(s) PROVE t[i] = s[i]
    <2>1. CASE i <= n
        BY <1>1, <1>2, <1>3, <2>1, ConcatOf
    <2>2. CASE i > n
        <3>1. i - n \in 1..(Len(s) - n) /\ n + (i - n) = i
            BY <2>2
        <3>2. t[n + (i - n)] = Drop(s, n)[i - n]
            BY <1>1, <1>2, <1>3, <3>1, ConcatOf
        <3> QED
            BY <1>2, <3>1, <3>2
    <2> QED
        BY <2>1, <2>2
<1> QED
    BY <1>1, <1>3, <1>4, <1>5, SameSeq

LEMMA ConcatRules ==
    ASSUME NEW B, NEW s \in Seq(B), NEW t \in Seq(B), NEW u \in Seq(B)
    PROVE  /\ (s \o t) \o u = s \o (t \o u) /\ s \o <<>> = s /\ <<>> \o s = s
           /\ (s \o t = s \o u) => t = u
<1>1. (s \o t) \o u = s \o (t \o u)
    BY ConcatAssociative
<1>2. s \o <<>> = s /\ <<>> \o s = s
    BY ConcatEmptySeq
<1>3. (s \o t = s \o u) => t = u
    <2> SUFFICES ASSUME s \o t = s \o u PROVE t = u
        OBVIOUS
    <2>1. Drop(s \o t, Len(s)) = t /\ Drop(s \o u, Len(s)) = u
        BY DropConcat
    <2> QED
        BY <2>1
<1> QED
    BY <1>1, <1>2, <1>3

LEMMA EmptyRules ==
    ASSUME NEW B, NEW s \in Seq(B)
    PROVE  s \o <<>> = s /\ <<>> \o s = s
BY ConcatEmptySeq

Three(B, s, t, u) == s \in Seq(B) /\ t \in Seq(B) /\ u \in Seq(B)

LEMMA Regroup ==
    ASSUME NEW B, NEW s, NEW t, NEW u, Three(B, s, t, u)
    PROVE  (s \o t) \o u = s \o (t \o u)
<1>1. s \in Seq(B) /\ t \in Seq(B) /\ u \in Seq(B)
    BY DEF Three
<1> QED
    BY <1>1, ConcatAssociative

\* A sequence gets shorter.
LEMMA Shorter ==
    ASSUME NEW B, NEW b \in Seq(B), b # <<>>, NEW n \in Nat, n > 0
    PROVE  Drop(b, n) \in Seq(B) /\ Len(Drop(b, n)) < Len(b)
<1>1. Len(b) \in Nat /\ Len(b) > 0
    OBVIOUS
<1>2. CASE n <= Len(b)
    <2>1. Drop(b, n) \in Seq(B) /\ Len(Drop(b, n)) = Len(b) - n
        BY <1>2, DropProperties
    <2> QED
        BY <1>1, <2>1
<1>3. CASE n > Len(b)
    <2>1. n >= Len(b)
        BY <1>1, <1>3
    <2>2. Drop(b, n) = <<>>
        BY <2>1, DropProperties
    <2>3. Len(Drop(b, n)) = 0 /\ <<>> \in Seq(B)
        BY <2>2
    <2> QED
        BY <1>1, <2>2, <2>3
<1> QED
    BY <1>1, <1>2, <1>3
-----------------------------------------------------------------------------
(* The recursive definitions satisfy their equations.                      *)

LEMMA DropOne ==
    ASSUME NEW B, NEW s \in Seq(B)
    PROVE  /\ Drop(s, 1) \in Seq(B)
           /\ s # <<>> => Len(Drop(s, 1)) = Len(s) - 1 /\ s[1] \in B /\ s = <<s[1]>> \o Drop(s, 1)
<1>1. Drop(s, 1) \in Seq(B)
    BY DropProperties
<1>2. ASSUME s # <<>>
      PROVE  Len(Drop(s, 1)) = Len(s) - 1 /\ s[1] \in B /\ s = <<s[1]>> \o Drop(s, 1)
    <2>1. Len(s) \in Nat /\ 1 <= Len(s) /\ s[1] \in B
        BY <1>2
    <2>2. Len(Drop(s, 1)) = Len(s) - 1
        BY <2>1, DropProperties
    <2>3. s = SubSeq(s, 1, 1) \o Drop(s, 1)
        <3>1. 1 \in 0..Len(s)
            BY <2>1
        <3> QED
            BY <3>1, TakeDrop
    <2>4. SubSeq(s, 1, 1) = <<s[1]>>
        <3>1. /\ SubSeq(s, 1, 1) \in Seq(B) /\ Len(SubSeq(s, 1, 1)) = 1
              /\ SubSeq(s, 1, 1)[1] = s[1]
            BY <2>1, SubSeqProperties
        <3>2. /\ <<s[1]>> \in Seq(B) /\ Len(<<s[1]>>) = 1 /\ <<s[1]>>[1] = s[1]
            BY <2>1
        <3>3. \A i \in 1..1 : SubSeq(s, 1, 1)[i] = <<s[1]>>[i]
            BY <3>1
        <3> QED
            BY <3>1, <3>2, <3>3, SameSeq
    <2> QED
        BY <2>1, <2>2, <2>3, <2>4
<1> QED
    BY <1>1, <1>2

Joined ==
    CHOOSE joined : joined = [s \in Seq(Seq(Nat)) |->
        IF s = <<>> THEN <<>> ELSE s[1] \o joined[Drop(s, 1)]]

\* Concat is the first of the strings and Concat of the others.
LEMMA ConcatEquation ==
    ASSUME NEW strings \in Seq(Seq(Nat))
    PROVE  /\ Concat(strings) \in Seq(Nat)
           /\ strings = <<>> => Concat(strings) = <<>>
           /\ ~(strings = <<>>) => Concat(strings) = strings[1] \o Concat(Drop(strings, 1))
<1>1. \A s : Concat(s) = Joined[s]
    BY DEF Concat, Joined
<1>2. PICK B, D, V : B = Seq(Nat) /\ D = Seq(Seq(Nat)) /\ V = Seq(Nat)
    OBVIOUS
<1>3. PICK stop, base, next : /\ stop = {d \in D : d = <<>>}
                              /\ base = [d \in D |-> <<>>]
                              /\ next = [d \in D |-> IF d = <<>> THEN d ELSE Drop(d, 1)]
    OBVIOUS
<1>4. PICK G : G = [p \in D \X V |-> IF p[1] \in stop THEN base[p[1]] ELSE p[1][1] \o p[2]]
    OBVIOUS
<1>5. /\ D \subseteq Seq(B) /\ base \in [D -> V] /\ next \in [D -> D]
      /\ \A d \in D : ~(d = <<>>) => Len(next[d]) < Len(d) /\ next[d] = Drop(d, 1)
    <2>1. D \subseteq Seq(B) /\ \A d \in D : <<>> \in V
        BY <1>2
    <2>2. ASSUME NEW d \in D, ~(d = <<>>)
          PROVE  Drop(d, 1) \in D /\ Len(Drop(d, 1)) < Len(d)
        <3>1. d \in Seq(B) /\ Len(d) \in Nat
            BY <2>1
        <3>2. Drop(d, 1) \in Seq(B) /\ Len(Drop(d, 1)) = Len(d) - 1
            BY <2>2, <3>1, DropOne
        <3> QED
            BY <1>2, <3>1, <3>2
    <2> QED
        BY <1>3, <2>1, <2>2
<1>6. /\ G \in [D \X V -> V]
      /\ \A d \in D, v \in V : ~(d = <<>>) => G[<<d, v>>] = d[1] \o v
    <2>1. ASSUME NEW d \in D, NEW v \in V, ~(d = <<>>) PROVE d[1] \o v \in V
        BY <1>2, <2>1, DropOne
    <2>2. \A d \in D : base[d] \in V
        BY <1>5
    <2> QED
        BY <1>3, <1>4, <2>1, <2>2
<1>7. PICK f : Solves(f, D, V, stop, base, next, G)
    <2>1. Shrinks(B, D, V, stop, base, next, G)
        BY <1>3, <1>5, <1>6 DEF Shrinks
    <2> QED
        BY <2>1, SeqRecursion
<1>8. /\ f \in [D -> V]
      /\ \A d \in D : f[d] = IF d = <<>> THEN <<>> ELSE d[1] \o f[Drop(d, 1)]
    <2>1. f \in [D -> V]
        BY <1>7 DEF Solves
    <2>2. ASSUME NEW d \in D PROVE f[d] = IF d = <<>> THEN <<>> ELSE d[1] \o f[Drop(d, 1)]
        <3>1. f[d] = IF d \in stop THEN base[d] ELSE G[<<d, f[next[d]]>>]
            BY <1>7 DEF Solves
        <3>2. d \in stop <=> d = <<>>
            BY <1>3
        <3>3. base[d] = <<>> /\ next[d] \in D /\ f[next[d]] \in V
            BY <1>3, <1>5, <2>1
        <3>4. ~(d = <<>>) => next[d] = Drop(d, 1)
            BY <1>5
        <3>5. ~(d = <<>>) => f[d] = d[1] \o f[Drop(d, 1)]
            BY <1>6, <3>1, <3>2, <3>3, <3>4
        <3> QED
            BY <3>1, <3>2, <3>3, <3>5
    <2> QED
        BY <2>1, <2>2
<1>9. f = [s \in Seq(Seq(Nat)) |->
              IF s = <<>> THEN <<>> ELSE s[1] \o f[Drop(s, 1)]]
    BY <1>2, <1>8
<1>10. Joined = [s \in Seq(Seq(Nat)) |->
           IF s = <<>> THEN <<>> ELSE s[1] \o Joined[Drop(s, 1)]]
    BY <1>9 DEF Joined
<1>11. \A d \in D : Joined[d] = IF d = <<>> THEN <<>> ELSE d[1] \o Joined[Drop(d, 1)]
    BY <1>2, <1>10
<1>12. PICK S : S = {d \in D : Joined[d] = f[d]}
    OBVIOUS
<1>13. ASSUME NEW d \in D, \A e \in D : Len(e) < Len(d) => e \in S PROVE d \in S
    <2>1. ~(d = <<>>) => Joined[Drop(d, 1)] = f[Drop(d, 1)]
        <3>1. ~(d = <<>>) => Drop(d, 1) \in D /\ Len(Drop(d, 1)) < Len(d)
            BY <1>5
        <3> QED
            BY <1>12, <1>13, <3>1
    <2>2. Joined[d] = f[d]
        BY <1>8, <1>11, <2>1
    <2> QED
        BY <1>12, <2>2
<1>14. \A d \in D : Joined[d] = f[d]
    BY <1>5, <1>12, <1>13, ByLen
<1>15. Joined[strings] \in V
    BY <1>2, <1>8, <1>14
<1> QED
    BY <1>1, <1>2, <1>11, <1>15

Summed ==
    CHOOSE sum : sum = [s \in Seq(Nat) |->
        IF s = <<>> THEN 0 ELSE s[1] + sum[Drop(s, 1)]]

\* Total is the first of the numbers and Total of the others.
LEMMA TotalEquation ==
    ASSUME NEW numbers \in Seq(Nat)
    PROVE  /\ Total(numbers) \in Nat
           /\ numbers = <<>> => Total(numbers) = 0
           /\ ~(numbers = <<>>) => Total(numbers) = numbers[1] + Total(Drop(numbers, 1))
<1>1. \A s : Total(s) = Summed[s]
    BY DEF Total, Summed
<1>2. PICK B, D, V : B = Nat /\ D = Seq(Nat) /\ V = Nat
    OBVIOUS
<1>3. PICK stop, base, next : /\ stop = {d \in D : d = <<>>}
                              /\ base = [d \in D |-> 0]
                              /\ next = [d \in D |-> IF d = <<>> THEN d ELSE Drop(d, 1)]
    OBVIOUS
<1>4. PICK G : G = [p \in D \X V |-> IF p[1] \in stop THEN base[p[1]] ELSE p[1][1] + p[2]]
    OBVIOUS
<1>5. /\ D \subseteq Seq(B) /\ base \in [D -> V] /\ next \in [D -> D]
      /\ \A d \in D : ~(d = <<>>) => Len(next[d]) < Len(d) /\ next[d] = Drop(d, 1)
    <2>1. D \subseteq Seq(B) /\ \A d \in D : 0 \in V
        BY <1>2
    <2>2. ASSUME NEW d \in D, ~(d = <<>>)
          PROVE  Drop(d, 1) \in D /\ Len(Drop(d, 1)) < Len(d)
        <3>1. d \in Seq(B) /\ Len(d) \in Nat
            BY <2>1
        <3>2. Drop(d, 1) \in Seq(B) /\ Len(Drop(d, 1)) = Len(d) - 1
            BY <2>2, <3>1, DropOne
        <3> QED
            BY <1>2, <3>1, <3>2
    <2> QED
        BY <1>3, <2>1, <2>2
<1>6. /\ G \in [D \X V -> V]
      /\ \A d \in D, v \in V : ~(d = <<>>) => G[<<d, v>>] = d[1] + v
    <2>1. ASSUME NEW d \in D, NEW v \in V, ~(d = <<>>) PROVE d[1] + v \in V
        BY <1>2, <2>1, DropOne
    <2>2. \A d \in D : base[d] \in V
        BY <1>5
    <2> QED
        BY <1>3, <1>4, <2>1, <2>2
<1>7. PICK f : Solves(f, D, V, stop, base, next, G)
    <2>1. Shrinks(B, D, V, stop, base, next, G)
        BY <1>3, <1>5, <1>6 DEF Shrinks
    <2> QED
        BY <2>1, SeqRecursion
<1>8. /\ f \in [D -> V]
      /\ \A d \in D : f[d] = IF d = <<>> THEN 0 ELSE d[1] + f[Drop(d, 1)]
    <2>1. f \in [D -> V]
        BY <1>7 DEF Solves
    <2>2. ASSUME NEW d \in D PROVE f[d] = IF d = <<>> THEN 0 ELSE d[1] + f[Drop(d, 1)]
        <3>1. f[d] = IF d \in stop THEN base[d] ELSE G[<<d, f[next[d]]>>]
            BY <1>7 DEF Solves
        <3>2. d \in stop <=> d = <<>>
            BY <1>3
        <3>3. base[d] = 0 /\ next[d] \in D /\ f[next[d]] \in V
            BY <1>3, <1>5, <2>1
        <3>4. ~(d = <<>>) => next[d] = Drop(d, 1)
            BY <1>5
        <3>5. ~(d = <<>>) => f[d] = d[1] + f[Drop(d, 1)]
            BY <1>6, <3>1, <3>2, <3>3, <3>4
        <3> QED
            BY <3>1, <3>2, <3>3, <3>5
    <2> QED
        BY <2>1, <2>2
<1>9. f = [s \in Seq(Nat) |->
              IF s = <<>> THEN 0 ELSE s[1] + f[Drop(s, 1)]]
    BY <1>2, <1>8
<1>10. Summed = [s \in Seq(Nat) |->
           IF s = <<>> THEN 0 ELSE s[1] + Summed[Drop(s, 1)]]
    BY <1>9 DEF Summed
<1>11. \A d \in D : Summed[d] = IF d = <<>> THEN 0 ELSE d[1] + Summed[Drop(d, 1)]
    BY <1>2, <1>10
<1>12. PICK S : S = {d \in D : Summed[d] = f[d]}
    OBVIOUS
<1>13. ASSUME NEW d \in D, \A e \in D : Len(e) < Len(d) => e \in S PROVE d \in S
    <2>1. ~(d = <<>>) => Summed[Drop(d, 1)] = f[Drop(d, 1)]
        <3>1. ~(d = <<>>) => Drop(d, 1) \in D /\ Len(Drop(d, 1)) < Len(d)
            BY <1>5
        <3> QED
            BY <1>12, <1>13, <3>1
    <2>2. Summed[d] = f[d]
        BY <1>8, <1>11, <2>1
    <2> QED
        BY <1>12, <2>2
<1>14. \A d \in D : Summed[d] = f[d]
    BY <1>5, <1>12, <1>13, ByLen
<1>15. Summed[numbers] \in V
    BY <1>2, <1>8, <1>14
<1> QED
    BY <1>1, <1>2, <1>11, <1>15


-----------------------------------------------------------------------------
(* The bytes of several things, one behind the other.                      *)

Map(f, s) == [i \in DOMAIN s |-> f[s[i]]]
Join(f, s) == Concat(Map(f, s))

Maps(A, B, f, s, t) == f \in [A -> B] /\ s \in Seq(A) /\ t = Map(f, s)

\* What Map is, elementwise.
LEMMA MapOf ==
    ASSUME NEW A, NEW B, NEW f, NEW s, NEW t, Maps(A, B, f, s, t)
    PROVE  /\ t \in Seq(B) /\ Len(t) = Len(s)
           /\ \A i \in 1..Len(s) : t[i] = f[s[i]]
<1>1. f \in [A -> B] /\ s \in Seq(A)
    BY DEF Maps
<1>2. t = [i \in 1..Len(s) |-> f[s[i]]] /\ Len(s) \in Nat
    BY <1>1 DEF Map, Maps
<1>3. \A i \in 1..Len(s) : t[i] = f[s[i]] /\ t[i] \in B
    BY <1>1, <1>2
<1>4. t \in Seq(B) /\ Len(t) = Len(s)
    BY <1>2, <1>3
<1> QED
    BY <1>3, <1>4

LEMMA MapRest ==
    ASSUME NEW A, NEW B, NEW f \in [A -> B], NEW s \in Seq(A), s # <<>>
    PROVE  Drop(Map(f, s), 1) = Map(f, Drop(s, 1))
<1>1. PICK r, t, u, d : /\ r = Drop(s, 1) /\ t = Map(f, s) /\ u = Map(f, r) /\ d = Drop(t, 1)
    OBVIOUS
<1>2. Len(s) \in Nat /\ 1 <= Len(s) /\ 1 \in Nat
    OBVIOUS
<1>3. /\ r \in Seq(A) /\ Len(r) = Len(s) - 1
      /\ \A i \in 1..Len(r) : r[i] = s[i + 1]
    BY <1>1, <1>2, DropProperties
<1>4. /\ t \in Seq(B) /\ Len(t) = Len(s) /\ \A i \in 1..Len(s) : t[i] = f[s[i]]
    <2>1. Maps(A, B, f, s, t)
        BY <1>1 DEF Maps
    <2> QED
        BY <2>1, MapOf
<1>5. /\ u \in Seq(B) /\ Len(u) = Len(r) /\ \A i \in 1..Len(r) : u[i] = f[r[i]]
    <2>1. Maps(A, B, f, r, u)
        BY <1>1, <1>3 DEF Maps
    <2> QED
        BY <2>1, MapOf
<1>6. /\ d \in Seq(B) /\ Len(d) = Len(t) - 1 /\ \A i \in 1..Len(d) : d[i] = t[i + 1]
    BY <1>1, <1>2, <1>4, DropProperties
<1>7. ASSUME NEW i \in 1..Len(d) PROVE d[i] = u[i]
    <2>1. i \in 1..Len(r) /\ i + 1 \in 1..Len(s)
        BY <1>2, <1>3, <1>4, <1>6
    <2>2. d[i] = f[s[i + 1]] /\ u[i] = f[r[i]] /\ r[i] = s[i + 1]
        BY <1>3, <1>4, <1>5, <1>6, <2>1
    <2> QED
        BY <2>2
<1>8. Len(d) = Len(u)
    BY <1>2, <1>3, <1>4, <1>5, <1>6
<1>9. d = u
    BY <1>5, <1>6, <1>7, <1>8, SameSeq
<1> QED
    BY <1>1, <1>9

\* Join, from the front.
LEMMA JoinFirst ==
    ASSUME NEW A, NEW f \in [A -> Seq(Nat)], NEW s \in Seq(A)
    PROVE  /\ Join(f, s) \in Seq(Nat)
           /\ s = <<>> => Join(f, s) = <<>>
           /\ s # <<>> => Join(f, s) = f[s[1]] \o Join(f, Drop(s, 1))
<1>1. PICK t : t = Map(f, s)
    OBVIOUS
<1>2. t \in Seq(Seq(Nat)) /\ Len(t) = Len(s) /\ \A i \in 1..Len(s) : t[i] = f[s[i]]
    <2>1. Maps(A, Seq(Nat), f, s, t)
        BY <1>1 DEF Maps
    <2> QED
        BY <2>1, MapOf
<1>3. Join(f, s) = Concat(t)
    BY <1>1 DEF Join
<1>4. Concat(t) \in Seq(Nat)
    BY <1>2, ConcatEquation
<1>5. ASSUME s = <<>> PROVE Concat(t) = <<>>
    <2>1. t = <<>>
        BY <1>2, <1>5
    <2> QED
        BY <1>2, <2>1, ConcatEquation
<1>6. ASSUME s # <<>> PROVE Concat(t) = f[s[1]] \o Join(f, Drop(s, 1))
    <2>1. t # <<>> /\ t[1] = f[s[1]]
        <3>1. 1 \in 1..Len(s)
            BY <1>6
        <3> QED
            BY <1>2, <3>1
    <2>2. Concat(t) = t[1] \o Concat(Drop(t, 1))
        BY <1>2, <2>1, ConcatEquation
    <2>3. Drop(t, 1) = Map(f, Drop(s, 1))
        BY <1>1, <1>6, MapRest
    <2> QED
        BY <2>1, <2>2, <2>3 DEF Join
<1> QED
    BY <1>3, <1>4, <1>5, <1>6

LEMMA JoinMore ==
    ASSUME NEW A, NEW f \in [A -> Seq(Nat)], NEW x \in A, NEW s \in Seq(A)
    PROVE  Join(f, <<x>> \o s) = f[x] \o Join(f, s)
<1>1. PICK t : t = <<x>> \o s
    OBVIOUS
<1>2. <<x>> \in Seq(A) /\ Len(<<x>>) = 1 /\ <<x>>[1] = x
    OBVIOUS
<1>3. t \in Seq(A) /\ t[1] = x /\ t # <<>>
    <2>1. t \in Seq(A) /\ Len(t) = 1 + Len(s) /\ t[1] = x
        BY <1>1, <1>2, ConcatOf
    <2> QED
        BY <2>1
<1>4. Drop(t, 1) = s
    <2>1. Drop(<<x>> \o s, Len(<<x>>)) = s
        BY <1>2, DropConcat
    <2> QED
        BY <1>1, <1>2, <2>1
<1>5. Join(f, t) = f[t[1]] \o Join(f, Drop(t, 1))
    BY <1>3, JoinFirst
<1> QED
    BY <1>1, <1>3, <1>4, <1>5

LEMMA Associative ==
    ASSUME NEW s \in Seq(Nat), NEW t \in Seq(Nat), NEW u \in Seq(Nat)
    PROVE  (s \o t) \o u = s \o (t \o u)
BY ConcatRules

LEMMA Cancel ==
    ASSUME NEW s \in Seq(Nat), NEW t \in Seq(Nat), NEW u \in Seq(Nat), s \o t = s \o u
    PROVE  t = u
<1>1. Drop(s \o t, Len(s)) = t
    BY DropConcat
<1>2. Drop(s \o u, Len(s)) = u
    BY DropConcat
<1> QED
    BY <1>1, <1>2

\* Join of two sequences is that of the one and then of the other.
LEMMA JoinBoth ==
    ASSUME NEW A, NEW f \in [A -> Seq(Nat)], NEW more \in Seq(A)
    PROVE  \A s \in Seq(A) : Join(f, s \o more) = Join(f, s) \o Join(f, more)
<1>1. PICK S : S = {s \in Seq(A) : Join(f, s \o more) = Join(f, s) \o Join(f, more)}
    OBVIOUS
<1>2. PICK z : z = Join(f, more)
    OBVIOUS
<1>a. z \in Seq(Nat)
    BY <1>2, JoinFirst
<1>3. ASSUME NEW s \in Seq(A), \A t \in Seq(A) : Len(t) < Len(s) => t \in S PROVE s \in S
    <2>1. CASE s = <<>>
        <3>1. Join(f, s) = <<>> /\ s \o more = more
            <4>1. <<>> \o more = more
                BY EmptyRules
            <4> QED
                BY <2>1, <4>1, JoinFirst
        <3>2. <<>> \o z = z
            BY <1>a, EmptyRules
        <3> QED
            BY <1>1, <1>2, <3>1, <3>2
    <2>2. CASE s # <<>>
        <3>1. PICK r : r = Drop(s, 1)
            OBVIOUS
        <3>2. r \in Seq(A) /\ Len(r) = Len(s) - 1 /\ s[1] \in A /\ s = <<s[1]>> \o r
            BY <2>2, <3>1, DropOne
        <3>3. r \in S
            <4>1. Len(s) \in Nat /\ Len(r) \in Nat
                BY <3>2
            <4> QED
                BY <1>3, <3>2, <4>1
        <3>4. s \o more = <<s[1]>> \o (r \o more) /\ r \o more \in Seq(A)
            <4>1. <<s[1]>> \in Seq(A)
                BY <3>2
            <4>2. (<<s[1]>> \o r) \o more = <<s[1]>> \o (r \o more)
                <5>1. Three(A, <<s[1]>>, r, more)
                    BY <3>2, <4>1 DEF Three
                <5> QED
                    BY <5>1, Regroup
            <4>3. r \o more \in Seq(A)
                BY <3>2, ConcatOf
            <4> QED
                BY <3>2, <4>2, <4>3
        <3>5. PICK x, y : x = f[s[1]] /\ y = Join(f, r)
            OBVIOUS
        <3>6. x \in Seq(Nat) /\ y \in Seq(Nat)
            BY <3>2, <3>5, JoinFirst
        <3>7. Join(f, s \o more) = x \o Join(f, r \o more)
            <4>1. PICK u : u = r \o more
                OBVIOUS
            <4>2. Join(f, <<s[1]>> \o u) = f[s[1]] \o Join(f, u)
                BY <3>2, <3>4, <4>1, JoinMore
            <4> QED
                BY <3>4, <3>5, <4>1, <4>2
        <3>8. Join(f, r \o more) = y \o z
            BY <1>1, <1>2, <3>3, <3>5
        <3>9. Join(f, s) = x \o y
            BY <2>2, <3>1, <3>5, JoinFirst
        <3>10. (x \o y) \o z = x \o (y \o z)
            BY <1>a, <3>6, Associative
        <3> QED
            BY <1>1, <1>2, <3>7, <3>8, <3>9, <3>10
    <2> QED
        BY <2>1, <2>2
<1>4. Seq(A) \subseteq Seq(A)
    OBVIOUS
<1>5. \A s \in Seq(A) : s \in S
    BY <1>3, <1>4, ByLen
<1> QED
    BY <1>1, <1>5

\* Join is as long as its parts together.
LEMMA JoinLength ==
    ASSUME NEW A, NEW f \in [A -> Seq(Nat)]
    PROVE  \A s \in Seq(A) : Len(Join(f, s)) = Total([i \in DOMAIN s |-> Len(f[s[i]])])
<1>1. PICK l : l = [x \in A |-> Len(f[x])]
    OBVIOUS
<1>2. l \in [A -> Nat] /\ \A x \in A : l[x] = Len(f[x])
    <2>1. \A x \in A : f[x] \in Seq(Nat)
        OBVIOUS
    <2>2. \A x \in A : Len(f[x]) \in Nat
        BY <2>1
    <2> QED
        BY <1>1, <2>2
<1>3. PICK S : S = {s \in Seq(A) : Len(Join(f, s)) = Total(Map(l, s))}
    OBVIOUS
<1>4. ASSUME NEW s \in Seq(A), \A t \in Seq(A) : Len(t) < Len(s) => t \in S PROVE s \in S
    <2>1. PICK t : t = Map(l, s)
        OBVIOUS
    <2>2. t \in Seq(Nat) /\ Len(t) = Len(s) /\ \A i \in 1..Len(s) : t[i] = l[s[i]]
        <3>1. Maps(A, Nat, l, s, t)
            BY <1>2, <2>1 DEF Maps
        <3> QED
            BY <3>1, MapOf
    <2>3. CASE s = <<>>
        <3>1. t = <<>>
            BY <2>2, <2>3
        <3>2. Total(t) = 0
            BY <2>2, <3>1, TotalEquation
        <3>3. Join(f, s) = <<>>
            BY <2>3, JoinFirst
        <3> QED
            BY <1>3, <2>1, <3>2, <3>3
    <2>4. CASE s # <<>>
        <3>1. PICK r : r = Drop(s, 1)
            OBVIOUS
        <3>2. r \in Seq(A) /\ Len(r) = Len(s) - 1 /\ s[1] \in A
            BY <2>4, <3>1, DropOne
        <3>3. r \in S
            <4>1. Len(s) \in Nat /\ Len(r) \in Nat
                BY <3>2
            <4> QED
                BY <1>4, <3>2, <4>1
        <3>4. PICK x, y : x = f[s[1]] /\ y = Join(f, r)
            OBVIOUS
        <3>5. x \in Seq(Nat) /\ y \in Seq(Nat) /\ Join(f, s) = x \o y
            BY <2>4, <3>1, <3>2, <3>4, JoinFirst
        <3>6. Len(Join(f, s)) = Len(x) + Len(y)
            BY <3>5, ConcatOf
        <3>7. t # <<>> /\ t[1] = Len(x)
            <4>1. 1 \in 1..Len(s)
                BY <2>4
            <4>2. t # <<>> /\ t[1] = l[s[1]]
                <5>1. t[1] = l[s[1]] /\ Len(t) = Len(s)
                    BY <2>2, <4>1
                <5>2. t # <<>>
                    BY <4>1, <5>1
                <5> QED
                    BY <5>1, <5>2
            <4> QED
                BY <1>2, <3>2, <3>4, <4>2
        <3>8. Total(t) = t[1] + Total(Drop(t, 1))
            BY <2>2, <3>7, TotalEquation
        <3>9. Drop(t, 1) = Map(l, r)
            BY <1>2, <2>1, <2>4, <3>1, MapRest
        <3>10. Len(y) = Total(Map(l, r))
            BY <1>3, <3>3, <3>4
        <3> QED
            BY <1>3, <2>1, <3>6, <3>7, <3>8, <3>9, <3>10
    <2> QED
        BY <2>3, <2>4
<1>5. Seq(A) \subseteq Seq(A)
    OBVIOUS
<1>6. \A s \in Seq(A) : s \in S
    BY <1>4, <1>5, ByLen
<1>7. ASSUME NEW s \in Seq(A) PROVE Map(l, s) = [i \in DOMAIN s |-> Len(f[s[i]])]
    <2>1. \A i \in DOMAIN s : s[i] \in A
        OBVIOUS
    <2> QED
        BY <1>2, <2>1 DEF Map
<1> QED
    BY <1>3, <1>6, <1>7
-----------------------------------------------------------------------------
(* Strings.                                                                *)

\* The two halves of a surrogate pair, ten bits each.
LEMMA PairArithmetic ==
    ASSUME NEW x \in Nat, NEW y \in Nat, x < 1024, y < 1024
    PROVE  (x * 1024 + y) \div 1024 = x /\ ((x * 1024 + y) % 1024) = y
BY SMT

\* A number is its digits of six bits.
LEMMA Base64Arithmetic ==
    ASSUME NEW c \in Nat
    PROVE  /\ c \div 64 \in Nat /\ c \div 4096 \in Nat /\ c \div 262144 \in Nat
           /\ c % 64 \in Nat /\ (c \div 64) % 64 \in Nat /\ (c \div 4096) % 64 \in Nat
           /\ 64 * (c \div 64) + (c % 64) = c
           /\ 4096 * (c \div 4096) + 64 * ((c \div 64) % 64) + (c % 64) = c
           /\ 262144 * (c \div 262144) + 4096 * ((c \div 4096) % 64) + 64 * ((c \div 64) % 64)
              + (c % 64) = c
BY SMT

LEMMA UnitRange == ASSUME NEW u PROVE u \in Unit <=> u \in Nat /\ u <= 65535
<1>1. MaxUint16 \in Nat
    BY SMT DEF MaxUint16
<1>2. u \in Unit <=> u \in Nat /\ u <= MaxUint16
    BY <1>1 DEF Unit
<1> QED
    BY <1>2, SMT DEF MaxUint16

LEMMA TextUnits ==
    ASSUME NEW t \in Text
    PROVE  /\ t \in Seq(Unit) /\ Len(t) \in Nat
           /\ \A i \in 1..Len(t) : t[i] \in Nat /\ t[i] <= 65535
           /\ \A i \in 1..Len(t) : Lead(t[i]) => i < Len(t) /\ Follows(t[i + 1])
<1>1. t \in Seq(Unit) /\ Len(t) \in Nat /\ DOMAIN t = 1..Len(t)
    BY DEF Text
<1>2. \A i \in 1..Len(t) : t[i] \in Unit
    BY <1>1
<1> QED
    BY <1>1, <1>2, UnitRange, SMT DEF Text

\* Behind a character a text goes on as a text.
LEMMA RestOfText ==
    ASSUME NEW t \in Text, NEW n \in Nat, n <= Len(t)
    PROVE  Drop(t, n) \in Text /\ Len(Drop(t, n)) = Len(t) - n
<1>1. PICK r : /\ r = Drop(t, n) /\ r \in Seq(Unit) /\ Len(r) = Len(t) - n
               /\ \A i \in 1..Len(r) : r[i] = t[i + n]
    BY TextUnits, DropProperties
<1>2. ASSUME NEW i \in 1..Len(r), Lead(r[i]) PROVE i < Len(r) /\ Follows(r[i + 1])
    <2>1. Len(t) \in Nat /\ Len(r) \in Nat
        BY <1>1, TextUnits
    <2>2. i + n \in 1..Len(t) /\ r[i] = t[i + n]
        BY <1>1, <2>1
    <2>3. i + n < Len(t) /\ Follows(t[i + n + 1])
        BY <1>2, <2>2, TextUnits
    <2>4. i + 1 \in 1..Len(r) /\ (i + 1) + n = i + n + 1
        BY <1>1, <2>1, <2>3
    <2>5. r[i + 1] = t[i + n + 1]
        BY <1>1, <2>4
    <2> QED
        BY <1>1, <2>1, <2>3, <2>5
<1>3. DOMAIN r = 1..Len(r)
    BY <1>1
<1> QED
    BY <1>1, <1>2, <1>3 DEF Text

\* Utf16 gives the code units of the first character back.
LEMMA FirstCharacter ==
    ASSUME NEW t \in Text, t # <<>>
    PROVE  /\ Drop(t, Units(t)) \in Text /\ Len(Drop(t, Units(t))) < Len(t)
           /\ Character(t) \in Nat
           /\ Lead(t[1]) => Character(t) > 65535
           /\ ~Lead(t[1]) => Character(t) = t[1] /\ t[1] \in Nat /\ t[1] <= 65535
           /\ t = Utf16(Character(t)) \o Drop(t, Units(t))
<1>1. t \in Seq(Unit) /\ Len(t) \in Nat /\ 1 <= Len(t) /\ t[1] \in Nat /\ t[1] <= 65535
    <2>1. t \in Seq(Unit) /\ Len(t) \in Nat
        BY TextUnits
    <2>2. 1 <= Len(t)
        BY <2>1
    <2> QED
        BY <2>1, <2>2, TextUnits
<1>2. CASE Lead(t[1])
    <2>1. Units(t) = 2 /\ 2 <= Len(t) /\ Follows(t[2]) /\ t[2] \in Nat
        <3>1. 1 < Len(t) /\ Follows(t[1 + 1])
            BY <1>1, <1>2, TextUnits
        <3> QED
            BY <1>1, <1>2, <3>1, TextUnits DEF Units
    <2>2. PICK x \in Nat, y \in Nat : /\ t[1] = 55296 + x /\ t[2] = 56320 + y
                                      /\ x < 1024 /\ y < 1024
        <3>1. 55296 <= t[1] /\ t[1] <= 56319 /\ 56320 <= t[2] /\ t[2] <= 57343
            BY <1>2, <2>1, SMT DEF Lead, Follows
        <3>2. t[1] - 55296 \in Nat /\ t[2] - 56320 \in Nat
            BY <1>1, <2>1, <3>1, SMT
        <3>3. PICK x, y : x = t[1] - 55296 /\ y = t[2] - 56320
            OBVIOUS
        <3>4. x \in Nat /\ y \in Nat
            BY <3>2, <3>3, SMT
        <3>5. t[1] = 55296 + x /\ t[2] = 56320 + y /\ x < 1024 /\ y < 1024
            BY <1>1, <2>1, <3>1, <3>3, SMT
        <3> QED
            BY <3>4, <3>5
    <2>3. Character(t) = x * 1024 + y + 65536
        BY <1>2, <2>2, SMT DEF Character
    <2>4. PICK c \in Nat : c = x * 1024 + y + 65536
        BY <2>2, SMT
    <2>5. c >= 65536 /\ c - 65536 = x * 1024 + y
        BY <2>2, <2>4, SMT
    <2>6. Utf16(c) = <<t[1], t[2]>>
        <3>1. Utf16(c) = <<55296 + (c - 65536) \div 1024, 56320 + ((c - 65536) % 1024)>>
            BY <2>5, SMT DEF Utf16
        <3>2. (c - 65536) \div 1024 = x /\ ((c - 65536) % 1024) = y
            BY <2>2, <2>5, PairArithmetic, SMT
        <3> QED
            BY <2>2, <3>1, <3>2, SMT
    <2>7. t = <<t[1], t[2]>> \o Drop(t, 2)
        <3>1. 2 \in 0..Len(t)
            BY <1>1, <2>1
        <3>2. PICK h : /\ h = SubSeq(t, 1, 2) /\ h \in Seq(Unit) /\ Len(h) = 2
                       /\ \A i \in 1..2 : h[i] = t[i]
            <4>1. /\ SubSeq(t, 1, 2) \in Seq(Unit) /\ Len(SubSeq(t, 1, 2)) = 2
                  /\ \A i \in 1..2 : SubSeq(t, 1, 2)[i] = t[i]
                BY <1>1, <3>1, TakeDrop
            <4> QED
                BY <4>1
        <3>3. h = <<t[1], t[2]>>
            <4>1. t[1] \in Unit /\ t[2] \in Unit
                BY <1>1, <2>1
            <4>2. PICK g : g = <<t[1], t[2]>>
                OBVIOUS
            <4>3. g \in Seq(Unit) /\ Len(g) = 2 /\ \A i \in 1..2 : g[i] = t[i]
                BY <4>1, <4>2
            <4> QED
                BY <3>2, <4>2, <4>3, SameSeq
        <3> QED
            BY <1>1, <3>1, <3>2, <3>3, TakeDrop
    <2>8. Drop(t, 2) \in Text /\ Len(Drop(t, 2)) < Len(t)
        <3>1. Drop(t, 2) \in Text /\ Len(Drop(t, 2)) = Len(t) - 2
            BY <2>1, RestOfText
        <3> QED
            BY <1>1, <3>1
    <2>9. Character(t) = c
        BY <2>3, <2>4
    <2>10. t = Utf16(Character(t)) \o Drop(t, Units(t))
        BY <2>1, <2>6, <2>7, <2>9
    <2>11. Drop(t, Units(t)) \in Text /\ Len(Drop(t, Units(t))) < Len(t)
        BY <2>1, <2>8
    <2>12. Character(t) \in Nat /\ Character(t) > 65535
        BY <2>4, <2>5, <2>9, SMT
    <2> QED
        BY <1>2, <2>10, <2>11, <2>12, SMT
<1>3. CASE ~Lead(t[1])
    <2>1. Units(t) = 1 /\ Character(t) = t[1]
        BY <1>3 DEF Units, Character
    <2>2. Utf16(t[1]) = <<t[1]>>
        BY <1>1, SMT DEF Utf16
    <2>3. t = <<t[1]>> \o Drop(t, 1)
        <3>1. t # <<>>
            OBVIOUS
        <3> QED
            BY <1>1, <3>1, DropOne
    <2>4. Drop(t, 1) \in Text /\ Len(Drop(t, 1)) < Len(t)
        <3>1. Drop(t, 1) \in Text /\ Len(Drop(t, 1)) = Len(t) - 1
            BY <1>1, RestOfText
        <3> QED
            BY <1>1, <3>1
    <2> QED
        BY <1>1, <1>3, <2>1, <2>2, <2>3, <2>4, SMT
<1> QED
    BY <1>2, <1>3
\* The bytes of a character.
LEMMA Utf8Cases ==
    ASSUME NEW c \in Nat
    PROVE  /\ Utf8(c) \in Seq(Nat)
           /\ c < 128 => Len(Utf8(c)) = 1 /\ Utf8(c)[1] = c
           /\ 128 <= c /\ c < 2048 =>
                /\ Len(Utf8(c)) = 2
                /\ Utf8(c)[1] = 192 + c \div 64 /\ Utf8(c)[2] = 128 + (c % 64)
           /\ 2048 <= c /\ c < 65536 =>
                /\ Len(Utf8(c)) = 3 /\ Utf8(c)[1] = 224 + c \div 4096
                /\ Utf8(c)[2] = 128 + ((c \div 64) % 64) /\ Utf8(c)[3] = 128 + (c % 64)
           /\ 65536 <= c =>
                /\ Len(Utf8(c)) = 4 /\ Utf8(c)[1] = 240 + c \div 262144
                /\ Utf8(c)[2] = 128 + ((c \div 4096) % 64)
                /\ Utf8(c)[3] = 128 + ((c \div 64) % 64) /\ Utf8(c)[4] = 128 + (c % 64)
<1>1. /\ Trail(c) = 128 + (c % 64) /\ Trail(c \div 64) = 128 + ((c \div 64) % 64)
      /\ Trail(c \div 4096) = 128 + ((c \div 4096) % 64)
    BY SMT DEF Trail
<1>2. CASE c < 128
    <2>1. Utf8(c) = <<c>>
        BY <1>2, SMT DEF Utf8
    <2> QED
        BY <1>2, <2>1, SMT
<1>3. CASE 128 <= c /\ c < 2048
    <2>1. PICK x \in Nat, y \in Nat : x = 192 + c \div 64 /\ y = 128 + (c % 64)
        BY Base64Arithmetic, SMT
    <2>2. Utf8(c) = <<x, y>>
        BY <1>1, <1>3, <2>1, SMT DEF Utf8
    <2> QED
        BY <1>3, <2>1, <2>2, SMT
<1>4. CASE 2048 <= c /\ c < 65536
    <2>1. PICK x \in Nat, y \in Nat, z \in Nat :
              x = 224 + c \div 4096 /\ y = 128 + ((c \div 64) % 64) /\ z = 128 + (c % 64)
        BY Base64Arithmetic, SMT
    <2>2. Utf8(c) = <<x, y, z>>
        BY <1>1, <1>4, <2>1, SMT DEF Utf8
    <2> QED
        BY <1>4, <2>1, <2>2, SMT
<1>5. CASE 65536 <= c
    <2>1. PICK w \in Nat, x \in Nat, y \in Nat, z \in Nat :
              /\ w = 240 + c \div 262144 /\ x = 128 + ((c \div 4096) % 64)
              /\ y = 128 + ((c \div 64) % 64) /\ z = 128 + (c % 64)
        BY Base64Arithmetic, SMT
    <2>2. Utf8(c) = <<w, x, y, z>>
        BY <1>1, <1>5, <2>1, SMT DEF Utf8
    <2> QED
        BY <1>5, <2>1, <2>2, SMT
<1> QED
    BY <1>2, <1>3, <1>4, <1>5, SMT

\* As many bytes as UTF8Length reckons.
LEMMA Utf8Len ==
    ASSUME NEW c \in Nat
    PROVE  Len(Utf8(c)) = IF c > 65535 THEN 4 ELSE IF c > 2047 THEN 3 ELSE IF c > 127 THEN 2 ELSE 1
BY Utf8Cases, SMT

\* What is read from the bytes of a character is the character.
LEMMA Utf8Read ==
    ASSUME NEW c \in Nat, NEW r \in Seq(Nat)
    PROVE  Size(Utf8(c) \o r) = Len(Utf8(c)) /\ CodePoint(Utf8(c) \o r) = c
<1>1. PICK u : u = Utf8(c) /\ u \in Seq(Nat)
    BY Utf8Cases
<1>2. PICK b : b = u \o r
    OBVIOUS
<1>3. \A i \in 1..Len(u) : b[i] = u[i]
    BY <1>1, <1>2, ConcatOf
<1>4. CASE c < 128
    <2>1. Len(u) = 1 /\ b[1] = c
        <3>1. /\ Len(u) = 1
              /\ u[1] = c
            BY <1>1, <1>4, Utf8Cases, SMT
        <3>2. b[1] = u[1]
            BY <1>3, <3>1, SMT
        <3> QED
            BY <3>1, <3>2, SMT
    <2>2. Size(b) = 1
        BY <1>4, <2>1, SMT DEF Size
    <2>3. CodePoint(b) = c
        BY <2>1, <2>2, SMT DEF CodePoint
    <2> QED
        BY <1>1, <1>2, <1>4, <2>1, <2>2, <2>3, SMT
<1>5. CASE 128 <= c /\ c < 2048
    <2>1. Len(u) = 2 /\ b[1] = 192 + c \div 64 /\ b[2] = 128 + (c % 64)
        <3>1. /\ Len(u) = 2
              /\ u[1] = 192 + c \div 64 /\ u[2] = 128 + (c % 64)
            BY <1>1, <1>5, Utf8Cases, SMT
        <3>2. b[1] = u[1] /\ b[2] = u[2]
            BY <1>3, <3>1, SMT
        <3> QED
            BY <3>1, <3>2, SMT
    <2>2. Size(b) = 2
        BY <1>5, <2>1, SMT DEF Size
    <2>3. CodePoint(b) = 64 * (b[1] - 192) + (b[2] - 128)
        BY <2>2, SMT DEF CodePoint
    <2>4. CodePoint(b) = c
        BY <2>1, <2>3, Base64Arithmetic, SMT
    <2> QED
        BY <1>1, <1>2, <1>5, <2>1, <2>2, <2>4, SMT
<1>6. CASE 2048 <= c /\ c < 65536
    <2>1. /\ Len(u) = 3 /\ b[1] = 224 + c \div 4096
          /\ b[2] = 128 + ((c \div 64) % 64) /\ b[3] = 128 + (c % 64)
        <3>1. /\ Len(u) = 3
              /\ u[1] = 224 + c \div 4096
              /\ u[2] = 128 + ((c \div 64) % 64)
              /\ u[3] = 128 + (c % 64)
            BY <1>1, <1>6, Utf8Cases, SMT
        <3>2. b[1] = u[1] /\ b[2] = u[2] /\ b[3] = u[3]
            BY <1>3, <3>1, SMT
        <3> QED
            BY <3>1, <3>2, SMT
    <2>2. Size(b) = 3
        BY <1>6, <2>1, SMT DEF Size
    <2>3. CodePoint(b) = 4096 * (b[1] - 224) + 64 * (b[2] - 128) + (b[3] - 128)
        BY <2>2, SMT DEF CodePoint
    <2>4. CodePoint(b) = c
        BY <2>1, <2>3, Base64Arithmetic, SMT
    <2> QED
        BY <1>1, <1>2, <1>6, <2>1, <2>2, <2>4, SMT
<1>7. CASE 65536 <= c
    <2>1. /\ Len(u) = 4 /\ b[1] = 240 + c \div 262144 /\ b[2] = 128 + ((c \div 4096) % 64)
          /\ b[3] = 128 + ((c \div 64) % 64) /\ b[4] = 128 + (c % 64)
        <3>1. /\ Len(u) = 4
              /\ u[1] = 240 + c \div 262144
              /\ u[2] = 128 + ((c \div 4096) % 64)
              /\ u[3] = 128 + ((c \div 64) % 64)
              /\ u[4] = 128 + (c % 64)
            BY <1>1, <1>7, Utf8Cases, SMT
        <3>2. b[1] = u[1] /\ b[2] = u[2] /\ b[3] = u[3] /\ b[4] = u[4]
            BY <1>3, <3>1, SMT
        <3> QED
            BY <3>1, <3>2, SMT
    <2>2. Size(b) = 4
        BY <1>7, <2>1, SMT DEF Size
    <2>3. CodePoint(b) = 262144 * (b[1] - 240) + 4096 * (b[2] - 128) + 64 * (b[3] - 128)
                         + (b[4] - 128)
        BY <2>2, SMT DEF CodePoint
    <2>4. CodePoint(b) = c
        BY <2>1, <2>3, Base64Arithmetic, SMT
    <2> QED
        BY <1>1, <1>2, <1>7, <2>1, <2>2, <2>4, SMT
<1> QED
    BY <1>4, <1>5, <1>6, <1>7, SMT
Counted ==
    CHOOSE length : length = [t \in Text |->
        IF t = <<>> THEN 0 ELSE Width(t) + length[Drop(t, Units(t))]]

\* UTF8Length, from the front.
LEMMA UTF8LengthEquation ==
    ASSUME NEW string \in Text
    PROVE  /\ UTF8Length(string) \in Nat
           /\ string = <<>> => UTF8Length(string) = 0
           /\ ~(string = <<>>) => UTF8Length(string) = Width(string)
                  + UTF8Length(Drop(string, Units(string)))
<1>1. \A s : UTF8Length(s) = Counted[s]
    BY DEF UTF8Length, Counted
<1>2. PICK B, D, V : B = Unit /\ D = Text /\ V = Nat
    OBVIOUS
<1>3. PICK stop, base, next : /\ stop = {d \in D : d = <<>>}
                              /\ base = [d \in D |-> 0]
                              /\ next = [d \in D |-> IF d = <<>> THEN d ELSE Drop(d, Units(d))]
    OBVIOUS
<1>4. PICK G : G = [p \in D \X V |-> IF p[1] \in stop THEN base[p[1]] ELSE Width(p[1]) + p[2]]
    OBVIOUS
<1>5. /\ D \subseteq Seq(B) /\ base \in [D -> V] /\ next \in [D -> D]
      /\ \A d \in D : ~(d = <<>>) => Len(next[d]) < Len(d) /\ next[d] = Drop(d, Units(d))
    <2>1. D \subseteq Seq(B) /\ \A d \in D : 0 \in V
        BY <1>2 DEF Text
    <2>2. ASSUME NEW d \in D, ~(d = <<>>)
          PROVE  Drop(d, Units(d)) \in D /\ Len(Drop(d, Units(d))) < Len(d)
        BY <1>2, <2>2, FirstCharacter
    <2> QED
        BY <1>3, <2>1, <2>2
<1>6. /\ G \in [D \X V -> V]
      /\ \A d \in D, v \in V : ~(d = <<>>) => G[<<d, v>>] = Width(d) + v
    <2>1. ASSUME NEW d \in D, NEW v \in V, ~(d = <<>>) PROVE Width(d) + v \in V
        BY <1>2, <2>1 DEF Width
    <2>2. \A d \in D : base[d] \in V
        BY <1>5
    <2> QED
        BY <1>3, <1>4, <2>1, <2>2
<1>7. PICK f : Solves(f, D, V, stop, base, next, G)
    <2>1. Shrinks(B, D, V, stop, base, next, G)
        BY <1>3, <1>5, <1>6 DEF Shrinks
    <2> QED
        BY <2>1, SeqRecursion
<1>8. /\ f \in [D -> V]
      /\ \A d \in D : f[d] = IF d = <<>> THEN 0 ELSE Width(d) + f[Drop(d, Units(d))]
    <2>1. f \in [D -> V]
        BY <1>7 DEF Solves
    <2>2. ASSUME NEW d \in D PROVE f[d] = IF d = <<>> THEN 0 ELSE Width(d) + f[Drop(d, Units(d))]
        <3>1. f[d] = IF d \in stop THEN base[d] ELSE G[<<d, f[next[d]]>>]
            BY <1>7 DEF Solves
        <3>2. d \in stop <=> d = <<>>
            BY <1>3
        <3>3. base[d] = 0 /\ next[d] \in D /\ f[next[d]] \in V
            BY <1>3, <1>5, <2>1
        <3>4. ~(d = <<>>) => next[d] = Drop(d, Units(d))
            BY <1>5
        <3>5. ~(d = <<>>) => f[d] = Width(d) + f[Drop(d, Units(d))]
            BY <1>6, <3>1, <3>2, <3>3, <3>4
        <3> QED
            BY <3>1, <3>2, <3>3, <3>5
    <2> QED
        BY <2>1, <2>2
<1>9. f = [t \in Text |->
              IF t = <<>> THEN 0 ELSE Width(t) + f[Drop(t, Units(t))]]
    BY <1>2, <1>8
<1>10. Counted = [t \in Text |->
           IF t = <<>> THEN 0 ELSE Width(t) + Counted[Drop(t, Units(t))]]
    BY <1>9 DEF Counted
<1>11. \A d \in D : Counted[d] = IF d = <<>> THEN 0 ELSE Width(d) + Counted[Drop(d, Units(d))]
    BY <1>2, <1>10
<1>12. PICK S : S = {d \in D : Counted[d] = f[d]}
    OBVIOUS
<1>13. ASSUME NEW d \in D, \A e \in D : Len(e) < Len(d) => e \in S PROVE d \in S
    <2>1. ~(d = <<>>) => Counted[Drop(d, Units(d))] = f[Drop(d, Units(d))]
        <3>1. ~(d = <<>>) => Drop(d, Units(d)) \in D /\ Len(Drop(d, Units(d))) < Len(d)
            BY <1>5
        <3> QED
            BY <1>12, <1>13, <3>1
    <2>2. Counted[d] = f[d]
        BY <1>8, <1>11, <2>1
    <2> QED
        BY <1>12, <2>2
<1>14. \A d \in D : Counted[d] = f[d]
    BY <1>5, <1>12, <1>13, ByLen
<1>15. Counted[string] \in V
    BY <1>2, <1>8, <1>14
<1> QED
    BY <1>1, <1>2, <1>11, <1>15

Bytes ==
    CHOOSE bytes : bytes = [t \in Text |->
        IF t = <<>> THEN <<>> ELSE Utf8(Character(t)) \o bytes[Drop(t, Units(t))]]

\* StringToUTF8, from the front.
LEMMA UTF8Equation ==
    ASSUME NEW string \in Text
    PROVE  /\ StringToUTF8(string) \in Seq(Nat)
           /\ string = <<>> => StringToUTF8(string) = <<>>
           /\ ~(string = <<>>) => StringToUTF8(string) = Utf8(Character(string))
                  \o StringToUTF8(Drop(string, Units(string)))
<1>1. \A s : StringToUTF8(s) = Bytes[s]
    BY DEF StringToUTF8, Bytes
<1>2. PICK B, D, V : B = Unit /\ D = Text /\ V = Seq(Nat)
    OBVIOUS
<1>3. PICK stop, base, next : /\ stop = {d \in D : d = <<>>}
                              /\ base = [d \in D |-> <<>>]
                              /\ next = [d \in D |-> IF d = <<>> THEN d ELSE Drop(d, Units(d))]
    OBVIOUS
<1>4. PICK G : G = [p \in D \X V |-> IF p[1] \in stop
          THEN base[p[1]] ELSE Utf8(Character(p[1])) \o p[2]]
    OBVIOUS
<1>5. /\ D \subseteq Seq(B) /\ base \in [D -> V] /\ next \in [D -> D]
      /\ \A d \in D : ~(d = <<>>) => Len(next[d]) < Len(d) /\ next[d] = Drop(d, Units(d))
    <2>1. D \subseteq Seq(B) /\ \A d \in D : <<>> \in V
        BY <1>2 DEF Text
    <2>2. ASSUME NEW d \in D, ~(d = <<>>)
          PROVE  Drop(d, Units(d)) \in D /\ Len(Drop(d, Units(d))) < Len(d)
        BY <1>2, <2>2, FirstCharacter
    <2> QED
        BY <1>3, <2>1, <2>2
<1>6. /\ G \in [D \X V -> V]
      /\ \A d \in D, v \in V : ~(d = <<>>) => G[<<d, v>>] = Utf8(Character(d)) \o v
    <2>1. ASSUME NEW d \in D, NEW v \in V, ~(d = <<>>) PROVE Utf8(Character(d)) \o v \in V
        <3>1. Character(d) \in Nat
            BY <1>2, <2>1, FirstCharacter
        <3> QED
            BY <1>2, <3>1, Utf8Cases
    <2>2. \A d \in D : base[d] \in V
        BY <1>5
    <2> QED
        BY <1>3, <1>4, <2>1, <2>2
<1>7. PICK f : Solves(f, D, V, stop, base, next, G)
    <2>1. Shrinks(B, D, V, stop, base, next, G)
        BY <1>3, <1>5, <1>6 DEF Shrinks
    <2> QED
        BY <2>1, SeqRecursion
<1>8. /\ f \in [D -> V]
      /\ \A d \in D : f[d] = IF d = <<>> THEN <<>> ELSE Utf8(Character(d)) \o f[Drop(d, Units(d))]
    <2>1. f \in [D -> V]
        BY <1>7 DEF Solves
    <2>2. ASSUME NEW d \in D PROVE f[d] = IF d = <<>>
              THEN <<>> ELSE Utf8(Character(d)) \o f[Drop(d, Units(d))]
        <3>1. f[d] = IF d \in stop THEN base[d] ELSE G[<<d, f[next[d]]>>]
            BY <1>7 DEF Solves
        <3>2. d \in stop <=> d = <<>>
            BY <1>3
        <3>3. base[d] = <<>> /\ next[d] \in D /\ f[next[d]] \in V
            BY <1>3, <1>5, <2>1
        <3>4. ~(d = <<>>) => next[d] = Drop(d, Units(d))
            BY <1>5
        <3>5. ~(d = <<>>) => f[d] = Utf8(Character(d)) \o f[Drop(d, Units(d))]
            BY <1>6, <3>1, <3>2, <3>3, <3>4
        <3> QED
            BY <3>1, <3>2, <3>3, <3>5
    <2> QED
        BY <2>1, <2>2
<1>9. f = [t \in Text |->
              IF t = <<>> THEN <<>> ELSE Utf8(Character(t)) \o f[Drop(t, Units(t))]]
    BY <1>2, <1>8
<1>10. Bytes = [t \in Text |->
           IF t = <<>> THEN <<>> ELSE Utf8(Character(t)) \o Bytes[Drop(t, Units(t))]]
    BY <1>9 DEF Bytes
<1>11. \A d \in D : Bytes[d] = IF d = <<>> THEN <<>>
           ELSE Utf8(Character(d)) \o Bytes[Drop(d, Units(d))]
    BY <1>2, <1>10
<1>12. PICK S : S = {d \in D : Bytes[d] = f[d]}
    OBVIOUS
<1>13. ASSUME NEW d \in D, \A e \in D : Len(e) < Len(d) => e \in S PROVE d \in S
    <2>1. ~(d = <<>>) => Bytes[Drop(d, Units(d))] = f[Drop(d, Units(d))]
        <3>1. ~(d = <<>>) => Drop(d, Units(d)) \in D /\ Len(Drop(d, Units(d))) < Len(d)
            BY <1>5
        <3> QED
            BY <1>12, <1>13, <3>1
    <2>2. Bytes[d] = f[d]
        BY <1>8, <1>11, <2>1
    <2> QED
        BY <1>12, <2>2
<1>14. \A d \in D : Bytes[d] = f[d]
    BY <1>5, <1>12, <1>13, ByLen
<1>15. Bytes[string] \in V
    BY <1>2, <1>8, <1>14
<1> QED
    BY <1>1, <1>2, <1>11, <1>15

\* The code units that any bytes at all can be read as.
ReadUnits == UNION {{Utf16(CodePoint(b))[1], Utf16(CodePoint(b))[2]} : b \in Seq(Nat)}

LEMMA ReadUnitsOf == ASSUME NEW b \in Seq(Nat) PROVE Utf16(CodePoint(b)) \in Seq(ReadUnits)
<1>1. PICK c : c = CodePoint(b)
    OBVIOUS
<1>2. PICK x, y : Utf16(c) = <<x, y>> \/ Utf16(c) = <<x>>
    BY SMT DEF Utf16
<1>3. Utf16(c)[1] \in ReadUnits /\ Utf16(c)[2] \in ReadUnits
    BY <1>1 DEF ReadUnits
<1>4. CASE Utf16(c) = <<x, y>>
    <2>1. x \in ReadUnits /\ y \in ReadUnits
        BY <1>3, <1>4
    <2> QED
        BY <1>1, <1>4, <2>1
<1>5. CASE Utf16(c) = <<x>>
    <2>1. x \in ReadUnits
        BY <1>3, <1>5
    <2> QED
        BY <1>1, <1>5, <2>1
<1> QED
    BY <1>2, <1>4, <1>5

Parsed ==
    CHOOSE output : output = [b \in Seq(Nat) |->
        IF b = <<>> THEN <<>> ELSE Utf16(CodePoint(b)) \o output[Drop(b, Size(b))]]

\* ParseUTF8, from the front.
LEMMA ParseUTF8Equation ==
    ASSUME NEW bytes \in Seq(Nat)
    PROVE  /\ ParseUTF8(bytes) \in Seq(ReadUnits)
           /\ bytes = <<>> => ParseUTF8(bytes) = <<>>
           /\ ~(bytes = <<>>) => ParseUTF8(bytes) = Utf16(CodePoint(bytes))
                  \o ParseUTF8(Drop(bytes, Size(bytes)))
<1>1. \A s : ParseUTF8(s) = Parsed[s]
    BY DEF ParseUTF8, Parsed
<1>2. PICK B, D, V : B = Nat /\ D = Seq(Nat) /\ V = Seq(ReadUnits)
    OBVIOUS
<1>3. PICK stop, base, next : /\ stop = {d \in D : d = <<>>}
                              /\ base = [d \in D |-> <<>>]
                              /\ next = [d \in D |-> IF d = <<>> THEN d ELSE Drop(d, Size(d))]
    OBVIOUS
<1>4. PICK G : G = [p \in D \X V |-> IF p[1] \in stop
          THEN base[p[1]] ELSE Utf16(CodePoint(p[1])) \o p[2]]
    OBVIOUS
<1>5. /\ D \subseteq Seq(B) /\ base \in [D -> V] /\ next \in [D -> D]
      /\ \A d \in D : ~(d = <<>>) => Len(next[d]) < Len(d) /\ next[d] = Drop(d, Size(d))
    <2>1. D \subseteq Seq(B) /\ \A d \in D : <<>> \in V
        BY <1>2
    <2>2. ASSUME NEW d \in D, ~(d = <<>>)
          PROVE  Drop(d, Size(d)) \in D /\ Len(Drop(d, Size(d))) < Len(d)
        <3>1. Size(d) \in Nat /\ Size(d) > 0 /\ d \in Seq(Nat) /\ d # <<>>
            BY <1>2, <2>2 DEF Size
        <3> QED
            BY <1>2, <3>1, Shorter
    <2> QED
        BY <1>3, <2>1, <2>2
<1>6. /\ G \in [D \X V -> V]
      /\ \A d \in D, v \in V : ~(d = <<>>) => G[<<d, v>>] = Utf16(CodePoint(d)) \o v
    <2>1. ASSUME NEW d \in D, NEW v \in V, ~(d = <<>>) PROVE Utf16(CodePoint(d)) \o v \in V
        <3>1. Utf16(CodePoint(d)) \in Seq(ReadUnits)
            BY <1>2, <2>1, ReadUnitsOf
        <3> QED
            BY <1>2, <3>1
    <2>2. \A d \in D : base[d] \in V
        BY <1>5
    <2> QED
        BY <1>3, <1>4, <2>1, <2>2
<1>7. PICK f : Solves(f, D, V, stop, base, next, G)
    <2>1. Shrinks(B, D, V, stop, base, next, G)
        BY <1>3, <1>5, <1>6 DEF Shrinks
    <2> QED
        BY <2>1, SeqRecursion
<1>8. /\ f \in [D -> V]
      /\ \A d \in D : f[d] = IF d = <<>> THEN <<>> ELSE Utf16(CodePoint(d)) \o f[Drop(d, Size(d))]
    <2>1. f \in [D -> V]
        BY <1>7 DEF Solves
    <2>2. ASSUME NEW d \in D PROVE f[d] = IF d = <<>>
              THEN <<>> ELSE Utf16(CodePoint(d)) \o f[Drop(d, Size(d))]
        <3>1. f[d] = IF d \in stop THEN base[d] ELSE G[<<d, f[next[d]]>>]
            BY <1>7 DEF Solves
        <3>2. d \in stop <=> d = <<>>
            BY <1>3
        <3>3. base[d] = <<>> /\ next[d] \in D /\ f[next[d]] \in V
            BY <1>3, <1>5, <2>1
        <3>4. ~(d = <<>>) => next[d] = Drop(d, Size(d))
            BY <1>5
        <3>5. ~(d = <<>>) => f[d] = Utf16(CodePoint(d)) \o f[Drop(d, Size(d))]
            BY <1>6, <3>1, <3>2, <3>3, <3>4
        <3> QED
            BY <3>1, <3>2, <3>3, <3>5
    <2> QED
        BY <2>1, <2>2
<1>9. f = [b \in Seq(Nat) |->
              IF b = <<>> THEN <<>> ELSE Utf16(CodePoint(b)) \o f[Drop(b, Size(b))]]
    BY <1>2, <1>8
<1>10. Parsed = [b \in Seq(Nat) |->
           IF b = <<>> THEN <<>> ELSE Utf16(CodePoint(b)) \o Parsed[Drop(b, Size(b))]]
    BY <1>9 DEF Parsed
<1>11. \A d \in D : Parsed[d] = IF d = <<>> THEN <<>>
           ELSE Utf16(CodePoint(d)) \o Parsed[Drop(d, Size(d))]
    BY <1>2, <1>10
<1>12. PICK S : S = {d \in D : Parsed[d] = f[d]}
    OBVIOUS
<1>13. ASSUME NEW d \in D, \A e \in D : Len(e) < Len(d) => e \in S PROVE d \in S
    <2>1. ~(d = <<>>) => Parsed[Drop(d, Size(d))] = f[Drop(d, Size(d))]
        <3>1. ~(d = <<>>) => Drop(d, Size(d)) \in D /\ Len(Drop(d, Size(d))) < Len(d)
            BY <1>5
        <3> QED
            BY <1>12, <1>13, <3>1
    <2>2. Parsed[d] = f[d]
        BY <1>8, <1>11, <2>1
    <2> QED
        BY <1>12, <2>2
<1>14. \A d \in D : Parsed[d] = f[d]
    BY <1>5, <1>12, <1>13, ByLen
<1>15. Parsed[bytes] \in V
    BY <1>2, <1>8, <1>14
<1> QED
    BY <1>1, <1>2, <1>11, <1>15

(* A string is as long in bytes as its length prefix says, and the client  *)
(* reads back what was written, whatever the planes of its characters      *)
(* (UTF8Length, stringToUTF8, parseUTF8).                                  *)
THEOREM StringsReadBack ==
    ASSUME NEW string \in Text
    PROVE  /\ StringToUTF8(string) \in Seq(Nat)
           /\ UTF8Length(string) \in Nat
           /\ Len(StringToUTF8(string)) = UTF8Length(string)
           /\ ParseUTF8(StringToUTF8(string)) = string
<1>1. PICK S : S = {t \in Text : /\ Len(StringToUTF8(t)) = UTF8Length(t)
                                 /\ ParseUTF8(StringToUTF8(t)) = t}
    OBVIOUS
<1>2. ASSUME NEW t \in Text, \A e \in Text : Len(e) < Len(t) => e \in S PROVE t \in S
    <2>1. CASE t = <<>>
        <3>1. StringToUTF8(t) = <<>> /\ UTF8Length(t) = 0
            BY <2>1, UTF8Equation, UTF8LengthEquation
        <3>2. <<>> \in Seq(Nat) /\ Len(<<>>) = 0
            OBVIOUS
        <3>3. ParseUTF8(<<>>) = <<>>
            BY <3>2, ParseUTF8Equation
        <3> QED
            BY <1>1, <2>1, <3>1, <3>2, <3>3
    <2>2. CASE t # <<>>
        <3>1. PICK c : c = Character(t)
            OBVIOUS
        <3>2. PICK r : r = Drop(t, Units(t))
            OBVIOUS
        <3>3. c \in Nat /\ r \in Text /\ Len(r) < Len(t) /\ t = Utf16(c) \o r
            <4>1. /\ Character(t) \in Nat /\ Drop(t, Units(t)) \in Text
                  /\ Len(Drop(t, Units(t))) < Len(t)
                  /\ t = Utf16(Character(t)) \o Drop(t, Units(t))
                BY <2>2, FirstCharacter
            <4> QED
                BY <3>1, <3>2, <4>1
        <3>4. r \in S
            BY <1>2, <3>3
        <3>5. PICK u : u = Utf8(c)
            OBVIOUS
        <3>6. PICK b : b = StringToUTF8(r)
            OBVIOUS
        <3>7. u \in Seq(Nat) /\ b \in Seq(Nat) /\ UTF8Length(r) \in Nat
            BY <3>3, <3>5, <3>6, Utf8Cases, UTF8Equation, UTF8LengthEquation
        <3>8. Len(b) = UTF8Length(r) /\ ParseUTF8(b) = r
            BY <1>1, <3>4, <3>6
        <3>9. StringToUTF8(t) = u \o b
            BY <2>2, <3>1, <3>2, <3>5, <3>6, UTF8Equation
        <3>10. Len(u) = Width(t)
            <4>1. Len(u) = IF c > 65535 THEN 4 ELSE IF c > 2047 THEN 3 ELSE IF c > 127 THEN 2 ELSE 1
                <5>1. c \in Nat
                    BY <3>3
                <5> QED
                    BY <3>5, <5>1, Utf8Len, SMT
            <4>2. CASE Lead(t[1])
                <5>1. c > 65535
                    BY <2>2, <3>1, <4>2, FirstCharacter, SMT
                <5> QED
                    BY <4>1, <4>2, <5>1, SMT DEF Width
            <4>3. CASE ~Lead(t[1])
                <5>1. c = t[1] /\ c <= 65535
                    BY <2>2, <3>1, <4>3, FirstCharacter, SMT
                <5>2. c \in Nat
                    BY <3>3
                <5>3. Len(u) = IF c > 2047 THEN 3 ELSE IF c > 127 THEN 2 ELSE 1
                    BY <4>1, <5>1, <5>2, SMT
                <5> QED
                    BY <4>3, <5>1, <5>3, SMT DEF Width
            <4> QED
                BY <4>2, <4>3
        <3>11. UTF8Length(t) = Len(u) + UTF8Length(r)
            BY <2>2, <3>2, <3>10, UTF8LengthEquation
        <3>12. Len(u \o b) = Len(u) + Len(b) /\ u \o b \in Seq(Nat)
            BY <3>7, ConcatOf
        <3>13. ParseUTF8(u \o b) = t
            <4>1. Size(u \o b) = Len(u) /\ CodePoint(u \o b) = c
                BY <3>3, <3>5, <3>7, Utf8Read
            <4>2. Drop(u \o b, Len(u)) = b
                BY <3>7, DropConcat
            <4>3. u \o b # <<>>
                <5>1. Len(u) > 0
                    BY <3>10, SMT DEF Width
                <5> QED
                    BY <3>7, <3>12, <5>1
            <4>4. ParseUTF8(u \o b) = Utf16(CodePoint(u \o b)) \o ParseUTF8(Drop(u \o b, Size(u
                      \o b)))
                BY <3>12, <4>3, ParseUTF8Equation
            <4> QED
                BY <3>3, <3>8, <4>1, <4>2, <4>4
        <3>14. Len(StringToUTF8(t)) = UTF8Length(t)
            BY <3>8, <3>9, <3>11, <3>12
        <3> QED
            BY <1>1, <3>9, <3>13, <3>14
    <2> QED
        BY <2>1, <2>2
<1>3. Text \subseteq Seq(Unit)
    BY DEF Text
<1>4. \A t \in Text : t \in S
    BY <1>2, <1>3, ByLen
<1> QED
    BY <1>1, <1>4, UTF8Equation, UTF8LengthEquation
-----------------------------------------------------------------------------
(* The remaining length.                                                   *)

ValueOf(digits) ==
    LET remLength[b \in Seq(Nat)] ==
            IF b = <<>> THEN 0 ELSE (b[1] % 128) + 128 * remLength[Drop(b, 1)]
    IN  remLength[digits]

Valued ==
    CHOOSE remLength : remLength = [b \in Seq(Nat) |->
        IF b = <<>> THEN 0 ELSE (b[1] % 128) + 128 * remLength[Drop(b, 1)]]

\* The value of a remaining length, from its first digit.
LEMMA ValueEquation ==
    ASSUME NEW digits \in Seq(Nat)
    PROVE  /\ ValueOf(digits) \in Nat
           /\ digits = <<>> => ValueOf(digits) = 0
           /\ ~(digits = <<>>) => ValueOf(digits) = (digits[1] % 128)
                  + 128 * ValueOf(Drop(digits, 1))
<1>1. \A s : ValueOf(s) = Valued[s]
    BY DEF ValueOf, Valued
<1>2. PICK B, D, V : B = Nat /\ D = Seq(Nat) /\ V = Nat
    OBVIOUS
<1>3. PICK stop, base, next : /\ stop = {d \in D : d = <<>>}
                              /\ base = [d \in D |-> 0]
                              /\ next = [d \in D |-> IF d = <<>> THEN d ELSE Drop(d, 1)]
    OBVIOUS
<1>4. PICK G : G = [p \in D \X V |-> IF p[1] \in stop
          THEN base[p[1]] ELSE (p[1][1] % 128) + 128 * p[2]]
    OBVIOUS
<1>5. /\ D \subseteq Seq(B) /\ base \in [D -> V] /\ next \in [D -> D]
      /\ \A d \in D : ~(d = <<>>) => Len(next[d]) < Len(d) /\ next[d] = Drop(d, 1)
    <2>1. D \subseteq Seq(B) /\ \A d \in D : 0 \in V
        BY <1>2
    <2>2. ASSUME NEW d \in D, ~(d = <<>>)
          PROVE  Drop(d, 1) \in D /\ Len(Drop(d, 1)) < Len(d)
        <3>1. d \in Seq(B) /\ Len(d) \in Nat
            BY <2>1
        <3>2. Drop(d, 1) \in Seq(B) /\ Len(Drop(d, 1)) = Len(d) - 1
            BY <2>2, <3>1, DropOne
        <3> QED
            BY <1>2, <3>1, <3>2
    <2> QED
        BY <1>3, <2>1, <2>2
<1>6. /\ G \in [D \X V -> V]
      /\ \A d \in D, v \in V : ~(d = <<>>) => G[<<d, v>>] = (d[1] % 128) + 128 * v
    <2>1. ASSUME NEW d \in D, NEW v \in V, ~(d = <<>>) PROVE (d[1] % 128) + 128 * v \in V
        <3>1. d[1] \in Nat
            BY <1>2, <2>1, DropOne
        <3>2. d[1] % 128 \in Nat
            BY <3>1
        <3> QED
            BY <1>2, <3>2
    <2>2. \A d \in D : base[d] \in V
        BY <1>5
    <2> QED
        BY <1>3, <1>4, <2>1, <2>2
<1>7. PICK f : Solves(f, D, V, stop, base, next, G)
    <2>1. Shrinks(B, D, V, stop, base, next, G)
        BY <1>3, <1>5, <1>6 DEF Shrinks
    <2> QED
        BY <2>1, SeqRecursion
<1>8. /\ f \in [D -> V]
      /\ \A d \in D : f[d] = IF d = <<>> THEN 0 ELSE (d[1] % 128) + 128 * f[Drop(d, 1)]
    <2>1. f \in [D -> V]
        BY <1>7 DEF Solves
    <2>2. ASSUME NEW d \in D PROVE f[d] = IF d = <<>> THEN 0 ELSE (d[1] % 128) + 128 * f[Drop(d, 1)]
        <3>1. f[d] = IF d \in stop THEN base[d] ELSE G[<<d, f[next[d]]>>]
            BY <1>7 DEF Solves
        <3>2. d \in stop <=> d = <<>>
            BY <1>3
        <3>3. base[d] = 0 /\ next[d] \in D /\ f[next[d]] \in V
            BY <1>3, <1>5, <2>1
        <3>4. ~(d = <<>>) => next[d] = Drop(d, 1)
            BY <1>5
        <3>5. ~(d = <<>>) => f[d] = (d[1] % 128) + 128 * f[Drop(d, 1)]
            BY <1>6, <3>1, <3>2, <3>3, <3>4
        <3> QED
            BY <3>1, <3>2, <3>3, <3>5
    <2> QED
        BY <2>1, <2>2
<1>9. f = [b \in Seq(Nat) |->
              IF b = <<>> THEN 0 ELSE (b[1] % 128) + 128 * f[Drop(b, 1)]]
    BY <1>2, <1>8
<1>10. Valued = [b \in Seq(Nat) |->
           IF b = <<>> THEN 0 ELSE (b[1] % 128) + 128 * Valued[Drop(b, 1)]]
    BY <1>9 DEF Valued
<1>11. \A d \in D : Valued[d] = IF d = <<>> THEN 0 ELSE (d[1] % 128) + 128 * Valued[Drop(d, 1)]
    BY <1>2, <1>10
<1>12. PICK S : S = {d \in D : Valued[d] = f[d]}
    OBVIOUS
<1>13. ASSUME NEW d \in D, \A e \in D : Len(e) < Len(d) => e \in S PROVE d \in S
    <2>1. ~(d = <<>>) => Valued[Drop(d, 1)] = f[Drop(d, 1)]
        <3>1. ~(d = <<>>) => Drop(d, 1) \in D /\ Len(Drop(d, 1)) < Len(d)
            BY <1>5
        <3> QED
            BY <1>12, <1>13, <3>1
    <2>2. Valued[d] = f[d]
        BY <1>8, <1>11, <2>1
    <2> QED
        BY <1>12, <2>2
<1>14. \A d \in D : Valued[d] = f[d]
    BY <1>5, <1>12, <1>13, ByLen
<1>15. Valued[digits] \in V
    BY <1>2, <1>8, <1>14
<1> QED
    BY <1>1, <1>2, <1>11, <1>15

LEMMA ValueOfFirst ==
    ASSUME NEW d \in Nat, NEW r \in Seq(Nat)
    PROVE  ValueOf(<<d>> \o r) = (d % 128) + 128 * ValueOf(r)
<1>1. PICK b : b = <<d>> \o r
    OBVIOUS
<1>2. <<d>> \in Seq(Nat) /\ Len(<<d>>) = 1 /\ <<d>>[1] = d
    OBVIOUS
<1>3. b \in Seq(Nat) /\ Len(b) = 1 + Len(r) /\ b[1] = d
    BY <1>1, <1>2, ConcatOf
<1>4. Drop(b, 1) = r
    BY <1>1, <1>2, DropConcat
<1>5. b # <<>>
    BY <1>3
<1> QED
    BY <1>1, <1>3, <1>4, <1>5, ValueEquation

LEMMA PairOf == ASSUME NEW x, NEW y PROVE <<x, y>> = <<x>> \o <<y>>
<1>1. PICK B : B = {x, y}
    OBVIOUS
<1>2. <<x>> \in Seq(B) /\ <<y>> \in Seq(B) /\ <<x, y>> \in Seq(B)
    BY <1>1
<1>3. PICK s : s = <<x>> \o <<y>>
    OBVIOUS
<1>4. s \in Seq(B) /\ Len(s) = 2 /\ s[1] = x /\ s[2] = y
    BY <1>2, <1>3, ConcatOf
<1>5. PICK t : t = <<x, y>>
    OBVIOUS
<1>6. t \in Seq(B) /\ Len(t) = 2 /\ t[1] = x /\ t[2] = y
    BY <1>2, <1>5
<1>7. \A i \in 1..2 : s[i] = t[i]
    BY <1>4, <1>6
<1> QED
    BY <1>3, <1>4, <1>5, <1>6, <1>7, SameSeq

LEMMA ValueOfOne == ASSUME NEW a \in Nat PROVE ValueOf(<<a>>) = a % 128
<1>1. <<>> \in Seq(Nat)
    OBVIOUS
<1>2. ValueOf(<<>>) = 0
    BY <1>1, ValueEquation
<1>3. <<a>> = <<a>> \o <<>>
    OBVIOUS
<1>4. ValueOf(<<a>> \o <<>>) = (a % 128) + 128 * ValueOf(<<>>)
    BY <1>1, ValueOfFirst
<1>5. a % 128 \in Nat
    OBVIOUS
<1> QED
    BY <1>2, <1>3, <1>4, <1>5

LEMMA ValueOfTwo ==
    ASSUME NEW a \in Nat, NEW b \in Nat
    PROVE  ValueOf(<<a, b>>) = (a % 128) + 128 * (b % 128)
<1>1. <<b>> \in Seq(Nat) /\ ValueOf(<<b>>) = b % 128
    BY ValueOfOne
<1>2. ValueOf(<<a>> \o <<b>>) = (a % 128) + 128 * ValueOf(<<b>>)
    BY <1>1, ValueOfFirst
<1> QED
    BY <1>1, <1>2, PairOf

LEMMA ValueOfThree ==
    ASSUME NEW a \in Nat, NEW b \in Nat, NEW c \in Nat
    PROVE  ValueOf(<<a, b, c>>) = (a % 128) + 128 * ((b % 128) + 128 * (c % 128))
<1>1. PICK t : t = <<b, c>>
    OBVIOUS
<1>2. t \in Seq(Nat) /\ <<a, b, c>> = <<a>> \o t
    BY <1>1
<1>3. ValueOf(<<a>> \o t) = (a % 128) + 128 * ValueOf(t)
    BY <1>2, ValueOfFirst
<1>4. ValueOf(t) = (b % 128) + 128 * (c % 128)
    BY <1>1, ValueOfTwo
<1> QED
    BY <1>2, <1>3, <1>4

LEMMA ValueOfFour ==
    ASSUME NEW a \in Nat, NEW b \in Nat, NEW c \in Nat, NEW d \in Nat
    PROVE  ValueOf(<<a, b, c, d>>) =
               (a % 128) + 128 * ((b % 128) + 128 * ((c % 128) + 128 * (d % 128)))
<1>1. PICK t : t = <<b, c, d>>
    OBVIOUS
<1>2. t \in Seq(Nat) /\ <<a, b, c, d>> = <<a>> \o t
    BY <1>1
<1>3. ValueOf(<<a>> \o t) = (a % 128) + 128 * ValueOf(t)
    BY <1>2, ValueOfFirst
<1>4. ValueOf(t) = (b % 128) + 128 * ((c % 128) + 128 * (d % 128))
    BY <1>1, ValueOfThree
<1> QED
    BY <1>2, <1>3, <1>4

\* A number is its digits of seven bits.
LEMMA DigitArithmetic ==
    ASSUME NEW n \in Nat
    PROVE  /\ n < 128 => n % 128 = n /\ n \div 128 = 0
           /\ n < 16384 => (n % 128) + 128 * ((n \div 128) % 128) = n /\ n \div 16384 = 0
           /\ n < 2097152 => /\ (n % 128) + 128 * (((n \div 128) % 128)
                                                 + 128 * ((n \div 16384) % 128)) = n
                             /\ n \div 2097152 = 0
           /\ n < 268435456 => /\ (n % 128) + 128 * (((n \div 128) % 128)
                                        + 128 * (((n \div 16384) % 128)
                                                 + 128 * ((n \div 2097152) % 128))) = n
                               /\ n \div 268435456 = 0
           /\ n >= 128 => n \div 128 > 0
           /\ n >= 16384 => n \div 16384 > 0
           /\ n >= 2097152 => n \div 2097152 > 0
BY SMT

LEMMA Multipliers ==
    /\ Multiplier[1] = 1 /\ Multiplier[2] = 128 /\ Multiplier[3] = 16384
    /\ Multiplier[4] = 2097152 /\ Multiplier[5] = 268435456
BY SMT DEF Multiplier


\* How many digits a number has, and what they are.
Spells(e, n, a, b, c, d) ==
    /\ a < 128 /\ b < 128 /\ c < 128 /\ d < 128
    /\ \/ e = <<a>> /\ n = a
       \/ e = <<a + 128, b>> /\ n = a + 128 * b
       \/ e = <<a + 128, b + 128, c>> /\ n = a + 128 * (b + 128 * c)
       \/ e = <<a + 128, b + 128, c + 128, d>> /\ n = a + 128 * (b + 128 * (c + 128 * d))

\* EncodeMBI writes the digits, the eighth bit on all but the last.
LEMMA EncodeDigits ==
    ASSUME NEW n \in Nat, n < Multiplier[5]
    PROVE  \E a \in Nat, b \in Nat, c \in Nat, d \in Nat :
             Spells(EncodeMBI(n), n, a, b, c, d)
<1> DEFINE Fits(k) == (k = 4 \/ n < Multiplier[k + 1]) /\ (k = 1 \/ n >= Multiplier[k])
           size == CHOOSE k \in 1..4 : Fits(k)
           digit(i) == ((n \div Multiplier[i]) % 128) + Bit(n \div Multiplier[i + 1] > 0, 128)
<1>1. EncodeMBI(n) = [i \in 1..size |-> digit(i)]
    BY SMT DEF EncodeMBI
<1>2. /\ Fits(1) <=> n < 128
      /\ Fits(2) <=> n < 16384 /\ n >= 128
      /\ Fits(3) <=> n < 2097152 /\ n >= 16384
      /\ Fits(4) <=> n >= 2097152
    BY Multipliers, SMT
<1>3. PICK a, b, c, d : /\ a = n % 128 /\ b = (n \div 128) % 128
                        /\ c = (n \div 16384) % 128 /\ d = (n \div 2097152) % 128
    BY SMT
<1>4. /\ a \in Nat /\ b \in Nat /\ c \in Nat /\ d \in Nat
      /\ a < 128 /\ b < 128 /\ c < 128 /\ d < 128
    BY <1>3, SMT
<1>5. /\ digit(1) = a + Bit(n \div 128 > 0, 128) /\ digit(2) = b + Bit(n \div 16384 > 0, 128)
      /\ digit(3) = c + Bit(n \div 2097152 > 0, 128)
      /\ digit(4) = d + Bit(n \div 268435456 > 0, 128)
    <2>1. n \div 1 = n
        BY SMT
    <2> QED
        BY <1>3, <2>1, Multipliers, SMT
<1>6. size \in 1..4 /\ Fits(size)
    <2>1. \E k \in 1..4 : Fits(k)
        <3>1. Fits(1) \/ Fits(2) \/ Fits(3) \/ Fits(4)
            BY <1>2, SMT
        <3> HIDE DEF Fits
        <3> QED
            BY <3>1, SMT
    <2> HIDE DEF Fits
    <2> QED
        BY <2>1, SMT
<1> HIDE DEF Fits, size, digit
<1>7. CASE size = 1
    <2>1. n < 128
        BY <1>2, <1>6, <1>7, SMT
    <2>2. digit(1) = a /\ n = a
        BY <1>3, <1>5, <2>1, DigitArithmetic, SMT DEF Bit
    <2>3. EncodeMBI(n) = <<a>>
        BY <1>1, <1>7, <2>2, SMT
    <2> QED
        BY <1>4, <2>2, <2>3, SMT DEF Spells
<1>8. CASE size = 2
    <2>1. n >= 128 /\ n < 16384
        BY <1>2, <1>6, <1>8, SMT
    <2>2. digit(1) = a + 128 /\ digit(2) = b /\ n = a + 128 * b
        BY <1>3, <1>5, <2>1, DigitArithmetic, SMT DEF Bit
    <2>3. EncodeMBI(n) = <<a + 128, b>>
        BY <1>1, <1>8, <2>2, SMT
    <2> QED
        BY <1>4, <2>2, <2>3, SMT DEF Spells
<1>9. CASE size = 3
    <2>1. n >= 16384 /\ n < 2097152
        BY <1>2, <1>6, <1>9, SMT
    <2>2. digit(1) = a + 128 /\ digit(2) = b + 128 /\ digit(3) = c /\ n = a + 128 * (b + 128 * c)
        BY <1>3, <1>5, <2>1, DigitArithmetic, SMT DEF Bit
    <2>3. EncodeMBI(n) = <<a + 128, b + 128, c>>
        BY <1>1, <1>9, <2>2, SMT
    <2> QED
        BY <1>4, <2>2, <2>3, SMT DEF Spells
<1>10. CASE size = 4
    <2>1. n >= 2097152 /\ n < 268435456
        BY <1>2, <1>6, <1>10, Multipliers, SMT
    <2>2. /\ digit(1) = a + 128 /\ digit(2) = b + 128 /\ digit(3) = c + 128 /\ digit(4) = d
          /\ n = a + 128 * (b + 128 * (c + 128 * d))
        BY <1>3, <1>5, <2>1, DigitArithmetic, SMT DEF Bit
    <2>3. EncodeMBI(n) = <<a + 128, b + 128, c + 128, d>>
        BY <1>1, <1>10, <2>2, SMT
    <2> QED
        BY <1>4, <2>2, <2>3, SMT DEF Spells
<1> QED
    BY <1>6, <1>7, <1>8, <1>9, <1>10, SMT

(* A remaining length below 268435456 takes up to four bytes, all but the  *)
(* last with their eighth bit, whose value it is (encodeMBI).              *)
THEOREM RemainingLength ==
    ASSUME NEW n \in Nat, n < Multiplier[5]
    PROVE  /\ EncodeMBI(n) \in Seq(Nat) /\ Len(EncodeMBI(n)) \in 1..4
           /\ EncodeMBI(n)[Len(EncodeMBI(n))] < 128
           /\ \A j \in 1..Len(EncodeMBI(n)) : j < Len(EncodeMBI(n)) => EncodeMBI(n)[j] >= 128
           /\ ValueOf(EncodeMBI(n)) = n
<1>1. PICK a \in Nat, b \in Nat, c \in Nat, d \in Nat :
             Spells(EncodeMBI(n), n, a, b, c, d)
    BY EncodeDigits
<1>a. /\ a < 128 /\ b < 128 /\ c < 128 /\ d < 128
    BY <1>1 DEF Spells
<1>2. PICK x \in Nat, y \in Nat, z \in Nat : x = a + 128 /\ y = b + 128 /\ z = c + 128
    OBVIOUS
<1>3. /\ a % 128 = a /\ b % 128 = b /\ c % 128 = c /\ d % 128 = d
      /\ x % 128 = a /\ y % 128 = b /\ z % 128 = c
    BY <1>a, <1>2, SMT
<1>4. CASE EncodeMBI(n) = <<a>> /\ n = a
    <2>1. ValueOf(<<a>>) = n
        BY <1>3, <1>4, ValueOfOne
    <2> QED
        BY <1>a, <1>4, <2>1
<1>5. CASE EncodeMBI(n) = <<a + 128, b>> /\ n = a + 128 * b
    <2>1. ValueOf(<<x, b>>) = (x % 128) + 128 * (b % 128)
        BY ValueOfTwo
    <2>2. PICK e : e = <<x, b>>
        OBVIOUS
    <2>3. /\ e \in Seq(Nat) /\ Len(e) = 2 /\ e[2] < 128 /\ e[1] >= 128
        BY <1>a, <1>2, <2>2
    <2>4. ValueOf(e) = n /\ EncodeMBI(n) = e
        BY <1>2, <1>3, <1>5, <2>1, <2>2
    <2> QED
        <3>1. \A j \in 1..Len(e) : j < Len(e) => e[j] >= 128
            BY <2>3
        <3>2. /\ e \in Seq(Nat) /\ Len(e) \in 1..4 /\ e[Len(e)] < 128
              /\ \A j \in 1..Len(e) : j < Len(e) => e[j] >= 128
              /\ ValueOf(e) = n
            BY <2>3, <2>4, <3>1
        <3> QED
            BY <2>4, <3>2, Zenon
<1>6. CASE EncodeMBI(n) = <<a + 128, b + 128, c>> /\ n = a + 128 * (b + 128 * c)
    <2>1. ValueOf(<<x, y, c>>) = (x % 128) + 128 * ((y % 128) + 128 * (c % 128))
        BY ValueOfThree
    <2>2. PICK e : e = <<x, y, c>>
        OBVIOUS
    <2>3. /\ e \in Seq(Nat) /\ Len(e) = 3 /\ e[3] < 128 /\ e[1] >= 128 /\ e[2] >= 128
        BY <1>a, <1>2, <2>2
    <2>4. ValueOf(e) = n /\ EncodeMBI(n) = e
        BY <1>2, <1>3, <1>6, <2>1, <2>2
    <2> QED
        <3>1. \A j \in 1..Len(e) : j < Len(e) => e[j] >= 128
            BY <2>3
        <3>2. /\ e \in Seq(Nat) /\ Len(e) \in 1..4 /\ e[Len(e)] < 128
              /\ \A j \in 1..Len(e) : j < Len(e) => e[j] >= 128
              /\ ValueOf(e) = n
            BY <2>3, <2>4, <3>1
        <3> QED
            BY <2>4, <3>2, Zenon
<1>7. CASE /\ EncodeMBI(n) = <<a + 128, b + 128, c + 128, d>>
           /\ n = a + 128 * (b + 128 * (c + 128 * d))
    <2>1. ValueOf(<<x, y, z, d>>) =
              (x % 128) + 128 * ((y % 128) + 128 * ((z % 128) + 128 * (d % 128)))
        BY ValueOfFour
    <2>2. PICK e : e = <<x, y, z, d>>
        OBVIOUS
    <2>3. /\ e \in Seq(Nat) /\ Len(e) = 4 /\ e[4] < 128
          /\ e[1] >= 128 /\ e[2] >= 128 /\ e[3] >= 128
        BY <1>a, <1>2, <2>2
    <2>4. ValueOf(e) = n /\ EncodeMBI(n) = e
        BY <1>2, <1>3, <1>7, <2>1, <2>2
    <2> QED
        <3>1. \A j \in 1..Len(e) : j < Len(e) => e[j] >= 128
            BY <2>3
        <3>2. /\ e \in Seq(Nat) /\ Len(e) \in 1..4 /\ e[Len(e)] < 128
              /\ \A j \in 1..Len(e) : j < Len(e) => e[j] >= 128
              /\ ValueOf(e) = n
            BY <2>3, <2>4, <3>1
        <3> QED
            BY <2>4, <3>2, Zenon
<1> QED
    BY <1>1, <1>4, <1>5, <1>6, <1>7 DEF Spells
-----------------------------------------------------------------------------
(* The header of a packet tells where it ends.                             *)

\* The length ends at the first byte below 128.
LEMMA LengthEndIs ==
    ASSUME NEW b \in Seq(Nat), NEW k \in 2..Len(b), b[k] < 128,
           \A j \in 2..(k - 1) : b[j] >= 128
    PROVE  LengthEnd(b) = k
<1> DEFINE last(i) == b[i] < 128 /\ \A j \in 2..(i - 1) : b[j] >= 128
<1>1. last(k)
    OBVIOUS
<1>2. ASSUME NEW i \in 2..Len(b), last(i) PROVE i = k
    <2>1. ~(i < k)
        <3> SUFFICES ASSUME i < k PROVE FALSE
            OBVIOUS
        <3>1. i \in 2..(k - 1) /\ b[i] \in Nat
            OBVIOUS
        <3>2. b[i] >= 128 /\ b[i] < 128
            BY <1>2, <3>1
        <3> QED
            BY <3>1, <3>2
    <2>2. ~(k < i)
        <3> SUFFICES ASSUME k < i PROVE FALSE
            OBVIOUS
        <3>1. k \in 2..(i - 1) /\ b[k] \in Nat
            OBVIOUS
        <3>2. b[k] >= 128
            BY <1>2, <3>1
        <3> QED
            BY <3>1, <3>2
    <2> QED
        BY <2>1, <2>2
<1>3. LengthEnd(b) = IF \E i \in 2..Len(b) : last(i)
          THEN CHOOSE i \in 2..Len(b) : last(i) ELSE Absent
    BY DEF LengthEnd
<1> HIDE DEF last
<1>4. \E i \in 2..Len(b) : last(i)
    BY <1>1
<1>5. PICK c : c = CHOOSE i \in 2..Len(b) : last(i)
    OBVIOUS
<1>6. c \in 2..Len(b) /\ last(c)
    BY <1>4, <1>5
<1> QED
    BY <1>2, <1>3, <1>4, <1>5, <1>6

\* Without such a byte it has no end yet.
LEMMA LengthEndNone ==
    ASSUME NEW b \in Seq(Nat), \A j \in 2..Len(b) : b[j] >= 128
    PROVE  LengthEnd(b) = Absent
<1>1. ASSUME NEW i \in 2..Len(b) PROVE ~(b[i] < 128)
    <2>1. b[i] \in Nat /\ b[i] >= 128
        OBVIOUS
    <2> QED
        BY <2>1
<1> QED
    BY <1>1 DEF LengthEnd

Frame(first, body) == <<first>> \o EncodeMBI(Len(body)) \o body
HeaderLength(body) == 1 + Len(EncodeMBI(Len(body)))

\* A frame: its first byte, the length of the body, the body.
LEMMA FrameParts ==
    ASSUME NEW first \in Nat, NEW body \in Seq(Nat), Len(body) < Multiplier[5]
    PROVE  LET e == Frame(first, body)
               k == HeaderLength(body)
               m == EncodeMBI(Len(body)) IN
           /\ e \in Seq(Nat) /\ k \in 2..5 /\ Len(e) = k + Len(body) /\ e[1] = first
           /\ m \in Seq(Nat) /\ Len(m) = k - 1 /\ ValueOf(m) = Len(body)
           /\ \A i \in 1..(k - 1) : e[i + 1] = m[i]
           /\ e[k] < 128 /\ \A j \in 2..(k - 1) : e[j] >= 128
           /\ Drop(e, k) = body
<1>1. PICK e, k, m, h : /\ e = Frame(first, body) /\ k = HeaderLength(body)
                        /\ m = EncodeMBI(Len(body)) /\ h = <<first>> \o m
    OBVIOUS
<1>2. Len(body) \in Nat
    OBVIOUS
<1>3. /\ m \in Seq(Nat) /\ Len(m) \in 1..4 /\ m[Len(m)] < 128 /\ ValueOf(m) = Len(body)
      /\ \A j \in 1..Len(m) : j < Len(m) => m[j] >= 128
    BY <1>1, <1>2, RemainingLength
<1>4. <<first>> \in Seq(Nat) /\ Len(<<first>>) = 1 /\ <<first>>[1] = first
    OBVIOUS
<1>5. /\ h \in Seq(Nat) /\ Len(h) = 1 + Len(m) /\ h[1] = first
      /\ \A i \in 1..Len(m) : h[1 + i] = m[i]
    BY <1>1, <1>3, <1>4, ConcatOf
<1>6. e = h \o body
    BY <1>1 DEF Frame
<1>7. /\ e \in Seq(Nat) /\ Len(e) = Len(h) + Len(body)
      /\ \A i \in 1..Len(h) : e[i] = h[i]
    <2>1. /\ h \o body \in Seq(Nat) /\ Len(h \o body) = Len(h) + Len(body)
          /\ \A i \in 1..Len(h) : (h \o body)[i] = h[i]
        <3>1. h \in Seq(Nat)
            BY <1>5
        <3> QED
            BY <3>1, ConcatOf
    <2> QED
        BY <1>6, <2>1, Zenon
<1>8. k = 1 + Len(m) /\ k \in 2..5
    <2>1. k = 1 + Len(m)
        BY <1>1 DEF HeaderLength
    <2>2. PICK n \in 1..4 : n = Len(m)
        BY <1>3
    <2>3. k = 1 + n
        BY <2>1, <2>2
    <2>4. k \in 2..5
        BY <2>3
    <2> QED
        BY <2>1, <2>4
<1>9. e[1] = first
    BY <1>3, <1>5, <1>7
<1>10. \A i \in 1..(k - 1) : e[i + 1] = m[i]
    <2> SUFFICES ASSUME NEW i \in 1..(k - 1) PROVE e[i + 1] = m[i]
        OBVIOUS
    <2>1. i \in 1..Len(m) /\ i + 1 \in 1..Len(h) /\ 1 + i = i + 1
        BY <1>3, <1>5, <1>8
    <2>2. e[i + 1] = h[i + 1] /\ h[1 + i] = m[i]
        BY <1>5, <1>7, <2>1
    <2> QED
        BY <2>1, <2>2
<1>11. e[k] < 128
    <2>1. k - 1 \in 1..(k - 1) /\ (k - 1) + 1 = k /\ k - 1 = Len(m)
        BY <1>3, <1>8
    <2> QED
        BY <1>3, <1>10, <2>1
<1>12. ASSUME NEW j \in 2..(k - 1) PROVE e[j] >= 128
    <2>1. j - 1 \in 1..(k - 1) /\ (j - 1) + 1 = j /\ j - 1 < Len(m) /\ j - 1 \in 1..Len(m)
        BY <1>3, <1>8
    <2> QED
        BY <1>3, <1>10, <2>1
<1>13. Drop(e, k) = body
    BY <1>5, <1>6, <1>8, DropConcat
<1>14. Len(m) = k - 1 /\ Len(e) = k + Len(body)
    BY <1>3, <1>5, <1>7, <1>8
<1>15. /\ e \in Seq(Nat) /\ k \in 2..5 /\ Len(e) = k + Len(body) /\ e[1] = first
       /\ m \in Seq(Nat) /\ Len(m) = k - 1 /\ ValueOf(m) = Len(body)
       /\ \A i \in 1..(k - 1) : e[i + 1] = m[i]
       /\ e[k] < 128 /\ \A j \in 2..(k - 1) : e[j] >= 128
       /\ Drop(e, k) = body
    BY <1>3, <1>7, <1>8, <1>9, <1>10, <1>11, <1>12, <1>13, <1>14
<1> QED
    BY <1>1, <1>15, Zenon

\* Whatever bytes begin as a packet does, to the end of its length.
LEMMA Header ==
    ASSUME NEW first \in Nat, NEW body \in Seq(Nat), Len(body) < Multiplier[5],
           NEW b \in Seq(Nat), Len(b) >= HeaderLength(body),
           \A i \in 1..HeaderLength(body) : b[i] = Frame(first, body)[i]
    PROVE  LengthEnd(b) = HeaderLength(body) /\ DecodeMBI(b, HeaderLength(body)) = Len(body)
<1>1. PICK e, k, m : /\ e = Frame(first, body) /\ k = HeaderLength(body)
                     /\ m = EncodeMBI(Len(body))
    OBVIOUS
<1>a. /\ e \in Seq(Nat) /\ k \in 2..5 /\ e[k] < 128
      /\ \A j \in 2..(k - 1) : e[j] >= 128
    BY <1>1, FrameParts, Zenon
<1>b. /\ m \in Seq(Nat) /\ Len(m) = k - 1 /\ ValueOf(m) = Len(body)
      /\ \A i \in 1..(k - 1) : e[i + 1] = m[i]
    <2>1. m \in Seq(Nat) /\ Len(m) = k - 1 /\ ValueOf(m) = Len(body)
        BY <1>1, FrameParts, Zenon
    <2>2. \A i \in 1..(HeaderLength(body) - 1) :
              Frame(first, body)[i + 1] = EncodeMBI(Len(body))[i]
        BY FrameParts
    <2>3. \A i \in 1..(k - 1) : e[i + 1] = m[i]
        BY <1>1, <2>2, Zenon
    <2> QED
        BY <2>1, <2>3
<1>2. /\ e \in Seq(Nat) /\ k \in 2..5 /\ m \in Seq(Nat) /\ Len(m) = k - 1
      /\ ValueOf(m) = Len(body)
      /\ \A i \in 1..(k - 1) : e[i + 1] = m[i]
      /\ e[k] < 128 /\ \A j \in 2..(k - 1) : e[j] >= 128
    BY <1>a, <1>b
<1>3. Len(b) \in Nat /\ Len(b) >= k /\ \A i \in 1..k : b[i] = e[i]
    BY <1>1
<1>4. LengthEnd(b) = k
    <2>1. k \in 2..Len(b) /\ b[k] < 128
        BY <1>2, <1>3
    <2>2. ASSUME NEW j \in 2..(k - 1) PROVE b[j] >= 128
        <3>1. j \in 1..k
            BY <1>a
        <3>2. b[j] = e[j] /\ e[j] >= 128
            BY <1>3, <1>a, <3>1
        <3> QED
            BY <3>2
    <2> QED
        BY <2>1, <2>2, LengthEndIs
<1>5. SubSeq(b, 2, k) = m
    <2>1. PICK s : s = SubSeq(b, 2, k)
        OBVIOUS
    <2>2. s \in Seq(Nat) /\ Len(s) = k - 1 /\ \A i \in 1..(k - 1) : s[i] = b[i + 1]
        <3>1. ASSUME NEW i \in 2..k PROVE b[i] \in Nat
            <4>1. i \in 1..Len(b)
                BY <1>a, <1>3
            <4> QED
                BY <4>1
        <3>2. 2 \in Int /\ k \in Int /\ 2 <= k
            BY <1>2
        <3>3. /\ SubSeq(b, 2, k) \in Seq(Nat) /\ Len(SubSeq(b, 2, k)) = k - 2 + 1
              /\ \A i \in 1..(k - 2 + 1) : SubSeq(b, 2, k)[i] = b[2 + i - 1]
            BY <3>1, <3>2, SubSeqProperties
        <3> QED
            BY <1>2, <2>1, <3>3
    <2>3. \A i \in 1..(k - 1) : s[i] = m[i]
        BY <1>2, <1>3, <2>2
    <2> QED
        BY <1>2, <2>1, <2>2, <2>3, SameSeq
<1>6. DecodeMBI(b, k) = ValueOf(SubSeq(b, 2, k))
    BY DEF DecodeMBI, ValueOf
<1> QED
    BY <1>1, <1>2, <1>4, <1>5, <1>6

\* A packet is found whatever follows it,
LEMMA PacketFound ==
    ASSUME NEW first \in Nat, NEW body \in Seq(Nat), Len(body) < Multiplier[5],
           NEW r \in Seq(Nat), Absent \notin Nat
    PROVE  PacketEnd(Frame(first, body) \o r) = Len(Frame(first, body))
<1>1. PICK e, k, b : e = Frame(first, body) /\ k = HeaderLength(body) /\ b = e \o r
    OBVIOUS
<1>2. e \in Seq(Nat) /\ k \in 2..5 /\ Len(e) = k + Len(body)
    BY <1>1, FrameParts, Zenon
<1>3. b \in Seq(Nat) /\ Len(b) = Len(e) + Len(r) /\ \A i \in 1..Len(e) : b[i] = e[i]
    <2>1. /\ e \o r \in Seq(Nat) /\ Len(e \o r) = Len(e) + Len(r)
          /\ \A i \in 1..Len(e) : (e \o r)[i] = e[i]
        <3>1. e \in Seq(Nat)
            BY <1>2
        <3> QED
            BY <3>1, ConcatOf
    <2> QED
        BY <1>1, <2>1, Zenon
<1>4. Len(b) >= k /\ \A i \in 1..k : b[i] = e[i]
    <2>1. Len(body) \in Nat /\ Len(r) \in Nat
        OBVIOUS
    <2> QED
        BY <1>2, <1>3, <2>1
<1>5. LengthEnd(b) = k /\ DecodeMBI(b, k) = Len(body)
    BY <1>1, <1>3, <1>4, Header, Zenon
<1>6. k # Absent
    BY <1>2
<1>7. Complete(Len(e), b)
    <2>1. Len(e) \in Nat /\ Len(r) \in Nat
        BY <1>2
    <2> QED
        BY <1>3, <2>1 DEF Complete
<1> QED
    BY <1>1, <1>2, <1>5, <1>6, <1>7 DEF PacketEnd

\* and not before its last byte has arrived.
LEMMA PacketIncomplete ==
    ASSUME NEW first \in Nat, NEW body \in Seq(Nat), Len(body) < Multiplier[5],
           NEW b \in Seq(Nat), NEW w \in Seq(Nat), Absent \notin Nat,
           Len(b) < Len(Frame(first, body)),
           NEW more \in Seq(Nat), b \o w = Frame(first, body) \o more
    PROVE  PacketEnd(b) = Absent
<1>1. PICK e, k, m : /\ e = Frame(first, body) /\ k = HeaderLength(body)
                     /\ m = EncodeMBI(Len(body))
    OBVIOUS
<1>2. /\ e \in Seq(Nat) /\ k \in 2..5 /\ Len(e) = k + Len(body)
      /\ e[k] < 128 /\ \A j \in 2..(k - 1) : e[j] >= 128
    BY <1>1, FrameParts, Zenon
<1>3. Len(b) \in Nat /\ Len(b) < Len(e) /\ \A i \in 1..Len(b) : b[i] = e[i]
    <2>1. Len(b) \in Nat /\ Len(b) < Len(e)
        BY <1>1
    <2>2. \A i \in 1..Len(b) : (b \o w)[i] = b[i]
        BY ConcatOf
    <2>3. \A i \in 1..Len(e) : (e \o more)[i] = e[i]
        BY <1>2, ConcatOf
    <2> QED
        BY <1>1, <1>2, <2>1, <2>2, <2>3
<1>4. CASE Len(b) < k
    <2>1. ASSUME NEW j \in 2..Len(b) PROVE b[j] >= 128
        <3>1. j \in 1..Len(b) /\ j \in 2..(k - 1)
            BY <1>2, <1>3, <1>4
        <3>2. b[j] = e[j] /\ e[j] >= 128
            BY <1>2, <1>3, <3>1
        <3> QED
            BY <3>2
    <2>2. LengthEnd(b) = Absent
        BY <2>1, LengthEndNone
    <2> QED
        BY <2>2 DEF PacketEnd
<1>5. CASE Len(b) >= k
    <2>1. \A i \in 1..k : b[i] = e[i]
        BY <1>2, <1>3, <1>5
    <2>2. LengthEnd(b) = k /\ DecodeMBI(b, k) = Len(body)
        BY <1>1, <1>5, <2>1, Header, Zenon
    <2>3. ~Complete(k + Len(body), b)
        BY <1>2, <1>3 DEF Complete
    <2> QED
        BY <2>2, <2>3 DEF PacketEnd
<1> QED
    BY <1>2, <1>3, <1>4, <1>5

-----------------------------------------------------------------------------
(* The parts of a packet.                                                  *)

\* A buffer as long as what is put into it.
LEMMA FitSame ==
    ASSUME NEW b \in Seq(Nat)
    PROVE  Fit(b, Len(b)) = b
<1>1. PICK f : f = Fit(b, Len(b))
    OBVIOUS
<1>2. Len(b) \in Nat
    OBVIOUS
<1>3. f = [i \in 1..Len(b) |-> IF i <= Len(b) THEN b[i] ELSE 0]
    BY <1>1 DEF Fit
<1>4. \A i \in 1..Len(b) : f[i] = b[i] /\ f[i] \in Nat
    BY <1>2, <1>3
<1>5. f \in Seq(Nat) /\ Len(f) = Len(b)
    BY <1>2, <1>3, <1>4
<1>6. f = b
    BY <1>4, <1>5, SameSeq
<1> QED
    BY <1>1, <1>6

\* Seen from one place in them, bytes a b at the end of bytes a.
LEMMA Behind ==
    ASSUME NEW a \in Seq(Nat), NEW b \in Seq(Nat), NEW i \in 1..Len(b)
    PROVE  (a \o b)[Len(a) + i] = b[i]
BY ConcatOf

\* A number of 16 bits is its two bytes,
LEMMA Uint16 ==
    ASSUME NEW n \in Unit
    PROVE  /\ WriteUint16(n) \in Seq(Nat) /\ Len(WriteUint16(n)) = 2
           /\ 256 * WriteUint16(n)[1] + WriteUint16(n)[2] = n
<1>1. n \in Nat /\ n <= 65535
    BY UnitRange, SMT
<1>2. PICK x, y : x = (n \div 256) % 256 /\ y = n % 256
    OBVIOUS
<1>3. x \in Nat /\ y \in Nat /\ 256 * x + y = n
    BY <1>1, <1>2, SMT
<1>4. WriteUint16(n) = <<x, y>>
    BY <1>2 DEF WriteUint16
<1>5. PICK w : w = <<x, y>>
    OBVIOUS
<1>6. w \in Seq(Nat) /\ Len(w) = 2 /\ w[1] = x /\ w[2] = y
    BY <1>3, <1>5
<1> QED
    BY <1>3, <1>4, <1>5, <1>6, Zenon

\* and is read where it was written.
LEMMA Uint16Read ==
    ASSUME NEW n \in Unit, NEW a \in Seq(Nat), NEW r \in Seq(Nat)
    PROVE  ReadUint16((a \o WriteUint16(n)) \o r, Len(a) + 1) = n
<1>1. PICK w : w = WriteUint16(n)
    OBVIOUS
<1>2. w \in Seq(Nat) /\ Len(w) = 2 /\ 256 * w[1] + w[2] = n
    BY <1>1, Uint16, Zenon
<1>3. PICK aw : aw = a \o w
    OBVIOUS
<1>4. /\ aw \in Seq(Nat) /\ Len(aw) = Len(a) + 2 /\ Len(a) \in Nat
      /\ aw[Len(a) + 1] = w[1] /\ aw[Len(a) + 2] = w[2]
    <2>1. aw \in Seq(Nat) /\ Len(aw) = Len(a) + 2 /\ Len(a) \in Nat
        <3>1. a \o w \in Seq(Nat) /\ Len(a \o w) = Len(a) + Len(w)
            <4>1. w \in Seq(Nat)
                BY <1>2
            <4> QED
                BY <4>1, ConcatOf
        <3> QED
            BY <1>2, <1>3, <3>1
    <2>2. 1 \in 1..Len(w) /\ 2 \in 1..Len(w)
        BY <1>2
    <2> QED
        BY <1>2, <1>3, <2>1, <2>2, Behind
<1>5. PICK b : b = aw \o r
    OBVIOUS
<1>6. b[Len(a) + 1] = w[1] /\ b[Len(a) + 2] = w[2]
    <2>1. Len(a) + 1 \in 1..Len(aw) /\ Len(a) + 2 \in 1..Len(aw)
        BY <1>4
    <2>2. \A i \in 1..Len(aw) : b[i] = aw[i]
        BY <1>4, <1>5, ConcatOf
    <2> QED
        BY <1>4, <2>1, <2>2
<1>7. (Len(a) + 1) + 1 = Len(a) + 2
    BY <1>4
<1>8. ReadUint16(b, Len(a) + 1) = n
    BY <1>2, <1>6, <1>7 DEF ReadUint16
<1> QED
    BY <1>1, <1>3, <1>5, <1>8, Zenon

\* A field: its length, and so many bytes.
Field(u) == WriteUint16(Len(u)) \o u

LEMMA FieldLengthIs ==
    ASSUME NEW u \in Seq(Nat), Len(u) \in Unit
    PROVE  Field(u) \in Seq(Nat) /\ Len(Field(u)) = 2 + Len(u)
<1>1. PICK w : w = WriteUint16(Len(u)) /\ w \in Seq(Nat) /\ Len(w) = 2
    BY Uint16, Zenon
<1>2. w \o u \in Seq(Nat) /\ Len(w \o u) = Len(w) + Len(u)
    BY <1>1, ConcatOf
<1> QED
    BY <1>1, <1>2 DEF Field

\* A field is read back from the front of what follows it.
LEMMA FieldRead ==
    ASSUME NEW u \in Seq(Nat), Len(u) \in Unit, NEW r \in Seq(Nat)
    PROVE  /\ FieldEnd(Field(u) \o r) = 2 + Len(u)
           /\ SubSeq(Field(u) \o r, 3, 2 + Len(u)) = u
           /\ Drop(Field(u) \o r, 2 + Len(u)) = r
<1>1. PICK w : w = WriteUint16(Len(u)) /\ w \in Seq(Nat) /\ Len(w) = 2
    BY Uint16, Zenon
<1>2. PICK f : f = Field(u)
    OBVIOUS
<1>3. f \in Seq(Nat) /\ Len(f) = 2 + Len(u) /\ f = w \o u /\ Len(u) \in Nat
    <2>1. f \in Seq(Nat) /\ Len(f) = 2 + Len(u)
        BY <1>2, FieldLengthIs, Zenon
    <2> QED
        BY <1>1, <1>2, <2>1 DEF Field
<1>4. PICK b : b = f \o r
    OBVIOUS
<1>5. FieldEnd(b) = 2 + Len(u)
    <2>1. PICK ur : ur = u \o r
        OBVIOUS
    <2>2. ur \in Seq(Nat)
        BY <2>1, ConcatOf
    <2>3. <<>> \in Seq(Nat) /\ Len(<<>>) = 0
        OBVIOUS
    <2>4. ReadUint16((<<>> \o w) \o ur, 0 + 1) = Len(u)
        BY <1>1, <2>2, <2>3, Uint16Read, Zenon
    <2>5. <<>> \o w = w /\ (w \o u) \o r = w \o (u \o r)
        BY <1>1, ConcatRules
    <2>6. b = w \o ur
        BY <1>3, <1>4, <2>1, <2>5, Zenon
    <2>7. 0 + 1 = 1
        OBVIOUS
    <2>8. ReadUint16(b, 1) = Len(u)
        BY <2>4, <2>5, <2>6, <2>7, Zenon
    <2> QED
        BY <2>8 DEF FieldEnd
<1>6. Drop(b, 2 + Len(u)) = r
    <2>1. Drop(f \o r, Len(f)) = r
        BY <1>3, DropConcat
    <2> QED
        BY <1>3, <1>4, <2>1, Zenon
<1>7. SubSeq(b, 3, 2 + Len(u)) = u
    <2>1. b \in Seq(Nat) /\ Len(b) = (2 + Len(u)) + Len(r) /\ Len(r) \in Nat
        <3>1. f \o r \in Seq(Nat) /\ Len(f \o r) = Len(f) + Len(r)
            <4>1. f \in Seq(Nat)
                BY <1>3
            <4> QED
                BY <4>1, ConcatOf
        <3> QED
            BY <1>3, <1>4, <3>1
    <2>2. \A i \in 1..Len(u) : b[2 + i] = u[i]
        <3> SUFFICES ASSUME NEW i \in 1..Len(u) PROVE b[2 + i] = u[i]
            OBVIOUS
        <3>1. 2 + i \in 1..Len(f)
            BY <1>3
        <3>2. b[2 + i] = f[2 + i]
            BY <1>3, <1>4, <3>1, ConcatOf
        <3>3. f[2 + i] = u[i]
            BY <1>1, <1>3, Behind
        <3> QED
            BY <3>2, <3>3
    <2>3. PICK n \in Nat : n = 2 + Len(u)
        BY <1>3
    <2>4. PICK t : t = SubSeq(b, 3, n)
        OBVIOUS
    <2>5. /\ t \in Seq(Nat) /\ Len(t) = Len(u) /\ \A i \in 1..Len(t) : t[i] = b[2 + i]
        <3>1. 3 \in 1..(Len(b) + 1) /\ n \in (3 - 1)..Len(b)
            BY <1>3, <2>1, <2>3
        <3>2. /\ SubSeq(b, 3, n) \in Seq(Nat) /\ Len(SubSeq(b, 3, n)) = (n - 3) + 1
              /\ \A i \in 1..((n - 3) + 1) : SubSeq(b, 3, n)[i] = b[(3 + i) - 1]
            BY <2>1, <3>1, SubSeqProperties
        <3>3. (n - 3) + 1 = Len(u) /\ \A i \in 1..Len(u) : (3 + i) - 1 = 2 + i
            BY <1>3, <2>3
        <3> QED
            BY <2>4, <3>2, <3>3
    <2>6. t = u
        BY <2>2, <2>5, SameSeq
    <2> QED
        BY <2>3, <2>4, <2>6
<1> QED
    BY <1>2, <1>4, <1>5, <1>6, <1>7, Zenon

\* A string is written as the field of its bytes.
LEMMA StringField ==
    ASSUME NEW s \in Text, UTF8Length(s) \in Unit
    PROVE  /\ StringToUTF8(s) \in Seq(Nat) /\ Len(StringToUTF8(s)) = UTF8Length(s)
           /\ WriteString(s) = Field(StringToUTF8(s))
<1>1. PICK u : u = StringToUTF8(s)
    OBVIOUS
<1>2. u \in Seq(Nat) /\ UTF8Length(s) = Len(u)
    BY <1>1, StringsReadBack
<1>3. Fit(u, Len(u)) = u
    BY <1>2, FitSame
<1>4. WriteString(s) = Field(u)
    BY <1>1, <1>2, <1>3 DEF WriteString, Field
<1> QED
    BY <1>1, <1>2, <1>4
-----------------------------------------------------------------------------
(* Packets in a stream.                                                    *)

LEMMA PacketEndPositive ==
    ASSUME NEW b \in Seq(Nat), PacketEnd(b) # Absent
    PROVE  PacketEnd(b) \in Nat /\ PacketEnd(b) > 0
<1>1. PICK k : k = LengthEnd(b)
    OBVIOUS
<1>2. k # Absent
    BY <1>1 DEF PacketEnd
<1>3. k \in 2..Len(b)
    <2> DEFINE last(i) == b[i] < 128 /\ \A j \in 2..(i - 1) : b[j] >= 128
    <2>1. LengthEnd(b) = IF \E i \in 2..Len(b) : last(i)
                         THEN CHOOSE i \in 2..Len(b) : last(i) ELSE Absent
        BY DEF LengthEnd
    <2> HIDE DEF last
    <2>2. \E i \in 2..Len(b) : last(i)
        BY <1>1, <1>2, <2>1
    <2> QED
        BY <1>1, <2>1, <2>2
<1>4. PICK n : n = DecodeMBI(b, k)
    OBVIOUS
<1>5. n \in Nat
    <2>1. \A i \in 2..k : b[i] \in Nat
        BY <1>3
    <2>2. SubSeq(b, 2, k) \in Seq(Nat)
        <3>1. 2 \in Int /\ k \in Int
            BY <1>3
        <3> QED
            BY <2>1, <3>1, SubSeqProperties
    <2>3. n = ValueOf(SubSeq(b, 2, k))
        BY <1>4 DEF DecodeMBI, ValueOf
    <2> QED
        BY <2>2, <2>3, ValueEquation
<1>6. PacketEnd(b) = k + n
    BY <1>1, <1>2, <1>4 DEF PacketEnd
<1> QED
    BY <1>3, <1>5, <1>6

\* What any bytes at all can be decoded as.
Decoded == {Decode(SubSeq(b, 1, PacketEnd(b))) : b \in Seq(Nat)}

Deframing ==
    CHOOSE deframed : deframed = [b \in Seq(Nat) |->
        IF b = <<>> \/ PacketEnd(b) = Absent THEN [messages |-> <<>>, rest |-> b]
            ELSE [deframed[Drop(b, PacketEnd(b))] EXCEPT !.messages
                = <<Decode(SubSeq(b, 1, PacketEnd(b)))>> \o @]]

\* Deframe, from its first packet.
LEMMA DeframeEquation ==
    ASSUME NEW bytes \in Seq(Nat)
    PROVE  /\ Deframe(bytes) \in [messages : Seq(Decoded), rest : Seq(Nat)]
           /\ bytes = <<>> \/ PacketEnd(bytes) = Absent =>
                  Deframe(bytes) = [messages |-> <<>>, rest |-> bytes]
           /\ ~(bytes = <<>> \/ PacketEnd(bytes) = Absent) =>
                  Deframe(bytes) = [Deframe(Drop(bytes, PacketEnd(bytes))) EXCEPT !.messages
                      = <<Decode(SubSeq(bytes, 1, PacketEnd(bytes)))>> \o @]
<1>1. \A s : Deframe(s) = Deframing[s]
    BY DEF Deframe, Deframing
<1>2. PICK B, D, V : B = Nat /\ D = Seq(Nat) /\ V = [messages : Seq(Decoded), rest : Seq(Nat)]
    OBVIOUS
<1>3. PICK stop, base, next : /\ stop = {d \in D : d = <<>> \/ PacketEnd(d) = Absent}
                              /\ base = [d \in D |-> [messages |-> <<>>, rest |-> d]]
                              /\ next = [d \in D |-> IF d = <<>> \/ PacketEnd(d) = Absent
                                     THEN d ELSE Drop(d, PacketEnd(d))]
    OBVIOUS
<1>4. PICK G : G = [p \in D \X V |-> IF p[1] \in stop
          THEN base[p[1]] ELSE [p[2] EXCEPT !.messages
              = <<Decode(SubSeq(p[1], 1, PacketEnd(p[1])))>> \o @]]
    OBVIOUS
<1>5. /\ D \subseteq Seq(B) /\ base \in [D -> V] /\ next \in [D -> D]
      /\ \A d \in D : ~(d = <<>> \/ PacketEnd(d) = Absent) =>
             Len(next[d]) < Len(d) /\ next[d] = Drop(d, PacketEnd(d))
    <2>1. D \subseteq Seq(B) /\ \A d \in D : [messages |-> <<>>, rest |-> d] \in V
        BY <1>2
    <2>2. ASSUME NEW d \in D, ~(d = <<>> \/ PacketEnd(d) = Absent)
          PROVE  Drop(d, PacketEnd(d)) \in D /\ Len(Drop(d, PacketEnd(d))) < Len(d)
        <3>1. PacketEnd(d) \in Nat /\ PacketEnd(d) > 0 /\ d \in Seq(Nat) /\ d # <<>>
            BY <1>2, <2>2, PacketEndPositive
        <3> QED
            BY <1>2, <3>1, Shorter
    <2> QED
        BY <1>3, <2>1, <2>2
<1>6. /\ G \in [D \X V -> V]
      /\ \A d \in D, v \in V : ~(d = <<>> \/ PacketEnd(d) = Absent) =>
             G[<<d, v>>] = [v EXCEPT !.messages = <<Decode(SubSeq(d, 1, PacketEnd(d)))>> \o @]
    <2>1. ASSUME NEW d \in D, NEW v \in V, ~(d = <<>> \/ PacketEnd(d) = Absent)
          PROVE [v EXCEPT !.messages = <<Decode(SubSeq(d, 1, PacketEnd(d)))>> \o @] \in V
        <3>1. d \in Seq(Nat)
            BY <1>2
        <3>2. PICK x \in Decoded : x = Decode(SubSeq(d, 1, PacketEnd(d)))
            BY <3>1 DEF Decoded
        <3>3. v.messages \in Seq(Decoded) /\ <<x>> \in Seq(Decoded)
            BY <1>2, <3>2
        <3>4. <<x>> \o v.messages \in Seq(Decoded)
            BY <3>3, ConcatOf
        <3> QED
            BY <1>2, <3>2, <3>4
    <2>2. \A d \in D : base[d] \in V
        BY <1>5
    <2> QED
        BY <1>3, <1>4, <2>1, <2>2
<1>7. PICK f : Solves(f, D, V, stop, base, next, G)
    <2>1. Shrinks(B, D, V, stop, base, next, G)
        BY <1>3, <1>5, <1>6 DEF Shrinks
    <2> QED
        BY <2>1, SeqRecursion
<1>8. /\ f \in [D -> V]
      /\ \A d \in D : f[d] = IF d = <<>> \/ PacketEnd(d) = Absent
             THEN [messages |-> <<>>, rest |-> d]
                 ELSE [f[Drop(d, PacketEnd(d))] EXCEPT !.messages
                     = <<Decode(SubSeq(d, 1, PacketEnd(d)))>> \o @]
    <2>1. f \in [D -> V]
        BY <1>7 DEF Solves
    <2>2. ASSUME NEW d \in D PROVE f[d] = IF d = <<>> \/ PacketEnd(d) = Absent
              THEN [messages |-> <<>>, rest |-> d]
                  ELSE [f[Drop(d, PacketEnd(d))] EXCEPT !.messages
                      = <<Decode(SubSeq(d, 1, PacketEnd(d)))>> \o @]
        <3>1. f[d] = IF d \in stop THEN base[d] ELSE G[<<d, f[next[d]]>>]
            BY <1>7 DEF Solves
        <3>2. d \in stop <=> d = <<>> \/ PacketEnd(d) = Absent
            BY <1>3
        <3>3. base[d] = [messages |-> <<>>, rest |-> d] /\ next[d] \in D /\ f[next[d]] \in V
            BY <1>3, <1>5, <2>1
        <3>4. ~(d = <<>> \/ PacketEnd(d) = Absent) => next[d] = Drop(d, PacketEnd(d))
            BY <1>5
        <3>5. ~(d = <<>> \/ PacketEnd(d) = Absent) =>
                  f[d] = [f[Drop(d, PacketEnd(d))] EXCEPT !.messages
                      = <<Decode(SubSeq(d, 1, PacketEnd(d)))>> \o @]
            BY <1>6, <3>1, <3>2, <3>3, <3>4
        <3> QED
            BY <3>1, <3>2, <3>3, <3>5
    <2> QED
        BY <2>1, <2>2
<1>9. f = [b \in Seq(Nat) |->
              IF b = <<>> \/ PacketEnd(b) = Absent
                  THEN [messages |-> <<>>, rest |-> b]
                      ELSE [f[Drop(b, PacketEnd(b))] EXCEPT !.messages
                          = <<Decode(SubSeq(b, 1, PacketEnd(b)))>> \o @]]
    BY <1>2, <1>8
<1>10. Deframing = [b \in Seq(Nat) |->
           IF b = <<>> \/ PacketEnd(b) = Absent
               THEN [messages |-> <<>>, rest |-> b]
                   ELSE [Deframing[Drop(b, PacketEnd(b))] EXCEPT !.messages
                       = <<Decode(SubSeq(b, 1, PacketEnd(b)))>> \o @]]
    BY <1>9 DEF Deframing
<1>11. \A d \in D : Deframing[d] = IF d = <<>> \/ PacketEnd(d) = Absent
           THEN [messages |-> <<>>, rest |-> d]
               ELSE [Deframing[Drop(d, PacketEnd(d))] EXCEPT !.messages
                   = <<Decode(SubSeq(d, 1, PacketEnd(d)))>> \o @]
    BY <1>2, <1>10
<1>12. PICK S : S = {d \in D : Deframing[d] = f[d]}
    OBVIOUS
<1>13. ASSUME NEW d \in D, \A e \in D : Len(e) < Len(d) => e \in S PROVE d \in S
    <2>1. ~(d = <<>> \/ PacketEnd(d) = Absent) =>
              Deframing[Drop(d, PacketEnd(d))] = f[Drop(d, PacketEnd(d))]
        <3>1. ~(d = <<>> \/ PacketEnd(d) = Absent) =>
                  Drop(d, PacketEnd(d)) \in D /\ Len(Drop(d, PacketEnd(d))) < Len(d)
            BY <1>5
        <3> QED
            BY <1>12, <1>13, <3>1
    <2>2. Deframing[d] = f[d]
        BY <1>8, <1>11, <2>1
    <2> QED
        BY <1>12, <2>2
<1>14. \A d \in D : Deframing[d] = f[d]
    BY <1>5, <1>12, <1>13, ByLen
<1>15. Deframing[bytes] \in V
    BY <1>2, <1>8, <1>14
<1> QED
    BY <1>1, <1>2, <1>11, <1>15

\* A packet at the front is decoded first,
LEMMA DeframeFirst ==
    ASSUME NEW first \in Nat, NEW body \in Seq(Nat), Len(body) < Multiplier[5],
           NEW r \in Seq(Nat), Absent \notin Nat
    PROVE  /\ Deframe(Frame(first, body) \o r).messages =
                  <<Decode(Frame(first, body))>> \o Deframe(r).messages
           /\ Deframe(Frame(first, body) \o r).rest = Deframe(r).rest
<1>1. PICK e, b : e = Frame(first, body) /\ b = e \o r
    OBVIOUS
<1>2. e \in Seq(Nat) /\ Len(e) > 0
    <2>1. e \in Seq(Nat) /\ HeaderLength(body) \in 2..5 /\ Len(e) = HeaderLength(body) + Len(body)
        BY <1>1, FrameParts, Zenon
    <2> QED
        BY <2>1
<1>3. b \in Seq(Nat) /\ b # <<>>
    <2>1. b \in Seq(Nat) /\ Len(b) = Len(e) + Len(r)
        BY <1>1, <1>2, ConcatOf
    <2>2. Len(b) > 0
        BY <1>2, <2>1
    <2> QED
        BY <2>1, <2>2
<1>4. PacketEnd(b) = Len(e) /\ PacketEnd(b) # Absent
    <2>1. PacketEnd(b) = Len(e)
        BY <1>1, PacketFound
    <2> QED
        BY <1>2, <2>1
<1>5. Drop(b, PacketEnd(b)) = r /\ SubSeq(b, 1, PacketEnd(b)) = e
    BY <1>1, <1>2, <1>4, DropConcat
<1>6. Deframe(b) = [Deframe(Drop(b, PacketEnd(b))) EXCEPT
                       !.messages = <<Decode(SubSeq(b, 1, PacketEnd(b)))>> \o @]
    BY <1>3, <1>4, DeframeEquation
<1>7. PICK d : d = Deframe(r)
    OBVIOUS
<1>8. d \in [messages : Seq(Decoded), rest : Seq(Nat)]
    BY <1>7, DeframeEquation
<1>9. Deframe(b) = [d EXCEPT !.messages = <<Decode(e)>> \o @]
    BY <1>5, <1>6, <1>7
<1> QED
    BY <1>1, <1>7, <1>8, <1>9

\* and nothing is without one.
LEMMA DeframeNone ==
    ASSUME NEW b \in Seq(Nat), b = <<>> \/ PacketEnd(b) = Absent
    PROVE  Deframe(b).messages = <<>> /\ Deframe(b).rest = b
<1>1. Deframe(b) = [messages |-> <<>>, rest |-> b]
    BY DeframeEquation
<1> QED
    BY <1>1

-----------------------------------------------------------------------------
(* The bytes of a stream.                                                  *)

Encodable(p) == BrokerEncode(p) \in Seq(Nat)

\* A packet that the client can read back.
Sound(p) ==
    /\ \E first \in Nat, body \in Seq(Nat) :
           Len(body) < Multiplier[5] /\ BrokerEncode(p) = Frame(first, body)
    /\ Decode(BrokerEncode(p)) = p

Encoder(P) == [p \in P |-> BrokerEncode(p)]

\* The bytes of a stream are those of its packets.
LEMMA BytesOfIs ==
    ASSUME NEW P, NEW packets \in Seq(P)
    PROVE  BytesOf(packets) = Join(Encoder(P), packets)
<1>1. \A i \in DOMAIN packets : packets[i] \in P
    OBVIOUS
<1>2. \A i \in DOMAIN packets : Encoder(P)[packets[i]] = BrokerEncode(packets[i])
    BY <1>1 DEF Encoder
<1>3. Map(Encoder(P), packets) = [i \in DOMAIN packets |-> BrokerEncode(packets[i])]
    BY <1>2 DEF Map
<1> QED
    BY <1>3 DEF BytesOf, Join

LEMMA EncoderIs ==
    ASSUME NEW P, \A p \in P : Encodable(p)
    PROVE  Encoder(P) \in [P -> Seq(Nat)] /\ \A p \in P : Encoder(P)[p] = BrokerEncode(p)
BY DEF Encoder, Encodable

LEMMA BytesOfFirst ==
    ASSUME NEW P, \A p \in P : Encodable(p), NEW packets \in Seq(P)
    PROVE  /\ BytesOf(packets) \in Seq(Nat)
           /\ packets = <<>> => BytesOf(packets) = <<>>
           /\ packets # <<>> =>
                 BytesOf(packets) = BrokerEncode(packets[1]) \o BytesOf(Drop(packets, 1))
<1>1. PICK f : f = Encoder(P) /\ f \in [P -> Seq(Nat)] /\ \A p \in P : f[p] = BrokerEncode(p)
    BY EncoderIs
<1>2. BytesOf(packets) = Join(f, packets)
    BY <1>1, BytesOfIs
<1>3. /\ Join(f, packets) \in Seq(Nat)
      /\ packets = <<>> => Join(f, packets) = <<>>
      /\ packets # <<>> => Join(f, packets) = f[packets[1]] \o Join(f, Drop(packets, 1))
    BY <1>1, JoinFirst
<1>4. ASSUME packets # <<>>
      PROVE  f[packets[1]] = BrokerEncode(packets[1])
                 /\ Join(f, Drop(packets, 1)) = BytesOf(Drop(packets, 1))
    <2>1. packets[1] \in P /\ Drop(packets, 1) \in Seq(P)
        BY <1>4, DropOne
    <2> QED
        BY <1>1, <2>1, BytesOfIs
<1> QED
    BY <1>2, <1>3, <1>4

\* The bytes of two streams, one behind the other.
LEMMA BytesOfConcat ==
    ASSUME NEW P, \A p \in P : Encodable(p), NEW packets \in Seq(P), NEW more \in Seq(P)
    PROVE  BytesOf(packets \o more) = BytesOf(packets) \o BytesOf(more)
<1>1. PICK f : f = Encoder(P) /\ f \in [P -> Seq(Nat)]
    BY EncoderIs
<1>2. packets \o more \in Seq(P)
    BY ConcatOf
<1>3. Join(f, packets \o more) = Join(f, packets) \o Join(f, more)
    BY <1>1, JoinBoth
<1> QED
    BY <1>1, <1>2, <1>3, BytesOfIs

LEMMA BytesOfMore ==
    ASSUME NEW P, \A p \in P : Encodable(p), NEW p \in P, NEW s \in Seq(P)
    PROVE  BytesOf(<<p>> \o s) = BrokerEncode(p) \o BytesOf(s)
<1>1. PICK f : f = Encoder(P) /\ f \in [P -> Seq(Nat)] /\ f[p] = BrokerEncode(p)
    BY EncoderIs
<1>2. <<p>> \in Seq(P)
    OBVIOUS
<1>3. <<p>> \o s \in Seq(P)
    BY <1>2, ConcatOf
<1>4. Join(f, <<p>> \o s) = f[p] \o Join(f, s)
    BY <1>1, JoinMore
<1> QED
    BY <1>1, <1>3, <1>4, BytesOfIs

LEMMA TakeMore ==
    ASSUME NEW P, NEW q \in Seq(P), q # <<>>, NEW j \in 0..Len(Drop(q, 1))
    PROVE  SubSeq(q, 1, j + 1) = <<q[1]>> \o SubSeq(Drop(q, 1), 1, j)
<1>1. PICK r : r = Drop(q, 1)
    OBVIOUS
<1>2. /\ r \in Seq(P) /\ Len(r) = Len(q) - 1 /\ q[1] \in P /\ q = <<q[1]>> \o r
    BY <1>1, DropOne
<1>3. \A i \in 1..Len(r) : r[i] = q[i + 1]
    BY <1>1, DropProperties
<1>4. PICK t, u : t = SubSeq(r, 1, j) /\ u = SubSeq(q, 1, j + 1)
    OBVIOUS
<1>5. j \in 0..Len(r) /\ j + 1 \in 0..Len(q)
    BY <1>1, <1>2
<1>6. t \in Seq(P) /\ Len(t) = j /\ \A i \in 1..j : t[i] = r[i]
    BY <1>2, <1>4, <1>5, TakeDrop
<1>7. u \in Seq(P) /\ Len(u) = j + 1 /\ \A i \in 1..(j + 1) : u[i] = q[i]
    BY <1>4, <1>5, TakeDrop
<1>8. PICK v : v = <<q[1]>> \o t
    OBVIOUS
<1>9. /\ v \in Seq(P) /\ Len(v) = j + 1 /\ v[1] = q[1] /\ \A i \in 1..j : v[1 + i] = t[i]
    <2>1. <<q[1]>> \in Seq(P) /\ Len(<<q[1]>>) = 1 /\ <<q[1]>>[1] = q[1]
        BY <1>2
    <2> QED
        BY <1>5, <1>6, <1>8, <2>1, ConcatOf
<1>10. ASSUME NEW i \in 1..(j + 1) PROVE u[i] = v[i]
    <2>1. CASE i = 1
        BY <1>5, <1>7, <1>9, <2>1
    <2>2. CASE i # 1
        <3>1. i - 1 \in 1..j /\ 1 + (i - 1) = i /\ (i - 1) + 1 = i /\ i - 1 \in 1..Len(r)
            BY <1>5, <2>2
        <3>2. v[1 + (i - 1)] = t[i - 1] /\ t[i - 1] = r[i - 1] /\ r[i - 1] = q[(i - 1) + 1]
            BY <1>3, <1>6, <1>9, <3>1
        <3> QED
            BY <1>7, <3>1, <3>2
    <2> QED
        BY <2>1, <2>2
<1>11. u = v
    BY <1>7, <1>9, <1>10, SameSeq
<1> QED
    BY <1>1, <1>4, <1>8, <1>11

\* How many packets of q the bytes b hold, and what remains of the next.
Cuts(b, q, k) ==
    /\ Deframe(b).messages = SubSeq(q, 1, k)
    /\ Deframe(b).rest \in Seq(Nat)
    /\ b = BytesOf(SubSeq(q, 1, k)) \o Deframe(b).rest
    /\ k < Len(q) => Len(Deframe(b).rest) < Len(BrokerEncode(q[k + 1]))

\* Less than a packet is kept.
LEMMA CutsNothing ==
    ASSUME NEW P, \A p \in P : Encodable(p), NEW q \in Seq(P), NEW b \in Seq(Nat),
           b = <<>> \/ PacketEnd(b) = Absent,
           Len(q) > 0 => Len(b) < Len(BrokerEncode(q[1]))
    PROVE  Cuts(b, q, 0)
<1>1. SubSeq(q, 1, 0) = <<>>
    OBVIOUS
<1>2. <<>> \in Seq(P)
    OBVIOUS
<1>3. BytesOf(<<>>) = <<>>
    BY <1>2, BytesOfFirst
<1>4. Deframe(b).messages = <<>> /\ Deframe(b).rest = b
    BY DeframeNone
<1>5. <<>> \o b = b
    BY EmptyRules
<1> QED
    <2>1. PICK x : x = Deframe(b).rest
        OBVIOUS
    <2>2. b = BytesOf(SubSeq(q, 1, 0)) \o x
        BY <1>1, <1>3, <1>4, <1>5, <2>1
    <2>3. x = b /\ x \in Seq(Nat) /\ Deframe(b).messages = SubSeq(q, 1, 0)
        BY <1>1, <1>4, <2>1
    <2>4. 0 < Len(q) => Len(x) < Len(BrokerEncode(q[0 + 1]))
        BY <2>3
    <2> QED
        BY <2>1, <2>2, <2>3, <2>4 DEF Cuts

\* A packet at the front is one more than in the rest.
LEMMA CutsMore ==
    ASSUME NEW P, \A p \in P : Encodable(p) /\ Sound(p), Absent \notin Nat,
           NEW q \in Seq(P), q # <<>>, NEW c \in Seq(Nat),
           NEW j \in 0..Len(Drop(q, 1)), Cuts(c, Drop(q, 1), j)
    PROVE  Cuts(BrokerEncode(q[1]) \o c, q, j + 1)
<1>1. PICK r, e, b : r = Drop(q, 1) /\ e = BrokerEncode(q[1]) /\ b = e \o c
    OBVIOUS
<1>2. r \in Seq(P) /\ Len(r) = Len(q) - 1 /\ q[1] \in P /\ q = <<q[1]>> \o r
    BY <1>1, DropOne
<1>3. e \in Seq(Nat)
    BY <1>1, <1>2 DEF Encodable
<1>4. PICK t : t = SubSeq(r, 1, j)
    OBVIOUS
<1>5. t \in Seq(P) /\ SubSeq(q, 1, j + 1) = <<q[1]>> \o t
    BY <1>1, <1>2, <1>4, TakeDrop, TakeMore
<1>6. PICK x : x = Deframe(c).rest
    OBVIOUS
<1>7. /\ Deframe(c).messages = t /\ x \in Seq(Nat) /\ c = BytesOf(t) \o x
      /\ j < Len(r) => Len(x) < Len(BrokerEncode(r[j + 1]))
    BY <1>1, <1>4, <1>6 DEF Cuts
<1>8. Deframe(b).messages = <<q[1]>> \o t /\ Deframe(b).rest = x
    <2>1. PICK first \in Nat, body \in Seq(Nat) :
              Len(body) < Multiplier[5] /\ e = Frame(first, body)
        BY <1>1, <1>2 DEF Sound
    <2>2. Decode(e) = q[1]
        BY <1>1, <1>2 DEF Sound
    <2>3. /\ Deframe(Frame(first, body) \o c).messages =
                 <<Decode(Frame(first, body))>> \o Deframe(c).messages
          /\ Deframe(Frame(first, body) \o c).rest = Deframe(c).rest
        BY <2>1, DeframeFirst
    <2> QED
        BY <1>1, <1>6, <1>7, <2>1, <2>2, <2>3, Zenon
<1>9. b = BytesOf(<<q[1]>> \o t) \o x
    <2>1. PICK y : y = BytesOf(t)
        OBVIOUS
    <2>2. y \in Seq(Nat)
        BY <1>5, <2>1, BytesOfFirst
    <2>3. (e \o y) \o x = e \o (y \o x)
        BY <1>3, <1>7, <2>2, Associative
    <2>4. BytesOf(<<q[1]>> \o t) = e \o y
        BY <1>1, <1>2, <1>5, <2>1, BytesOfMore
    <2> QED
        BY <1>1, <1>7, <2>1, <2>3, <2>4, Zenon
<1>10. ASSUME j + 1 < Len(q) PROVE Len(x) < Len(BrokerEncode(q[(j + 1) + 1]))
    <2>1. j < Len(r) /\ j + 1 \in 1..Len(r)
        BY <1>1, <1>2, <1>10
    <2>2. r[j + 1] = q[(j + 1) + 1]
        BY <1>1, <2>1, DropProperties
    <2> QED
        BY <1>7, <2>1, <2>2
<1>11. Cuts(b, q, j + 1)
    BY <1>5, <1>7, <1>8, <1>9, <1>10 DEF Cuts
<1> QED
    BY <1>1, <1>11

(* Cut the bytes of any packets where you like: what is deframed are the   *)
(* packets that are there to their last byte, and what is kept is less     *)
(* than the next (_deframeMessages).                                       *)
THEOREM CutAnywhere ==
    ASSUME NEW P, \A p \in P : Encodable(p) /\ Sound(p), Absent \notin Nat
    PROVE  \A q \in Seq(P) : \A b, w \in Seq(Nat) :
               b \o w = BytesOf(q) => \E k \in 0..Len(q) : Cuts(b, q, k)
<1>1. PICK S : S = {q \in Seq(P) : \A b, w \in Seq(Nat) :
                       b \o w = BytesOf(q) => \E k \in 0..Len(q) : Cuts(b, q, k)}
    OBVIOUS
<1>a. \A p \in P : Encodable(p)
    OBVIOUS
<1>2. ASSUME NEW q \in Seq(P), \A r \in Seq(P) : Len(r) < Len(q) => r \in S PROVE q \in S
    <2> SUFFICES ASSUME NEW b \in Seq(Nat), NEW w \in Seq(Nat), b \o w = BytesOf(q)
                 PROVE  \E k \in 0..Len(q) : Cuts(b, q, k)
        BY <1>1
    <2>0. 0 \in 0..Len(q)
        OBVIOUS
    <2>1. CASE q = <<>>
        <3>1. b \o w = <<>>
            BY <1>a, <2>1, BytesOfFirst
        <3>2. Len(b \o w) = Len(b) + Len(w)
            BY ConcatOf
        <3>3. b = <<>>
            BY <3>1, <3>2
        <3>4. Len(q) = 0
            BY <2>1
        <3>5. Len(q) > 0 => Len(b) < Len(BrokerEncode(q[1]))
            BY <3>4
        <3>6. Cuts(b, q, 0)
            BY <1>a, <3>3, <3>5, CutsNothing
        <3> QED
            BY <2>0, <3>6
    <2>2. CASE q # <<>>
        <3>1. PICK r, e, more : r = Drop(q, 1) /\ e = BrokerEncode(q[1]) /\ more = BytesOf(r)
            OBVIOUS
        <3>2. r \in Seq(P) /\ Len(r) = Len(q) - 1 /\ q[1] \in P
            BY <2>2, <3>1, DropOne
        <3>3. e \in Seq(Nat) /\ more \in Seq(Nat)
            BY <1>a, <3>1, <3>2, BytesOfFirst DEF Encodable
        <3>4. b \o w = e \o more
            BY <1>a, <2>2, <3>1, BytesOfFirst
        <3>5. CASE Len(b) < Len(e)
            <4>1. PICK first \in Nat, body \in Seq(Nat) :
                      Len(body) < Multiplier[5] /\ e = Frame(first, body)
                BY <3>1, <3>2 DEF Sound
            <4>2. Len(b) < Len(Frame(first, body)) /\ b \o w = Frame(first, body) \o more
                BY <3>4, <3>5, <4>1, Zenon
            <4>3. PacketEnd(b) = Absent
                BY <3>3, <4>1, <4>2, PacketIncomplete
            <4>4. Cuts(b, q, 0)
                BY <1>a, <3>1, <3>5, <4>3, CutsNothing
            <4> QED
                BY <2>0, <4>4
        <3>6. CASE Len(b) >= Len(e)
            <4>1. PICK n : n = Len(e)
                OBVIOUS
            <4>2. n \in 0..Len(b) /\ n \in Nat
                BY <3>3, <3>6, <4>1
            <4>3. PICK c : c = Drop(b, n)
                OBVIOUS
            <4>4. PICK a : a = SubSeq(b, 1, n)
                OBVIOUS
            <4>5. /\ a \in Seq(Nat) /\ Len(a) = n /\ b = a \o c /\ c \in Seq(Nat)
                  /\ \A i \in 1..n : a[i] = b[i]
                <5>1. /\ a \in Seq(Nat) /\ Len(a) = n /\ b = a \o c
                      /\ \A i \in 1..n : a[i] = b[i]
                    <6>1. /\ SubSeq(b, 1, n) \in Seq(Nat) /\ Len(SubSeq(b, 1, n)) = n
                          /\ \A i \in 1..n : SubSeq(b, 1, n)[i] = b[i]
                        BY <4>2, TakeDrop
                    <6>2. b = SubSeq(b, 1, n) \o Drop(b, n)
                        BY <4>2, TakeDrop
                    <6> QED
                        BY <4>3, <4>4, <6>1, <6>2, Zenon
                <5> QED
                    BY <4>2, <4>3, <5>1, DropProperties
            <4>6. a = e
                <5>1. PICK z : z = b \o w
                    OBVIOUS
                <5>2. \A i \in 1..Len(b) : z[i] = b[i]
                    BY <5>1, ConcatOf
                <5>3. \A i \in 1..Len(e) : z[i] = e[i]
                    BY <3>3, <3>4, <5>1, ConcatOf
                <5>4. ASSUME NEW i \in 1..n PROVE a[i] = e[i]
                    <6>1. i \in 1..Len(b) /\ i \in 1..Len(e)
                        BY <4>1, <4>2
                    <6> QED
                        BY <4>5, <5>2, <5>3, <6>1
                <5> QED
                    BY <3>3, <4>1, <4>5, <5>4, SameSeq
            <4>7. c \o w = more
                <5>1. (e \o c) \o w = e \o (c \o w)
                    <6>1. e \in Seq(Nat) /\ c \in Seq(Nat) /\ w \in Seq(Nat)
                        BY <3>3, <4>5
                    <6> QED
                        BY <6>1, Associative
                <5>2. e \o (c \o w) = e \o more
                    BY <3>4, <4>5, <4>6, <5>1
                <5>3. c \o w \in Seq(Nat)
                    BY <4>5, ConcatOf
                <5> QED
                    BY <3>3, <5>2, <5>3, Cancel
            <4>8. r \in S
                <5>1. Len(r) < Len(q)
                    BY <3>2
                <5> QED
                    BY <1>2, <3>2, <5>1
            <4>9. PICK j \in 0..Len(r) : Cuts(c, r, j)
                BY <1>1, <3>1, <4>5, <4>7, <4>8
            <4>10. Cuts(e \o c, q, j + 1)
                BY <2>2, <3>1, <4>5, <4>9, CutsMore
            <4>11. j + 1 \in 0..Len(q) /\ b = e \o c
                BY <3>2, <4>5, <4>6
            <4> QED
                BY <4>10, <4>11
        <3> QED
            <4>1. Len(b) \in Nat /\ Len(e) \in Nat
                BY <3>3
            <4> QED
                BY <3>5, <3>6, <4>1
    <2> QED
        BY <2>1, <2>2
<1>3. Seq(P) \subseteq Seq(P)
    OBVIOUS
<1>4. \A q \in Seq(P) : q \in S
    BY <1>2, <1>3, ByLen
<1> QED
    BY <1>1, <1>4

-----------------------------------------------------------------------------
(* What the broker sends can be read.                                      *)

\* A frame is opened at its body.
LEMMA Opened ==
    ASSUME NEW first \in Nat, NEW body \in Seq(Nat), Len(body) < Multiplier[5]
    PROVE  /\ Frame(first, body) \in Seq(Nat) /\ Frame(first, body)[1] = first
           /\ LengthEnd(Frame(first, body)) = HeaderLength(body)
           /\ DecodeMBI(Frame(first, body), HeaderLength(body)) = Len(body)
           /\ Drop(Frame(first, body), HeaderLength(body)) = body
<1>1. PICK e, k : e = Frame(first, body) /\ k = HeaderLength(body)
    OBVIOUS
<1>2. /\ e \in Seq(Nat) /\ k \in 2..5 /\ Len(e) = k + Len(body) /\ e[1] = first
      /\ Drop(e, k) = body
    BY <1>1, FrameParts, Zenon
<1>3. Len(e) >= k
    BY <1>2
<1>4. Len(e) >= HeaderLength(body) /\ \A i \in 1..HeaderLength(body) : e[i] = Frame(first, body)[i]
    BY <1>1, <1>3, Zenon
<1>5. LengthEnd(e) = HeaderLength(body) /\ DecodeMBI(e, HeaderLength(body)) = Len(body)
    BY <1>2, <1>4, Header
<1> QED
    BY <1>1, <1>2, <1>5, Zenon

\* Encode frames the body, if it is as long as RemLength reckons.
LEMMA Framed ==
    ASSUME NEW p, Body(p) \in Seq(Nat), Len(Body(p)) = RemLength(p)
    PROVE  Encode(p) = Frame(First(p), Body(p))
<1>1. PICK b : b = Body(p)
    OBVIOUS
<1>2. Fit(b, Len(b)) = b
    BY <1>1, FitSame
<1> QED
    BY <1>1, <1>2 DEF Encode, Frame

\* A packet whose bytes are the frame of a body that is decoded as the packet.
Reads(first, body) ==
    LET type == first \div 16 IN
    CASE type = CONNACK -> [type |-> type, sessionPresent |-> body[1] % 2
        = 1, returnCode |-> body[2]]
      [] type = PUBLISH -> DecodePublish(first % 16, body)
      [] type \in Acks -> [type |-> type, id |-> ReadUint16(body, 1)]
      [] type = SUBACK -> [type |-> type, id |-> ReadUint16(body, 1), returnCode |-> Drop(body, 2)]
      [] OTHER -> [type |-> type]

\* A frame whose body reads as the packet is a sound one.
LEMMA FrameSound ==
    ASSUME NEW p, NEW first \in Nat, NEW body \in Seq(Nat), Len(body) < Multiplier[5],
           BrokerEncode(p) = Frame(first, body), Reads(first, body) = p
    PROVE  Encodable(p) /\ Sound(p)
<1>1. PICK e, k : e = Frame(first, body) /\ k = HeaderLength(body)
    OBVIOUS
<1>2. e \in Seq(Nat) /\ e[1] = first /\ LengthEnd(e) = k /\ Drop(e, k) = body
    BY <1>1, Opened, Zenon
<1>3. Decode(e) = Reads(first, body)
    BY <1>2 DEF Decode, Reads
<1> QED
    BY <1>1, <1>2, <1>3 DEF Encodable, Sound

\* A length below 128 is one byte.
LEMMA EncodeSmall ==
    ASSUME NEW n \in Nat, n < 128
    PROVE  EncodeMBI(n) = <<n>>
<1> DEFINE Fits(k) == (k = 4 \/ n < Multiplier[k + 1]) /\ (k = 1 \/ n >= Multiplier[k])
           size == CHOOSE k \in 1..4 : Fits(k)
           digit(i) == ((n \div Multiplier[i]) % 128) + Bit(n \div Multiplier[i + 1] > 0, 128)
<1>1. EncodeMBI(n) = [i \in 1..size |-> digit(i)]
    BY SMT DEF EncodeMBI
<1>2. Fits(1) /\ ~Fits(2) /\ ~Fits(3) /\ ~Fits(4)
    BY Multipliers, SMT
<1>3. digit(1) = n
    <2>1. n \div 1 = n /\ n % 128 = n /\ n \div 128 = 0
        BY SMT
    <2> QED
        BY <2>1, Multipliers, SMT DEF Bit
<1> HIDE DEF Fits, digit
<1>4. size = 1
    <2>1. \E k \in 1..4 : Fits(k)
        BY <1>2
    <2>2. size \in 1..4 /\ Fits(size)
        BY <2>1
    <2> HIDE DEF size
    <2> QED
        BY <1>2, <2>2
<1> HIDE DEF size
<1> QED
    BY <1>1, <1>3, <1>4

LEMMA MultiplierBound == Multiplier[5] \in Nat /\ Multiplier[5] > 1000
BY SMT DEF Multiplier

LEMMA FourOf ==
    ASSUME NEW a \in Nat, NEW b \in Nat, NEW c \in Nat, NEW d \in Nat
    PROVE  (<<a>> \o <<b>>) \o <<c, d>> = <<a, b, c, d>>
<1>1. PICK s, t, u : s = <<a, b>> /\ t = <<c, d>> /\ u = <<a, b, c, d>>
    OBVIOUS
<1>2. /\ s \in Seq(Nat) /\ Len(s) = 2 /\ s[1] = a /\ s[2] = b
      /\ t \in Seq(Nat) /\ Len(t) = 2 /\ t[1] = c /\ t[2] = d
    BY <1>1
<1>3. u \in Seq(Nat) /\ Len(u) = 4 /\ u[1] = a /\ u[2] = b /\ u[3] = c /\ u[4] = d
    BY <1>1
<1>4. PICK v : v = s \o t
    OBVIOUS
<1>5. v \in Seq(Nat) /\ Len(v) = 4 /\ v[1] = a /\ v[2] = b /\ v[3] = c /\ v[4] = d
    <2>1. s \in Seq(Nat) /\ t \in Seq(Nat)
        BY <1>2
    <2>2. /\ v \in Seq(Nat) /\ Len(v) = Len(s) + Len(t)
          /\ \A i \in 1..Len(s) : v[i] = s[i]
          /\ \A i \in 1..Len(t) : v[Len(s) + i] = t[i]
        BY <1>4, <2>1, ConcatOf
    <2>3. 1 \in 1..Len(s) /\ 2 \in 1..Len(s) /\ 1 \in 1..Len(t) /\ 2 \in 1..Len(t)
        BY <1>2
    <2> QED
        BY <1>2, <2>2, <2>3
<1>6. ASSUME NEW i \in 1..Len(u) PROVE u[i] = v[i]
    <2>1. i \in {1, 2, 3, 4}
        BY <1>3
    <2> QED
        BY <1>3, <1>5, <2>1
<1>7. u = v
    <2>1. Len(u) = Len(v)
        BY <1>3, <1>5
    <2> QED
        BY <1>3, <1>5, <1>6, <2>1, SameSeq
<1> QED
    BY <1>1, <1>4, <1>7, PairOf

\* CONNACK.
LEMMA ConnackSound ==
    ASSUME NEW p \in [type : {CONNACK}, sessionPresent : BOOLEAN, returnCode : Byte]
    PROVE  Encodable(p) /\ Sound(p)
<1>1. PICK x, y : x = Bit(p.sessionPresent, 1) /\ y = p.returnCode
    OBVIOUS
<1>2. p.type = CONNACK /\ p.sessionPresent \in BOOLEAN /\ x \in {0, 1} /\ y \in Nat
    BY <1>1 DEF Bit, Byte
<1>3. PICK body : body = <<x, y>>
    OBVIOUS
<1>4. body \in Seq(Nat) /\ Len(body) = 2 /\ body[1] = x /\ body[2] = y
    BY <1>2, <1>3
<1>5. Len(body) < Multiplier[5]
    BY <1>4, MultiplierBound
<1>6. BrokerEncode(p) = Frame(32, body)
    <2>1. BrokerEncode(p) = <<32, 2, x, y>>
        BY <1>1, <1>2 DEF BrokerEncode, CONNACK, SUBACK
    <2>2. EncodeMBI(Len(body)) = <<2>>
        BY <1>4, EncodeSmall
    <2>3. Frame(32, body) = (<<32>> \o <<2>>) \o <<x, y>>
        BY <1>3, <2>2 DEF Frame
    <2>4. (<<32>> \o <<2>>) \o <<x, y>> = <<32, 2, x, y>>
        BY <1>2, FourOf
    <2> QED
        BY <2>1, <2>3, <2>4
<1>7. Reads(32, body) = p
    <2>1. Reads(32, body) = [type |-> CONNACK, sessionPresent |-> (x % 2 = 1), returnCode |-> y]
        <3>1. 32 \div 16 = CONNACK
            BY DEF CONNACK
        <3>2. Reads(32, body) = [type |-> 32 \div 16, sessionPresent |-> body[1] % 2 = 1,
                                 returnCode |-> body[2]]
            BY <3>1 DEF Reads, CONNACK, PUBLISH, Acks, PUBACK, PUBREC, PUBREL, PUBCOMP, UNSUBACK
                , SUBACK
        <3> QED
            BY <1>4, <3>1, <3>2, Zenon
    <2>2. (x % 2 = 1) = p.sessionPresent
        BY <1>1, <1>2 DEF Bit
    <2>3. p = [type |-> p.type, sessionPresent |-> p.sessionPresent, returnCode |-> p.returnCode]
        OBVIOUS
    <2> QED
        BY <1>1, <1>2, <2>1, <2>2, <2>3
<1> QED
    BY <1>4, <1>5, <1>6, <1>7, FrameSound

\* PINGRESP.
LEMMA PingrespSound ==
    ASSUME NEW p \in [type : {PINGRESP}]
    PROVE  Encodable(p) /\ Sound(p)
<1>1. p.type = 13 /\ p = [type |-> p.type]
    BY DEF PINGRESP
<1>2. HasId(p) = FALSE /\ First(p) = 208
    BY <1>1 DEF HasId, First, Acks, CONNECT, CONNACK, PUBLISH, PUBACK, PUBREC, PUBREL, PUBCOMP,
               SUBSCRIBE, SUBACK, UNSUBSCRIBE, UNSUBACK
<1>3. Body(p) = <<>> /\ RemLength(p) = 0 /\ BrokerEncode(p) = Encode(p)
    BY <1>1, <1>2 DEF Body, Id, RemLength, BrokerEncode, Bit, CONNECT, CONNACK, PUBLISH, SUBSCRIBE,
                      UNSUBSCRIBE, SUBACK
<1>4. PICK body, first : body = <<>> /\ first = 208
    OBVIOUS
<1>a. body \in Seq(Nat) /\ Len(body) = 0 /\ first \in Nat
    BY <1>4
<1>5. BrokerEncode(p) = Frame(first, body)
    <2>1. Body(p) \in Seq(Nat) /\ Len(Body(p)) = RemLength(p) /\ Body(p) = body
        BY <1>3, <1>4, <1>a
    <2>2. Encode(p) = Frame(First(p), Body(p))
        BY <2>1, Framed
    <2> QED
        BY <1>2, <1>3, <1>4, <2>1, <2>2
<1>6. Reads(first, body) = p
    BY <1>1, <1>4 DEF Reads, Acks, CONNACK, PUBLISH, PUBACK, PUBREC, PUBREL, PUBCOMP, UNSUBACK
        , SUBACK
<1>7. Len(body) < Multiplier[5]
    BY <1>a, MultiplierBound
<1> QED
    BY <1>a, <1>5, <1>6, <1>7, FrameSound

\* The number at the head of a body.
LEMMA IdAhead ==
    ASSUME NEW n \in Unit, NEW r \in Seq(Nat)
    PROVE  /\ WriteUint16(n) \o r \in Seq(Nat) /\ Len(WriteUint16(n) \o r) = 2 + Len(r)
           /\ ReadUint16(WriteUint16(n) \o r, 1) = n
           /\ Drop(WriteUint16(n) \o r, 2) = r
<1>1. PICK w : w = WriteUint16(n) /\ w \in Seq(Nat) /\ Len(w) = 2
    BY Uint16, Zenon
<1>2. <<>> \in Seq(Nat) /\ Len(<<>>) = 0 /\ 0 + 1 = 1
    OBVIOUS
<1>3. ReadUint16((<<>> \o w) \o r, 0 + 1) = n
    BY <1>1, <1>2, Uint16Read, Zenon
<1>4. <<>> \o w = w
    BY <1>1, EmptyRules
<1>5. w \o r \in Seq(Nat) /\ Len(w \o r) = Len(w) + Len(r)
    BY <1>1, ConcatOf
<1>6. Drop(w \o r, Len(w)) = r
    BY <1>1, DropConcat
<1> QED
    BY <1>1, <1>2, <1>3, <1>4, <1>5, <1>6

\* The body of an acknowledgement is its identifier.
LEMMA AckParts ==
    ASSUME NEW p \in [type : Acks, id : Unit]
    PROVE  /\ HasId(p) /\ Body(p) = WriteUint16(p.id) /\ RemLength(p) = 2
           /\ First(p) \in Nat /\ First(p) \div 16 = p.type
           /\ BrokerEncode(p) = Encode(p)
<1>1. p.type \in {4, 5, 6, 7, 11}
    BY DEF Acks, PUBACK, PUBREC, PUBREL, PUBCOMP, UNSUBACK
<1>2. HasId(p)
    BY DEF HasId
<1>3. Body(p) = WriteUint16(p.id) /\ BrokerEncode(p) = Encode(p)
    BY <1>1, <1>2 DEF Body, Id, BrokerEncode, CONNECT, CONNACK, PUBLISH, SUBSCRIBE, UNSUBSCRIBE
        , SUBACK
<1>4. RemLength(p) = 2
    BY <1>1, <1>2 DEF RemLength, Bit, CONNECT, PUBLISH, SUBSCRIBE, UNSUBSCRIBE
<1>5. First(p) \in {16 * p.type, 16 * p.type + 2}
    BY <1>1 DEF First, PUBLISH, SUBSCRIBE, UNSUBSCRIBE, PUBREL
<1>6. First(p) \in Nat /\ First(p) \div 16 = p.type
    BY <1>1, <1>5
<1> QED
    BY <1>2, <1>3, <1>4, <1>6

\* PUBACK, PUBREC, PUBREL, PUBCOMP and UNSUBACK.
LEMMA AckSound ==
    ASSUME NEW p \in [type : Acks, id : Unit]
    PROVE  Encodable(p) /\ Sound(p)
<1>1. PICK body, first : body = WriteUint16(p.id) /\ first = First(p)
    OBVIOUS
<1>2. p.id \in Unit /\ p.type \in Acks /\ p = [type |-> p.type, id |-> p.id]
    OBVIOUS
<1>3. body \in Seq(Nat) /\ Len(body) = 2 /\ ReadUint16(body, 1) = p.id
    <2>1. PICK r : r = <<>>
        OBVIOUS
    <2>2. r \in Seq(Nat)
        BY <2>1
    <2>3. ReadUint16(body \o r, 1) = p.id
        BY <1>1, <1>2, <2>2, IdAhead
    <2>4. body \in Seq(Nat) /\ Len(body) = 2
        BY <1>1, <1>2, Uint16, Zenon
    <2>5. body \o r = body
        BY <2>1, <2>4, EmptyRules
    <2> QED
        BY <2>3, <2>4, <2>5
<1>4. first \in Nat /\ first \div 16 = p.type /\ BrokerEncode(p) = Frame(first, body)
    <2>1. /\ Body(p) = body /\ RemLength(p) = 2 /\ first \in Nat /\ first \div 16 = p.type
          /\ BrokerEncode(p) = Encode(p)
        BY <1>1, AckParts
    <2> QED
        BY <1>1, <1>3, <2>1, Framed
<1>5. Reads(first, body) = p
    <2>1. p.type \in {4, 5, 6, 7, 11}
        BY <1>2 DEF Acks, PUBACK, PUBREC, PUBREL, PUBCOMP, UNSUBACK
    <2> QED
        <3>2. Reads(first, body) = [type |-> p.type, id |-> p.id]
            BY <1>2, <1>3, <1>4, <2>1 DEF Reads, CONNACK, PUBLISH, Acks, PUBACK, PUBREC, PUBREL
                , PUBCOMP, UNSUBACK, SUBACK
        <3> QED
            BY <1>2, <3>2
<1>6. Len(body) < Multiplier[5]
    BY <1>3, MultiplierBound
<1> QED
    BY <1>3, <1>4, <1>5, <1>6, FrameSound

LEMMA BytesAreNat == ASSUME NEW b \in Seq(Byte) PROVE b \in Seq(Nat)
<1>1. Byte \subseteq Nat
    BY DEF Byte
<1>2. \A i \in 1..Len(b) : b[i] \in Nat
    <2> SUFFICES ASSUME NEW i \in 1..Len(b) PROVE b[i] \in Nat
        OBVIOUS
    <2>1. b[i] \in Byte
        OBVIOUS
    <2> QED
        BY <1>1, <2>1
<1>3. Len(b) \in Nat /\ b = [i \in 1..Len(b) |-> b[i]]
    OBVIOUS
<1> QED
    BY <1>2, <1>3

\* SUBACK.
LEMMA SubackSound ==
    ASSUME NEW p \in [type : {SUBACK}, id : Unit, returnCode : Seq(Byte)],
           2 + Len(p.returnCode) < Multiplier[5]
    PROVE  Encodable(p) /\ Sound(p)
<1>1. PICK r, w, body : r = p.returnCode /\ w = WriteUint16(p.id) /\ body = w \o r
    OBVIOUS
<1>2. /\ p.id \in Unit /\ p.type = SUBACK /\ r \in Seq(Nat)
      /\ p = [type |-> p.type, id |-> p.id, returnCode |-> r]
    BY <1>1, BytesAreNat
<1>3. w \in Seq(Nat)
    BY <1>1, <1>2, Uint16, Zenon
<1>4. /\ body \in Seq(Nat) /\ Len(body) = 2 + Len(r) /\ ReadUint16(body, 1) = p.id
      /\ Drop(body, 2) = r
    BY <1>1, <1>2, IdAhead, Zenon
<1>5. Len(body) < Multiplier[5]
    BY <1>1, <1>4
<1>6. BrokerEncode(p) = Frame(144, body)
    <2>1. PICK m : m = EncodeMBI(Len(body))
        OBVIOUS
    <2>2. m \in Seq(Nat) /\ Len(body) \in Nat
        <3>1. Len(body) \in Nat
            BY <1>4
        <3> QED
            BY <1>5, <2>1, <3>1, RemainingLength
    <2>3. BrokerEncode(p) = ((<<144>> \o m) \o w) \o r
        BY <1>1, <1>2, <1>4, <2>1 DEF BrokerEncode, CONNACK, SUBACK
    <2>4. PICK h : h = <<144>> \o m /\ h \in Seq(Nat)
        <3>1. <<144>> \in Seq(Nat)
            OBVIOUS
        <3> QED
            BY <2>2, <3>1, ConcatOf
    <2>5. (h \o w) \o r = h \o (w \o r)
        <3>1. h \in Seq(Nat) /\ w \in Seq(Nat) /\ r \in Seq(Nat)
            BY <1>2, <1>3, <2>4
        <3> QED
            BY <3>1, Associative
    <2> QED
        BY <1>1, <2>1, <2>3, <2>4, <2>5 DEF Frame
<1>7. Reads(144, body) = p
    <2>1. Reads(144, body) = [type |-> SUBACK, id |-> p.id, returnCode |-> r]
        BY <1>4 DEF Reads, Acks, CONNACK, PUBLISH, PUBACK, PUBREC, PUBREL, PUBCOMP, UNSUBACK, SUBACK
    <2> QED
        BY <1>2, <2>1
<1> QED
    BY <1>4, <1>5, <1>6, <1>7, FrameSound

Flags(d, q, r, n) == d \in {0, 8} /\ q \in 0..2 /\ r \in {0, 1} /\ n = 48 + (d + 2 * q + r)

\* The flags of a PUBLISH, told apart.
LEMMA FlagArithmetic ==
    ASSUME NEW d, NEW q, NEW r, NEW n, Flags(d, q, r, n)
    PROVE  /\ n \in Nat /\ n \div 16 = 3 /\ ((n % 16) \div 2) % 4 = q
           /\ (n % 16) \div 8 = (IF d = 8 THEN 1 ELSE 0) /\ (n % 16) % 2 = r
<1>1. q \in {0, 1, 2} /\ d \in {0, 8} /\ r \in {0, 1} /\ n = 48 + (d + 2 * q + r)
    BY DEF Flags
<1>2. n \in 48..61 /\ n \div 16 = 3 /\ n % 16 = d + 2 * q + r
    BY <1>1
<1> QED
    BY <1>1, <1>2

\* They are read from the first byte.
LEMMA PublishFirst ==
    ASSUME NEW p, Published(p)
    PROVE  /\ First(p) \in Nat /\ First(p) \div 16 = PUBLISH
           /\ ((First(p) % 16) \div 2) % 4 = p.qos
           /\ ((First(p) % 16) \div 8 = 1) <=> p.duplicate
           /\ ((First(p) % 16) % 2 = 1) <=> p.retained
<1>1. /\ p.type = PUBLISH /\ p.duplicate \in BOOLEAN /\ p.retained \in BOOLEAN /\ p.qos \in 0..2
    BY DEF Published
<1>2. PICK d, q, r, n : /\ d = Bit(p.duplicate, 8) /\ q = p.qos /\ r = Bit(p.retained, 1)
                        /\ n = First(p)
    OBVIOUS
<1>3. d \in {0, 8} /\ r \in {0, 1} /\ (d = 8 <=> p.duplicate) /\ (r = 1 <=> p.retained)
    BY <1>1, <1>2 DEF Bit
<1>4. n = 48 + (d + 2 * q + r)
    <2>1. n = 16 * p.type + (d + 2 * q + r)
        BY <1>1, <1>2 DEF First, PUBLISH, SUBSCRIBE, UNSUBSCRIBE, PUBREL
    <2> QED
        BY <1>1, <1>2, <1>3, <2>1 DEF PUBLISH
<1>5. /\ n \in Nat /\ n \div 16 = 3 /\ ((n % 16) \div 2) % 4 = q
      /\ (n % 16) \div 8 = (IF d = 8 THEN 1 ELSE 0) /\ (n % 16) % 2 = r
    <2>1. Flags(d, q, r, n)
        BY <1>1, <1>2, <1>3, <1>4 DEF Flags
    <2> QED
        BY <2>1, FlagArithmetic
<1> QED
    BY <1>2, <1>3, <1>5 DEF PUBLISH

\* The parts of a PUBLISH: its topic, its identifier and its payload.
PublishParts(p, u, w, b) ==
    /\ u \in Seq(Nat) /\ Len(u) \in Unit /\ ParseUTF8(u) = p.topic
    /\ w = (IF p.qos > 0 THEN WriteUint16(p.id) ELSE <<>>) /\ b = p.payload
    /\ w \in Seq(Nat) /\ b \in Seq(Nat) /\ Len(w) = Bit(HasId(p), 2)
    /\ Body(p) = (Field(u) \o w) \o b
    /\ RemLength(p) = Len(w) + ((Len(u) + 2) + Len(b))

LEMMA PublishHas ==
    ASSUME NEW p, Published(p)
    PROVE  \E u, w, b : PublishParts(p, u, w, b)
<1>1. /\ p.type = 3 /\ p.qos \in 0..2 /\ p.topic \in Utf8String /\ p.payload \in Seq(Byte)
      /\ p.id \in Unit \cup {Absent} /\ (p.qos = 0 <=> p.id = Absent)
    BY DEF Published, PUBLISH
<1>2. PICK u, w, b : /\ u = StringToUTF8(p.topic) /\ b = p.payload
                     /\ w = IF p.qos > 0 THEN WriteUint16(p.id) ELSE <<>>
    OBVIOUS
<1>3. HasId(p) <=> p.qos > 0
    BY <1>1 DEF HasId, Acks, PUBLISH, PUBACK, PUBREC, PUBREL, PUBCOMP, UNSUBACK, SUBSCRIBE, SUBACK,
               UNSUBSCRIBE
<1>4. /\ u \in Seq(Nat) /\ Len(u) = UTF8Length(p.topic) /\ Len(u) \in Unit
      /\ WriteString(p.topic) = Field(u) /\ ParseUTF8(u) = p.topic
    <2>1. p.topic \in Text /\ UTF8Length(p.topic) \in Unit
        BY <1>1 DEF Utf8String
    <2>2. /\ u \in Seq(Nat) /\ Len(u) = UTF8Length(p.topic) /\ WriteString(p.topic) = Field(u)
        BY <1>2, <2>1, StringField, Zenon
    <2>3. ParseUTF8(u) = p.topic
        BY <1>2, <2>1, StringsReadBack, Zenon
    <2> QED
        BY <2>1, <2>2, <2>3
<1>5. w \in Seq(Nat) /\ Len(w) = Bit(HasId(p), 2)
    <2>1. CASE p.qos > 0
        <3>1. p.id \in Unit
            BY <1>1, <2>1
        <3>2. w = WriteUint16(p.id)
            BY <1>2, <2>1
        <3>3. w \in Seq(Nat) /\ Len(w) = 2
            BY <3>1, <3>2, Uint16, Zenon
        <3> QED
            BY <1>3, <2>1, <3>3 DEF Bit
    <2>2. CASE ~(p.qos > 0)
        BY <1>2, <1>3, <2>2 DEF Bit
    <2> QED
        BY <2>1, <2>2
<1>6. b \in Seq(Nat)
    BY <1>1, <1>2, BytesAreNat
<1>7. Body(p) = (Field(u) \o w) \o b
    <2>1. Body(p) = (WriteString(p.topic) \o (IF HasId(p)
              THEN WriteUint16(p.id) ELSE <<>>)) \o p.payload
        <3>1. p.type = 3
            BY <1>1
        <3>2. Body(p) = PublishBody(p)
            BY <3>1 DEF Body, CONNECT, SUBSCRIBE, UNSUBSCRIBE, PUBLISH
        <3> QED
            BY <3>2, Zenon DEF PublishBody, Id
    <2> QED
        BY <1>2, <1>3, <1>4, <2>1
<1>8. RemLength(p) = Len(w) + ((Len(u) + 2) + Len(b))
    <2>1. RemLength(p) = Bit(HasId(p), 2) + (UTF8Length(p.topic) + 2 + Len(p.payload))
        BY <1>1 DEF RemLength, CONNECT, SUBSCRIBE, UNSUBSCRIBE, PUBLISH
    <2> QED
        BY <1>2, <1>4, <1>5, <2>1
<1>9. PublishParts(p, u, w, b)
    BY <1>2, <1>4, <1>5, <1>6, <1>7, <1>8, Zenon DEF PublishParts
<1> QED
    BY <1>9

\* The body of a PUBLISH is as long as reckoned.
LEMMA PublishLaidOut ==
    ASSUME NEW p, NEW u, NEW w, NEW b, PublishParts(p, u, w, b)
    PROVE  /\ Body(p) \in Seq(Nat) /\ Len(Body(p)) = RemLength(p)
           /\ Body(p) = Field(u) \o (w \o b)
           /\ Field(u) \in Seq(Nat) /\ Len(Field(u)) = 2 + Len(u)
<1>1. PICK f, fw, x : f = Field(u) /\ fw = f \o w /\ x = fw \o b
    OBVIOUS
<1>2. /\ u \in Seq(Nat) /\ Len(u) \in Unit /\ w \in Seq(Nat) /\ b \in Seq(Nat)
      /\ Body(p) = x /\ RemLength(p) = Len(w) + ((Len(u) + 2) + Len(b))
    BY <1>1, Zenon DEF PublishParts
<1>3. f \in Seq(Nat) /\ Len(f) = 2 + Len(u)
    BY <1>1, <1>2, FieldLengthIs, Zenon
<1>4. fw \in Seq(Nat) /\ Len(fw) = Len(f) + Len(w)
    BY <1>1, <1>2, <1>3, ConcatOf
<1>5. x \in Seq(Nat) /\ Len(x) = Len(fw) + Len(b)
    BY <1>1, <1>2, <1>4, ConcatOf
<1>6. x = f \o (w \o b)
    BY <1>1, <1>2, <1>3, Associative
<1>7. Len(x) = RemLength(p)
    <2>1. Len(u) \in Nat /\ Len(w) \in Nat /\ Len(b) \in Nat
        BY <1>2
    <2> QED
        BY <1>2, <1>3, <1>4, <1>5, <2>1
<1> QED
    BY <1>1, <1>2, <1>3, <1>5, <1>6, <1>7

\* A PUBLISH is decoded as what was encoded.
LEMMA PublishRead ==
    ASSUME NEW p, Published(p)
    PROVE  DecodePublish(First(p) % 16, Body(p)) = p
<1>1. PICK u, w, b : PublishParts(p, u, w, b)
    BY PublishHas
<1>2. /\ u \in Seq(Nat) /\ Len(u) \in Unit /\ ParseUTF8(u) = p.topic
      /\ w = (IF p.qos > 0 THEN WriteUint16(p.id) ELSE <<>>) /\ b = p.payload
      /\ w \in Seq(Nat) /\ b \in Seq(Nat)
    BY <1>1, Zenon DEF PublishParts
<1>3. PICK x, f, wb, info : x = Body(p) /\ f = Field(u) /\ wb = w \o b /\ info = First(p) % 16
    OBVIOUS
<1>4. x \in Seq(Nat) /\ x = f \o wb /\ f \in Seq(Nat) /\ Len(f) = 2 + Len(u)
    <2>1. Body(p) \in Seq(Nat)
        BY <1>1, PublishLaidOut
    <2>a. /\ Body(p) \in Seq(Nat) /\ Len(Body(p)) = RemLength(p)
          /\ Body(p) = Field(u) \o (w \o b)
          /\ Field(u) \in Seq(Nat) /\ Len(Field(u)) = 2 + Len(u)
        BY <1>1, PublishLaidOut, Zenon
    <2>2. Field(u) \in Seq(Nat) /\ Len(Field(u)) = 2 + Len(u)
        BY <1>1, PublishLaidOut
    <2> QED
        BY <1>3, <2>1, <2>a, <2>2, Zenon
<1>5. wb \in Seq(Nat)
    BY <1>2, <1>3, ConcatOf
<1>6. FieldEnd(x) = 2 + Len(u) /\ SubSeq(x, 3, 2 + Len(u)) = u /\ Drop(x, 2 + Len(u)) = wb
    <2>1. /\ FieldEnd(Field(u) \o wb) = 2 + Len(u)
          /\ SubSeq(Field(u) \o wb, 3, 2 + Len(u)) = u
          /\ Drop(Field(u) \o wb, 2 + Len(u)) = wb
        BY <1>2, <1>5, FieldRead
    <2> QED
        BY <1>3, <1>4, <2>1, Zenon
<1>7. 2 + ReadUint16(x, 1) = 2 + Len(u) /\ Len(u) \in Nat
    BY <1>2, <1>6 DEF FieldEnd
<1>8. /\ (info \div 2) % 4 = p.qos /\ (info \div 8 = 1 <=> p.duplicate)
      /\ (info % 2 = 1 <=> p.retained)
    BY <1>3, PublishFirst
<1>9. /\ p.type = PUBLISH /\ p.duplicate \in BOOLEAN /\ p.retained \in BOOLEAN /\ p.qos \in 0..2
      /\ p.id \in Unit \cup {Absent} /\ (p.qos = 0 <=> p.id = Absent)
      /\ p = [type |-> p.type, duplicate |-> p.duplicate, retained |-> p.retained, qos |-> p.qos,
              topic |-> p.topic, id |-> p.id, payload |-> p.payload]
    BY DEF Published
<1>10. PICK id, rest : /\ id = (IF p.qos > 0 THEN ReadUint16(x, (2 + Len(u)) + 1) ELSE Absent)
                       /\ rest = Drop(x, IF p.qos > 0 THEN (2 + Len(u)) + 2 ELSE 2 + Len(u))
    OBVIOUS
<1>11. DecodePublish(info, x) =
          [type |-> PUBLISH, duplicate |-> info \div 8 = 1, retained |-> info % 2
              = 1, qos |-> p.qos,
           topic |-> p.topic, id |-> id, payload |-> rest]
    BY <1>2, <1>6, <1>7, <1>8, <1>10 DEF DecodePublish
<1>12. id = p.id /\ rest = b
    <2>1. CASE p.qos > 0
        <3>1. w = WriteUint16(p.id) /\ p.id \in Unit
            BY <1>2, <1>9, <2>1
        <3>2. PICK fw : fw = f \o w
            OBVIOUS
        <3>3. fw \in Seq(Nat) /\ Len(fw) = (2 + Len(u)) + 2
            <4>1. Len(w) = 2
                BY <3>1, Uint16, Zenon
            <4>2. fw \in Seq(Nat) /\ Len(fw) = Len(f) + Len(w)
                BY <1>2, <1>4, <3>2, ConcatOf
            <4> QED
                BY <1>4, <4>1, <4>2
        <3>4. x = fw \o b
            <4>1. (f \o w) \o b = f \o (w \o b)
                <5>1. f \in Seq(Nat) /\ w \in Seq(Nat) /\ b \in Seq(Nat)
                    BY <1>2, <1>4
                <5> QED
                    BY <5>1, Associative
            <4> QED
                BY <1>3, <1>4, <3>2, <4>1
        <3>5. ReadUint16(x, Len(f) + 1) = p.id
            <4>1. f \in Seq(Nat) /\ b \in Seq(Nat) /\ p.id \in Unit
                BY <1>2, <1>4, <3>1
            <4>2. ReadUint16((f \o WriteUint16(p.id)) \o b, Len(f) + 1) = p.id
                BY <4>1, Uint16Read
            <4> QED
                BY <3>1, <3>2, <3>4, <4>2, Zenon
        <3>6. Drop(fw \o b, Len(fw)) = b
            BY <1>2, <3>3, DropConcat
        <3> QED
            BY <1>4, <1>10, <2>1, <3>3, <3>4, <3>5, <3>6
    <2>2. CASE ~(p.qos > 0)
        <3>1. p.qos = 0
            BY <1>9, <2>2
        <3>2. w = <<>> /\ p.id = Absent
            BY <1>2, <1>9, <2>2, <3>1
        <3>3. wb = b
            BY <1>2, <1>3, <3>2, EmptyRules
        <3> QED
            BY <1>6, <1>10, <2>2, <3>2, <3>3
    <2> QED
        BY <2>1, <2>2
<1>13. (info \div 8 = 1) = p.duplicate /\ (info % 2 = 1) = p.retained
    BY <1>8, <1>9
<1>14. DecodePublish(info, x) = p
    BY <1>2, <1>9, <1>11, <1>12, <1>13
<1> QED
    BY <1>3, <1>14

\* PUBLISH.
LEMMA PublishSound ==
    ASSUME NEW p, Published(p)
    PROVE  Encodable(p) /\ Sound(p)
<1>1. PICK u, w, b : PublishParts(p, u, w, b)
    BY PublishHas
<1>2. PICK body, first : body = Body(p) /\ first = First(p)
    OBVIOUS
<1>3. body \in Seq(Nat) /\ Len(body) = RemLength(p) /\ first \in Nat /\ first \div 16 = PUBLISH
    <2>1. Body(p) \in Seq(Nat) /\ Len(Body(p)) = RemLength(p)
        BY <1>1, PublishLaidOut
    <2> QED
        BY <1>2, <2>1, PublishFirst
<1>4. Len(body) < Multiplier[5]
    BY <1>3 DEF Published
<1>5. BrokerEncode(p) = Frame(first, body)
    <2>1. Encode(p) = Frame(First(p), Body(p))
        BY <1>2, <1>3, Framed
    <2>2. p.type = PUBLISH
        BY DEF Published
    <2>3. BrokerEncode(p) = Encode(p)
        BY <2>2 DEF BrokerEncode, PUBLISH, CONNACK, SUBACK
    <2> QED
        BY <1>2, <2>1, <2>3
<1>6. Reads(first, body) = p
    <2>1. DecodePublish(first % 16, body) = p
        BY <1>2, PublishRead
    <2>2. Reads(first, body) = DecodePublish(first % 16, body)
        BY <1>3 DEF Reads, CONNACK, PUBLISH, Acks, PUBACK, PUBREC, PUBREL, PUBCOMP, UNSUBACK, SUBACK
    <2> QED
        BY <2>1, <2>2
<1> QED
    BY <1>3, <1>4, <1>5, <1>6, FrameSound

(* Every packet a broker sends is decoded as what was sent                 *)
(* (decodeMessage).                                                        *)
THEOREM BrokerSound ==
    ASSUME NEW p, FromBroker(p)
    PROVE  Encodable(p) /\ Sound(p)
BY ConnackSound, SubackSound, AckSound, PingrespSound, PublishSound DEF FromBroker

-----------------------------------------------------------------------------
(* The invariant: what has been sent and not handled is what the buffer    *)
(* and the wire hold, and the buffer holds less than a packet of it.       *)

Packets == {p \in UNION {Range(s) : s \in Streams} : FromBroker(p)}

Remains(q) ==
    /\ q \in Seq(Packets) /\ sent = handled \o q
    /\ receiveBuffer \o wire = BytesOf(q)
    /\ q # <<>> => Len(receiveBuffer) < Len(BrokerEncode(q[1]))

StreamInv ==
    /\ due \in Seq(Packets) /\ handled \in Seq(Packets)
    /\ receiveBuffer \in Seq(Nat) /\ wire \in Seq(Nat)
    /\ \E q \in Seq(Packets) : Remains(q)

LEMMA PacketsSound == \A p \in Packets : Encodable(p) /\ Sound(p)
BY BrokerSound DEF Packets

\* A packet has bytes.
LEMMA EncodingNotEmpty ==
    ASSUME NEW p \in Packets
    PROVE  BrokerEncode(p) \in Seq(Nat) /\ Len(BrokerEncode(p)) > 0
<1>1. PICK first \in Nat, body \in Seq(Nat) :
          Len(body) < Multiplier[5] /\ BrokerEncode(p) = Frame(first, body)
    BY PacketsSound DEF Sound
<1>2. PICK e, k : e = Frame(first, body) /\ k = HeaderLength(body)
    OBVIOUS
<1>3. e \in Seq(Nat) /\ k \in 2..5 /\ Len(e) = k + Len(body)
    BY <1>1, <1>2, FrameParts, Zenon
<1>4. Len(body) \in Nat
    OBVIOUS
<1>5. Len(e) > 0
    BY <1>3, <1>4
<1> QED
    BY <1>1, <1>2, <1>3, <1>5

LEMMA StreamsPackets == \A s \in Streams : s \in Seq(Packets)
<1> SUFFICES ASSUME NEW s \in Streams PROVE s \in Seq(Packets)
    OBVIOUS
<1>1. s \in Seq(Range(s)) /\ \A p \in Range(s) : FromBroker(p)
    BY StreamsAssumption
<1>2. \A p \in Range(s) : p \in Packets
    BY <1>1 DEF Packets
<1>3. \A i \in 1..Len(s) : s[i] \in Packets
    <2> SUFFICES ASSUME NEW i \in 1..Len(s) PROVE s[i] \in Packets
        OBVIOUS
    <2>1. s[i] \in Range(s)
        BY <1>1
    <2> QED
        BY <1>2, <2>1
<1>4. Len(s) \in Nat /\ s = [i \in 1..Len(s) |-> s[i]]
    BY <1>1
<1> QED
    BY <1>3, <1>4

\* The invariant holds at first.
LEMMA StreamInit == WireInit => StreamInv
<1> SUFFICES ASSUME WireInit PROVE StreamInv
    OBVIOUS
<1> USE DEF WireInit
<1>1. due \in Seq(Packets)
    BY StreamsPackets
<1>2. PICK e : e = <<>>
    OBVIOUS
<1>3. e \in Seq(Packets) /\ e \in Seq(Nat) /\ e \o e = e
    BY <1>2
<1>4. BytesOf(e) = e
    BY <1>2, <1>3, PacketsSound, BytesOfFirst
<1>5. Remains(e)
    BY <1>2, <1>3, <1>4 DEF Remains
<1> QED
    BY <1>1, <1>2, <1>3, <1>5 DEF StreamInv

\* The broker sends one packet more.
LEMMA StreamSend == StreamInv /\ BrokerSend => StreamInv'
<1> SUFFICES ASSUME StreamInv, BrokerSend PROVE StreamInv'
    OBVIOUS
<1>1. PICK q \in Seq(Packets) : Remains(q)
    BY DEF StreamInv
<1>2. PICK p, e, one : p = Head(due) /\ e = BrokerEncode(p) /\ one = <<p>>
    OBVIOUS
<1>3. /\ due # <<>> /\ wire' = wire \o e /\ sent' = Append(sent, p) /\ due' = Tail(due)
      /\ receiveBuffer' = receiveBuffer /\ handled' = handled
    BY <1>2 DEF BrokerSend
<1>4. /\ due \in Seq(Packets) /\ handled \in Seq(Packets)
      /\ receiveBuffer \in Seq(Nat) /\ wire \in Seq(Nat)
    BY DEF StreamInv
<1>5. p \in Packets /\ due' \in Seq(Packets) /\ one \in Seq(Packets)
    BY <1>2, <1>3, <1>4
<1>6. e \in Seq(Nat) /\ Len(e) > 0
    BY <1>2, <1>5, EncodingNotEmpty
<1>7. PICK r : r = q \o one
    OBVIOUS
<1>8. r \in Seq(Packets) /\ sent' = handled \o r
    <2>1. sent = handled \o q /\ sent \in Seq(Packets)
        BY <1>1, <1>4, ConcatOf DEF Remains
    <2>2. Append(sent, p) = sent \o one
        BY <1>2, <1>5, <2>1
    <2>3. (handled \o q) \o one = handled \o (q \o one)
        <3>1. Three(Packets, handled, q, one)
            BY <1>4, <1>5 DEF Three
        <3> QED
            BY <3>1, Regroup
    <2>4. r \in Seq(Packets)
        BY <1>5, <1>7, ConcatOf
    <2> QED
        BY <1>3, <1>7, <2>1, <2>2, <2>3, <2>4
<1>9. receiveBuffer \o (wire \o e) = BytesOf(r) /\ wire \o e \in Seq(Nat)
    <2>1. (receiveBuffer \o wire) \o e = receiveBuffer \o (wire \o e)
        BY <1>4, <1>6, Associative
    <2>2. BytesOf(one) = e
        <3>1. PICK z : z = <<>>
            OBVIOUS
        <3>2. z \in Seq(Packets) /\ one \o z = one
            BY <1>5, <3>1, EmptyRules
        <3>3. BytesOf(one \o z) = e \o BytesOf(z)
            BY <1>2, <1>5, <3>2, PacketsSound, BytesOfMore
        <3>4. BytesOf(z) = <<>>
            BY <3>1, <3>2, PacketsSound, BytesOfFirst
        <3>5. e \o <<>> = e
            BY <1>6, EmptyRules
        <3> QED
            BY <3>2, <3>3, <3>4, <3>5
    <2>3. BytesOf(q \o one) = BytesOf(q) \o BytesOf(one)
        BY <1>5, PacketsSound, BytesOfConcat
    <2>4. receiveBuffer \o wire = BytesOf(q)
        BY <1>1 DEF Remains
    <2>5. wire \o e \in Seq(Nat)
        BY <1>4, <1>6, ConcatOf
    <2> QED
        BY <1>7, <2>1, <2>2, <2>3, <2>4, <2>5
<1>10. Len(receiveBuffer) < Len(BrokerEncode(r[1]))
    <2>1. CASE q = <<>>
        <3>1. r[1] = p
            BY <1>2, <1>7, <2>1
        <3>2. receiveBuffer \o wire = <<>>
            BY <1>1, <2>1, PacketsSound, BytesOfFirst DEF Remains
        <3>3. Len(receiveBuffer \o wire) = Len(receiveBuffer) + Len(wire)
            BY <1>4, ConcatOf
        <3>4. Len(receiveBuffer) = 0
            BY <1>4, <3>2, <3>3
        <3> QED
            BY <1>2, <1>6, <3>1, <3>4
    <2>2. CASE q # <<>>
        <3>1. r[1] = q[1]
            <4>1. 1 \in 1..Len(q)
                BY <2>2
            <4> QED
                BY <1>5, <1>7, <4>1, ConcatOf
        <3> QED
            BY <1>1, <2>2, <3>1 DEF Remains
    <2> QED
        BY <2>1, <2>2
<1>11. Remains(r)'
    BY <1>3, <1>8, <1>9, <1>10 DEF Remains
<1> QED
    BY <1>3, <1>4, <1>5, <1>8, <1>9, <1>11 DEF StreamInv

\* The client takes some bytes off the wire.
LEMMA StreamReceive ==
    ASSUME StreamInv, NEW n, SocketMessage(n)
    PROVE  StreamInv'
<1>1. PICK q \in Seq(Packets) : Remains(q)
    BY DEF StreamInv
<1>2. PICK a, w, b : a = SubSeq(wire, 1, n) /\ w = Drop(wire, n) /\ b = receiveBuffer \o a
    OBVIOUS
<1>3. PICK messages, rest : messages = Deframe(b).messages /\ rest = Deframe(b).rest
    OBVIOUS
<1>4. /\ n \in 1..Len(wire) /\ wire' = w /\ handled' = handled \o messages
      /\ receiveBuffer' = rest /\ due' = due /\ sent' = sent
    BY <1>2, <1>3 DEF SocketMessage
<1>5. /\ due \in Seq(Packets) /\ handled \in Seq(Packets)
      /\ receiveBuffer \in Seq(Nat) /\ wire \in Seq(Nat)
    BY DEF StreamInv
<1>6. a \in Seq(Nat) /\ w \in Seq(Nat) /\ wire = a \o w
    <2>1. n \in 0..Len(wire) /\ n \in Nat
        BY <1>4, <1>5
    <2>2. SubSeq(wire, 1, n) \in Seq(Nat)
        BY <1>5, <2>1, TakeDrop
    <2>3. wire = SubSeq(wire, 1, n) \o Drop(wire, n)
        BY <1>5, <2>1, TakeDrop
    <2>4. Drop(wire, n) \in Seq(Nat)
        BY <1>5, <2>1, DropProperties
    <2> QED
        BY <1>2, <2>2, <2>3, <2>4
<1>7. b \in Seq(Nat) /\ b \o w = BytesOf(q)
    <2>1. b \in Seq(Nat)
        BY <1>2, <1>5, <1>6, ConcatOf
    <2>2. (receiveBuffer \o a) \o w = receiveBuffer \o (a \o w)
        BY <1>5, <1>6, Associative
    <2>3. receiveBuffer \o wire = BytesOf(q)
        BY <1>1 DEF Remains
    <2> QED
        BY <1>2, <1>6, <2>1, <2>2, <2>3
<1>8. PICK k \in 0..Len(q) : Cuts(b, q, k)
    BY <1>6, <1>7, PacketsSound, OptionAssumption, CutAnywhere
<1>9. PICK t, r : t = SubSeq(q, 1, k) /\ r = Drop(q, k)
    OBVIOUS
<1>10. /\ messages = t /\ rest \in Seq(Nat) /\ b = BytesOf(t) \o rest
       /\ k < Len(q) => Len(rest) < Len(BrokerEncode(q[k + 1]))
    BY <1>3, <1>8, <1>9 DEF Cuts
<1>11. t \in Seq(Packets) /\ r \in Seq(Packets) /\ q = t \o r
    <2>1. SubSeq(q, 1, k) \in Seq(Packets)
        BY TakeDrop
    <2>2. q = SubSeq(q, 1, k) \o Drop(q, k)
        BY TakeDrop
    <2>3. Drop(q, k) \in Seq(Packets)
        BY DropProperties
    <2> QED
        BY <1>9, <2>1, <2>2, <2>3
<1>12. handled' \in Seq(Packets) /\ sent = handled' \o r
    <2>1. handled \o t \in Seq(Packets)
        BY <1>5, <1>11, ConcatOf
    <2>2. (handled \o t) \o r = handled \o (t \o r)
        <3>1. Three(Packets, handled, t, r)
            BY <1>5, <1>11 DEF Three
        <3> QED
            BY <3>1, Regroup
    <2>3. sent = handled \o q
        BY <1>1 DEF Remains
    <2> QED
        BY <1>4, <1>10, <1>11, <2>1, <2>2, <2>3
<1>13. rest \o w = BytesOf(r)
    <2>1. PICK x, y, z : x = BytesOf(t) /\ y = BytesOf(r) /\ z = rest \o w
        OBVIOUS
    <2>2. x \in Seq(Nat) /\ y \in Seq(Nat) /\ z \in Seq(Nat)
        <3>1. x \in Seq(Nat) /\ y \in Seq(Nat)
            BY <1>11, <2>1, PacketsSound, BytesOfFirst
        <3>2. rest \o w \in Seq(Nat)
            BY <1>6, <1>10, ConcatOf
        <3> QED
            BY <2>1, <3>1, <3>2
    <2>3. (x \o rest) \o w = x \o (rest \o w)
        <3>1. x \in Seq(Nat) /\ rest \in Seq(Nat) /\ w \in Seq(Nat)
            BY <1>6, <1>10, <2>2
        <3> QED
            BY <3>1, Associative
    <2>4. BytesOf(t \o r) = x \o y
        BY <1>11, <2>1, PacketsSound, BytesOfConcat
    <2>5. x \o z = x \o y
        BY <1>7, <1>10, <1>11, <2>1, <2>3, <2>4
    <2>6. z = y
        BY <2>2, <2>5, Cancel
    <2> QED
        BY <2>1, <2>6
<1>14. ASSUME r # <<>> PROVE Len(rest) < Len(BrokerEncode(r[1]))
    <2>1. Len(r) = Len(q) - k /\ \A i \in 1..Len(r) : r[i] = q[i + k]
        BY <1>9, DropProperties
    <2>2. k < Len(q) /\ 1 \in 1..Len(r) /\ 1 + k = k + 1
        BY <1>11, <1>14, <2>1
    <2>3. r[1] = q[k + 1]
        BY <2>1, <2>2
    <2> QED
        BY <1>10, <2>2, <2>3
<1>15. Remains(r)'
    BY <1>4, <1>11, <1>12, <1>13, <1>14 DEF Remains
<1> QED
    BY <1>4, <1>5, <1>6, <1>10, <1>11, <1>12, <1>15 DEF StreamInv

\* Every step keeps it.
LEMMA StreamNext == StreamInv /\ [WireNext]_wireVars => StreamInv'
<1> SUFFICES ASSUME StreamInv, [WireNext]_wireVars PROVE StreamInv'
    OBVIOUS
<1>1. CASE BrokerSend
    BY <1>1, StreamSend
<1>2. ASSUME NEW n, SocketMessage(n) PROVE StreamInv'
    BY <1>2, StreamReceive
<1>3. CASE UNCHANGED <<due, sent, wire, receiveBuffer, handled>>
    BY <1>3 DEF StreamInv, Remains
<1>4. ASSUME NEW p, SocketSend(p) PROVE StreamInv'
    BY <1>3, <1>4 DEF SocketSend
<1>5. CASE UNCHANGED wireVars
    BY <1>3, <1>5 DEF wireVars
<1> QED
    BY <1>1, <1>2, <1>4, <1>5 DEF WireNext

\* It says what is claimed.
LEMMA StreamDeframed == StreamInv => Deframed
<1> SUFFICES ASSUME StreamInv PROVE Deframed
    OBVIOUS
<1>1. PICK q \in Seq(Packets) : Remains(q)
    BY DEF StreamInv
<1>2. /\ handled \in Seq(Packets) /\ receiveBuffer \in Seq(Nat) /\ wire \in Seq(Nat)
      /\ sent = handled \o q /\ receiveBuffer \o wire = BytesOf(q)
    BY <1>1 DEF StreamInv, Remains
<1>3. /\ sent \in Seq(Packets) /\ Len(sent) = Len(handled) + Len(q)
      /\ \A i \in 1..Len(q) : sent[Len(handled) + i] = q[i]
    BY <1>2, ConcatOf
<1>4. IsPrefix(handled, sent)
    <2>1. SubSeq(handled \o q, 1, Len(handled)) = handled
        BY <1>2, DropConcat
    <2>2. PICK z : z = <<>>
        OBVIOUS
    <2>3. z \in Seq(Packets) /\ handled \o z = handled
        BY <1>2, <2>2, EmptyRules
    <2>4. SubSeq(handled \o z, 1, Len(handled)) = handled
        BY <1>2, <2>3, DropConcat
    <2>5. Len(handled) <= Len(sent)
        BY <1>2, <1>3
    <2> QED
        BY <1>2, <2>1, <2>3, <2>4, <2>5 DEF IsPrefix
<1>5. (BytesOf(handled) \o receiveBuffer) \o wire = BytesOf(sent)
    <2>1. BytesOf(handled) \in Seq(Nat)
        BY <1>2, PacketsSound, BytesOfFirst
    <2>2. BytesOf(handled \o q) = BytesOf(handled) \o BytesOf(q)
        BY <1>2, PacketsSound, BytesOfConcat
    <2>3. PICK x : x = BytesOf(handled)
        OBVIOUS
    <2>4. (x \o receiveBuffer) \o wire = x \o (receiveBuffer \o wire)
        BY <1>2, <2>1, <2>3, Associative
    <2> QED
        BY <1>2, <2>2, <2>3, <2>4
<1>6. ASSUME Len(handled) < Len(sent)
      PROVE  Len(receiveBuffer) < Len(BrokerEncode(sent[Len(handled) + 1]))
    <2>1. q # <<>> /\ 1 \in 1..Len(q)
        BY <1>2, <1>3, <1>6
    <2>2. sent[Len(handled) + 1] = q[1]
        BY <1>3, <2>1
    <2> QED
        BY <1>1, <2>1, <2>2 DEF Remains
<1> QED
    BY <1>4, <1>5, <1>6 DEF Deframed

(* However the stream is cut, the client handles exactly the packets that  *)
(* have arrived to their last byte, unchanged and in their order, and      *)
(* keeps the rest for later (_deframeMessages, receiveBuffer).             *)
THEOREM WireDeframed == WireSpec => []Deframed
<1>1. WireSpec => []StreamInv
    BY StreamInit, StreamNext, PTL DEF WireSpec
<1> QED
    BY <1>1, StreamDeframed, PTL

-----------------------------------------------------------------------------
(* The fields a broker reads.                                              *)

LEMMA Wider ==
    ASSUME NEW A, NEW B, A \subseteq B, NEW s \in Seq(A)
    PROVE  s \in Seq(B)
<1>1. \A i \in 1..Len(s) : s[i] \in B
    <2> SUFFICES ASSUME NEW i \in 1..Len(s) PROVE s[i] \in B
        OBVIOUS
    <2>1. s[i] \in A
        OBVIOUS
    <2> QED
        BY <2>1
<1>2. Len(s) \in Nat /\ s = [i \in 1..Len(s) |-> s[i]]
    OBVIOUS
<1> QED
    BY <1>1, <1>2

LEMMA FieldEndPositive ==
    ASSUME NEW b \in Seq(Nat), ~(Len(b) < 2)
    PROVE  FieldEnd(b) \in Nat /\ FieldEnd(b) >= 2
<1>1. 1 \in 1..Len(b) /\ 2 \in 1..Len(b)
    OBVIOUS
<1>2. b[1] \in Nat /\ b[2] \in Nat
    BY <1>1
<1>3. FieldEnd(b) = 2 + (256 * b[1] + b[2])
    BY DEF FieldEnd, ReadUint16
<1> QED
    BY <1>2, <1>3

\* Whatever any bytes at all begin with.
ReadFields == {SubSeq(b, 3, FieldEnd(b)) : b \in Seq(Nat)}

Fielding(gap) ==
    CHOOSE from : from = [b \in Seq(Nat) |->
        IF Len(b) < 2 THEN b ELSE <<SubSeq(b, 3, FieldEnd(b))>> \o from[Drop(b, FieldEnd(b) + gap)]]

\* Fields, from the front.
LEMMA FieldsEquation ==
    ASSUME NEW gap \in Nat, NEW bytes \in Seq(Nat)
    PROVE  /\ Fields(bytes, gap) \in Seq(Nat \cup ReadFields)
           /\ Len(bytes) < 2 => Fields(bytes, gap) = bytes
           /\ ~(Len(bytes) < 2) => Fields(bytes, gap) = <<SubSeq(bytes, 3, FieldEnd(bytes))>>
                  \o Fields(Drop(bytes, FieldEnd(bytes) + gap), gap)
<1>1. \A s : Fields(s, gap) = Fielding(gap)[s]
    BY DEF Fields, Fielding
<1>2. PICK B, D, V : B = Nat /\ D = Seq(Nat) /\ V = Seq(Nat \cup ReadFields)
    OBVIOUS
<1>3. PICK stop, base, next : /\ stop = {d \in D : Len(d) < 2}
                              /\ base = [d \in D |-> d]
                              /\ next = [d \in D |-> IF Len(d) < 2
                                     THEN d ELSE Drop(d, FieldEnd(d) + gap)]
    OBVIOUS
<1>4. PICK G : G = [p \in D \X V |-> IF p[1] \in stop
          THEN base[p[1]] ELSE <<SubSeq(p[1], 3, FieldEnd(p[1]))>> \o p[2]]
    OBVIOUS
<1>5. /\ D \subseteq Seq(B) /\ base \in [D -> V] /\ next \in [D -> D]
      /\ \A d \in D : ~(Len(d) < 2) => Len(next[d]) < Len(d) /\ next[d] = Drop(d, FieldEnd(d) + gap)
    <2>1. D \subseteq Seq(B) /\ \A d \in D : d \in V
        <3>1. Nat \subseteq Nat \cup ReadFields
            OBVIOUS
        <3>2. \A d \in D : d \in V
            BY <1>2, <3>1, Wider
        <3> QED
            BY <1>2, <3>2
    <2>2. ASSUME NEW d \in D, ~(Len(d) < 2)
          PROVE  Drop(d, FieldEnd(d) + gap) \in D /\ Len(Drop(d, FieldEnd(d) + gap)) < Len(d)
        <3>1. d \in Seq(Nat) /\ FieldEnd(d) \in Nat /\ FieldEnd(d) >= 2
            BY <1>2, <2>2, FieldEndPositive
        <3>2. PICK n \in Nat : n = FieldEnd(d) + gap /\ n > 0
            BY <3>1
        <3>3. d # <<>>
            BY <2>2
        <3> QED
            BY <1>2, <3>1, <3>2, <3>3, Shorter
    <2> QED
        BY <1>3, <2>1, <2>2
<1>6. /\ G \in [D \X V -> V]
      /\ \A d \in D, v \in V : ~(Len(d) < 2) => G[<<d, v>>] = <<SubSeq(d, 3, FieldEnd(d))>> \o v
    <2>1. ASSUME NEW d \in D, NEW v \in V, ~(Len(d) < 2)
          PROVE <<SubSeq(d, 3, FieldEnd(d))>> \o v \in V
        <3>1. PICK x : x = SubSeq(d, 3, FieldEnd(d))
            OBVIOUS
        <3>2. x \in Nat \cup ReadFields
            BY <1>2, <3>1 DEF ReadFields
        <3>3. <<x>> \in V
            BY <1>2, <3>2
        <3>4. <<x>> \o v \in V
            BY <1>2, <3>3, ConcatOf
        <3> QED
            BY <3>1, <3>4
    <2>2. \A d \in D : base[d] \in V
        BY <1>5
    <2> QED
        BY <1>3, <1>4, <2>1, <2>2
<1>7. PICK f : Solves(f, D, V, stop, base, next, G)
    <2>1. Shrinks(B, D, V, stop, base, next, G)
        BY <1>3, <1>5, <1>6 DEF Shrinks
    <2> QED
        BY <2>1, SeqRecursion
<1>8. /\ f \in [D -> V]
      /\ \A d \in D : f[d] = IF Len(d) < 2 THEN d
             ELSE <<SubSeq(d, 3, FieldEnd(d))>> \o f[Drop(d, FieldEnd(d) + gap)]
    <2>1. f \in [D -> V]
        BY <1>7 DEF Solves
    <2>2. ASSUME NEW d \in D PROVE f[d] = IF Len(d) < 2
              THEN d ELSE <<SubSeq(d, 3, FieldEnd(d))>> \o f[Drop(d, FieldEnd(d) + gap)]
        <3>1. f[d] = IF d \in stop THEN base[d] ELSE G[<<d, f[next[d]]>>]
            BY <1>7 DEF Solves
        <3>2. d \in stop <=> Len(d) < 2
            BY <1>3
        <3>3. base[d] = d /\ next[d] \in D /\ f[next[d]] \in V
            BY <1>3, <1>5, <2>1
        <3>4. ~(Len(d) < 2) => next[d] = Drop(d, FieldEnd(d) + gap)
            BY <1>5
        <3>5. ~(Len(d) < 2) => f[d] = <<SubSeq(d, 3, FieldEnd(d))>> \o f[Drop(d, FieldEnd(d) + gap)]
            BY <1>6, <3>1, <3>2, <3>3, <3>4
        <3> QED
            BY <3>1, <3>2, <3>3, <3>5
    <2> QED
        BY <2>1, <2>2
<1>9. f = [b \in Seq(Nat) |->
              IF Len(b) < 2 THEN b ELSE <<SubSeq(b, 3, FieldEnd(b))>>
                  \o f[Drop(b, FieldEnd(b) + gap)]]
    BY <1>2, <1>8
<1>10. Fielding(gap) = [b \in Seq(Nat) |->
           IF Len(b) < 2 THEN b ELSE <<SubSeq(b, 3, FieldEnd(b))>>
               \o Fielding(gap)[Drop(b, FieldEnd(b) + gap)]]
    BY <1>9 DEF Fielding
<1>11. \A d \in D : Fielding(gap)[d] = IF Len(d) < 2
           THEN d ELSE <<SubSeq(d, 3, FieldEnd(d))>> \o Fielding(gap)[Drop(d, FieldEnd(d) + gap)]
    BY <1>2, <1>10
<1>12. PICK S : S = {d \in D : Fielding(gap)[d] = f[d]}
    OBVIOUS
<1>13. ASSUME NEW d \in D, \A e \in D : Len(e) < Len(d) => e \in S PROVE d \in S
    <2>1. ~(Len(d) < 2) => Fielding(gap)[Drop(d, FieldEnd(d) + gap)] = f[Drop(d, FieldEnd(d) + gap)]
        <3>1. ~(Len(d) < 2) => Drop(d, FieldEnd(d) + gap) \in D
                  /\ Len(Drop(d, FieldEnd(d) + gap)) < Len(d)
            BY <1>5
        <3> QED
            BY <1>12, <1>13, <3>1
    <2>2. Fielding(gap)[d] = f[d]
        BY <1>8, <1>11, <2>1
    <2> QED
        BY <1>12, <2>2
<1>14. \A d \in D : Fielding(gap)[d] = f[d]
    BY <1>5, <1>12, <1>13, ByLen
<1>15. Fielding(gap)[bytes] \in V
    BY <1>2, <1>8, <1>14
<1> QED
    BY <1>1, <1>2, <1>11, <1>15


\* A string that fits its length.
FieldBytes == {u \in Seq(Nat) : Len(u) \in Unit}

Typed(A, B, f, s, t) == f \in [A -> B] /\ s \in Seq(A) /\ t \in Seq(A)

\* Map of two sequences.
LEMMA MapBoth ==
    ASSUME NEW A, NEW B, NEW f, NEW s, NEW t, Typed(A, B, f, s, t)
    PROVE  Map(f, s \o t) = Map(f, s) \o Map(f, t)
<1>a. f \in [A -> B] /\ s \in Seq(A) /\ t \in Seq(A)
    BY DEF Typed
<1>1. PICK st, x, y, xy, z : /\ st = s \o t /\ x = Map(f, s) /\ y = Map(f, t) /\ xy = Map(f, st)
                             /\ z = x \o y
    OBVIOUS
<1>2. /\ st \in Seq(A) /\ Len(st) = Len(s) + Len(t)
      /\ \A i \in 1..Len(s) : st[i] = s[i]
      /\ \A i \in 1..Len(t) : st[Len(s) + i] = t[i]
    BY <1>a, <1>1, ConcatOf
<1>3. x \in Seq(B) /\ Len(x) = Len(s) /\ \A i \in 1..Len(s) : x[i] = f[s[i]]
    <2>1. Maps(A, B, f, s, x)
        BY <1>a, <1>1 DEF Maps
    <2> QED
        BY <2>1, MapOf
<1>4. y \in Seq(B) /\ Len(y) = Len(t) /\ \A i \in 1..Len(t) : y[i] = f[t[i]]
    <2>1. Maps(A, B, f, t, y)
        BY <1>a, <1>1 DEF Maps
    <2> QED
        BY <2>1, MapOf
<1>5. xy \in Seq(B) /\ Len(xy) = Len(st) /\ \A i \in 1..Len(st) : xy[i] = f[st[i]]
    <2>1. Maps(A, B, f, st, xy)
        BY <1>a, <1>1, <1>2 DEF Maps
    <2> QED
        BY <2>1, MapOf
<1>6. /\ z \in Seq(B) /\ Len(z) = Len(x) + Len(y)
      /\ \A i \in 1..Len(x) : z[i] = x[i]
      /\ \A i \in 1..Len(y) : z[Len(x) + i] = y[i]
    <2>1. x \in Seq(B) /\ y \in Seq(B)
        BY <1>3, <1>4
    <2> QED
        BY <1>1, <2>1, ConcatOf
<1>7. ASSUME NEW i \in 1..Len(xy) PROVE xy[i] = z[i]
    <2>1. Len(s) \in Nat /\ Len(t) \in Nat /\ i \in 1..Len(st)
        BY <1>a, <1>5
    <2>2. CASE i <= Len(s)
        <3>1. i \in 1..Len(s) /\ i \in 1..Len(x)
            BY <1>3, <2>1, <2>2
        <3>2. xy[i] = f[st[i]] /\ st[i] = s[i] /\ x[i] = f[s[i]] /\ z[i] = x[i]
            BY <1>2, <1>3, <1>5, <1>6, <2>1, <3>1
        <3> QED
            BY <3>2
    <2>3. CASE ~(i <= Len(s))
        <3>1. PICK j \in 1..Len(t) : i = Len(s) + j
            <4>1. i - Len(s) \in 1..Len(t) /\ i = Len(s) + (i - Len(s))
                BY <1>2, <2>1, <2>3
            <4> QED
                BY <4>1
        <3>2. j \in 1..Len(y)
            BY <1>4
        <3>3. st[i] = t[j] /\ y[j] = f[t[j]]
            BY <1>2, <1>4, <3>1
        <3>4. xy[i] = f[st[i]]
            BY <1>5, <2>1
        <3>5. z[i] = y[j]
            BY <1>3, <1>6, <3>1, <3>2
        <3> QED
            BY <3>3, <3>4, <3>5
    <2> QED
        BY <2>2, <2>3
<1>8. xy = z
    <2>1. Len(xy) = Len(z)
        BY <1>2, <1>3, <1>4, <1>5, <1>6
    <2> QED
        BY <1>5, <1>6, <1>7, <2>1, SameSeq
<1> QED
    BY <1>1, <1>8

\* f puts the field h[x] before gap bytes more.
Fielded(A, f, h, gap) ==
    /\ f \in [A -> Seq(Nat)] /\ h \in [A -> FieldBytes] /\ gap \in Nat
    /\ \A x \in A : \E y \in Seq(Nat) : Len(y) = gap /\ f[x] = Field(h[x]) \o y

\* A field at the front is read first.
LEMMA FieldTaken ==
    ASSUME NEW u \in FieldBytes, NEW y \in Seq(Nat), NEW r \in Seq(Nat)
    PROVE  Fields((Field(u) \o y) \o r, Len(y)) = <<u>> \o Fields(r, Len(y))
<1>1. PICK f, gap, fy, b : f = Field(u) /\ gap = Len(y) /\ fy = f \o y /\ b = fy \o r
    OBVIOUS
<1>2. u \in Seq(Nat) /\ Len(u) \in Unit /\ Len(u) \in Nat /\ gap \in Nat
    BY <1>1 DEF FieldBytes
<1>3. f \in Seq(Nat) /\ Len(f) = 2 + Len(u)
    BY <1>1, <1>2, FieldLengthIs, Zenon
<1>4. fy \in Seq(Nat) /\ Len(fy) = (2 + Len(u)) + gap
    <2>1. fy \in Seq(Nat) /\ Len(fy) = Len(f) + Len(y)
        BY <1>1, <1>3, ConcatOf
    <2> QED
        BY <1>1, <1>3, <2>1
<1>5. b \in Seq(Nat) /\ Len(b) = Len(fy) + Len(r) /\ Len(r) \in Nat
    <2>1. fy \in Seq(Nat)
        BY <1>4
    <2>2. fy \o r \in Seq(Nat) /\ Len(fy \o r) = Len(fy) + Len(r)
        BY <2>1, ConcatOf
    <2> QED
        BY <1>1, <2>2
<1>6. PICK yr : yr = y \o r /\ yr \in Seq(Nat)
    BY ConcatOf
<1>7. b = f \o yr
    <2>1. (f \o y) \o r = f \o (y \o r)
        <3>1. f \in Seq(Nat)
            BY <1>3
        <3> QED
            BY <3>1, Associative
    <2> QED
        BY <1>1, <1>6, <2>1
<1>8. FieldEnd(b) = 2 + Len(u) /\ SubSeq(b, 3, 2 + Len(u)) = u
    <2>1. /\ FieldEnd(Field(u) \o yr) = 2 + Len(u)
          /\ SubSeq(Field(u) \o yr, 3, 2 + Len(u)) = u
        BY <1>2, <1>6, FieldRead
    <2> QED
        BY <1>1, <1>7, <2>1, Zenon
<1>9. Drop(b, FieldEnd(b) + gap) = r
    <2>1. Drop(fy \o r, Len(fy)) = r
        <3>1. fy \in Seq(Nat)
            BY <1>4
        <3> QED
            BY <3>1, DropConcat
    <2> QED
        BY <1>1, <1>4, <1>8, <2>1
<1>10. ~(Len(b) < 2)
    BY <1>2, <1>4, <1>5
<1>11. Fields(b, gap) = <<SubSeq(b, 3, FieldEnd(b))>> \o Fields(Drop(b, FieldEnd(b) + gap), gap)
    BY <1>2, <1>5, <1>10, FieldsEquation
<1>12. Fields(b, gap) = <<u>> \o Fields(r, gap)
    BY <1>8, <1>9, <1>11
<1> QED
    BY <1>1, <1>12

\* The fields that were written are read.
LEMMA FieldsRead ==
    ASSUME NEW A, NEW f, NEW h, NEW gap, Fielded(A, f, h, gap)
    PROVE  \A s \in Seq(A) : Fields(Join(f, s), gap) = Map(h, s)
<1>1. f \in [A -> Seq(Nat)] /\ h \in [A -> FieldBytes] /\ gap \in Nat
    BY DEF Fielded
<1>2. PICK S : S = {s \in Seq(A) : Fields(Join(f, s), gap) = Map(h, s)}
    OBVIOUS
<1>3. ASSUME NEW s \in Seq(A), \A t \in Seq(A) : Len(t) < Len(s) => t \in S PROVE s \in S
    <2>1. PICK m : m = Map(h, s)
        OBVIOUS
    <2>2. m \in Seq(FieldBytes) /\ Len(m) = Len(s) /\ \A i \in 1..Len(s) : m[i] = h[s[i]]
        <3>1. Maps(A, FieldBytes, h, s, m)
            BY <1>1, <2>1 DEF Maps
        <3> QED
            BY <3>1, MapOf
    <2>3. CASE s = <<>>
        <3>1. m = <<>>
            BY <2>2, <2>3
        <3>2. Join(f, s) = <<>>
            BY <1>1, <2>3, JoinFirst
        <3>3. PICK z : z = <<>>
            OBVIOUS
        <3>4. z \in Seq(Nat) /\ Len(z) < 2
            BY <3>3
        <3>5. Fields(z, gap) = z
            BY <1>1, <3>4, FieldsEquation
        <3> QED
            BY <1>2, <2>1, <3>1, <3>2, <3>3, <3>5
    <2>4. CASE s # <<>>
        <3>1. PICK r : r = Drop(s, 1)
            OBVIOUS
        <3>2. r \in Seq(A) /\ Len(r) = Len(s) - 1 /\ s[1] \in A
            BY <2>4, <3>1, DropOne
        <3>3. r \in S
            <4>1. Len(s) \in Nat /\ Len(r) \in Nat
                BY <3>2
            <4> QED
                BY <1>3, <3>2, <4>1
        <3>4. PICK u, x, j : u = h[s[1]] /\ x = f[s[1]] /\ j = Join(f, r)
            OBVIOUS
        <3>5. PICK y \in Seq(Nat) : Len(y) = gap /\ x = Field(u) \o y
            BY <3>2, <3>4 DEF Fielded
        <3>6. u \in FieldBytes /\ j \in Seq(Nat)
            BY <1>1, <3>2, <3>4, JoinFirst
        <3>7. Join(f, s) = x \o j
            BY <1>1, <2>4, <3>1, <3>4, JoinFirst
        <3>8. Fields(x \o j, gap) = <<u>> \o Fields(j, gap)
            <4>1. Fields((Field(u) \o y) \o j, Len(y)) = <<u>> \o Fields(j, Len(y))
                BY <3>6, FieldTaken
            <4> QED
                BY <3>5, <4>1, Zenon
        <3>9. Fields(j, gap) = Map(h, r)
            BY <1>2, <3>3, <3>4
        <3>10. m = <<u>> \o Map(h, r)
            <4>1. m # <<>> /\ m[1] = u
                <5>1. 1 \in 1..Len(s)
                    BY <2>4
                <5>2. m[1] = h[s[1]] /\ Len(m) = Len(s)
                    BY <2>2, <5>1
                <5>3. m # <<>>
                    BY <5>1, <5>2
                <5> QED
                    BY <3>4, <5>2, <5>3
            <4>2. m = <<m[1]>> \o Drop(m, 1)
                BY <2>2, <4>1, DropOne
            <4>3. Drop(m, 1) = Map(h, r)
                BY <1>1, <2>1, <2>4, <3>1, MapRest
            <4> QED
                BY <4>1, <4>2, <4>3
        <3> QED
            BY <1>2, <2>1, <3>7, <3>8, <3>9, <3>10
    <2> QED
        BY <2>3, <2>4
<1>4. Seq(A) \subseteq Seq(A)
    OBVIOUS
<1>5. \A s \in Seq(A) : s \in S
    BY <1>3, <1>4, ByLen
<1> QED
    BY <1>2, <1>5

\* Each of the first is one byte longer than that of the second.
Longer(A, f, g) ==
    /\ f \in [A -> Seq(Nat)] /\ g \in [A -> Seq(Nat)]
    /\ \A x \in A : Len(f[x]) = Len(g[x]) + 1

\* One byte more for each.
LEMMA JoinLonger ==
    ASSUME NEW A, NEW f, NEW g, Longer(A, f, g)
    PROVE  \A s \in Seq(A) : Len(Join(f, s)) = Len(Join(g, s)) + Len(s)
<1>1. f \in [A -> Seq(Nat)] /\ g \in [A -> Seq(Nat)] /\ \A x \in A : Len(f[x]) = Len(g[x]) + 1
    BY DEF Longer
<1>2. PICK S : S = {s \in Seq(A) : Len(Join(f, s)) = Len(Join(g, s)) + Len(s)}
    OBVIOUS
<1>3. ASSUME NEW s \in Seq(A), \A t \in Seq(A) : Len(t) < Len(s) => t \in S PROVE s \in S
    <2>1. CASE s = <<>>
        <3>1. Join(f, s) = <<>> /\ Join(g, s) = <<>>
            BY <1>1, <2>1, JoinFirst
        <3>2. Len(<<>>) = 0 /\ Len(s) = 0
            BY <2>1
        <3> QED
            BY <1>2, <3>1, <3>2
    <2>2. CASE s # <<>>
        <3>1. PICK r : r = Drop(s, 1)
            OBVIOUS
        <3>2. r \in Seq(A) /\ Len(r) = Len(s) - 1 /\ s[1] \in A /\ Len(s) \in Nat /\ Len(r) \in Nat
            <4>1. r \in Seq(A) /\ Len(r) = Len(s) - 1 /\ s[1] \in A
                BY <2>2, <3>1, DropOne
            <4> QED
                BY <4>1
        <3>3. r \in S
            BY <1>3, <3>2
        <3>4. PICK x, y, jx, jy : /\ x = f[s[1]] /\ y = g[s[1]] /\ jx = Join(f, r)
                                  /\ jy = Join(g, r)
            OBVIOUS
        <3>5. x \in Seq(Nat) /\ y \in Seq(Nat) /\ Len(x) = Len(y) + 1
            BY <1>1, <3>2, <3>4
        <3>6. jx \in Seq(Nat) /\ jy \in Seq(Nat)
            BY <1>1, <3>2, <3>4, JoinFirst
        <3>7. Join(f, s) = x \o jx /\ Join(g, s) = y \o jy
            BY <1>1, <2>2, <3>1, <3>4, JoinFirst
        <3>8. Len(x \o jx) = Len(x) + Len(jx)
            BY <3>5, <3>6, ConcatOf
        <3>9. Len(y \o jy) = Len(y) + Len(jy)
            BY <3>5, <3>6, ConcatOf
        <3>10. Len(jx) = Len(jy) + Len(r)
            BY <1>2, <3>3, <3>4
        <3>11. Len(Join(f, s)) = Len(Join(g, s)) + Len(s)
            <4>1. Len(jx) \in Nat /\ Len(jy) \in Nat /\ Len(x) \in Nat /\ Len(y) \in Nat
                BY <3>5, <3>6
            <4> QED
                BY <3>2, <3>5, <3>7, <3>8, <3>9, <3>10, <4>1
        <3> QED
            BY <1>2, <3>11
    <2> QED
        BY <2>1, <2>2
<1>4. Seq(A) \subseteq Seq(A)
    OBVIOUS
<1>5. \A s \in Seq(A) : s \in S
    BY <1>3, <1>4, ByLen
<1> QED
    BY <1>2, <1>5

-----------------------------------------------------------------------------
(* What the client sends can be read.                                      *)

Writer == [s \in Utf8String |-> WriteString(s)]
Encoder8 == [s \in Utf8String |-> StringToUTF8(s)]
FieldWriter == [u \in FieldBytes |-> Field(u)]
Same == [u \in FieldBytes |-> u]
FilterWriter == [x \in Utf8String \X (0..2) |-> WriteString(x[1]) \o <<x[2]>>]
FilterText == [x \in Utf8String \X (0..2) |-> StringToUTF8(x[1])]
FilterString == [x \in Utf8String \X (0..2) |-> WriteString(x[1])]

\* A string is written as a field, two bytes longer than itself.
LEMMA StringOf ==
    ASSUME NEW s \in Utf8String
    PROVE  /\ StringToUTF8(s) \in FieldBytes /\ WriteString(s) = Field(StringToUTF8(s))
           /\ WriteString(s) \in Seq(Nat) /\ Len(WriteString(s)) = FieldLength(s)
           /\ UTF8Length(s) \in Nat
<1>1. s \in Text /\ UTF8Length(s) \in Unit
    BY DEF Utf8String
<1>2. PICK u : u = StringToUTF8(s)
    OBVIOUS
<1>3. u \in Seq(Nat) /\ Len(u) = UTF8Length(s) /\ WriteString(s) = Field(u)
    BY <1>1, <1>2, StringField, Zenon
<1>4. Field(u) \in Seq(Nat) /\ Len(Field(u)) = 2 + Len(u)
    BY <1>1, <1>3, FieldLengthIs
<1>5. UTF8Length(s) \in Nat
    BY <1>3
<1>6. Len(WriteString(s)) = FieldLength(s)
    BY <1>3, <1>4, <1>5 DEF FieldLength
<1>7. u \in FieldBytes
    BY <1>1, <1>3 DEF FieldBytes
<1> QED
    BY <1>2, <1>3, <1>4, <1>5, <1>6, <1>7, Zenon

LEMMA Writers ==
    /\ Writer \in [Utf8String -> Seq(Nat)] /\ Encoder8 \in [Utf8String -> FieldBytes]
    /\ FieldWriter \in [FieldBytes -> Seq(Nat)] /\ Same \in [FieldBytes -> FieldBytes]
<1>1. Writer \in [Utf8String -> Seq(Nat)] /\ Encoder8 \in [Utf8String -> FieldBytes]
    BY StringOf DEF Writer, Encoder8
<1>2. \A u \in FieldBytes : Field(u) \in Seq(Nat)
    BY FieldLengthIs DEF FieldBytes
<1> QED
    BY <1>1, <1>2 DEF FieldWriter, Same

LEMMA FilterWriters ==
    /\ FilterWriter \in [Utf8String \X (0..2) -> Seq(Nat)]
    /\ FilterText \in [Utf8String \X (0..2) -> FieldBytes]
    /\ FilterString \in [Utf8String \X (0..2) -> Seq(Nat)]
    /\ Longer(Utf8String \X (0..2), FilterWriter, FilterString)
    /\ Fielded(Utf8String \X (0..2), FilterWriter, FilterText, 1)
<1>1. PICK A : A = Utf8String \X (0..2)
    OBVIOUS
<1>2. ASSUME NEW x \in A
      PROVE  /\ x[1] \in Utf8String /\ <<x[2]>> \in Seq(Nat) /\ Len(<<x[2]>>) = 1
             /\ WriteString(x[1]) \o <<x[2]>> \in Seq(Nat)
             /\ Len(WriteString(x[1]) \o <<x[2]>>) = Len(WriteString(x[1])) + 1
             /\ WriteString(x[1]) \in Seq(Nat) /\ StringToUTF8(x[1]) \in FieldBytes
             /\ WriteString(x[1]) = Field(StringToUTF8(x[1]))
    <2>1. x[1] \in Utf8String /\ x[2] \in 0..2
        BY <1>1
    <2>2. PICK w, y : w = WriteString(x[1]) /\ y = <<x[2]>>
        OBVIOUS
    <2>3. w \in Seq(Nat) /\ StringToUTF8(x[1]) \in FieldBytes /\ w = Field(StringToUTF8(x[1]))
        BY <2>1, <2>2, StringOf
    <2>4. y \in Seq(Nat) /\ Len(y) = 1
        BY <2>1, <2>2
    <2>5. w \o y \in Seq(Nat) /\ Len(w \o y) = Len(w) + Len(y)
        BY <2>3, <2>4, ConcatOf
    <2> QED
        BY <2>1, <2>2, <2>3, <2>4, <2>5
<1>3. PICK f, g, h : f = FilterWriter /\ g = FilterString /\ h = FilterText
    OBVIOUS
<1>4. /\ f \in [A -> Seq(Nat)] /\ g \in [A -> Seq(Nat)] /\ h \in [A -> FieldBytes]
      /\ \A x \in A : /\ f[x] = WriteString(x[1]) \o <<x[2]>> /\ g[x] = WriteString(x[1])
                      /\ h[x] = StringToUTF8(x[1])
    BY <1>1, <1>2, <1>3 DEF FilterWriter, FilterString, FilterText
<1>5. Longer(A, f, g)
    BY <1>2, <1>4 DEF Longer
<1>6. Fielded(A, f, h, 1)
    <2>1. ASSUME NEW x \in A PROVE \E y \in Seq(Nat) : Len(y) = 1 /\ f[x] = Field(h[x]) \o y
        <3>1. f[x] = Field(h[x]) \o <<x[2]>>
            BY <1>2, <1>4
        <3> QED
            BY <1>2, <3>1
    <2> QED
        BY <1>4, <2>1 DEF Fielded
<1> QED
    BY <1>1, <1>3, <1>4, <1>5, <1>6

LEMMA SameMap ==
    ASSUME NEW s \in Seq(FieldBytes)
    PROVE  Map(Same, s) = s
<1>1. PICK m : m = Map(Same, s)
    OBVIOUS
<1>2. m \in Seq(FieldBytes) /\ Len(m) = Len(s) /\ \A i \in 1..Len(s) : m[i] = Same[s[i]]
    <2>1. Maps(FieldBytes, FieldBytes, Same, s, m)
        BY <1>1, Writers DEF Maps
    <2> QED
        BY <2>1, MapOf
<1>3. ASSUME NEW i \in 1..Len(s) PROVE s[i] = m[i]
    <2>1. s[i] \in FieldBytes
        OBVIOUS
    <2> QED
        BY <1>2, <2>1 DEF Same
<1>4. m = s
    BY <1>2, <1>3, SameSeq
<1> QED
    BY <1>1, <1>4

\* Strings are written as their fields, and as long as was added up.
LEMMA StringsOf ==
    ASSUME NEW ss \in Seq(Utf8String)
    PROVE  /\ Texts(ss) = Map(Encoder8, ss) /\ Texts(ss) \in Seq(FieldBytes)
           /\ Strings(ss) = Join(Writer, ss)
           /\ Strings(ss) = Join(FieldWriter, Texts(ss))
           /\ Strings(ss) \in Seq(Nat) /\ Len(Strings(ss)) = Lengths(ss)
<1>1. \A i \in DOMAIN ss : ss[i] \in Utf8String
    OBVIOUS
<1>2. Texts(ss) = Map(Encoder8, ss)
    BY <1>1 DEF Texts, Map, Encoder8
<1>3. Map(Writer, ss) = [i \in DOMAIN ss |-> WriteString(ss[i])]
    BY <1>1 DEF Map, Writer
<1>4. Strings(ss) = Join(Writer, ss)
    BY <1>3 DEF Strings, Join
<1>5. PICK t : t = Map(Encoder8, ss)
    OBVIOUS
<1>6. t \in Seq(FieldBytes) /\ Len(t) = Len(ss) /\ \A i \in 1..Len(ss) : t[i] = Encoder8[ss[i]]
    <2>1. Maps(Utf8String, FieldBytes, Encoder8, ss, t)
        BY <1>5, Writers DEF Maps
    <2> QED
        BY <2>1, MapOf
<1>7. Map(Writer, ss) = Map(FieldWriter, t)
    <2>1. DOMAIN t = DOMAIN ss /\ DOMAIN ss = 1..Len(ss)
        BY <1>6
    <2>2. ASSUME NEW i \in DOMAIN ss PROVE Writer[ss[i]] = FieldWriter[t[i]]
        <3>1. ss[i] \in Utf8String /\ t[i] = StringToUTF8(ss[i])
            BY <1>1, <1>6, <2>1 DEF Encoder8
        <3>2. StringToUTF8(ss[i]) \in FieldBytes /\ WriteString(ss[i]) = Field(StringToUTF8(ss[i]))
            BY <3>1, StringOf
        <3>3. Writer[ss[i]] = WriteString(ss[i])
            BY <3>1 DEF Writer
        <3>4. FieldWriter[StringToUTF8(ss[i])] = Field(StringToUTF8(ss[i]))
            BY <3>2 DEF FieldWriter
        <3> QED
            BY <3>1, <3>2, <3>3, <3>4
    <2> QED
        BY <2>1, <2>2 DEF Map
<1>8. Strings(ss) = Join(FieldWriter, t)
    BY <1>4, <1>7 DEF Join
<1>9. Join(Writer, ss) \in Seq(Nat)
    BY Writers, JoinFirst
<1>10. Len(Join(Writer, ss)) = Lengths(ss)
    <2>1. Len(Join(Writer, ss)) = Total([i \in DOMAIN ss |-> Len(Writer[ss[i]])])
        BY Writers, JoinLength
    <2>2. \A i \in DOMAIN ss : Len(Writer[ss[i]]) = FieldLength(ss[i])
        BY <1>1, StringOf DEF Writer
    <2>3. [i \in DOMAIN ss |-> Len(Writer[ss[i]])] = [i \in DOMAIN ss |-> FieldLength(ss[i])]
        BY <2>2
    <2> QED
        BY <2>1, <2>3 DEF Lengths
<1> QED
    BY <1>2, <1>4, <1>5, <1>6, <1>8, <1>9, <1>10

LEMMA StringsBoth ==
    ASSUME NEW s \in Seq(Utf8String), NEW t \in Seq(Utf8String)
    PROVE  /\ s \o t \in Seq(Utf8String) /\ Texts(s \o t) = Texts(s) \o Texts(t)
           /\ Lengths(s \o t) = Lengths(s) + Lengths(t)
<1>1. s \o t \in Seq(Utf8String)
    BY ConcatOf
<1>2. Texts(s \o t) = Texts(s) \o Texts(t)
    <2>1. Map(Encoder8, s \o t) = Map(Encoder8, s) \o Map(Encoder8, t)
        <3>1. PICK f : f = Encoder8 /\ f \in [Utf8String -> FieldBytes]
            BY Writers
        <3>2. Map(f, s \o t) = Map(f, s) \o Map(f, t)
            <4>1. Typed(Utf8String, FieldBytes, f, s, t)
                BY <3>1 DEF Typed
            <4> QED
                BY <4>1, MapBoth
        <3> QED
            BY <3>1, <3>2
    <2> QED
        BY <1>1, <2>1, StringsOf
<1>3. Lengths(s \o t) = Lengths(s) + Lengths(t)
    <2>1. Join(Writer, s \o t) = Join(Writer, s) \o Join(Writer, t)
        BY Writers, JoinBoth
    <2>2. PICK x, y : x = Strings(s) /\ y = Strings(t)
        OBVIOUS
    <2>3. x \in Seq(Nat) /\ y \in Seq(Nat) /\ Len(x) = Lengths(s) /\ Len(y) = Lengths(t)
        BY <2>2, StringsOf
    <2>4. Strings(s \o t) = x \o y
        BY <1>1, <2>1, <2>2, StringsOf
    <2>5. Len(x \o y) = Len(x) + Len(y)
        BY <2>3, ConcatOf
    <2>6. Len(Strings(s \o t)) = Lengths(s \o t)
        BY <1>1, StringsOf
    <2> QED
        BY <2>3, <2>4, <2>5, <2>6
<1> QED
    BY <1>1, <1>2, <1>3

\* Strings are read back as their bytes.
LEMMA StringsRead ==
    ASSUME NEW ss \in Seq(Utf8String)
    PROVE  Fields(Strings(ss), 0) = Texts(ss)
<1>1. Fielded(Utf8String, Writer, Encoder8, 0)
    <2>1. ASSUME NEW s \in Utf8String
          PROVE  \E y \in Seq(Nat) : Len(y) = 0 /\ Writer[s] = Field(Encoder8[s]) \o y
        <3>1. PICK y : y = <<>>
            OBVIOUS
        <3>2. y \in Seq(Nat) /\ Len(y) = 0
            BY <3>1
        <3>3. /\ WriteString(s) = Field(StringToUTF8(s)) /\ WriteString(s) \in Seq(Nat)
            BY StringOf
        <3>4. Field(StringToUTF8(s)) \o y = Field(StringToUTF8(s))
            BY <3>1, <3>3, EmptyRules
        <3>5. Writer[s] = WriteString(s) /\ Encoder8[s] = StringToUTF8(s)
            BY DEF Writer, Encoder8
        <3> QED
            BY <3>2, <3>3, <3>4, <3>5
    <2> QED
        BY <2>1, Writers DEF Fielded
<1>2. Fields(Join(Writer, ss), 0) = Map(Encoder8, ss)
    BY <1>1, FieldsRead
<1> QED
    BY <1>2, StringsOf

\* Fields are read back.
LEMMA FieldSequenceRead ==
    ASSUME NEW us \in Seq(FieldBytes)
    PROVE  Join(FieldWriter, us) \in Seq(Nat) /\ Fields(Join(FieldWriter, us), 0) = us
<1>1. Fielded(FieldBytes, FieldWriter, Same, 0)
    <2>1. ASSUME NEW u \in FieldBytes
          PROVE  \E y \in Seq(Nat) : Len(y) = 0 /\ FieldWriter[u] = Field(Same[u]) \o y
        <3>1. PICK y : y = <<>>
            OBVIOUS
        <3>2. y \in Seq(Nat) /\ Len(y) = 0
            BY <3>1
        <3>3. FieldWriter[u] = Field(u) /\ Same[u] = u
            BY DEF FieldWriter, Same
        <3>4. Field(u) \in Seq(Nat)
            BY <3>3, Writers
        <3>5. Field(u) \o y = Field(u)
            BY <3>1, <3>4, EmptyRules
        <3> QED
            BY <3>2, <3>3, <3>5
    <2> QED
        BY <2>1, Writers DEF Fielded
<1>2. Fields(Join(FieldWriter, us), 0) = Map(Same, us)
    BY <1>1, FieldsRead
<1>3. Join(FieldWriter, us) \in Seq(Nat)
    BY Writers, JoinFirst
<1> QED
    BY <1>2, <1>3, SameMap

-----------------------------------------------------------------------------
(* What the client writes: the body is as long as was added up, and its    *)
(* fields are read back.                                                   *)

Legible(p) ==
    /\ First(p) \in Nat /\ First(p) \div 16 = p.type
    /\ Body(p) \in Seq(Nat) /\ Len(Body(p)) = RemLength(p) /\ Len(Body(p)) < Multiplier[5]
    /\ ReadsAs(p, Body(p))

Others == {PUBLISH, PINGREQ, DISCONNECT} \cup Acks

LEMMA OthersRead ==
    ASSUME NEW p, p.type \in Others, NEW body
    PROVE  ReadsAs(p, body)
<1>1. ~(p.type = CONNECT) /\ ~(p.type = SUBSCRIBE) /\ ~(p.type = UNSUBSCRIBE)
    BY DEF Others, Acks, CONNECT, PUBLISH, PUBACK, PUBREC, PUBREL, PUBCOMP, UNSUBACK, SUBSCRIBE,
           UNSUBSCRIBE, PINGREQ, DISCONNECT
<1> QED
    BY <1>1 DEF ReadsAs

\* Acknowledgements.
LEMMA AckLegible ==
    ASSUME NEW p \in [type : Acks, id : Unit]
    PROVE  Legible(p)
<1>1. PICK w, n : w = WriteUint16(n) /\ n = p.id /\ n \in Unit
    OBVIOUS
<1>2. w \in Seq(Nat) /\ Len(w) = 2
    BY <1>1, Uint16, Zenon
<1>3. /\ Body(p) = w /\ RemLength(p) = 2 /\ First(p) \in Nat /\ First(p) \div 16 = p.type
    BY <1>1, AckParts
<1>4. p.type \in Others
    BY DEF Others
<1>5. ReadsAs(p, Body(p))
    BY <1>4, OthersRead
<1>6. Len(w) < Multiplier[5]
    BY <1>2, MultiplierBound
<1> QED
    BY <1>2, <1>3, <1>5, <1>6 DEF Legible

\* PINGREQ and DISCONNECT.
LEMMA EmptyLegible ==
    ASSUME NEW p \in [type : {PINGREQ, DISCONNECT}]
    PROVE  Legible(p)
<1>1. p.type \in {12, 14}
    BY DEF PINGREQ, DISCONNECT
<1>2. HasId(p) = FALSE /\ First(p) = 16 * p.type
    BY <1>1 DEF HasId, First, Acks, CONNECT, CONNACK, PUBLISH, PUBACK, PUBREC, PUBREL, PUBCOMP,
               SUBSCRIBE, SUBACK, UNSUBSCRIBE, UNSUBACK
<1>3. Body(p) = <<>> /\ RemLength(p) = 0
    BY <1>1, <1>2 DEF Body, Id, RemLength, Bit, CONNECT, PUBLISH, SUBSCRIBE, UNSUBSCRIBE
<1>4. First(p) \in Nat /\ First(p) \div 16 = p.type
    BY <1>1, <1>2
<1>5. p.type \in Others
    BY DEF Others
<1>6. ReadsAs(p, Body(p))
    BY <1>5, OthersRead
<1>7. Body(p) \in Seq(Nat) /\ Len(Body(p)) = 0
    BY <1>3
<1>8. Len(Body(p)) < Multiplier[5]
    BY <1>7, MultiplierBound
<1> QED
    BY <1>3, <1>4, <1>6, <1>7, <1>8 DEF Legible

\* PUBLISH.
LEMMA PublishLegible ==
    ASSUME NEW p, Published(p)
    PROVE  Legible(p)
<1>1. PICK u, w, b : PublishParts(p, u, w, b)
    BY PublishHas
<1>2. Body(p) \in Seq(Nat) /\ Len(Body(p)) = RemLength(p)
    BY <1>1, PublishLaidOut
<1>3. p.type = PUBLISH /\ RemLength(p) < Multiplier[5]
    BY DEF Published
<1>4. p.type \in Others
    BY <1>3 DEF Others
<1>5. ReadsAs(p, Body(p))
    BY <1>4, OthersRead
<1>6. First(p) \in Nat /\ First(p) \div 16 = PUBLISH
    BY PublishFirst
<1> QED
    BY <1>2, <1>3, <1>5, <1>6 DEF Legible

\* An identifier ahead of the bytes r.
LEMMA Identified ==
    ASSUME NEW p, p.type \in {SUBSCRIBE, UNSUBSCRIBE}, p.id \in Unit, NEW r \in Seq(Nat)
    PROVE  /\ Id(p) \o r \in Seq(Nat) /\ Len(Id(p) \o r) = 2 + Len(r)
           /\ ReadUint16(Id(p) \o r, 1) = p.id /\ Drop(Id(p) \o r, 2) = r
           /\ First(p) \in Nat /\ First(p) \div 16 = p.type
           /\ Bit(HasId(p), 2) = 2
<1>1. HasId(p)
    BY DEF HasId
<1>2. Id(p) = WriteUint16(p.id) /\ Bit(HasId(p), 2) = 2
    BY <1>1 DEF Id, Bit
<1>3. First(p) \in Nat /\ First(p) \div 16 = p.type
    <2>1. p.type \in {8, 10}
        BY DEF SUBSCRIBE, UNSUBSCRIBE
    <2>2. First(p) = 16 * p.type + 2
        BY <2>1 DEF First, PUBLISH, SUBSCRIBE, UNSUBSCRIBE, PUBREL
    <2> QED
        BY <2>1, <2>2
<1>4. /\ WriteUint16(p.id) \o r \in Seq(Nat) /\ Len(WriteUint16(p.id) \o r) = 2 + Len(r)
      /\ ReadUint16(WriteUint16(p.id) \o r, 1) = p.id
      /\ Drop(WriteUint16(p.id) \o r, 2) = r
    BY IdAhead
<1> QED
    BY <1>2, <1>3, <1>4, Zenon

\* UNSUBSCRIBE.
LEMMA UnsubscribeLegible ==
    ASSUME NEW p \in [type : {UNSUBSCRIBE}, id : Unit, topics : Seq(Utf8String)],
           RemLength(p) < Multiplier[5]
    PROVE  Legible(p)
<1>1. p.type = UNSUBSCRIBE /\ p.type = 10 /\ p.id \in Unit /\ p.topics \in Seq(Utf8String)
    BY DEF UNSUBSCRIBE
<1>2. PICK r : r = Strings(p.topics)
    OBVIOUS
<1>3. r \in Seq(Nat) /\ Len(r) = Lengths(p.topics) /\ Fields(r, 0) = Texts(p.topics)
    BY <1>1, <1>2, StringsOf, StringsRead
<1>4. PICK body : body = Id(p) \o r
    OBVIOUS
<1>5. /\ body \in Seq(Nat) /\ Len(body) = 2 + Len(r)
      /\ ReadUint16(body, 1) = p.id /\ Drop(body, 2) = r
      /\ First(p) \in Nat /\ First(p) \div 16 = p.type
      /\ Bit(HasId(p), 2) = 2
    <2>1. p.type \in {SUBSCRIBE, UNSUBSCRIBE}
        BY <1>1
    <2>2. r \in Seq(Nat)
        BY <1>3
    <2>3. /\ Id(p) \o r \in Seq(Nat) /\ Len(Id(p) \o r) = 2 + Len(r)
          /\ ReadUint16(Id(p) \o r, 1) = p.id /\ Drop(Id(p) \o r, 2) = r
          /\ First(p) \in Nat /\ First(p) \div 16 = p.type
          /\ Bit(HasId(p), 2) = 2
        BY <1>1, <2>1, <2>2, Identified
    <2> QED
        BY <1>4, <2>3, Zenon
<1>6. Body(p) = body
    BY <1>1, <1>2, <1>4 DEF Body, CONNECT, SUBSCRIBE, UNSUBSCRIBE, PUBLISH
<1>7. RemLength(p) = Len(body)
    <2>1. RemLength(p) = Bit(HasId(p), 2) + Lengths(p.topics)
        BY <1>1 DEF RemLength, CONNECT, SUBSCRIBE, UNSUBSCRIBE, PUBLISH
    <2> QED
        BY <1>3, <1>5, <2>1
<1>8. ReadsAs(p, body)
    <2>1. ~(p.type = CONNECT) /\ ~(p.type = SUBSCRIBE)
        BY <1>1 DEF CONNECT, SUBSCRIBE
    <2>2. Fields(Drop(body, 2), 0) = Texts(p.topics)
        BY <1>3, <1>5, Zenon
    <2> QED
        BY <1>1, <1>5, <2>1, <2>2 DEF ReadsAs
<1> QED
    BY <1>5, <1>6, <1>7, <1>8 DEF Legible

\* The topics of a SUBSCRIBE, each before its QoS.
LEMMA FiltersRead ==
    ASSUME NEW p, p.topics \in Seq(Utf8String), p.requestedQos \in Seq(0..2),
           Len(p.requestedQos) = Len(p.topics)
    PROVE  /\ Filters(p) \in Seq(Nat)
           /\ Len(Filters(p)) = Lengths(p.topics) + Len(p.requestedQos)
           /\ Fields(Filters(p), 1) = Texts(p.topics)
<1>1. PICK s, q, A : s = p.topics /\ q = p.requestedQos /\ A = Utf8String \X (0..2)
    OBVIOUS
<1>2. s \in Seq(Utf8String) /\ q \in Seq(0..2) /\ Len(q) = Len(s)
    BY <1>1
<1>3. PICK x : x = [i \in 1..Len(s) |-> <<s[i], q[i]>>]
    OBVIOUS
<1>4. /\ x \in Seq(A) /\ Len(x) = Len(s)
      /\ \A i \in 1..Len(s) : x[i] \in A /\ x[i][1] = s[i] /\ x[i][2] = q[i]
    <2>1. \A i \in 1..Len(s) : x[i] = <<s[i], q[i]>> /\ s[i] \in Utf8String /\ q[i] \in 0..2
        BY <1>2, <1>3
    <2>2. \A i \in 1..Len(s) : x[i] \in A /\ x[i][1] = s[i] /\ x[i][2] = q[i]
        <3>1. \A y \in Utf8String, z \in 0..2 :
                  <<y, z>> \in A /\ <<y, z>>[1] = y /\ <<y, z>>[2] = z
            BY <1>1
        <3>2. ASSUME NEW i \in 1..Len(s) PROVE x[i] \in A /\ x[i][1] = s[i] /\ x[i][2] = q[i]
            <4>1. PICK y, z : y = s[i] /\ z = q[i]
                OBVIOUS
            <4>2. x[i] = <<y, z>> /\ y \in Utf8String /\ z \in 0..2
                BY <2>1, <4>1
            <4>3. <<y, z>> \in A /\ <<y, z>>[1] = y /\ <<y, z>>[2] = z
                BY <3>1, <4>2
            <4> QED
                BY <4>1, <4>2, <4>3
        <3> QED
            BY <3>2
    <2>3. Len(s) \in Nat
        BY <1>2
    <2>4. x \in Seq(A) /\ Len(x) = Len(s)
        BY <1>3, <2>2, <2>3
    <2> QED
        BY <2>2, <2>4
<1>5. PICK f, g, h : f = FilterWriter /\ g = FilterString /\ h = FilterText
    OBVIOUS
<1>6. /\ f \in [A -> Seq(Nat)] /\ Longer(A, f, g) /\ Fielded(A, f, h, 1)
    BY <1>1, <1>5, FilterWriters, Zenon
<1>7. \A y \in A : /\ f[y] = WriteString(y[1]) \o <<y[2]>> /\ g[y] = WriteString(y[1])
                   /\ h[y] = StringToUTF8(y[1])
    BY <1>1, <1>5 DEF FilterWriter, FilterString, FilterText
<1>8. DOMAIN s = 1..Len(s) /\ DOMAIN x = 1..Len(s)
    BY <1>2, <1>3
<1>9. Filters(p) = Join(f, x)
    <2>1. Map(f, x) = [i \in DOMAIN s |-> WriteString(s[i]) \o <<q[i]>>]
        BY <1>4, <1>7, <1>8 DEF Map
    <2> QED
        BY <1>1, <2>1 DEF Filters, Join
<1>10. Strings(s) = Join(g, x)
    <2>1. Map(g, x) = [i \in DOMAIN s |-> WriteString(s[i])]
        BY <1>4, <1>7, <1>8 DEF Map
    <2> QED
        BY <2>1 DEF Strings, Join
<1>11. Texts(s) = Map(h, x)
    BY <1>4, <1>7, <1>8 DEF Texts, Map
<1>12. Join(f, x) \in Seq(Nat)
    BY <1>4, <1>6, JoinFirst
<1>13. Len(Join(f, x)) = Len(Join(g, x)) + Len(x)
    BY <1>4, <1>6, JoinLonger
<1>14. Fields(Join(f, x), 1) = Map(h, x)
    BY <1>4, <1>6, FieldsRead
<1>15. Len(Strings(s)) = Lengths(s)
    BY <1>2, StringsOf
<1> QED
    BY <1>1, <1>2, <1>4, <1>9, <1>10, <1>11, <1>12, <1>13, <1>14, <1>15, Zenon

\* SUBSCRIBE.
LEMMA SubscribeLegible ==
    ASSUME NEW p \in [type : {SUBSCRIBE}, id : Unit, topics : Seq(Utf8String),
                      requestedQos : Seq(0..2)],
           Len(p.requestedQos) = Len(p.topics), RemLength(p) < Multiplier[5]
    PROVE  Legible(p)
<1>1. /\ p.type = SUBSCRIBE /\ p.type = 8 /\ p.id \in Unit /\ p.topics \in Seq(Utf8String)
      /\ p.requestedQos \in Seq(0..2)
    BY DEF SUBSCRIBE
<1>2. PICK r, n, m : r = Filters(p) /\ n = Lengths(p.topics) /\ m = Len(p.requestedQos)
    OBVIOUS
<1>3. r \in Seq(Nat) /\ Len(r) = n + m /\ Fields(r, 1) = Texts(p.topics)
    BY <1>1, <1>2, FiltersRead
<1>4. PICK body : body = Id(p) \o r
    OBVIOUS
<1>5. /\ body \in Seq(Nat) /\ Len(body) = 2 + Len(r)
      /\ ReadUint16(body, 1) = p.id /\ Drop(body, 2) = r
      /\ First(p) \in Nat /\ First(p) \div 16 = p.type
      /\ Bit(HasId(p), 2) = 2
    <2>1. p.type \in {SUBSCRIBE, UNSUBSCRIBE}
        BY <1>1
    <2>2. r \in Seq(Nat)
        BY <1>3
    <2>3. /\ Id(p) \o r \in Seq(Nat) /\ Len(Id(p) \o r) = 2 + Len(r)
          /\ ReadUint16(Id(p) \o r, 1) = p.id /\ Drop(Id(p) \o r, 2) = r
          /\ First(p) \in Nat /\ First(p) \div 16 = p.type
          /\ Bit(HasId(p), 2) = 2
        BY <1>1, <2>1, <2>2, Identified
    <2> QED
        BY <1>4, <2>3, Zenon
<1>6. Body(p) = body
    BY <1>1, <1>2, <1>4 DEF Body, CONNECT, SUBSCRIBE, UNSUBSCRIBE, PUBLISH
<1>7. RemLength(p) = Len(body)
    <2>1. RemLength(p) = Bit(HasId(p), 2) + (n + m)
        BY <1>1, <1>2 DEF RemLength, CONNECT, SUBSCRIBE, UNSUBSCRIBE, PUBLISH
    <2> QED
        BY <1>3, <1>5, <2>1
<1>8. ReadsAs(p, body)
    <2>1. ~(p.type = CONNECT) /\ ~(p.type = UNSUBSCRIBE)
        BY <1>1 DEF CONNECT, UNSUBSCRIBE
    <2>2. Fields(Drop(body, 2), 1) = Texts(p.topics)
        BY <1>3, <1>5, Zenon
    <2> QED
        BY <1>1, <1>5, <2>1, <2>2 DEF ReadsAs
<1> QED
    BY <1>5, <1>6, <1>7, <1>8 DEF Legible

\* The name of the protocol says its own length; the version follows.
LEMMA ProtocolIs ==
    ASSUME NEW v \in {3, 4}
    PROVE  /\ Protocol(v) \in Seq(Nat) /\ Len(Protocol(v)) \in {7, 9} /\ Protocol(v)[1] = 0
           /\ Protocol(v)[2] = Len(Protocol(v)) - 3 /\ Protocol(v)[Len(Protocol(v))] = v
<1>a. PICK p : p = Protocol(v)
    OBVIOUS
<1>1. ASSUME v = 3 PROVE p \in Seq(Nat) /\ Len(p) = 9 /\ p[1] = 0 /\ p[2] = 6 /\ p[9] = v
    <2>1. PICK s : s = <<0, 6, 77, 81, 73, 115, 100, 112, 3>>
        OBVIOUS
    <2>2. s \in Seq(Nat) /\ Len(s) = 9 /\ s[1] = 0 /\ s[2] = 6 /\ s[9] = 3
        BY <2>1
    <2>3. p = s
        BY <1>a, <1>1, <2>1 DEF Protocol
    <2> QED
        BY <1>1, <2>2, <2>3
<1>2. ASSUME v = 4 PROVE p \in Seq(Nat) /\ Len(p) = 7 /\ p[1] = 0 /\ p[2] = 4 /\ p[7] = v
    <2>1. PICK s : s = <<0, 4, 77, 81, 84, 84, 4>>
        OBVIOUS
    <2>2. s \in Seq(Nat) /\ Len(s) = 7 /\ s[1] = 0 /\ s[2] = 4 /\ s[7] = 4
        BY <2>1
    <2>3. p = s
        BY <1>a, <1>2, <2>1 DEF Protocol
    <2> QED
        BY <1>2, <2>2, <2>3
<1>3. /\ p \in Seq(Nat) /\ Len(p) \in {7, 9} /\ p[1] = 0
      /\ p[2] = Len(p) - 3 /\ p[Len(p)] = v
    <2>1. CASE v = 3
        <3>1. Len(p) = 9 /\ p[9] = v /\ 9 - 3 = 6
            BY <1>1, <2>1
        <3> QED
            BY <1>1, <2>1, <3>1, Zenon
    <2>2. CASE v = 4
        <3>1. Len(p) = 7 /\ p[7] = v /\ 7 - 3 = 4
            BY <1>2, <2>2
        <3> QED
            BY <1>2, <2>2, <3>1, Zenon
    <2> QED
        BY <2>1, <2>2
<1> QED
    BY <1>a, <1>3, Zenon

\* Protocol name and version, what is asked for, keep-alive.
ConnectHeader(v, asked, n) == (Protocol(v) \o <<asked>>) \o WriteUint16(n)

\* What stands ahead of the fields of a CONNECT.
Headed(v, asked, n, r, b) ==
    /\ v \in {3, 4} /\ asked \in Nat /\ n \in Unit /\ r \in Seq(Nat)
    /\ b = ConnectHeader(v, asked, n) \o r

LEMMA HeaderRead ==
    ASSUME NEW v, NEW asked, NEW n, NEW r, NEW b, Headed(v, asked, n, r, b)
    PROVE  /\ ConnectHeader(v, asked, n) \in Seq(Nat)
           /\ Len(ConnectHeader(v, asked, n)) = Len(Protocol(v)) + 3
           /\ b \in Seq(Nat) /\ Len(b) = (Len(Protocol(v)) + 3) + Len(r)
           /\ b[FieldEnd(b) + 1] = v /\ b[FieldEnd(b) + 2] = asked
           /\ ReadUint16(b, FieldEnd(b) + 3) = n /\ Drop(b, FieldEnd(b) + 4) = r
<1>a. /\ v \in {3, 4} /\ asked \in Nat /\ n \in Unit /\ r \in Seq(Nat)
      /\ b = ConnectHeader(v, asked, n) \o r
    BY DEF Headed
<1>1. PICK s, c, w, l : s = Protocol(v) /\ c = <<asked>> /\ w = WriteUint16(n) /\ l = Len(s)
    OBVIOUS
<1>2. s \in Seq(Nat) /\ l \in {7, 9} /\ s[1] = 0 /\ s[2] = l - 3 /\ s[l] = v
    BY <1>a, <1>1, ProtocolIs, Zenon
<1>3. c \in Seq(Nat) /\ Len(c) = 1 /\ c[1] = asked
    BY <1>a, <1>1
<1>4. w \in Seq(Nat) /\ Len(w) = 2
    BY <1>a, <1>1, Uint16, Zenon
<1>5. PICK a : a = s \o c
    OBVIOUS
<1>6. /\ a \in Seq(Nat) /\ Len(a) = l + 1 /\ a[1] = 0 /\ a[2] = l - 3 /\ a[l] = v
      /\ a[l + 1] = asked
    <2>1. /\ a \in Seq(Nat) /\ Len(a) = Len(s) + Len(c)
          /\ \A i \in 1..Len(s) : a[i] = s[i]
          /\ \A i \in 1..Len(c) : a[Len(s) + i] = c[i]
        <3>1. s \in Seq(Nat) /\ c \in Seq(Nat)
            BY <1>2, <1>3
        <3> QED
            BY <1>5, <3>1, ConcatOf
    <2>2. 1 \in 1..Len(s) /\ 2 \in 1..Len(s) /\ l \in 1..Len(s) /\ 1 \in 1..Len(c)
        BY <1>1, <1>2, <1>3
    <2> QED
        BY <1>1, <1>2, <1>3, <2>1, <2>2
<1>7. PICK h : h = a \o w
    OBVIOUS
<1>8. /\ h \in Seq(Nat) /\ Len(h) = l + 3
      /\ \A i \in 1..(l + 1) : h[i] = a[i]
    <2>1. /\ h \in Seq(Nat) /\ Len(h) = Len(a) + Len(w)
          /\ \A i \in 1..Len(a) : h[i] = a[i]
        BY <1>4, <1>6, <1>7, ConcatOf
    <2> QED
        BY <1>2, <1>4, <1>6, <2>1
<1>9. h = ConnectHeader(v, asked, n)
    BY <1>1, <1>5, <1>7, Zenon DEF ConnectHeader
<1>10. /\ b \in Seq(Nat) /\ Len(b) = (l + 3) + Len(r)
       /\ \A i \in 1..(l + 3) : b[i] = h[i]
    <2>1. h \in Seq(Nat) /\ r \in Seq(Nat) /\ b = h \o r
        BY <1>a, <1>8, <1>9
    <2>2. /\ b \in Seq(Nat) /\ Len(b) = Len(h) + Len(r)
          /\ \A i \in 1..Len(h) : b[i] = h[i]
        BY <2>1, ConcatOf
    <2> QED
        BY <1>8, <2>2
<1>11. b[1] = 0 /\ b[2] = l - 3 /\ b[l] = v /\ b[l + 1] = asked
    <2>1. /\ 1 \in 1..(l + 1) /\ 2 \in 1..(l + 1) /\ l \in 1..(l + 1) /\ l + 1 \in 1..(l + 1)
          /\ 1 \in 1..(l + 3) /\ 2 \in 1..(l + 3) /\ l \in 1..(l + 3) /\ l + 1 \in 1..(l + 3)
        BY <1>2
    <2> QED
        BY <1>6, <1>8, <1>10, <2>1
<1>12. FieldEnd(b) = l - 1
    <2>1. FieldEnd(b) = 2 + (256 * b[1] + b[2])
        BY DEF FieldEnd, ReadUint16
    <2> QED
        BY <1>2, <1>11, <2>1
<1>13. ReadUint16(b, Len(a) + 1) = n
    <2>1. ReadUint16((a \o WriteUint16(n)) \o r, Len(a) + 1) = n
        BY <1>a, <1>6, Uint16Read
    <2> QED
        BY <1>a, <1>1, <1>7, <1>9, <2>1, Zenon
<1>14. Drop(b, Len(h)) = r
    <2>1. h \in Seq(Nat) /\ r \in Seq(Nat) /\ b = h \o r
        BY <1>a, <1>8, <1>9
    <2> QED
        BY <2>1, DropConcat
<1>15. /\ FieldEnd(b) + 1 = l /\ FieldEnd(b) + 2 = l + 1 /\ FieldEnd(b) + 3 = Len(a) + 1
       /\ FieldEnd(b) + 4 = Len(h)
    BY <1>2, <1>6, <1>8, <1>12
<1> QED
    BY <1>1, <1>8, <1>9, <1>10, <1>11, <1>13, <1>14, <1>15, Zenon

\* The bytes of the fields of a CONNECT.
ConnectFields(c, t, w, u, k, h, r) ==
    /\ c \in Utf8String /\ t \in Seq(Utf8String) /\ w \in Seq(FieldBytes)
    /\ u \in Seq(Utf8String) /\ k \in Seq(Utf8String) /\ h \in Seq(Nat)
    /\ r = (Strings(<<c>> \o t) \o Join(FieldWriter, w)) \o Strings(u \o k)

ConnectRead(c, t, w, u, k, h, r) ==
    /\ ((((h \o WriteString(c)) \o Strings(t)) \o Join(FieldWriter, w)) \o Strings(u))
           \o Strings(k) = h \o r
    /\ r \in Seq(Nat)
    /\ Len(r) = (Lengths(((<<c>> \o t) \o u) \o k)) + Len(Join(FieldWriter, w))
    /\ Fields(r, 0) = (Texts(<<c>> \o t) \o w) \o Texts(u \o k)

\* They are as long as reckoned, and are read back in their order.
LEMMA FieldsOfConnect ==
    ASSUME NEW c, NEW t, NEW w, NEW u, NEW k, NEW h, NEW r, ConnectFields(c, t, w, u, k, h, r)
    PROVE  ConnectRead(c, t, w, u, k, h, r)
<1>a. /\ c \in Utf8String /\ t \in Seq(Utf8String) /\ w \in Seq(FieldBytes)
      /\ u \in Seq(Utf8String) /\ k \in Seq(Utf8String) /\ h \in Seq(Nat)
    BY DEF ConnectFields
<1>1. PICK n, ct, uk : n = <<c>> /\ ct = n \o t /\ uk = u \o k
    OBVIOUS
<1>2. n \in Seq(Utf8String) /\ ct \in Seq(Utf8String)
    <2>1. n \in Seq(Utf8String)
        BY <1>a, <1>1
    <2> QED
        BY <1>a, <1>1, <2>1, ConcatOf
<1>3. /\ uk \in Seq(Utf8String) /\ Lengths(ct \o uk) = Lengths(ct) + Lengths(uk)
    <2>1. uk \in Seq(Utf8String)
        BY <1>a, <1>1, ConcatOf
    <2> QED
        BY <1>2, <2>1, StringsBoth
<1>4. (ct \o u) \o k = ct \o uk
    <2>1. (ct \o u) \o k = ct \o (u \o k)
        <3>1. Three(Utf8String, ct, u, k)
            BY <1>a, <1>2 DEF Three
        <3> QED
            BY <3>1, Regroup
    <2> QED
        BY <1>1, <2>1, Zenon
<1>5. PICK A, B, C, D, E : /\ A = WriteString(c) /\ B = Strings(t) /\ C = Join(FieldWriter, w)
                           /\ D = Strings(u) /\ E = Strings(k)
    OBVIOUS
<1>6. /\ A \in Seq(Nat) /\ B \in Seq(Nat) /\ C \in Seq(Nat) /\ D \in Seq(Nat) /\ E \in Seq(Nat)
    <2>1. A \in Seq(Nat)
        BY <1>a, <1>5, StringOf
    <2>2. B \in Seq(Nat) /\ D \in Seq(Nat) /\ E \in Seq(Nat)
        BY <1>a, <1>5, StringsOf
    <2>3. C \in Seq(Nat)
        BY <1>a, <1>5, FieldSequenceRead
    <2> QED
        BY <2>1, <2>2, <2>3
<1>7. PICK f : f = Writer /\ f \in [Utf8String -> Seq(Nat)] /\ f[c] = A
    <2>1. Writer[c] = WriteString(c)
        BY <1>a DEF Writer
    <2> QED
        BY <1>5, <2>1, Writers
<1>8. Strings(ct) = A \o B
    <2>1. Join(f, n \o t) = f[c] \o Join(f, t)
        BY <1>a, <1>1, <1>7, JoinMore
    <2>2. Strings(ct) = Join(f, ct) /\ Strings(t) = Join(f, t)
        BY <1>a, <1>2, <1>7, StringsOf
    <2> QED
        BY <1>1, <1>5, <1>7, <2>1, <2>2, Zenon
<1>9. Strings(uk) = D \o E
    <2>1. Join(f, u \o k) = Join(f, u) \o Join(f, k)
        BY <1>a, <1>7, JoinBoth
    <2>2. Strings(uk) = Join(f, uk) /\ Strings(u) = Join(f, u) /\ Strings(k) = Join(f, k)
        BY <1>a, <1>3, <1>7, StringsOf
    <2> QED
        BY <1>1, <1>5, <2>1, <2>2, Zenon
<1>10. PICK x, y : x = A \o B /\ y = D \o E /\ r = (x \o C) \o y
    BY <1>1, <1>5, <1>8, <1>9, Zenon DEF ConnectFields
<1>11. /\ x \in Seq(Nat) /\ y \in Seq(Nat) /\ Len(x) = Lengths(ct) /\ Len(y) = Lengths(uk)
    BY <1>2, <1>3, <1>8, <1>9, <1>10, StringsOf
<1>12. PICK xc : xc = x \o C /\ xc \in Seq(Nat) /\ Len(xc) = Len(x) + Len(C)
    BY <1>6, <1>11, ConcatOf
<1>13. r \in Seq(Nat) /\ Len(r) = (Len(x) + Len(C)) + Len(y)
    <2>1. xc \o y \in Seq(Nat) /\ Len(xc \o y) = Len(xc) + Len(y)
        BY <1>11, <1>12, ConcatOf
    <2> QED
        BY <1>10, <1>12, <2>1
<1>14. Len(r) = Lengths(ct \o uk) + Len(C)
    <2>1. Len(x) \in Nat /\ Len(y) \in Nat /\ Len(C) \in Nat
        BY <1>6, <1>11
    <2> QED
        BY <1>3, <1>11, <1>13, <2>1
<1>15. ((((h \o A) \o B) \o C) \o D) \o E = h \o r
    <2>1. (h \o A) \o B = h \o x
        BY <1>a, <1>6, <1>10, Associative
    <2>2. (h \o x) \o C = h \o xc
        <3>1. h \in Seq(Nat) /\ x \in Seq(Nat) /\ C \in Seq(Nat)
            BY <1>a, <1>6, <1>11
        <3>2. (h \o x) \o C = h \o (x \o C)
            BY <3>1, Associative
        <3> QED
            BY <1>12, <3>2
    <2>3. PICK hxc : hxc = h \o xc /\ hxc \in Seq(Nat)
        BY <1>a, <1>12, ConcatOf
    <2>4. (hxc \o D) \o E = hxc \o y
        BY <1>6, <1>10, <2>3, Associative
    <2>5. (h \o xc) \o y = h \o (xc \o y)
        <3>1. h \in Seq(Nat) /\ xc \in Seq(Nat) /\ y \in Seq(Nat)
            BY <1>a, <1>11, <1>12
        <3> QED
            BY <3>1, Associative
    <2> QED
        BY <1>10, <1>12, <2>1, <2>2, <2>3, <2>4, <2>5, Zenon
<1>16. PICK a, b, g : a = Texts(ct) /\ b = Texts(uk) /\ g = FieldWriter
    OBVIOUS
<1>17. /\ a \in Seq(FieldBytes) /\ b \in Seq(FieldBytes) /\ x = Join(g, a) /\ y = Join(g, b)
    BY <1>2, <1>3, <1>8, <1>9, <1>10, <1>16, StringsOf
<1>18. PICK aw : aw = a \o w /\ aw \in Seq(FieldBytes)
    BY <1>a, <1>17, ConcatOf
<1>19. PICK all : all = aw \o b /\ all \in Seq(FieldBytes)
    BY <1>17, <1>18, ConcatOf
<1>20. r = Join(g, all)
    <2>1. g \in [FieldBytes -> Seq(Nat)]
        BY <1>16, Writers
    <2>2. Join(g, a \o w) = Join(g, a) \o Join(g, w)
        BY <1>a, <1>17, <2>1, JoinBoth
    <2>3. Join(g, aw \o b) = Join(g, aw) \o Join(g, b)
        BY <1>17, <1>18, <2>1, JoinBoth
    <2>4. C = Join(g, w)
        BY <1>5, <1>16
    <2> QED
        BY <1>10, <1>17, <1>18, <1>19, <2>2, <2>3, <2>4, Zenon
<1>21. Fields(r, 0) = all
    BY <1>16, <1>19, <1>20, FieldSequenceRead
<1> QED
    BY <1>1, <1>4, <1>5, <1>8, <1>9, <1>10, <1>13, <1>14, <1>15, <1>16, <1>18, <1>19, <1>21, Zenon
       DEF ConnectRead

LEMMA OptionOf ==
    ASSUME NEW s \in Utf8String \cup {Absent}
    PROVE  Given(s) \in Seq(Utf8String)
<1>1. CASE s = Absent
    BY <1>1 DEF Given
<1>2. CASE s # Absent
    BY <1>2 DEF Given
<1> QED
    BY <1>1, <1>2

\* The Will of a CONNECT, if it has one.
LEMMA WillOf ==
    ASSUME NEW p, p.willMessage \in Will \cup {Absent}
    PROVE  /\ WillTopic(p) \in Seq(Utf8String) /\ WillPayload(p) \in Seq(FieldBytes)
           /\ Concat([i \in DOMAIN WillPayload(p) |->
                  WriteUint16(Len(WillPayload(p)[i])) \o WillPayload(p)[i]])
                = Join(FieldWriter, WillPayload(p))
           /\ Len(Join(FieldWriter, WillPayload(p)))
                = (IF p.willMessage = Absent THEN 0 ELSE Len(p.willMessage.payload) + 2)
<1>1. PICK w : w = WillPayload(p)
    OBVIOUS
<1>2. /\ WillTopic(p) \in Seq(Utf8String) /\ w \in Seq(FieldBytes)
      /\ Len(Join(FieldWriter, w))
            = (IF p.willMessage = Absent THEN 0 ELSE Len(p.willMessage.payload) + 2)
    <2>1. CASE p.willMessage = Absent
        <3>1. WillTopic(p) = <<>> /\ w = <<>>
            BY <1>1, <2>1 DEF WillTopic, WillPayload
        <3>2. w \in Seq(FieldBytes) /\ WillTopic(p) \in Seq(Utf8String)
            BY <3>1
        <3>3. Join(FieldWriter, w) = <<>>
            BY <3>1, <3>2, Writers, JoinFirst
        <3> QED
            BY <2>1, <3>2, <3>3
    <2>2. CASE p.willMessage # Absent
        <3>1. PICK m : m = p.willMessage /\ m \in Will
            BY <2>2
        <3>2. m.topic \in Utf8String /\ m.payload \in Seq(Byte) /\ Len(m.payload) \in Unit
            BY <3>1 DEF Will
        <3>3. PICK u : u = m.payload /\ u \in Seq(Nat) /\ Len(u) \in Unit
            BY <3>2, BytesAreNat
        <3>4. WillTopic(p) = <<m.topic>> /\ w = <<u>>
            BY <1>1, <2>2, <3>1, <3>3 DEF WillTopic, WillPayload
        <3>5. u \in FieldBytes
            BY <3>3 DEF FieldBytes
        <3>6. WillTopic(p) \in Seq(Utf8String) /\ w \in Seq(FieldBytes)
            BY <3>2, <3>4, <3>5
        <3>7. PICK e : e = <<>> /\ e \in Seq(FieldBytes)
            <4>1. <<>> \in Seq(FieldBytes)
                OBVIOUS
            <4> QED
                BY <4>1
        <3>8. PICK g : g = FieldWriter /\ g \in [FieldBytes -> Seq(Nat)] /\ g[u] = Field(u)
            <4>1. FieldWriter[u] = Field(u)
                BY <3>5 DEF FieldWriter
            <4> QED
                BY <4>1, Writers
        <3>9. Join(g, <<u>> \o e) = g[u] \o Join(g, e)
            BY <3>5, <3>7, <3>8, JoinMore
        <3>10. Join(g, e) = <<>>
            BY <3>7, <3>8, JoinFirst
        <3>11. <<u>> \o e = w
            BY <3>4, <3>5, <3>7
        <3>12. Field(u) \in Seq(Nat) /\ Len(Field(u)) = 2 + Len(u)
            BY <3>3, FieldLengthIs
        <3>13. Join(g, w) = Field(u)
            <4>1. PICK v : v = Field(u) /\ v \in Seq(Nat)
                BY <3>12
            <4>2. v \o <<>> = v
                BY <4>1, EmptyRules
            <4> QED
                BY <3>8, <3>9, <3>10, <3>11, <4>1, <4>2, Zenon
        <3> QED
            BY <2>2, <3>1, <3>3, <3>6, <3>8, <3>12, <3>13
    <2> QED
        BY <2>1, <2>2
<1>3. Concat([i \in DOMAIN w |-> WriteUint16(Len(w[i])) \o w[i]]) = Join(FieldWriter, w)
    <2>1. \A i \in DOMAIN w : w[i] \in FieldBytes
        BY <1>2
    <2>2. Map(FieldWriter, w) = [i \in DOMAIN w |-> WriteUint16(Len(w[i])) \o w[i]]
        BY <2>1 DEF Map, FieldWriter, Field
    <2> QED
        BY <2>2 DEF Join
<1> QED
    BY <1>1, <1>2, <1>3, Zenon

IsConnect(p) ==
    /\ p.type = CONNECT /\ p.mqttVersion \in {3, 4} /\ p.keepAliveInterval \in Unit
    /\ p.clientId \in Utf8String /\ p.willMessage \in Will \cup {Absent}
    /\ p.userName \in Utf8String \cup {Absent} /\ p.password \in Utf8String \cup {Absent}
    /\ p.cleanSession \in BOOLEAN

LEMMA FlagsAreNat ==
    ASSUME NEW p, IsConnect(p)
    PROVE  ConnectFlags(p) \in Nat
<1>1. CASE p.willMessage = Absent
    BY <1>1 DEF ConnectFlags, Bit
<1>2. CASE p.willMessage # Absent
    <2>1. p.willMessage.qos \in 0..2
        BY <1>2 DEF IsConnect, Will
    <2> QED
        BY <1>2, <2>1 DEF ConnectFlags, Bit
<1> QED
    BY <1>1, <1>2

LEMMA OnlyConnect == CONNECT # SUBSCRIBE /\ CONNECT # UNSUBSCRIBE /\ CONNECT # PUBLISH
BY DEF CONNECT, SUBSCRIBE, UNSUBSCRIBE, PUBLISH

\* CONNECT.
LEMMA ConnectLegible ==
    ASSUME NEW p, IsConnect(p), RemLength(p) < Multiplier[5]
    PROVE  Legible(p)
<1>1. PICK v, fl, n, c, t, w, u, k :
          /\ v = p.mqttVersion /\ fl = ConnectFlags(p) /\ n = p.keepAliveInterval /\ c = p.clientId
          /\ t = WillTopic(p) /\ w = WillPayload(p) /\ u = Given(p.userName)
                 /\ k = Given(p.password)
    OBVIOUS
<1>2. /\ v \in {3, 4} /\ fl \in Nat /\ n \in Unit /\ c \in Utf8String /\ u \in Seq(Utf8String)
      /\ k \in Seq(Utf8String)
    BY <1>1, OptionOf, FlagsAreNat DEF IsConnect
<1>3. /\ t \in Seq(Utf8String) /\ w \in Seq(FieldBytes)
      /\ Concat([i \in DOMAIN w |-> WriteUint16(Len(w[i])) \o w[i]]) = Join(FieldWriter, w)
      /\ Len(Join(FieldWriter, w))
            = (IF p.willMessage = Absent THEN 0 ELSE Len(p.willMessage.payload) + 2)
    <2>1. p.willMessage \in Will \cup {Absent}
        BY DEF IsConnect
    <2> QED
        BY <1>1, <2>1, WillOf, Zenon
<1>4. PICK h, r, l : /\ h = ConnectHeader(v, fl, n) /\ l = Len(Protocol(v))
                     /\ r = (Strings(<<c>> \o t) \o Join(FieldWriter, w)) \o Strings(u \o k)
    OBVIOUS
<1>5. h \in Seq(Nat)
    <2>1. PICK e, b : e = <<>> /\ b = ConnectHeader(v, fl, n) \o e
        OBVIOUS
    <2>a. e \in Seq(Nat)
        BY <2>1
    <2>b. Headed(v, fl, n, e, b)
        BY <1>2, <2>1, <2>a, Zenon DEF Headed
    <2>2. ConnectHeader(v, fl, n) \in Seq(Nat)
        BY <2>b, HeaderRead
    <2> QED
        BY <1>4, <2>2
<1>6. /\ ((((h \o WriteString(c)) \o Strings(t)) \o Join(FieldWriter, w)) \o Strings(u))
             \o Strings(k) = h \o r
      /\ r \in Seq(Nat)
      /\ Len(r) = Lengths(((<<c>> \o t) \o u) \o k) + Len(Join(FieldWriter, w))
      /\ Fields(r, 0) = (Texts(<<c>> \o t) \o w) \o Texts(u \o k)
    <2>1. ConnectFields(c, t, w, u, k, h, r)
        BY <1>2, <1>3, <1>4, <1>5, Zenon DEF ConnectFields
    <2> QED
        <3>1. ConnectRead(c, t, w, u, k, h, r)
            BY <2>1, FieldsOfConnect
        <3> QED
            BY <3>1, Zenon DEF ConnectRead
<1>7. PICK b : b = h \o r
    OBVIOUS
<1>8. /\ b \in Seq(Nat) /\ Len(b) = (l + 3) + Len(r)
      /\ b[FieldEnd(b) + 1] = v /\ b[FieldEnd(b) + 2] = fl
      /\ ReadUint16(b, FieldEnd(b) + 3) = n /\ Drop(b, FieldEnd(b) + 4) = r
    <2>1. Headed(v, fl, n, r, b)
        BY <1>2, <1>4, <1>6, <1>7, Zenon DEF Headed
    <2>2. /\ b \in Seq(Nat) /\ Len(b) = (Len(Protocol(v)) + 3) + Len(r)
          /\ b[FieldEnd(b) + 1] = v /\ b[FieldEnd(b) + 2] = fl
          /\ ReadUint16(b, FieldEnd(b) + 3) = n /\ Drop(b, FieldEnd(b) + 4) = r
        BY <2>1, HeaderRead
    <2> QED
        BY <1>4, <2>2, Zenon
<1>9. p.type = CONNECT /\ p.type = 1
    BY DEF IsConnect, CONNECT
<1>10. Body(p) = b
    <2>1. Body(p) = ConnectBody(p)
        BY <1>9 DEF Body, SUBSCRIBE, UNSUBSCRIBE, PUBLISH
    <2>2. ConnectBody(p) =
             ((((h \o WriteString(c)) \o Strings(t))
                 \o Concat([i \in DOMAIN w |-> WriteUint16(Len(w[i])) \o w[i]]))
                 \o Strings(u)) \o Strings(k)
        BY <1>1, <1>4, Zenon DEF ConnectBody, ConnectHeader
    <2> QED
        BY <1>3, <1>6, <1>7, <2>1, <2>2, Zenon
<1>11. First(p) \in Nat /\ First(p) \div 16 = p.type /\ Bit(HasId(p), 2) = 0
    <2>1. HasId(p) = FALSE
        BY <1>9 DEF HasId, Acks, PUBLISH, PUBACK, PUBREC, PUBREL, PUBCOMP, UNSUBACK, SUBSCRIBE,
                    SUBACK, UNSUBSCRIBE
    <2>2. First(p) = 16
        BY <1>9 DEF First, PUBLISH, SUBSCRIBE, UNSUBSCRIBE, PUBREL
    <2> QED
        BY <1>9, <2>1, <2>2 DEF Bit
<1>12. RemLength(p) = Len(b)
    <2>1. PICK x, y : x = Lengths(((<<c>> \o t) \o u) \o k) /\ y = Len(Join(FieldWriter, w))
        OBVIOUS
    <2>2. RemLength(p) = Bit(HasId(p), 2) + (l + 3 + x
              + (IF p.willMessage = Absent THEN 0 ELSE Len(p.willMessage.payload) + 2))
        <3>1. RemLength(p) = Bit(HasId(p), 2) + (Len(Protocol(p.mqttVersion)) + 3
                  + Lengths(<<p.clientId>> \o WillTopic(p) \o Given(p.userName)
                      \o Given(p.password))
                  + (IF p.willMessage = Absent THEN 0 ELSE Len(p.willMessage.payload) + 2))
            BY <1>9, OnlyConnect, Zenon DEF RemLength
        <3> QED
            BY <1>1, <1>4, <2>1, <3>1, Zenon
    <2>3. RemLength(p) = 0 + ((l + 3 + x) + y)
        BY <1>3, <1>11, <2>1, <2>2, Zenon
    <2>4. x \in Nat /\ y \in Nat /\ l \in Nat
        <3>1. PICK s : s = ((<<c>> \o t) \o u) \o k
            OBVIOUS
        <3>2. s \in Seq(Utf8String)
            <4>1. PICK ct : ct = <<c>> \o t /\ ct \in Seq(Utf8String)
                <5>1. <<c>> \in Seq(Utf8String)
                    BY <1>2
                <5> QED
                    BY <1>3, <5>1, ConcatOf
            <4>2. PICK cu : cu = ct \o u /\ cu \in Seq(Utf8String)
                BY <1>2, <4>1, ConcatOf
            <4>3. cu \o k \in Seq(Utf8String)
                BY <1>2, <4>2, ConcatOf
            <4> QED
                BY <3>1, <4>1, <4>2, <4>3, Zenon
        <3>3. PICK z : z = Strings(s)
            OBVIOUS
        <3>4. z \in Seq(Nat) /\ Len(z) = Lengths(s)
            BY <3>2, <3>3, StringsOf
        <3>5. x \in Nat
            BY <2>1, <3>1, <3>4
        <3>6. PICK j : j = Join(FieldWriter, w) /\ j \in Seq(Nat)
            BY <1>3, FieldSequenceRead
        <3>7. l \in {7, 9}
            BY <1>2, <1>4, ProtocolIs
        <3> QED
            BY <2>1, <3>5, <3>6, <3>7
    <2>5. Len(r) = x + y
        BY <1>6, <2>1, Zenon
    <2> QED
        BY <1>8, <2>3, <2>4, <2>5
<1>13. ReadsAs(p, b)
    <2>1. Fields(Drop(b, FieldEnd(b) + 4), 0) = (Texts(<<c>> \o t) \o w) \o Texts(u \o k)
        BY <1>6, <1>8, Zenon
    <2> QED
        <3>1. ReadsAs(p, b) <=>
                 /\ b[FieldEnd(b) + 1] = p.mqttVersion
                 /\ b[FieldEnd(b) + 2] = ConnectFlags(p)
                 /\ ReadUint16(b, FieldEnd(b) + 3) = p.keepAliveInterval
                 /\ Fields(Drop(b, FieldEnd(b) + 4), 0) =
                       Texts(<<p.clientId>> \o WillTopic(p)) \o WillPayload(p)
                       \o Texts(Given(p.userName) \o Given(p.password))
            BY <1>9, OnlyConnect, Zenon DEF ReadsAs
        <3> QED
            BY <1>1, <1>8, <2>1, <3>1, Zenon
<1> QED
    BY <1>8, <1>10, <1>11, <1>12, <1>13 DEF Legible

LEMMA ClientLegible ==
    ASSUME NEW p, FromClient(p)
    PROVE  Legible(p)
<1>1. ASSUME p \in [type : {CONNECT}, mqttVersion : {3, 4}, cleanSession : BOOLEAN,
                    keepAliveInterval : Unit, clientId : Utf8String
                        , willMessage : Will \cup {Absent},
                    userName : Utf8String \cup {Absent}, password : Utf8String \cup {Absent}],
             RemLength(p) < Multiplier[5]
      PROVE  Legible(p)
    <2>1. IsConnect(p)
        BY <1>1 DEF IsConnect
    <2> QED
        BY <1>1, <2>1, ConnectLegible
<1> QED
    BY <1>1, SubscribeLegible, UnsubscribeLegible, AckLegible, EmptyLegible, PublishLegible
       DEF FromClient

\* A legible packet is read from its bytes.
LEMMA LegibleRead ==
    ASSUME NEW p, Legible(p)
    PROVE  LET bytes == Encode(p)
               end == LengthEnd(bytes)
               body == Drop(bytes, end) IN
           /\ bytes[1] \div 16 = p.type
           /\ DecodeMBI(bytes, end) = Len(body)
           /\ Len(body) = Len(Body(p))
           /\ ReadsAs(p, body)
<1>1. PICK first, b, e, k : first = First(p) /\ b = Body(p) /\ e = Encode(p) /\ k = HeaderLength(b)
    OBVIOUS
<1>2. /\ first \in Nat /\ first \div 16 = p.type /\ b \in Seq(Nat) /\ Len(b) = RemLength(p)
      /\ Len(b) < Multiplier[5] /\ ReadsAs(p, b)
    BY <1>1, Zenon DEF Legible
<1>3. e = Frame(first, b)
    BY <1>1, <1>2, Framed, Zenon
<1>4. /\ e[1] = first /\ LengthEnd(e) = k /\ DecodeMBI(e, k) = Len(b) /\ Drop(e, k) = b
    BY <1>1, <1>2, <1>3, Opened, Zenon
<1> QED
    BY <1>1, <1>2, <1>4, Zenon

(* What is written is a packet of the application's and its bytes.         *)
WrittenInv == written = Absent \/ \E p \in Outgoing : written = [packet |-> p, bytes |-> Encode(p)]

\* So the invariant says what is claimed.
LEMMA WrittenRead == WrittenInv => ReadByBroker
<1> SUFFICES ASSUME WrittenInv, written # Absent
             PROVE  LET bytes == written.bytes
                        end == LengthEnd(bytes)
                        body == Drop(bytes, end) IN
                    /\ bytes[1] \div 16 = written.packet.type
                    /\ DecodeMBI(bytes, end) = Len(body)
                    /\ Len(body) = Len(Body(written.packet))
                    /\ ReadsAs(written.packet, body)
    BY DEF ReadByBroker
<1>1. PICK p \in Outgoing : written = [packet |-> p, bytes |-> Encode(p)]
    BY DEF WrittenInv
<1>2. written.packet = p /\ written.bytes = Encode(p)
    BY <1>1
<1>3. Legible(p)
    BY OutgoingAssumption, ClientLegible
<1> QED
    BY <1>2, <1>3, LegibleRead, Zenon

(* A packet the client writes is as long as its header says, to the byte,  *)
(* and the broker reads the fields it was given: the length is computed    *)
(* apart from what is written (encode), with strings of any width.         *)
THEOREM WireReadByBroker == WireSpec => []ReadByBroker
<1>1. WireInit => WrittenInv
    BY DEF WireInit, WrittenInv
<1>2. WrittenInv /\ [WireNext]_wireVars => WrittenInv'
    <2> SUFFICES ASSUME WrittenInv, [WireNext]_wireVars PROVE WrittenInv'
        OBVIOUS
    <2>1. CASE BrokerSend
        BY <2>1 DEF BrokerSend, WrittenInv
    <2>2. ASSUME NEW n \in Fragments \cup {Len(wire)}, SocketMessage(n) PROVE WrittenInv'
        BY <2>2 DEF SocketMessage, WrittenInv
    <2>3. ASSUME NEW p \in Outgoing, SocketSend(p) PROVE WrittenInv'
        BY <2>3 DEF SocketSend, WrittenInv
    <2>4. CASE UNCHANGED wireVars
        BY <2>4 DEF wireVars, WrittenInv
    <2> QED
        BY <2>1, <2>2, <2>3, <2>4 DEF WireNext
<1> QED
    BY <1>1, <1>2, WrittenRead, PTL DEF WireSpec
=============================================================================
