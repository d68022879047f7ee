----------------------------- MODULE LiveState -----------------------------
(***************************************************************************)
(* The live view of a device on the console's page: the component          *)
(* DeviceState (app/DeviceState/DeviceState.tsx) and its Connection, which *)
(* keeps a WebSocket to the event endpoint, sends it the user's access     *)
(* token, and connects again five seconds after it was lost.               *)
(*                                                                         *)
(* The page that mounts and unmounts the component, and renews the token,  *)
(* is ConsoleApp.  Sockets that are closed may be used again.              *)
(***************************************************************************)
EXTENDS Naturals, Sequences

CONSTANTS
    Sockets,  \* bound: sockets the browser has at a time
    None

ASSUME LiveStateAssumption == None \notin Sockets

VARIABLES
    mounted,         \* DeviceState is on the page, its effects have run
    ws,              \* Connection.ws, of the Connection made last
    timers,          \* its pending reconnect timers; Connection.timer is set if there are any
    stray,           \* timers of Connections that are closed
    currentToken,    \* Connection.currentToken, a number: 0 for undefined, renewed ones are higher
    connectionState, \* as shown: TRUE for Connected
    sock,            \* of each socket: its readyState
    toServer,        \* of each socket: tokens sent and not received
    serverToken      \* of each socket: the token its session at the server received last

liveVars == <<mounted, ws, timers, stray, currentToken, connectionState, sock, toServer, serverToken>>

Free == {s \in Sockets : sock[s] = "closed"}

LiveInit ==
    /\ mounted = FALSE /\ ws = None /\ timers = 0 /\ stray = 0
    /\ currentToken = 0 /\ connectionState = FALSE
    /\ sock = [s \in Sockets |-> "closed"]
    /\ toServer = [s \in Sockets |-> <<>>] /\ serverToken = [s \in Sockets |-> 0]

-----------------------------------------------------------------------------
(* Connection.                                                             *)

(* connect(), the result of which becomes ws.                              *)
Connects(s) ==
    /\ s \in Free
    /\ ws' = s
    /\ sock' = [sock EXCEPT ![s] = "opening"]
    /\ toServer' = [toServer EXCEPT ![s] = <<>>]
    /\ serverToken' = [serverToken EXCEPT ![s] = 0]

\* Mutant: every event starts a timer of its own.
TimedTwice == 2

(* onerror and onclose come one right after the other when a socket fails, *)
(* onclose alone when it ends in order; the timer is started once.         *)
Timed == IF timers > 0 THEN timers ELSE 1

(* The effect of [endpoints] makes the Connection, that of [ws, auth]      *)
(* gives it the token.                                                     *)
Mount(token) ==
    /\ ~mounted /\ mounted' = TRUE
    /\ \E s \in Sockets : Connects(s)
    /\ currentToken' = token
    /\ timers' = 0 /\ stray' = stray + timers
    /\ connectionState' = FALSE

(* The cleanup of the effect: close().  The socket's events are yet to     *)
(* come, and so is a timer that was started.                               *)
Unmount ==
    /\ mounted /\ mounted' = FALSE
    /\ sock' = [sock EXCEPT ![ws] = IF @ = "closed" THEN @ ELSE "closing"]
    /\ timers' = 0 /\ stray' = stray + timers
    /\ UNCHANGED <<ws, currentToken, connectionState, toServer, serverToken>>

\* Mutant: a socket that opens is not told the token.
OpensSilently(s) ==
    /\ sock[s] = "opening"
    /\ sock' = [sock EXCEPT ![s] = "open"]
    /\ connectionState' = TRUE
    /\ UNCHANGED <<mounted, ws, timers, stray, currentToken, toServer, serverToken>>

(* onopen: sendToken, if there is one.                                     *)
Opens(s) ==
    /\ sock[s] = "opening"
    /\ sock' = [sock EXCEPT ![s] = "open"]
    /\ toServer' = IF currentToken = 0 THEN toServer
                   ELSE [toServer EXCEPT ![ws] = Append(@, currentToken)]
    /\ connectionState' = TRUE
    /\ UNCHANGED <<mounted, ws, timers, stray, currentToken, serverToken>>

(* accessToken(): the token is kept for the next socket, too.              *)
AccessToken(token) ==
    /\ currentToken' = token
    /\ toServer' = IF sock[ws] = "open" THEN [toServer EXCEPT ![ws] = Append(@, token)]
                   ELSE toServer
    /\ UNCHANGED <<mounted, ws, timers, stray, connectionState, sock, serverToken>>

(* onerror and onclose: the server refuses or ends the connection (when    *)
(* the token expires, for one), or it is lost; tokens under way are, too.  *)
Ends(s) ==
    /\ sock[s] \in {"opening", "open", "closing"}
    /\ sock' = [sock EXCEPT ![s] = "closed"]
    /\ toServer' = [toServer EXCEPT ![s] = <<>>]
    /\ IF sock[s] = "closing"
       THEN UNCHANGED <<timers, connectionState>>
       ELSE timers' = Timed /\ connectionState' = FALSE
    /\ UNCHANGED <<mounted, ws, stray, currentToken, serverToken>>

(* The timer, set to undefined first, then performReconnect.               *)
TimerFires ==
    /\ timers > 0 /\ timers' = timers - 1
    /\ \E s \in Sockets : Connects(s)
    /\ UNCHANGED <<mounted, stray, currentToken, connectionState>>

(* The timer of a Connection that was closed meanwhile.                    *)
StrayFires ==
    /\ stray > 0 /\ stray' = stray - 1
    /\ UNCHANGED <<mounted, ws, timers, currentToken, connectionState, sock, toServer, serverToken>>

(* The event endpoint receives a token.                                    *)
ServerReceives(s) ==
    /\ toServer[s] # <<>>
    /\ toServer' = [toServer EXCEPT ![s] = Tail(@)]
    /\ serverToken' = [serverToken EXCEPT ![s] = Head(toServer[s])]
    /\ UNCHANGED <<mounted, ws, timers, stray, currentToken, connectionState, sock>>

LiveNext ==
    \/ \E s \in Sockets : Opens(s) \/ Ends(s) \/ ServerReceives(s)
    \/ TimerFires \/ StrayFires

-----------------------------------------------------------------------------
(* The page holds no more than one WebSocket, the one the Connection of a  *)
(* mounted DeviceState has in ws, however often it was lost, and whatever  *)
(* timers and sockets earlier Connections left behind; and it says         *)
(* Connected just while that one is open.                                  *)
OneLiveSocket ==
    /\ \A s \in Sockets : sock[s] \in {"opening", "open"} => mounted /\ s = ws
    /\ mounted => (connectionState <=> sock[ws] = "open")
=============================================================================
