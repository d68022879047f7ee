-------------------------- MODULE ConsoleAppProof --------------------------
(***************************************************************************)
(* Whatever the page does, and however many devices, sockets, fetches and  *)
(* operations there are: it holds one live WebSocket at most, the server   *)
(* has been told the newest token on it, and the page shows the claim the  *)
(* server has.  Three invariants, one for each:                            *)
(*  - LiveInv adds what the timer means: one is pending only while         *)
(*    DeviceState is mounted and its socket is closed;                     *)
(*  - ToldInv follows the newest token from the page to the server;        *)
(*  - ClaimInv says that the answer to the newest fetch is right, or an    *)
(*    operation that made it wrong has still to be answered, and that      *)
(*    answer fetches again.                                                *)
(***************************************************************************)
EXTENDS ConsoleApp, SequenceTheorems, TLAPS

States == {"opening", "open", "closing", "closed"}

SocketsOK ==
    /\ sock \in [Sockets -> States]
    /\ mounted \in BOOLEAN /\ connectionState \in BOOLEAN
    /\ mounted => ws \in Sockets
    /\ timers \in Nat

TimerWaits == timers > 0 => timers = 1 /\ mounted /\ sock[ws] = "closed"

LiveInv == SocketsOK /\ TimerWaits /\ OneLiveSocket

(* A Connection that is mounted, or whose timer fires, takes a closed      *)
(* socket; and no other is live.                                           *)
LEMMA NothingElseLives ==
    ASSUME LiveInv, mounted => timers > 0
    PROVE  \A s \in Sockets : sock[s] \notin {"opening", "open"}
BY DEF LiveInv, SocketsOK, TimerWaits, OneLiveSocket

LEMMA MountsKeep == ASSUME LiveInv, NEW t, Mount(t) PROVE LiveInv'
<1>1. \A s \in Sockets : sock[s] \notin {"opening", "open"}
    BY NothingElseLives DEF Mount
<1>2. PICK s \in Sockets : Connects(s)
    BY DEF Mount
<1>3. sock' = [sock EXCEPT ![s] = "opening"] /\ sock \in [Sockets -> States] /\ ws' = s
    BY <1>2 DEF Connects, LiveInv, SocketsOK
<1>4. mounted' = TRUE /\ connectionState' = FALSE /\ timers' = 0
    BY DEF Mount
<1>5. SocketsOK'
    BY <1>3, <1>4 DEF SocketsOK, States
<1>6. OneLiveSocket'
    BY <1>1, <1>3, <1>4 DEF OneLiveSocket, States
<1> QED
    BY <1>4, <1>5, <1>6 DEF LiveInv, TimerWaits

LEMMA UnmountKeeps == ASSUME LiveInv, Unmount PROVE LiveInv'
<1>1. mounted /\ ws \in Sockets /\ sock \in [Sockets -> States] /\ connectionState \in BOOLEAN
    BY DEF Unmount, LiveInv, SocketsOK
<1>2. /\ mounted' = FALSE /\ timers' = 0 /\ connectionState' = connectionState
      /\ sock' = [sock EXCEPT ![ws] = IF @ = "closed" THEN @ ELSE "closing"]
    BY DEF Unmount
<1>3. SocketsOK'
    BY <1>1, <1>2 DEF SocketsOK, States
<1>4. \A s \in Sockets : sock'[s] \notin {"opening", "open"}
    BY <1>1, <1>2 DEF LiveInv, OneLiveSocket, States
<1> QED
    BY <1>2, <1>3, <1>4 DEF LiveInv, TimerWaits, OneLiveSocket

LEMMA TokenKeeps == ASSUME LiveInv, NEW t, AccessToken(t) PROVE LiveInv'
BY DEF LiveInv, SocketsOK, TimerWaits, OneLiveSocket, States, AccessToken

LEMMA EventsKeep == ASSUME LiveInv, LiveNext PROVE LiveInv'
<1>1. ASSUME NEW s \in Sockets, Opens(s) PROVE LiveInv'
    BY <1>1 DEF LiveInv, SocketsOK, TimerWaits, OneLiveSocket, States, Opens
<1>2. ASSUME NEW s \in Sockets, Ends(s) PROVE LiveInv'
    <2>1. /\ sock[s] \in {"opening", "open", "closing"}
          /\ sock' = [sock EXCEPT ![s] = "closed"] /\ mounted' = mounted /\ ws' = ws
        BY <1>2 DEF Ends
    <2>2. CASE sock[s] = "closing"
        BY <2>1, <2>2, <1>2 DEF LiveInv, SocketsOK, TimerWaits, OneLiveSocket, States, Ends
    <2>3. CASE sock[s] # "closing"
        <3>1. mounted /\ s = ws
            BY <2>1, <2>3 DEF LiveInv, OneLiveSocket
        <3>2. timers' = 1 /\ connectionState' = FALSE
            BY <2>1, <2>3, <3>1, <1>2 DEF LiveInv, SocketsOK, TimerWaits, Ends, Timed
        <3> QED
            BY <2>1, <3>1, <3>2 DEF LiveInv, SocketsOK, TimerWaits, OneLiveSocket, States
    <2> QED
        BY <2>2, <2>3
<1>3. ASSUME NEW s \in Sockets, ServerReceives(s) PROVE LiveInv'
    BY <1>3 DEF LiveInv, SocketsOK, TimerWaits, OneLiveSocket, States, ServerReceives
<1>4. ASSUME TimerFires PROVE LiveInv'
    <2>1. \A s \in Sockets : sock[s] \notin {"opening", "open"}
        BY <1>4, NothingElseLives DEF TimerFires
    <2>2. PICK s \in Sockets : Connects(s)
        BY <1>4 DEF TimerFires
    <2>3. mounted /\ timers = 1 /\ timers' = 0 /\ ~connectionState
        BY <1>4, <2>1 DEF TimerFires, LiveInv, TimerWaits, OneLiveSocket, SocketsOK
    <2> QED
        BY <1>4, <2>1, <2>2, <2>3
        DEF LiveInv, SocketsOK, TimerWaits, OneLiveSocket, States, TimerFires, Connects
<1>5. ASSUME StrayFires PROVE LiveInv'
    BY <1>5 DEF LiveInv, SocketsOK, TimerWaits, OneLiveSocket, States, StrayFires
<1> QED
    BY <1>1, <1>2, <1>3, <1>4, <1>5 DEF LiveNext

(* The page's own steps leave LiveState alone, but for its effects.        *)
LEMMA PageSteps ==
    ASSUME [Next]_vars
    PROVE  \/ LiveNext \/ Unmount \/ (\E t \in {token} : Mount(t) \/ AccessToken(t))
           \/ UNCHANGED liveVars
<1>1. CASE Effects
    BY <1>1 DEF Effects
<1>2. CASE EndpointsAnswered \/ ControlAnswered \/ UserLoaded \/ Renew \/ SignOut \/ TogglesModal
    BY <1>2 DEF EndpointsAnswered, ControlAnswered, UserLoaded, Renew, SignOut, TogglesModal
<1>3. CASE ClaimDevice \/ CreateSimulator \/ ReleaseDevice \/ SetDisplay
    BY <1>3 DEF ClaimDevice, CreateSimulator, ReleaseDevice, SetDisplay, Asks
<1>4. CASE \E device \in Devices \cup {None} : TypesId(device)
    BY <1>4 DEF TypesId
<1>5. CASE \E f \in fetches : ServerAnswers(f) \/ SetResult(f)
    BY <1>5 DEF ServerAnswers, SetResult
<1>6. CASE \E op \in ops : ServerHandles(op) \/ Answered(op) \/ DisplayAnswered(op)
    BY <1>6 DEF ServerHandles, Answered, DisplayAnswered
<1>7. CASE LiveNext
    BY <1>7
<1>8. CASE UNCHANGED vars
    BY <1>8 DEF vars
<1> QED
    BY <1>1, <1>2, <1>3, <1>4, <1>5, <1>6, <1>7, <1>8 DEF Next

LEMMA LiveInvariant == Spec => []LiveInv
<1>1. Init => LiveInv
    <2> SUFFICES ASSUME LiveInit PROVE LiveInv
        BY DEF Init
    <2>1. SocketsOK
        BY DEF LiveInit, SocketsOK, States
    <2>2. TimerWaits /\ OneLiveSocket
        BY DEF LiveInit, TimerWaits, OneLiveSocket
    <2> QED
        BY <2>1, <2>2 DEF LiveInv
<1>2. LiveInv /\ [Next]_vars => LiveInv'
    <2> SUFFICES ASSUME LiveInv, [Next]_vars PROVE LiveInv'
        OBVIOUS
    <2>1. ASSUME UNCHANGED liveVars PROVE LiveInv'
        BY <2>1 DEF liveVars, LiveInv, SocketsOK, TimerWaits, OneLiveSocket
    <2> QED
        BY <2>1, PageSteps, MountsKeep, UnmountKeeps, TokenKeeps, EventsKeep
<1> QED
    BY <1>1, <1>2, PTL DEF Spec

(* The page never holds two live WebSockets, nor one that no mounted       *)
(* DeviceState owns, and says Connected just while its own is open: the    *)
(* timer of Connection.reconnect and the flag closed are enough, for any   *)
(* number of sockets, devices, fetches and operations.                     *)
THEOREM LiveSocket == Spec => []OneLiveSocket
<1>1. LiveInv => OneLiveSocket
    BY DEF LiveInv
<1> QED
    BY LiveInvariant, <1>1, PTL

-----------------------------------------------------------------------------
(* The token.                                                              *)

TokenTypes ==
    /\ toServer \in [Sockets -> Seq(Nat)] /\ serverToken \in [Sockets -> Nat]
    /\ token \in Nat /\ currentToken \in Nat

\* The last of what is under way, or what has arrived when nothing is.
Newest(s) ==
    IF toServer[s] = <<>> THEN serverToken[s] ELSE toServer[s][Len(toServer[s])]

Told ==
    /\ mounted /\ sock[ws] = "opening" => toServer[ws] = <<>> /\ serverToken[ws] = 0
    /\ mounted /\ sock[ws] = "open" => Newest(ws) = currentToken

ToldInv == TokenTypes /\ Told

\* A token that is appended is the newest.
LEMMA Appended ==
    ASSUME TokenTypes, NEW s \in Sockets, NEW t \in Nat,
           toServer' = [toServer EXCEPT ![s] = Append(@, t)]
    PROVE  /\ toServer' \in [Sockets -> Seq(Nat)]
           /\ toServer'[s] # <<>> /\ toServer'[s][Len(toServer'[s])] = t
<1>1. toServer[s] \in Seq(Nat) /\ toServer'[s] = Append(toServer[s], t)
    BY DEF TokenTypes
<1>2. /\ Append(toServer[s], t) \in Seq(Nat) /\ Len(Append(toServer[s], t)) = Len(toServer[s]) + 1
      /\ Append(toServer[s], t)[Len(toServer[s]) + 1] = t
    BY <1>1, AppendProperties
<1>3. Append(toServer[s], t) # <<>>
    BY <1>1, <1>2
<1> QED
    BY <1>1, <1>2, <1>3 DEF TokenTypes

\* A socket that is taken begins with nothing under way.
LEMMA ConnectTold ==
    ASSUME TokenTypes, LiveInv, NEW s \in Sockets, Connects(s), token' = token, currentToken' \in Nat
    PROVE  ToldInv'
<1>1. /\ ws' = s /\ sock' = [sock EXCEPT ![s] = "opening"]
      /\ toServer' = [toServer EXCEPT ![s] = <<>>] /\ serverToken' = [serverToken EXCEPT ![s] = 0]
    BY DEF Connects
<1>2. sock'[s] = "opening"
    BY <1>1 DEF LiveInv, SocketsOK
<1>3. TokenTypes'
    BY <1>1 DEF TokenTypes
<1>4. Told'
    BY <1>1, <1>2 DEF Told, TokenTypes
<1> QED
    BY <1>3, <1>4 DEF ToldInv

LEMMA MountTold == ASSUME ToldInv, LiveInv, Mount(token), token' = token PROVE ToldInv'
<1>1. PICK s \in Sockets : Connects(s)
    BY DEF Mount
<1> QED
    BY <1>1, ConnectTold DEF Mount, ToldInv, TokenTypes

LEMMA UnmountTold == ASSUME ToldInv, Unmount, token' = token PROVE ToldInv'
BY DEF ToldInv, TokenTypes, Told, Unmount

LEMMA AccessTold ==
    ASSUME ToldInv, LiveInv, mounted, AccessToken(token), token' = token
    PROVE  ToldInv'
<1>1. ws \in Sockets /\ token \in Nat /\ currentToken' = token
      /\ UNCHANGED <<mounted, ws, sock, serverToken>>
    BY DEF LiveInv, SocketsOK, ToldInv, TokenTypes, AccessToken
<1>2. CASE sock[ws] = "open"
    <2>1. toServer' = [toServer EXCEPT ![ws] = Append(@, token)]
        BY <1>2 DEF AccessToken
    <2>2. toServer' \in [Sockets -> Seq(Nat)]
          /\ toServer'[ws] # <<>> /\ toServer'[ws][Len(toServer'[ws])] = token
        BY <1>1, <2>1, Appended DEF ToldInv
    <2> QED
        BY <1>1, <1>2, <2>2 DEF ToldInv, TokenTypes, Told, Newest
<1>3. CASE sock[ws] # "open"
    <2>1. toServer' = toServer
        BY <1>3 DEF AccessToken
    <2> QED
        BY <1>1, <1>3, <2>1 DEF ToldInv, TokenTypes, Told
<1> QED
    BY <1>2, <1>3

LEMMA OpensTold ==
    ASSUME ToldInv, LiveInv, NEW s \in Sockets, Opens(s), token' = token
    PROVE  ToldInv'
<1>1. mounted /\ s = ws /\ sock[ws] = "opening" /\ ws \in Sockets
    BY DEF Opens, LiveInv, OneLiveSocket
<1>2. toServer[ws] = <<>> /\ serverToken[ws] = 0
    BY <1>1 DEF ToldInv, Told
<1>3. UNCHANGED <<mounted, ws, currentToken, serverToken>> /\ sock'[ws] = "open"
    BY <1>1 DEF Opens, LiveInv, SocketsOK
<1>4. CASE currentToken = 0
    <2>1. toServer' = toServer
        BY <1>4 DEF Opens
    <2> QED
        BY <1>2, <1>3, <1>4, <2>1 DEF ToldInv, TokenTypes, Told, Newest
<1>5. CASE currentToken # 0
    <2>1. toServer' = [toServer EXCEPT ![ws] = Append(@, currentToken)]
        BY <1>5 DEF Opens
    <2>2. toServer' \in [Sockets -> Seq(Nat)]
          /\ toServer'[ws] # <<>> /\ toServer'[ws][Len(toServer'[ws])] = currentToken
        BY <1>1, <2>1, Appended DEF ToldInv, TokenTypes
    <2> QED
        BY <1>3, <2>2 DEF ToldInv, TokenTypes, Told, Newest
<1> QED
    BY <1>4, <1>5

LEMMA EndsTold ==
    ASSUME ToldInv, LiveInv, NEW s \in Sockets, Ends(s), token' = token
    PROVE  ToldInv'
<1>1. /\ UNCHANGED <<mounted, ws, currentToken, serverToken>>
      /\ sock' = [sock EXCEPT ![s] = "closed"] /\ toServer' = [toServer EXCEPT ![s] = <<>>]
    BY DEF Ends
<1>2. TokenTypes'
    BY <1>1 DEF ToldInv, TokenTypes
<1>3. CASE s = ws
    BY <1>1, <1>2, <1>3 DEF ToldInv, Told, LiveInv, SocketsOK
<1>4. CASE s # ws
    <2>1. mounted => ws \in Sockets /\ sock'[ws] = sock[ws] /\ toServer'[ws] = toServer[ws]
        BY <1>1, <1>4 DEF ToldInv, TokenTypes, LiveInv, SocketsOK
    <2> QED
        BY <1>1, <1>2, <2>1 DEF ToldInv, Told, Newest
<1> QED
    BY <1>3, <1>4

LEMMA ReceiveTold ==
    ASSUME ToldInv, LiveInv, NEW s \in Sockets, ServerReceives(s), token' = token
    PROVE  ToldInv'
<1> DEFINE q == toServer[s]
<1>1. /\ UNCHANGED <<mounted, ws, currentToken, sock>> /\ q # <<>>
      /\ toServer' = [toServer EXCEPT ![s] = Tail(q)]
      /\ serverToken' = [serverToken EXCEPT ![s] = Head(q)]
    BY DEF ServerReceives
<1>2. q \in Seq(Nat)
    BY DEF ToldInv, TokenTypes
<1>3. /\ Head(q) \in Nat /\ Head(q) = q[1] /\ Tail(q) \in Seq(Nat) /\ Len(Tail(q)) = Len(q) - 1
      /\ \A i \in 1..Len(Tail(q)) : Tail(q)[i] = q[i + 1]
    BY <1>1, <1>2, HeadTailProperties
<1>4. TokenTypes'
    BY <1>1, <1>3 DEF ToldInv, TokenTypes
<1>5. toServer'[s] = Tail(q) /\ serverToken'[s] = Head(q)
    BY <1>1 DEF ToldInv, TokenTypes
<1>6. Len(q) \in Nat \ {0}
    BY <1>1, <1>2, EmptySeq
<1>7. Newest(s) = q[Len(q)]
    BY <1>1 DEF Newest
<1>8. IF toServer'[s] = <<>> THEN serverToken'[s] = q[Len(q)]
                             ELSE toServer'[s][Len(toServer'[s])] = q[Len(q)]
    <2>1. CASE Tail(q) = <<>>
        <3>0. Len(Tail(q)) = 0
            BY <1>3, <2>1, EmptySeq
        <3>1. Len(q) = 1
            BY <1>3, <1>6, <3>0
        <3> QED
            BY <1>3, <1>5, <2>1, <3>1
    <2>2. CASE Tail(q) # <<>>
        <3>1. Len(q) > 1
            BY <1>3, <1>6, <2>2, EmptySeq
        <3> QED
            BY <1>3, <1>5, <1>6, <2>2, <3>1
    <2> QED
        BY <2>1, <2>2
<1>9. CASE s = ws
    <2>1. mounted => sock[ws] # "opening"
        BY <1>1, <1>9 DEF ToldInv, Told
    <2> QED
        BY <1>1, <1>4, <1>7, <1>8, <1>9, <2>1 DEF ToldInv, Told, Newest
<1>10. CASE s # ws
    <2>1. mounted => ws \in Sockets /\ serverToken'[ws] = serverToken[ws] /\ toServer'[ws] = toServer[ws]
        BY <1>1, <1>10 DEF ToldInv, TokenTypes, LiveInv, SocketsOK
    <2> QED
        BY <1>1, <1>4, <2>1 DEF ToldInv, Told, Newest
<1> QED
    BY <1>9, <1>10

LEMMA LiveTold == ASSUME ToldInv, LiveInv, LiveNext, token' = token PROVE ToldInv'
<1>1. CASE TimerFires
    <2>1. PICK s \in Sockets : Connects(s)
        BY <1>1 DEF TimerFires
    <2> QED
        BY <1>1, <2>1, ConnectTold DEF TimerFires, ToldInv, TokenTypes
<1>2. CASE StrayFires
    BY <1>2 DEF StrayFires, ToldInv, TokenTypes, Told, Newest
<1> QED
    BY <1>1, <1>2, OpensTold, EndsTold, ReceiveTold DEF LiveNext

\* Only a sign-in and a renewal change the token, and never along with LiveState.
LEMMA TokenSteps ==
    ASSUME [Next]_vars, token \in Nat
    PROVE  \/ token' \in Nat /\ UNCHANGED liveVars
           \/ token' = token /\ (Mount(token) \/ Unmount \/ (mounted /\ AccessToken(token)) \/ LiveNext)
<1>1. CASE Effects
    BY <1>1 DEF Effects
<1>2. CASE EndpointsAnswered \/ ControlAnswered \/ UserLoaded \/ Renew \/ SignOut \/ TogglesModal
    BY <1>2 DEF EndpointsAnswered, ControlAnswered, UserLoaded, Renew, SignOut, TogglesModal
<1>3. CASE ClaimDevice \/ CreateSimulator \/ ReleaseDevice \/ SetDisplay
    BY <1>3 DEF ClaimDevice, CreateSimulator, ReleaseDevice, SetDisplay, Asks, pageVars
<1>4. CASE \E device \in Devices \cup {None} : TypesId(device)
    BY <1>4 DEF TypesId
<1>5. CASE \E f \in fetches : ServerAnswers(f) \/ SetResult(f)
    BY <1>5 DEF ServerAnswers, SetResult, pageVars
<1>6. CASE \E op \in ops : ServerHandles(op) \/ Answered(op) \/ DisplayAnswered(op)
    BY <1>6 DEF ServerHandles, Answered, DisplayAnswered, pageVars
<1>7. CASE LiveNext /\ UNCHANGED <<pageVars, shownVars, requestVars>>
    BY <1>7 DEF pageVars
<1>8. CASE UNCHANGED vars
    BY <1>8 DEF vars, pageVars
<1> QED
    BY <1>1, <1>2, <1>3, <1>4, <1>5, <1>6, <1>7, <1>8 DEF Next

(* The event endpoint knows the newest token on whatever socket is open,   *)
(* also one that was renewed while that socket was opening or its          *)
(* predecessor lost (Connection.accessToken and onopen).                   *)
THEOREM NewestTold == Spec => []TokenCurrent
<1>1. Init => ToldInv
    <2> SUFFICES ASSUME LiveInit, token = 0 PROVE ToldInv
        BY DEF Init
    <2> QED
        BY DEF LiveInit, ToldInv, TokenTypes, Told
<1>2. ToldInv /\ LiveInv /\ [Next]_vars => ToldInv'
    <2> SUFFICES ASSUME ToldInv, LiveInv, [Next]_vars PROVE ToldInv'
        OBVIOUS
    <2>1. ASSUME token' \in Nat, UNCHANGED liveVars PROVE ToldInv'
        BY <2>1 DEF liveVars, ToldInv, TokenTypes, Told, Newest
    <2>2. token \in Nat
        BY DEF ToldInv, TokenTypes
    <2> QED
        BY <2>1, <2>2, TokenSteps, MountTold, UnmountTold, AccessTold, LiveTold
<1>3. ToldInv => TokenCurrent
    BY DEF ToldInv, Told, Newest, TokenCurrent, Settled
<1> QED
    BY <1>1, <1>2, <1>3, LiveInvariant, PTL DEF Spec

-----------------------------------------------------------------------------
(* The claim.                                                              *)

Answers == Devices \cup {None, Pending, Failed}
Kinds   == {"claim", "simulator", "release", "display"}

RequestTypes ==
    /\ started \in Nat /\ shownBy \in 0..started
    /\ fetches \subseteq [seq : 1..started, answer : Answers]
    /\ ops \subseteq [slot : Nat, kind : Kinds, device : Devices \cup {None},
                      answer : {Pending, "ok", "error"}]
    /\ deviceIdValue \in Devices \cup {None} /\ serverClaim \in Devices \cup {None}

\* Before the sign-in nothing is asked for.
NotYet == user = "loading" => started = 0 /\ fetches = {} /\ ops = {}

\* An operation the server has handled, whose answer will fetch the claim again.
Reloading == \E op \in ops : op.kind # "display" /\ op.answer # Pending

NewestRight ==
    Dashboard =>
        /\ \A f \in fetches :
            f.seq = started /\ f.answer \notin {Pending, Failed} => f.answer = serverClaim \/ Reloading
        /\ shownBy = started /\ service = "loaded" => claim = serverClaim \/ Reloading

ClaimInv == RequestTypes /\ NotYet /\ NewestRight

\* The steps that change none of this.
claimVars == <<user, crashed, deviceIdValue, shownVars, requestVars>>

LEMMA FetchKeeps ==
    ASSUME ClaimInv, Fetch, UNCHANGED <<deviceIdValue, shownVars>>,
           ops' \subseteq ops, serverClaim' = serverClaim, user' # "loading"
    PROVE  ClaimInv'
<1>1. /\ started \in Nat /\ started' = started + 1 /\ shownBy' = shownBy /\ shownBy \in 0..started
      /\ fetches' = fetches \cup {[seq |-> started + 1, answer |-> Pending]}
    BY DEF Fetch, shownVars, ClaimInv, RequestTypes
<1>2. /\ started' \in Nat /\ shownBy' \in 0..started' /\ shownBy' # started'
      /\ \A n \in 1..started : n \in 1..started' /\ n # started'
      /\ started + 1 \in 1..started'
    BY <1>1
<1>3. \A f \in fetches' : /\ f \in [seq : 1..started', answer : Answers]
                          /\ f.seq = started' => f.answer = Pending
    <2>1. ASSUME NEW f \in fetches
          PROVE  f \in [seq : 1..started', answer : Answers] /\ f.seq # started'
        <3>1. f \in [seq : 1..started, answer : Answers]
            BY DEF ClaimInv, RequestTypes
        <3> QED
            BY <1>2, <3>1
    <2>2. [seq |-> started + 1, answer |-> Pending] \in [seq : 1..started', answer : Answers]
        BY <1>2 DEF Answers
    <2> QED
        BY <1>1, <2>1, <2>2
<1>4. RequestTypes'
    BY <1>2, <1>3 DEF ClaimInv, RequestTypes
<1>5. NewestRight'
    BY <1>2, <1>3 DEF NewestRight
<1> QED
    BY <1>4, <1>5 DEF ClaimInv, NotYet

LEMMA AskKeeps ==
    ASSUME ClaimInv, NEW kind \in Kinds, NEW d \in Devices \cup {None}, Asks(kind, d), Dashboard
    PROVE  ClaimInv'
<1>1. PICK slot \in 1..MaxOps :
          ops' = ops \cup {[slot |-> slot, kind |-> kind, device |-> d, answer |-> Pending]}
    BY DEF Asks
<1>2. UNCHANGED <<user, crashed, deviceIdValue, shownVars, fetches, started, serverClaim>>
    BY DEF Asks, pageVars
<1>3. [slot |-> slot, kind |-> kind, device |-> d, answer |-> Pending]
          \in [slot : Nat, kind : Kinds, device : Devices \cup {None}, answer : {Pending, "ok", "error"}]
    BY ConsoleAppAssumption
<1>4. RequestTypes'
    BY <1>1, <1>2, <1>3 DEF ClaimInv, RequestTypes, shownVars
<1>5. Reloading => Reloading'
    BY <1>1 DEF Reloading
<1>6. NewestRight'
    BY <1>2, <1>5 DEF ClaimInv, NewestRight, Dashboard, shownVars
<1>7. NotYet'
    BY <1>2 DEF NotYet, Dashboard
<1> QED
    BY <1>4, <1>6, <1>7 DEF ClaimInv

LEMMA ServerAnswersKeeps ==
    ASSUME ClaimInv, NEW g \in fetches, ServerAnswers(g)
    PROVE  ClaimInv'
<1>1. PICK answer \in {serverClaim, Failed} :
          fetches' = (fetches \ {g}) \cup {[g EXCEPT !.answer = answer]}
    BY DEF ServerAnswers
<1>2. UNCHANGED <<user, crashed, deviceIdValue, shownVars, started, ops, serverClaim>>
    BY DEF ServerAnswers, pageVars
<1>3. g \in [seq : 1..started, answer : Answers]
    BY DEF ClaimInv, RequestTypes
<1>4. [g EXCEPT !.answer = answer].answer = answer /\ [g EXCEPT !.answer = answer].seq = g.seq
    BY <1>3
<1>5. NewestRight'
    BY <1>1, <1>2, <1>4 DEF ClaimInv, NewestRight, Dashboard, Reloading, shownVars
<1>6. RequestTypes'
    <2>1. answer \in Answers
        BY DEF ClaimInv, RequestTypes, Answers
    <2>2. [g EXCEPT !.answer = answer] \in [seq : 1..started, answer : Answers]
        BY <1>3, <2>1
    <2> QED
        BY <1>1, <1>2, <2>2 DEF ClaimInv, RequestTypes, shownVars
<1>7. NotYet'
    BY <1>1, <1>2 DEF ClaimInv, NotYet
<1> QED
    BY <1>5, <1>6, <1>7 DEF ClaimInv

LEMMA SetResultKeeps ==
    ASSUME ClaimInv, NEW g \in fetches, SetResult(g)
    PROVE  ClaimInv'
<1>1. UNCHANGED <<user, crashed, deviceIdValue, started, ops, serverClaim>>
      /\ fetches' = fetches \ {g} /\ g.answer # Pending
    BY DEF SetResult, pageVars
<1>2. g \in [seq : 1..started, answer : Answers] /\ started \in Nat
    BY DEF ClaimInv, RequestTypes
<1>3. NotYet'
    BY <1>1 DEF ClaimInv, NotYet
<1>4. CASE Dashboard
    <2>1. /\ shownBy' = g.seq
          /\ service' = IF g.answer = Failed THEN "error" ELSE "loaded"
          /\ claim' = IF g.answer = Failed THEN None ELSE g.answer
        BY <1>4 DEF SetResult
    <2>2. RequestTypes'
        BY <1>1, <1>2, <2>1 DEF ClaimInv, RequestTypes
    <2>3. ASSUME g.seq = started, g.answer # Failed
          PROVE  claim' = serverClaim \/ Reloading
        BY <1>1, <1>4, <2>1, <2>3 DEF ClaimInv, NewestRight
    <2>4. Reloading' = Reloading
        BY <1>1 DEF Reloading
    <2>5. shownBy' = started /\ service' = "loaded" => claim' = serverClaim \/ Reloading
        BY <2>1, <2>3
    <2>6. NewestRight'
        BY <1>1, <1>4, <2>4, <2>5 DEF ClaimInv, NewestRight
    <2> QED
        BY <1>3, <2>2, <2>6 DEF ClaimInv
<1>5. CASE ~Dashboard
    <2>1. UNCHANGED shownVars
        BY <1>5 DEF SetResult
    <2>2. ~Dashboard'
        BY <1>1, <1>5 DEF Dashboard
    <2> QED
        BY <1>1, <1>3, <2>1, <2>2 DEF ClaimInv, RequestTypes, NewestRight, shownVars
<1> QED
    BY <1>4, <1>5

LEMMA ServerHandlesKeeps ==
    ASSUME ClaimInv, NEW o \in ops, ServerHandles(o)
    PROVE  ClaimInv'
<1>1. PICK answer \in {"ok", "error"}, accepted \in BOOLEAN :
          /\ ops' = (ops \ {o}) \cup {[o EXCEPT !.answer = answer]}
          /\ serverClaim' = IF accepted THEN Outcome(o) ELSE serverClaim
    BY DEF ServerHandles
<1>2. UNCHANGED <<user, crashed, deviceIdValue, shownVars, fetches, started>> /\ o.answer = Pending
    BY DEF ServerHandles, pageVars
<1> DEFINE new == [o EXCEPT !.answer = answer]
<1>3. /\ o \in [slot : Nat, kind : Kinds, device : Devices \cup {None}, answer : {Pending, "ok", "error"}]
      /\ serverClaim \in Devices \cup {None}
    BY DEF ClaimInv, RequestTypes
<1>4. /\ new \in [slot : Nat, kind : Kinds, device : Devices \cup {None}, answer : {Pending, "ok", "error"}]
      /\ new.kind = o.kind /\ new.answer = answer /\ answer # Pending
    BY <1>3, ConsoleAppAssumption
<1>5. serverClaim' \in Devices \cup {None} /\ (o.kind = "display" => serverClaim' = serverClaim)
    BY <1>1, <1>3 DEF Outcome, Kinds
<1>6. RequestTypes'
    BY <1>1, <1>2, <1>4, <1>5 DEF ClaimInv, RequestTypes, shownVars
<1>7. new \in ops'
    BY <1>1
<1>8. NewestRight'
    <2>1. CASE o.kind = "display"
        <3>1. Reloading => Reloading'
            BY <1>1, <1>2, <2>1 DEF Reloading
        <3> QED
            BY <1>2, <1>5, <2>1, <3>1 DEF ClaimInv, NewestRight, Dashboard, shownVars
    <2>2. CASE o.kind # "display"
        <3>1. Reloading'
            BY <1>4, <1>7, <2>2 DEF Reloading
        <3> QED
            BY <3>1 DEF NewestRight
    <2> QED
        BY <2>1, <2>2
<1>9. NotYet'
    BY <1>2 DEF ClaimInv, NotYet
<1> QED
    BY <1>6, <1>8, <1>9 DEF ClaimInv

LEMMA AnsweredKeeps ==
    ASSUME ClaimInv, NEW o \in ops, Answered(o)
    PROVE  ClaimInv'
<1>1. UNCHANGED <<user, crashed, deviceIdValue, shownVars, serverClaim>> /\ ops' = ops \ {o}
    BY DEF Answered
<1>2. user # "loading"
    BY DEF ClaimInv, NotYet
<1>3. CASE Dashboard
    <2>1. Fetch
        BY <1>3 DEF Answered, Reloads
    <2> QED
        BY <1>1, <1>2, <2>1, FetchKeeps
<1>4. CASE ~Dashboard
    <2>1. UNCHANGED <<started, fetches>>
        BY <1>4 DEF Answered
    <2> QED
        BY <1>1, <1>2, <1>4, <2>1 DEF ClaimInv, RequestTypes, NotYet, NewestRight, Dashboard, shownVars
<1> QED
    BY <1>3, <1>4

LEMMA DisplayAnsweredKeeps ==
    ASSUME ClaimInv, NEW o \in ops, DisplayAnswered(o)
    PROVE  ClaimInv'
<1>1. /\ UNCHANGED <<user, deviceIdValue, shownVars, fetches, started, serverClaim>>
      /\ ops' = ops \ {o} /\ o.kind = "display" /\ (crashed => crashed')
    BY DEF DisplayAnswered
<1>2. Reloading => Reloading'
    BY <1>1 DEF Reloading
<1>3. NewestRight'
    BY <1>1, <1>2 DEF ClaimInv, NewestRight, Dashboard, shownVars
<1> QED
    BY <1>1, <1>3 DEF ClaimInv, RequestTypes, NotYet, shownVars

LEMMA ClaimStep == ClaimInv /\ [Next]_vars => ClaimInv'
<1> SUFFICES ASSUME ClaimInv, [Next]_vars PROVE ClaimInv'
    OBVIOUS
<1> USE DEF requestVars
<1>a. ASSUME UNCHANGED claimVars PROVE ClaimInv'
    BY <1>a DEF claimVars, shownVars, ClaimInv, RequestTypes, NotYet, NewestRight, Reloading, Dashboard
<1>1. CASE Effects \/ EndpointsAnswered \/ ControlAnswered \/ TogglesModal
    BY <1>1, <1>a DEF claimVars, Effects, EndpointsAnswered, ControlAnswered, TogglesModal
<1>2. CASE UserLoaded
    <2>1. UNCHANGED <<deviceIdValue, shownVars, ops, serverClaim, crashed>>
        BY <1>2 DEF UserLoaded
    <2>2. CASE user' = "in" /\ Fetch
        BY <2>1, <2>2, FetchKeeps
    <2>3. CASE user' = "out" /\ UNCHANGED <<started, fetches>>
        BY <2>1, <2>3 DEF ClaimInv, RequestTypes, NotYet, NewestRight, Dashboard, shownVars
    <2> QED
        BY <1>2, <2>2, <2>3 DEF UserLoaded
<1>3. CASE Renew
    BY <1>3, FetchKeeps DEF Renew, Dashboard
<1>4. CASE SignOut
    BY <1>4 DEF SignOut, ClaimInv, RequestTypes, NotYet, NewestRight, Dashboard, shownVars
<1>5. CASE \E f \in fetches : ServerAnswers(f) \/ SetResult(f)
    BY <1>5, ServerAnswersKeeps, SetResultKeeps
<1>6. CASE \E device \in Devices \cup {None} : TypesId(device)
    <2>1. deviceIdValue' \in Devices \cup {None} /\ UNCHANGED <<user, crashed, shownVars, requestVars>>
        BY <1>6 DEF TypesId
    <2> QED
        BY <2>1 DEF ClaimInv, RequestTypes, NotYet, NewestRight, Reloading, Dashboard, shownVars
<1>7. CASE ClaimDevice \/ CreateSimulator \/ ReleaseDevice \/ SetDisplay
    <2>1. Dashboard
        BY <1>7 DEF ClaimDevice, CreateSimulator, ReleaseDevice, SetDisplay, Claimed, Unclaimed
    <2>2. PICK kind \in Kinds, d \in Devices \cup {None} : Asks(kind, d)
        <3>1. deviceIdValue \in Devices \cup {None}
            BY DEF ClaimInv, RequestTypes
        <3>2. {"claim", "simulator", "release", "display"} \subseteq Kinds
            BY DEF Kinds
        <3> QED
            BY <1>7, <3>1, <3>2 DEF ClaimDevice, CreateSimulator, ReleaseDevice, SetDisplay
    <2> QED
        BY <2>1, <2>2, AskKeeps
<1>8. CASE \E op \in ops : ServerHandles(op) \/ Answered(op) \/ DisplayAnswered(op)
    BY <1>8, ServerHandlesKeeps, AnsweredKeeps, DisplayAnsweredKeeps
<1>9. CASE LiveNext /\ UNCHANGED <<pageVars, shownVars, requestVars>>
    BY <1>9, <1>a DEF claimVars, pageVars
<1>10. CASE UNCHANGED vars
    BY <1>10, <1>a DEF claimVars, vars, pageVars
<1> QED
    BY <1>1, <1>2, <1>3, <1>4, <1>5, <1>6, <1>7, <1>8, <1>9, <1>10 DEF Next

(* With no request under way, and the newest fetch applied last, the page  *)
(* shows the claim the server has, whatever succeeded, was refused, or     *)
(* failed after it was done: each answer of an operation fetches again, a  *)
(* failure too (Dashboard.tsx).                                            *)
THEOREM ClaimShown == Spec => []ShowsClaim
<1>1. Init => ClaimInv
    BY DEF Init, ClaimInv, RequestTypes, NotYet, NewestRight, Dashboard
<1>2. ClaimInv => ShowsClaim
    BY DEF ClaimInv, NewestRight, Reloading, ShowsClaim, Claimed, Unclaimed
<1> QED
    BY <1>1, <1>2, ClaimStep, PTL DEF Spec
=============================================================================
