-------------------------- MODULE EventDispatcher --------------------------
(***************************************************************************)
(* Live device state of the console: EventDispatcher stores the latest     *)
(* state of every device and sends it to the subscriptions of WebSocket    *)
(* sessions (EventSession).                                                *)
(*                                                                         *)
(* Two kinds of threads broadcast: the one of the event stream, and the    *)
(* HTTP threads that release a claim.  Storing a state and sending it are  *)
(* two steps.  A token is checked on a worker thread, the claim of its     *)
(* user is read on another, the latest state after that, and only then is  *)
(* the subscription attached to the device's broadcast.                    *)
(*                                                                         *)
(* A state is abstracted to its version: how many states have been stored  *)
(* for the device so far.                                                  *)
(***************************************************************************)
EXTENDS Naturals, FiniteSets

CONSTANTS
    Ids,            \* devices, by claim id
    Broadcasters,   \* threads that may broadcast
    Sessions,       \* WebSocket sessions
    Tokens,         \* the token messages the sessions may send
    SessionOf,      \* the session a token message comes in
    MaxVersion,     \* bound: states stored for a device
    None

ASSUME SessionOfAssumption == SessionOf \in [Tokens -> Sessions]
ASSUME NoneAssumption == None \notin Ids \cup Tokens

VARIABLES
    claim,          \* the device the user of a session has claimed
    version,        \* latestState: the version stored for a device, 0 for none
    sending,        \* what a thread has stored and not sent yet
    session,        \* "absent", "open", "closing" or "closed"
    identity,       \* EventSession.identity: "none", "valid" or "expired"
    current,        \* EventSession.subscription: the token it was made for
    auth,           \* the handling of a token message
    sub,            \* the subscription made for a token
    device,         \* the device it is for
    view,           \* the version last sent to it
    late,           \* tokens whose check had not ended when their session closed
    twin,           \* tokens that found no identity while another was being set
    missed,         \* subscriptions a broadcast went past while they were attached
    crossed         \* devices two broadcasts of which have overlapped

sessionVars == <<session, identity, current, auth, late, twin>>
subVars     == <<sub, device, view, missed>>
stateVars   == <<version, sending, crossed>>
eventsVars == <<claim, stateVars, sessionVars, subVars>>

Active == {"claim", "read", "attach", "live"}

Idle == [id |-> None, version |-> 0]

EventsTypeOK ==
    /\ claim    \in [Sessions -> Ids \cup {None}]
    /\ version  \in [Ids -> 0..MaxVersion]
    /\ sending  \in [Broadcasters -> [id : Ids \cup {None}, version : 0..MaxVersion]]
    /\ session  \in [Sessions -> {"absent", "open", "closing", "closed"}]
    /\ identity \in [Sessions -> {"none", "valid", "expired"}]
    /\ current  \in [Sessions -> Tokens \cup {None}]
    /\ auth     \in [Tokens -> {"unsent", "check", "set", "done"}]
    /\ sub      \in [Tokens -> Active \cup {"none", "ended", "cancelled"}]
    /\ device   \in [Tokens -> Ids \cup {None}]
    /\ view     \in [Tokens -> 0..MaxVersion]
    /\ late \subseteq Tokens /\ twin \subseteq Tokens /\ missed \subseteq Tokens
    /\ crossed \subseteq Ids

EventsInit ==
    /\ claim    \in [Sessions -> Ids \cup {None}]
    /\ version  = [i \in Ids |-> 0]
    /\ sending  = [b \in Broadcasters |-> Idle]
    /\ session  = [s \in Sessions |-> "absent"]
    /\ identity = [s \in Sessions |-> "none"]
    /\ current  = [s \in Sessions |-> None]
    /\ auth     = [t \in Tokens |-> "unsent"]
    /\ sub      = [t \in Tokens |-> "none"]
    /\ device   = [t \in Tokens |-> None]
    /\ view     = [t \in Tokens |-> 0]
    /\ late = {} /\ twin = {} /\ missed = {} /\ crossed = {}

-----------------------------------------------------------------------------
(* broadcast: put or merge, then onNext.                                   *)

InFlight(i) == {b \in Broadcasters : sending[b].id = i}

\* Mutant: the state sent is the one put() returns, the previous one.
StorePrevious(b) ==
    /\ sending[b] = Idle
    /\ \E i \in Ids :
        /\ version[i] < MaxVersion
        /\ version' = [version EXCEPT ![i] = @ + 1]
        /\ sending' = [sending EXCEPT ![b] = [id |-> i, version |-> version[i]]]
        /\ crossed' = IF InFlight(i) = {} THEN crossed \ {i} ELSE crossed \cup {i}
    /\ UNCHANGED <<claim, sessionVars, subVars>>

Store(b) ==
    /\ sending[b] = Idle
    /\ \E i \in Ids :
        /\ version[i] < MaxVersion
        /\ version' = [version EXCEPT ![i] = @ + 1]
        /\ sending' = [sending EXCEPT ![b] = [id |-> i, version |-> version[i] + 1]]
        /\ crossed' = IF InFlight(i) = {} THEN crossed \ {i} ELSE crossed \cup {i}
    /\ UNCHANGED <<claim, sessionVars, subVars>>

Watchers(i) == {t \in Tokens : sub[t] = "live" /\ device[t] = i}

\* Subscriptions that have read a state and are not attached yet miss this one.
Send(b) ==
    /\ sending[b] # Idle
    /\ LET i == sending[b].id IN
        /\ view' = [t \in Tokens |-> IF t \in Watchers(i) THEN sending[b].version ELSE view[t]]
        /\ missed' = (missed \ Watchers(i)) \cup {t \in Tokens : sub[t] = "attach" /\ device[t] = i}
    /\ sending' = [sending EXCEPT ![b] = Idle]
    /\ UNCHANGED <<claim, version, crossed, sessionVars, sub, device>>

-----------------------------------------------------------------------------
(* WebSocketEndpoint and EventSession.                                     *)

Open(s) ==
    /\ session[s] = "absent"
    /\ session' = [session EXCEPT ![s] = "open"]
    /\ UNCHANGED <<claim, stateVars, identity, current, auth, late, twin, subVars>>

\* remoteMessage: a session that is not in the map any more is not found.
Message(t) ==
    /\ auth[t] = "unsent"
    /\ session[SessionOf[t]] \in {"open", "closing"}
    /\ auth' = [auth EXCEPT ![t] = "check"]
    /\ UNCHANGED <<claim, stateVars, session, identity, current, late, twin, subVars>>

AskToClose(s) == session' = [session EXCEPT ![s] = IF @ = "open" THEN "closing" ELSE @]

\* The token is refused.
Refuse(t) ==
    /\ auth[t] = "check"
    /\ auth' = [auth EXCEPT ![t] = "done"]
    /\ AskToClose(SessionOf[t])
    /\ UNCHANGED <<claim, stateVars, identity, current, late, twin, subVars>>

\* Mutant: a later token subscribes once more.
SetIdentityAgain(t) ==
    /\ auth[t] = "check"
    /\ auth' = [auth EXCEPT ![t] = "set"]
    /\ UNCHANGED <<claim, stateVars, session, identity, current, late, twin, subVars>>

\* setIdentity: the first identity subscribes, a later one replaces the first.
SetIdentity(t) ==
    LET s == SessionOf[t] IN
    /\ auth[t] = "check"
    /\ IF identity[s] = "none"
       THEN /\ auth' = [auth EXCEPT ![t] = "set"]
            /\ twin' = IF \E u \in Tokens : SessionOf[u] = s /\ auth[u] = "set"
                       THEN twin \cup {u \in Tokens : SessionOf[u] = s /\ (u = t \/ auth[u] = "set")}
                       ELSE twin
            /\ UNCHANGED identity
       ELSE /\ identity' = [identity EXCEPT ![s] = "valid"]
            /\ auth' = [auth EXCEPT ![t] = "done"]
            /\ UNCHANGED twin
    /\ UNCHANGED <<claim, stateVars, session, current, late, subVars>>

\* subscribe, on the thread that found no identity.
Subscribe(t) ==
    LET s == SessionOf[t] IN
    /\ auth[t] = "set"
    /\ identity' = [identity EXCEPT ![s] = "valid"]
    /\ current'  = [current EXCEPT ![s] = t]
    /\ auth'     = [auth EXCEPT ![t] = "done"]
    /\ sub'      = [sub EXCEPT ![t] = "claim"]
    /\ UNCHANGED <<claim, stateVars, session, late, twin, device, view, missed>>

\* Mutant: close forgets the subscription without cancelling it.
DisposeForgets(s) ==
    /\ session[s] \in {"open", "closing"}
    /\ session' = [session EXCEPT ![s] = "closed"]
    /\ late' = late \cup {t \in Tokens : SessionOf[t] = s /\ auth[t] \in {"check", "set"}}
    /\ current' = [current EXCEPT ![s] = None]
    /\ UNCHANGED <<claim, stateVars, identity, auth, twin, subVars>>

\* EventSession.close cancels what the session knows of.
Dispose(s) ==
    /\ session[s] \in {"open", "closing"}
    /\ session' = [session EXCEPT ![s] = "closed"]
    /\ late' = late \cup {t \in Tokens : SessionOf[t] = s /\ auth[t] \in {"check", "set"}}
    /\ sub' = [t \in Tokens |-> IF t = current[s] /\ sub[t] \in Active THEN "cancelled" ELSE sub[t]]
    /\ current' = [current EXCEPT ![s] = None]
    /\ UNCHANGED <<claim, stateVars, identity, auth, twin, device, view, missed>>

\* The token runs out; every 15 s a session looks at its identity.
Expire(s) ==
    /\ identity[s] = "valid"
    /\ identity' = [identity EXCEPT ![s] = "expired"]
    /\ UNCHANGED <<claim, stateVars, session, current, auth, late, twin, subVars>>

Tick(s) ==
    /\ session[s] = "open"
    /\ identity[s] = "expired"
    /\ AskToClose(s)
    /\ UNCHANGED <<claim, stateVars, identity, current, auth, late, twin, subVars>>

-----------------------------------------------------------------------------
(* EventDispatcher.subscribe: claim, latest state, broadcast.              *)

ReadClaim(t) ==
    LET i == claim[SessionOf[t]] IN
    /\ sub[t] = "claim"
    /\ device' = [device EXCEPT ![t] = i]
    /\ sub' = [sub EXCEPT ![t] = IF i = None THEN "ended" ELSE "read"]
    /\ UNCHANGED <<claim, stateVars, sessionVars, view, missed>>

\* Mutant: a new subscription is not sent the latest state.
ReadLatestUnattached(t) ==
    /\ sub[t] = "read"
    /\ sub' = [sub EXCEPT ![t] = "attach"]
    /\ UNCHANGED <<claim, stateVars, sessionVars, device, view, missed>>

ReadLatest(t) ==
    /\ sub[t] = "read"
    /\ view' = [view EXCEPT ![t] = version[device[t]]]
    /\ sub'  = [sub EXCEPT ![t] = "attach"]
    /\ UNCHANGED <<claim, stateVars, sessionVars, device, missed>>

Attach(t) ==
    /\ sub[t] = "attach"
    /\ sub' = [sub EXCEPT ![t] = "live"]
    /\ UNCHANGED <<claim, stateVars, sessionVars, device, view, missed>>

\* PreDestroy: every broadcast completes, also for those about to attach to it.
\* The container has stopped the event stream and the HTTP threads before.
Shutdown ==
    /\ \A b \in Broadcasters : sending[b] = Idle
    /\ sub' = [t \in Tokens |-> IF sub[t] \in Active \ {"claim"} THEN "ended" ELSE sub[t]]
    /\ sub' # sub
    /\ UNCHANGED <<claim, stateVars, sessionVars, device, view, missed>>

\* Another part of the console claims a device for the user, or releases it.
Reclaim(s) ==
    /\ \E i \in (Ids \cup {None}) \ {claim[s]} : claim' = [claim EXCEPT ![s] = i]
    /\ UNCHANGED <<stateVars, sessionVars, subVars>>

EventsNext ==
    \/ \E b \in Broadcasters : Store(b) \/ Send(b)
    \/ \E s \in Sessions : Open(s) \/ Dispose(s) \/ Expire(s) \/ Tick(s) \/ Reclaim(s)
    \/ \E t \in Tokens :
        \/ Message(t) \/ Refuse(t) \/ SetIdentity(t) \/ Subscribe(t)
        \/ ReadClaim(t) \/ ReadLatest(t) \/ Attach(t)
    \/ Shutdown

\* Threads that have work do it.
Fairness ==
    /\ \A b \in Broadcasters : WF_eventsVars(Send(b))
    /\ \A t \in Tokens :
        /\ WF_eventsVars(Subscribe(t))
        /\ WF_eventsVars(ReadClaim(t) \/ ReadLatest(t) \/ Attach(t))

EventsSpec == EventsInit /\ [][EventsNext]_eventsVars /\ Fairness

-----------------------------------------------------------------------------
(* Properties.                                                             *)

\* Between broadcasts every attached session shows the latest state of its
\* device, whatever the order in which its subscription and the broadcasts ran:
\* the only ways to show an older one are a broadcast in the gap between reading
\* the latest state and attaching (EventDispatcher.java:115-118), and two
\* broadcasts for the device that overlap (84-91).
InSync ==
    \A t \in Tokens :
        (/\ sub[t] = "live"
         /\ InFlight(device[t]) = {}
         /\ t \notin missed
         /\ device[t] \notin crossed) => view[t] = version[device[t]]

\* What a session shows never goes back to an older state, except while two
\* broadcasts for its device overlap.
NeverBack ==
    [][\A t \in Tokens : view'[t] >= view[t] \/ device[t] \in crossed]_eventsVars

\* EventSession.close leaves nothing running: a subscription outlives its session
\* only if its token was still being checked then, or if it is one of two that
\* both found no identity (EventSession.java:104-108).
NothingLeaks ==
    \A t \in Tokens :
        (session[SessionOf[t]] = "closed" /\ sub[t] \in Active) => t \in late \cup twin

\* However many tokens a session sends, to renew the first one, it has one
\* subscription, unless two were checked at the same time.
OneStream ==
    \A t, u \in Tokens :
        (/\ t # u /\ SessionOf[t] = SessionOf[u]
         /\ sub[t] \in Active /\ sub[u] \in Active) => {t, u} \subseteq twin

\* No state is withheld from a subscription that knows its device: each state that
\* is stored, or a newer one, is shown at some later moment, whatever broadcasts are
\* under way and however far the subscription has got (EventDispatcher.java:84-91,
\* 113-118).  The subscription ends before, or one of the two races of InSync was
\* run into.
ReachesWatchers ==
    \A t \in Tokens, v \in 1..MaxVersion :
        (sub[t] \in {"read", "attach", "live"} /\ version[device[t]] >= v)
            ~> (\/ view[t] >= v
                \/ sub[t] \in {"ended", "cancelled"}
                \/ t \in missed \/ device[t] \in crossed)
=============================================================================
