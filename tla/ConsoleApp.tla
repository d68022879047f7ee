----------------------------- MODULE ConsoleApp -----------------------------
(***************************************************************************)
(* The console's page, one tab of one user: what it fetches and shows      *)
(* (useEndpoints and useGameService of app/backend.ts), the operations of  *)
(* the Dashboard and of DeviceControl, and with LiveState the live view of *)
(* the claimed device.                                                     *)
(*                                                                         *)
(* Requests and answers overtake one another.  Effects run after a render  *)
(* and before the next one: see Settled.  The console's server, which      *)
(* Claims models, the browser, React and oidc-react are external; a        *)
(* request the page takes to have failed was handled before, or never.     *)
(***************************************************************************)
EXTENDS LiveState, FiniteSets

CONSTANTS
    Devices,
    MaxFetches,  \* bound: fetches of the claim
    MaxOps,      \* bound: operations at a time
    Pending, Failed

ASSUME ConsoleAppAssumption ==
    /\ {None, Pending, Failed} \cap Devices = {} /\ Pending \notin {"ok", "error"}
    /\ MaxFetches \in Nat /\ MaxOps \in Nat

VARIABLES
    endpoints,    \* of App: "loading", "loaded", "error"
    control,      \* those of DeviceControl, which fetches its own
    user,         \* "loading", "in", "out"
    token,        \* auth.userData.access_token
    crashed,      \* an error in a render took the whole page down
    service,      \* "loading", "loaded", "error": status of useGameService's result
    claim,        \* its payload, None for null
    fetches,      \* fetches of the claim under way: [seq, answer]
    started,      \* fetches started so far
    shownBy,      \* the fetch that result is of
    isModalOpen, deviceIdValue,
    ops,          \* operations under way
    serverClaim   \* the user's claim at the server

requestVars == <<fetches, started, ops, serverClaim>>
shownVars   == <<service, claim, shownBy>>
pageVars    == <<endpoints, control, user, token, crashed, isModalOpen, deviceIdValue>>
vars == <<pageVars, shownVars, requestVars, liveVars>>

Init ==
    /\ LiveInit
    /\ endpoints = "loading" /\ control = "loading" /\ user = "loading" /\ token = 0
    /\ crashed = FALSE
    /\ service = "loading" /\ claim = None /\ shownBy = 0
    /\ fetches = {} /\ started = 0
    /\ isModalOpen = FALSE /\ deviceIdValue = None
    /\ ops = {} /\ serverClaim \in Devices \cup {None}

-----------------------------------------------------------------------------
(* What is rendered.                                                       *)

Dashboard == ~crashed /\ user = "in"

Claimed   == Dashboard /\ service = "loaded" /\ claim # None
Unclaimed == Dashboard /\ service = "loaded" /\ claim = None

(* The effects of the last render have run.                                *)
Settled == mounted = Claimed /\ (mounted => currentToken = token)

(* DeviceState and DeviceControl come and go with the claim.               *)
Effects ==
    /\ ~Settled
    /\ \/ ~mounted /\ Mount(token) /\ control' = "loading"
       \/ ~Claimed /\ Unmount /\ UNCHANGED control
       \/ mounted /\ Claimed /\ AccessToken(token) /\ UNCHANGED control
    /\ UNCHANGED <<endpoints, user, token, crashed, isModalOpen, deviceIdValue, shownVars, requestVars>>

-----------------------------------------------------------------------------
(* Loading.                                                                *)

(* useEndpoints, once for each component that uses it.                     *)
EndpointsAnswered ==
    /\ endpoints = "loading" /\ endpoints' \in {"loaded", "error"}
    /\ UNCHANGED <<control, user, token, crashed, isModalOpen, deviceIdValue, shownVars, requestVars, liveVars>>

ControlAnswered ==
    /\ Settled /\ mounted
    /\ control = "loading" /\ control' \in {"loaded", "error"}
    /\ UNCHANGED <<endpoints, user, token, crashed, isModalOpen, deviceIdValue, shownVars, requestVars, liveVars>>

(* The effect of useGameService, when auth, trigger or the endpoints       *)
(* change.                                                                 *)
Fetch ==
    /\ started' = started + 1
    /\ fetches' = fetches \cup {[seq |-> started + 1, answer |-> Pending]}

Room == started + Cardinality(ops) < MaxFetches

(* AuthProvider has the user, or has none: the Login page.                 *)
UserLoaded ==
    /\ endpoints = "loaded" /\ user = "loading"
    /\ \/ user' = "in" /\ token' = 1 /\ Fetch
       \/ user' = "out" /\ UNCHANGED <<token, started, fetches>>
    /\ UNCHANGED <<endpoints, control, crashed, isModalOpen, deviceIdValue, shownVars, ops, serverClaim, liveVars>>

(* automaticSilentRenew.                                                   *)
Renew ==
    /\ Dashboard /\ Settled /\ Room
    /\ token' = token + 1 /\ Fetch
    /\ UNCHANGED <<endpoints, control, user, crashed, isModalOpen, deviceIdValue, shownVars, ops, serverClaim, liveVars>>

(* Logout: the Login page; to sign in again leaves this page.              *)
SignOut ==
    /\ Dashboard /\ Settled /\ user' = "out"
    /\ UNCHANGED <<endpoints, control, token, crashed, isModalOpen, deviceIdValue, shownVars, requestVars, liveVars>>

-----------------------------------------------------------------------------
(* The claim.                                                              *)

ServerAnswers(f) ==
    /\ f.answer = Pending
    /\ \E answer \in {serverClaim, Failed} :
          fetches' = (fetches \ {f}) \cup {[f EXCEPT !.answer = answer]}
    /\ UNCHANGED <<pageVars, shownVars, started, ops, serverClaim, liveVars>>

(* then or catch: whichever answer comes last is shown.                    *)
SetResult(f) ==
    /\ f.answer # Pending
    /\ fetches' = fetches \ {f}
    /\ IF Dashboard
       THEN /\ Settled
            /\ service' = IF f.answer = Failed THEN "error" ELSE "loaded"
            /\ claim' = IF f.answer = Failed THEN None ELSE f.answer
            /\ shownBy' = f.seq
       ELSE UNCHANGED shownVars
    /\ UNCHANGED <<pageVars, started, ops, serverClaim, liveVars>>

-----------------------------------------------------------------------------
(* The operations: asked for, handled by the server, answered.             *)

Asks(kind, device) ==
    /\ Settled /\ Room
    /\ \E slot \in (1..MaxOps) \ {op.slot : op \in ops} :
          ops' = ops \cup {[slot |-> slot, kind |-> kind, device |-> device, answer |-> Pending]}
    /\ UNCHANGED <<pageVars, shownVars, fetches, started, serverClaim, liveVars>>

(* handleDeviceIdChange, and "Claim device", Cancel or closing the dialog. *)
TypesId(device) ==
    /\ Unclaimed /\ Settled /\ isModalOpen /\ deviceIdValue' = device
    /\ UNCHANGED <<endpoints, control, user, token, crashed, isModalOpen, shownVars, requestVars, liveVars>>

TogglesModal ==
    /\ Unclaimed /\ Settled /\ isModalOpen' = ~isModalOpen
    /\ UNCHANGED <<endpoints, control, user, token, crashed, deviceIdValue, shownVars, requestVars, liveVars>>

(* onClaimDevice: the button asks for an id, the Enter key does not (an    *)
(* empty one is None).                                                     *)
ClaimDevice     == Unclaimed /\ isModalOpen /\ Asks("claim", deviceIdValue)
CreateSimulator == Unclaimed /\ ~isModalOpen /\ \E d \in Devices : Asks("simulator", d)
ReleaseDevice   == Claimed /\ Asks("release", None)
SetDisplay      == Claimed /\ control = "loaded" /\ Asks("display", None)

(* What the server makes of an operation that it accepts.                  *)
Outcome(op) ==
    CASE op.kind \in {"claim", "simulator"} -> op.device
      [] op.kind = "release" -> None
      [] op.kind = "display" -> serverClaim

ServerHandles(op) ==
    /\ op.answer = Pending
    /\ \E answer \in {"ok", "error"}, accepted \in BOOLEAN :
          /\ answer = "ok" => accepted
          /\ accepted /\ op.kind \in {"claim", "simulator"} => serverClaim = None /\ op.device # None
          /\ ops' = (ops \ {op}) \cup {[op EXCEPT !.answer = answer]}
          /\ serverClaim' = IF accepted THEN Outcome(op) ELSE serverClaim
    /\ UNCHANGED <<pageVars, shownVars, fetches, started, liveVars>>

\* Mutant: reload() in the try block.
ReloadsOnSuccess(op) == IF op.answer = "ok" THEN Fetch ELSE UNCHANGED <<started, fetches>>

(* reload(), a toast later: after a success and after a failure.           *)
Reloads(op) == Fetch

(* The dialog is toggled from what it was when the claim was asked for.    *)
Answered(op) ==
    /\ op.kind # "display" /\ op.answer # Pending
    /\ ops' = ops \ {op}
    /\ IF Dashboard
       THEN Settled /\ Reloads(op) /\ isModalOpen' = (op.kind # "claim" /\ isModalOpen)
       ELSE UNCHANGED <<started, fetches, isModalOpen>>
    /\ UNCHANGED <<endpoints, control, user, token, crashed, deviceIdValue, shownVars, serverClaim, liveVars>>

(* onClick of DeviceControl: the toast of a failure renders the error      *)
(* itself, which React cannot.                                             *)
DisplayAnswered(op) ==
    /\ op.kind = "display" /\ op.answer # Pending /\ Settled
    /\ ops' = ops \ {op}
    /\ crashed' = (crashed \/ op.answer = "error")
    /\ UNCHANGED <<endpoints, control, user, token, isModalOpen, deviceIdValue, shownVars, fetches, started, serverClaim, liveVars>>

Next ==
    \/ Effects \/ EndpointsAnswered \/ ControlAnswered \/ UserLoaded \/ Renew \/ SignOut
    \/ \E f \in fetches : ServerAnswers(f) \/ SetResult(f)
    \/ \E device \in Devices \cup {None} : TypesId(device)
    \/ TogglesModal
    \/ ClaimDevice \/ CreateSimulator \/ ReleaseDevice \/ SetDisplay
    \/ \E op \in ops : ServerHandles(op) \/ Answered(op) \/ DisplayAnswered(op)
    \/ LiveNext /\ UNCHANGED <<pageVars, shownVars, requestVars>>

Spec == Init /\ [][Next]_vars

-----------------------------------------------------------------------------
(* With no request under way the Dashboard shows the user's claim as the   *)
(* server has it, whether operations succeeded, were refused, or failed    *)
(* after the server had carried them out; unless the last answer was an    *)
(* error, or answers overtook one another and an older one is shown.       *)
ShowsClaim ==
    (Claimed \/ Unclaimed) /\ fetches = {} /\ ops = {} /\ shownBy = started => claim = serverClaim

(* The event endpoint knows the newest token, on whatever socket is open:  *)
(* renewed while it was opening, lost or connecting again.                 *)
TokenCurrent ==
    Settled /\ mounted /\ sock[ws] = "open" /\ toServer[ws] = <<>> => serverToken[ws] = token
=============================================================================
