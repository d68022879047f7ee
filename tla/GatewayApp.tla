----------------------------- MODULE GatewayApp -----------------------------
(***************************************************************************)
(* The gateway process: its main loop, the gateway task, the provisioner   *)
(* task and the node configurator, run concurrently by tokio.              *)
(***************************************************************************)
EXTENDS Gateway, Provisioner

vars == <<busVars, gwVars, prNext, prPc, exited, handled, hand, provVars, nodeConfVars>>

TypeOK == BusTypeOK /\ GwTypeOK /\ PrTypeOK

Init == BusInit /\ GwInit /\ PrInit

Main == Forward \/ Wake \/ CtrlC \/ Exit

\* A step of the main loop or of the gateway task, and one of the other tasks.
Upper(A) == ~exited /\ A /\ UNCHANGED <<hand, provVars, nodeConfVars>>
Lower(A) == ~exited /\ A /\ UNCHANGED handled

Next ==
    \/ Upper(Main /\ UNCHANGED handled)
    \/ Upper(GwStep)
    \/ Lower(PrArms) \/ Lower(PrBody)
    \/ Lower(ConfiguratorStep) \/ Lower(Age) \/ Lower(BluezTells) \/ Lower(BluezEnds)

\* The executor runs the provisioner and the configurator, and the calls they wait
\* for return.  select! polls its arms in a random order, so an arm that is ready
\* again and again is taken.  A job ends while BlueZ is there, and the nodes do not
\* send element messages for ever (NodeConfigurator).  BlueZ need not end, nor the
\* clock tick, nor commands come.
Fairness ==
    /\ SF_vars(Lower(PrEvent)) /\ SF_vars(Lower(PrProvision))
    /\ WF_vars(Lower(PrBody))
    /\ WF_vars(Lower(ConfiguratorStep /\ (cfg = "busy" => provOpen)))

Spec == Init /\ [][Next]_vars /\ Fairness

-----------------------------------------------------------------------------
(* Properties.                                                             *)

\* The gateway task would rather end than skip a command: every "sensor" command
\* it has gone past was given to BlueZ, however far it fell behind (gateway.rs,
\* Err(_) => break).
GatewayNeverSkips ==
    \A i \in 1..(gwNext - 1) :
        sent[i].op = "sensor" => i \in handled \/ (i = gwNext - 1 /\ gwPc = "send")

\* The provisioner ends after the configurator, which leaves no job behind.
CleanJoin == prPc = "done" => cfg = "done" /\ confQ = <<>>

\* The loop waits for room in the channel that only the loop itself empties.
SelfBlocked == prPc = "queue" /\ Len(provQ) = ProvCap

Over == exited \/ prPc \in {"join", "done"} \/ SelfBlocked

\* BlueZ is gone, and the loop waits for the configurator: for room in its channel,
\* or for its end, which does not come while the loop keeps its sender.
Stranded == ~provOpen /\ prPc \in {"configure", "join"}

\* Whatever it handles, the provisioner's loop comes back to its select, and once
\* the bus is closed it gets past the join; only its own full channel, or the end
\* of BlueZ, can stop it.
LoopReturns ==
    prPc \notin {"select", "done"} ~>
        (prPc \in {"select", "done"} \/ exited \/ SelfBlocked \/ Stranded)

\* A node that BlueZ has added is configured, whatever commands come in meanwhile,
\* unless the loop ends or BlueZ does.
AddedIsConfigured ==
    \A d \in Devices :
        (\E i \in 1..Len(events) : events[i] = <<d, TRUE>>) ~>
            (job = [op |-> "configure", device |-> d] \/ Over \/ ~provOpen)
=============================================================================
