---------------------------- MODULE Provisioner ----------------------------
(***************************************************************************)
(* provisioner.rs: the task that adds nodes to the mesh and hands them to  *)
(* the node configurator.  One loop selects among the events of BlueZ, its *)
(* own channel of nodes to provision, and the commands of the bus; while   *)
(* it handles one it looks at none of the others.                          *)
(***************************************************************************)
EXTENDS CommandBus

CONSTANTS
    ProvCap,    \* capacity of the channel of nodes to provision (32)
    ConfCap,    \* capacity of the configurator's channel (32)
    EventCap,   \* capacity of the channel of BlueZ events (4)
    NoJob

ASSUME ProvisionerAssumption ==
    /\ ProvCap \in Nat \ {0} /\ ConfCap \in Nat \ {0} /\ EventCap \in Nat \ {0}
    /\ NoJob \notin Commands \cup Devices

VARIABLES
    provQ,      \* nodes to provision
    recent,     \* nodes whose entry in `provisioned` is at most 30 s old
    hand,       \* the job or the node that an arm of the select works on
    adding,     \* nodes BlueZ is adding to the mesh
    events,     \* what BlueZ has to tell: <<node, whether it was added>>
    provOpen,   \* prov_tx, BlueZ's end of the channel of events, is there
    confQ, confOpen, cfg, job, status

\* The configurator, by what it promises.
Conf == INSTANCE Configurator

gwVars   == <<gwNext, gwPc>>
provVars == <<provQ, recent, adding, events, provOpen>>
nodeConfVars == <<confQ, confOpen, cfg, job, status>>

PrTypeOK ==
    /\ prPc \in {"select", "add", "report", "refuse", "queue", "configure", "join", "done"}
    /\ provQ \in Seq(Devices) /\ Len(provQ) <= ProvCap
    /\ recent \subseteq Devices
    /\ hand \in Conf!Jobs \cup Devices \cup {NoJob}
    /\ adding \subseteq Devices
    /\ events \in Seq(Devices \X BOOLEAN) /\ Len(events) <= EventCap
    /\ provOpen \in BOOLEAN
    /\ Conf!ConfTypeOK

PrInit ==
    /\ prPc = "select"
    /\ provQ = <<>> /\ recent = {} /\ hand = NoJob
    /\ adding = {} /\ events = <<>> /\ provOpen = TRUE
    /\ Conf!ConfInit

Select(arm, with) ==
    /\ prPc = "select"
    /\ prPc' = arm
    /\ hand' = with

Return ==
    /\ prPc' = "select"
    /\ hand' = NoJob

-----------------------------------------------------------------------------
(* prov_rx: BlueZ has added a node, or failed to.                          *)

\* Mutant: a job the configurator has no room for is dropped (try_send).
PrEventOrDrop ==
    /\ events # <<>>
    /\ LET d == Head(events)[1] added == Head(events)[2] IN
        IF added /\ Len(confQ) = ConfCap
        THEN Select("select", NoJob)
        ELSE Select(IF added THEN "configure" ELSE "report",
                    IF added THEN [op |-> "configure", device |-> d] ELSE d)
    /\ events' = Tail(events)
    /\ UNCHANGED <<busVars, gwVars, prNext, exited, provQ, recent, adding, provOpen, nodeConfVars>>

PrEvent ==
    /\ events # <<>>
    /\ LET d == Head(events)[1] added == Head(events)[2] IN
        Select(IF added THEN "configure" ELSE "report",
               IF added THEN [op |-> "configure", device |-> d] ELSE d)
    /\ events' = Tail(events)
    /\ UNCHANGED <<busVars, gwVars, prNext, exited, provQ, recent, adding, provOpen, nodeConfVars>>

\* None => break: the loop ends, and keeps its sender of the configurator's channel.
PrNone ==
    /\ events = <<>> /\ ~provOpen
    /\ Select("join", NoJob)
    /\ UNCHANGED <<busVars, gwVars, prNext, exited, provVars, nodeConfVars>>

\* configure_tx.send(..).await
PrConfigure ==
    /\ prPc = "configure"
    /\ Conf!Enqueue(hand)
    /\ Return
    /\ UNCHANGED <<busVars, gwVars, prNext, exited, provVars>>

\* The error is published, or the publishing fails and is logged.
PrReport ==
    /\ prPc \in {"report", "refuse"}
    /\ status' \in {status, [status EXCEPT ![hand] = "provisioning-error"]}
    /\ recent' = IF prPc = "refuse" THEN recent \ {hand} ELSE recent
    /\ Return
    /\ UNCHANGED <<busVars, gwVars, prNext, exited, provQ, adding, events, provOpen, confQ, confOpen, cfg, job>>

-----------------------------------------------------------------------------
(* provision_rx: a node to add, unless that was asked for 30 s ago or less. *)

PrProvision ==
    /\ provQ # <<>>
    /\ provQ' = Tail(provQ)
    /\ LET d == Head(provQ) IN
        \/ d \notin recent /\ recent' = recent \cup {d} /\ Select("add", d)
        \/ d \in recent /\ UNCHANGED recent /\ Select("select", NoJob)
    /\ UNCHANGED <<busVars, gwVars, prNext, exited, adding, events, provOpen, nodeConfVars>>

\* add_node: BlueZ starts to add the node, or refuses to.
PrAdd ==
    /\ prPc = "add"
    /\ \/ provOpen /\ adding' = adding \cup {hand} /\ Return
       \/ prPc' = "refuse" /\ UNCHANGED <<adding, hand>>
    /\ UNCHANGED <<busVars, gwVars, prNext, exited, provQ, recent, events, provOpen, nodeConfVars>>

-----------------------------------------------------------------------------
(* commands: provision goes to the loop's own channel, reset to the        *)
(* configurator, a lag is noted, the end of the channel ends the loop.     *)

PrCommand ==
    /\ Ready(prNext)
    /\ LET c == sent[prNext] IN
        \/ c.op = "provision" /\ Select("queue", c.device)
        \/ c.op = "reset" /\ Select("configure", c)
        \/ c.op = "sensor" /\ Select("select", NoJob)
    /\ prNext' = prNext + 1
    /\ UNCHANGED <<busVars, gwVars, exited, provVars, nodeConfVars>>

\* provision_tx.send(..).await, from the loop that alone empties the channel.
PrQueue ==
    /\ prPc = "queue" /\ Len(provQ) < ProvCap
    /\ provQ' = Append(provQ, hand)
    /\ Return
    /\ UNCHANGED <<busVars, gwVars, prNext, exited, recent, adding, events, provOpen, nodeConfVars>>

PrLagged ==
    /\ Lagged(prNext)
    /\ Select("select", NoJob)
    /\ prNext' = Oldest
    /\ UNCHANGED <<busVars, gwVars, exited, provVars, nodeConfVars>>

\* Mutant: the loop ends but keeps its sender of the configurator's channel.
PrClosedKeepsSender ==
    /\ Closed(prNext)
    /\ Select("join", NoJob)
    /\ UNCHANGED <<busVars, gwVars, prNext, exited, provVars, nodeConfVars>>

PrClosed ==
    /\ Closed(prNext)
    /\ Select("join", NoJob)
    /\ Conf!CloseQueue
    /\ UNCHANGED <<busVars, gwVars, prNext, exited, provVars>>

\* Mutant: the task ends without waiting for the configurator.
PrLeave ==
    /\ prPc = "join"
    /\ prPc' = "done"
    /\ UNCHANGED <<busVars, gwVars, prNext, exited, hand, provVars, nodeConfVars>>

\* join_all: the configurator has ended.
PrJoin ==
    /\ prPc = "join" /\ cfg = "done"
    /\ prPc' = "done"
    /\ UNCHANGED <<busVars, gwVars, prNext, exited, hand, provVars, nodeConfVars>>

-----------------------------------------------------------------------------
(* The configurator, the clock, and BlueZ (external).                      *)

ConfiguratorStep ==
    /\ Conf!Take \/ Conf!Finish \/ Conf!Stop
    /\ UNCHANGED <<busVars, gwVars, prNext, prPc, exited, hand, provVars>>

\* Thirty seconds have passed since the node's entry was made.
Age ==
    /\ \E d \in recent : recent' = recent \ {d}
    /\ UNCHANGED <<busVars, gwVars, prNext, prPc, exited, hand, provQ, adding, events, provOpen, nodeConfVars>>

\* A node that is being added is added, or fails.
BluezTells ==
    /\ provOpen /\ Len(events) < EventCap
    /\ \E d \in adding, added \in BOOLEAN :
        /\ adding' = adding \ {d}
        /\ events' = Append(events, <<d, added>>)
    /\ UNCHANGED <<busVars, gwVars, prNext, prPc, exited, hand, provQ, recent, provOpen, nodeConfVars>>

\* The application that BlueZ talks to is gone, with its end of the channel.
BluezEnds ==
    /\ provOpen /\ provOpen' = FALSE
    /\ adding' = {}
    /\ UNCHANGED <<busVars, gwVars, prNext, prPc, exited, hand, provQ, recent, events, nodeConfVars>>

PrArms == PrEvent \/ PrNone \/ PrProvision \/ PrCommand \/ PrLagged \/ PrClosed
PrBody == PrConfigure \/ PrReport \/ PrAdd \/ PrQueue \/ PrJoin
=============================================================================
