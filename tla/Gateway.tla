------------------------------ MODULE Gateway ------------------------------
(***************************************************************************)
(* gateway.rs: the task between the mesh and MQTT.  Messages of the mesh   *)
(* elements go up, commands on a "sensor" channel go down to a node.  It   *)
(* looks at neither while it waits for MQTT or for BlueZ.                  *)
(***************************************************************************)
EXTENDS CommandBus

VARIABLE handled    \* the positions in `sent` of the commands given to BlueZ

GwTypeOK ==
    /\ gwPc \in {"select", "publish", "send", "done"}
    /\ handled \subseteq 1..MaxSent

GwInit ==
    /\ gwPc = "select"
    /\ handled = {}

\* A mesh message is published (QoS 1: the task waits for the broker); one that
\* does not parse, or the end of the elements' channel, ends the task.
GwElement ==
    /\ gwPc = "select"
    /\ gwPc' \in {"publish", "done"}
    /\ UNCHANGED <<busVars, gwNext, prNext, prPc, exited, handled>>

\* Published, or an error that is only logged.
GwPublished ==
    /\ gwPc = "publish"
    /\ gwPc' = "select"
    /\ UNCHANGED <<busVars, gwNext, prNext, prPc, exited, handled>>

\* Commands on other channels, or without an address, are passed over.
GwCommand ==
    /\ gwPc = "select" /\ Ready(gwNext)
    /\ gwPc' = IF sent[gwNext].op = "sensor" THEN "send" ELSE "select"
    /\ gwNext' = gwNext + 1
    /\ UNCHANGED <<busVars, prNext, prPc, exited, handled>>

\* node.send: forwarded, or an error that is only logged.
GwSent ==
    /\ gwPc = "send"
    /\ gwPc' = "select"
    /\ handled' = handled \cup {gwNext - 1}
    /\ UNCHANGED <<busVars, gwNext, prNext, prPc, exited>>

\* Mutant: a lag is skipped over, as the provisioner does.
GwSkip ==
    /\ gwPc = "select"
    /\ \/ Lagged(gwNext) /\ gwNext' = Oldest /\ UNCHANGED gwPc
       \/ Closed(gwNext) /\ gwPc' = "done" /\ UNCHANGED gwNext
    /\ UNCHANGED <<busVars, prNext, prPc, exited, handled>>

\* Any error of the channel, a lag as well as its end, ends the task.
GwStop ==
    /\ gwPc = "select"
    /\ Lagged(gwNext) \/ Closed(gwNext)
    /\ gwPc' = "done"
    /\ UNCHANGED <<busVars, gwNext, prNext, prPc, exited, handled>>

GwStep == GwElement \/ GwPublished \/ GwCommand \/ GwSent \/ GwStop
=============================================================================
