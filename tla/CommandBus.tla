----------------------------- MODULE CommandBus -----------------------------
(***************************************************************************)
(* main.rs: the task that moves commands from the MQTT stream to a tokio   *)
(* broadcast channel, which the gateway task and the provisioner task read *)
(* at their own pace.  The channel keeps its last BusCap messages: a task  *)
(* that falls behind finds that it has lagged and loses the oldest ones.   *)
(* The process exits as soon as one of the tasks does.                     *)
(***************************************************************************)
EXTENDS Naturals, Sequences

CONSTANTS
    Devices,    \* the nodes the commands are about
    BusCap,     \* capacity of the broadcast channel (10)
    MaxSent     \* bound: commands that arrive

Commands == [op : {"sensor", "provision", "reset"}, device : Devices]

ASSUME BusAssumption == BusCap \in Nat \ {0} /\ MaxSent \in Nat

VARIABLES
    sent,       \* every command sent on the channel so far
    busOpen,    \* whether the sending half is alive
    mainPc,     \* the main loop: "recv", "sleep" or "done"
    gwNext,     \* the command the gateway task reads next
    prNext,     \* the command the provisioner task reads next
    gwPc,       \* the gateway task
    prPc,       \* the provisioner task
    exited      \* the process is gone

busVars == <<sent, busOpen, mainPc>>

BusTypeOK ==
    /\ sent \in Seq(Commands) /\ Len(sent) <= MaxSent
    /\ busOpen \in BOOLEAN
    /\ mainPc \in {"recv", "sleep", "done"}
    /\ gwNext \in 1..(MaxSent + 1)
    /\ prNext \in 1..(MaxSent + 1)
    /\ exited \in BOOLEAN

BusInit ==
    /\ sent = <<>>
    /\ busOpen = TRUE
    /\ mainPc = "recv"
    /\ gwNext = 1
    /\ prNext = 1
    /\ exited = FALSE

\* The oldest command the channel still holds.
Oldest == IF Len(sent) > BusCap THEN Len(sent) - BusCap + 1 ELSE 1

\* What recv() gives the receiver whose next command is n.
Lagged(n)  == n < Oldest
Ready(n)   == n \in Oldest..Len(sent)
Closed(n)  == n > Len(sent) /\ ~busOpen

\* A command comes from the MQTT stream and goes to the channel; with no
\* receiver left, sending is an error that ends the task.
Forward ==
    /\ mainPc = "recv" /\ Len(sent) < MaxSent
    /\ IF gwPc = "done" /\ prPc = "done"
       THEN mainPc' = "done" /\ busOpen' = FALSE /\ UNCHANGED sent
       ELSE /\ \E c \in Commands : sent' = Append(sent, c)
            /\ mainPc' = "sleep"
            /\ UNCHANGED busOpen
    /\ UNCHANGED <<gwNext, prNext, gwPc, prPc, exited>>

\* sleep(1 s) after every command: Ctrl+C is not looked at meanwhile.
Wake ==
    /\ mainPc = "sleep"
    /\ mainPc' = "recv"
    /\ UNCHANGED <<sent, busOpen, gwNext, prNext, gwPc, prPc, exited>>

CtrlC ==
    /\ mainPc = "recv"
    /\ mainPc' = "done"
    /\ busOpen' = FALSE
    /\ UNCHANGED <<sent, gwNext, prNext, gwPc, prPc, exited>>

\* select_all: main returns with the first task that is done.
Exit ==
    /\ "done" \in {mainPc, gwPc, prPc}
    /\ exited' = TRUE
    /\ UNCHANGED <<sent, busOpen, mainPc, gwNext, prNext, gwPc, prPc>>
=============================================================================
