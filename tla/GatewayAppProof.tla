--------------------------- MODULE GatewayAppProof ---------------------------
(***************************************************************************)
(* The gateway process, for any numbers of nodes and commands and any      *)
(* capacities of its channels: the types of its state, that the gateway    *)
(* task passes over no command for a node, and that the provisioner leaves *)
(* no configurator and no job behind.                                      *)
(*                                                                         *)
(* The tasks meet at channels only, so there are two invariants: one of    *)
(* the bus and the gateway task, which no step of the provisioner, the     *)
(* configurator or BlueZ touches but for the reading position prNext, and  *)
(* one of those three.                                                     *)
(***************************************************************************)
EXTENDS GatewayApp, SequenceTheorems, TLAPS

\* What the gateway task has read has been sent.
GwInv ==
    /\ GwTypeOK
    /\ gwNext <= Len(sent) + 1
    /\ gwPc = "send" => gwNext > 1
    /\ GatewayNeverSkips

\* What the arm of the select that is under way works on.
InHand ==
    /\ prPc = "configure" => hand \in Conf!Jobs
    /\ prPc \in {"add", "report", "refuse", "queue"} => hand \in Devices

\* The configurator has a job while it is busy, and it ends with its channel closed,
\* so that nothing is added later.
Ended ==
    /\ cfg = "busy" => job \in Conf!Jobs
    /\ prPc = "done" => cfg = "done"
    /\ cfg = "done" => confQ = <<>> /\ ~confOpen

PrInv == PrTypeOK /\ InHand /\ Ended

IndInv == BusTypeOK /\ GwInv /\ PrInv

LowerStep == PrArms \/ PrBody \/ ConfiguratorStep \/ Age \/ BluezTells \/ BluezEnds
UpperStep == (Main /\ UNCHANGED handled) \/ GwStep

lowerVars == <<hand, provVars, nodeConfVars>>

-----------------------------------------------------------------------------
LEMMA StepsSplit ==
    ASSUME [Next]_vars
    PROVE  \/ UpperStep /\ UNCHANGED <<lowerVars, prNext, prPc>>
           \/ LowerStep /\ UNCHANGED <<busVars, gwVars, exited, handled>>
           \/ UNCHANGED vars
<1>1. ASSUME Main \/ GwStep PROVE UNCHANGED <<prNext, prPc>>
    BY <1>1 DEF Main, Forward, Wake, CtrlC, Exit,
                GwStep, GwElement, GwPublished, GwCommand, GwSent, GwStop
<1>2. ASSUME PrArms PROVE UNCHANGED <<busVars, gwVars, exited>>
    BY <1>2 DEF PrArms, PrEvent, PrNone, PrProvision, PrCommand, PrLagged, PrClosed
<1>3. ASSUME PrBody PROVE UNCHANGED <<busVars, gwVars, exited>>
    BY <1>3 DEF PrBody, PrConfigure, PrReport, PrAdd, PrQueue, PrJoin
<1>4. ASSUME ConfiguratorStep \/ Age \/ BluezTells \/ BluezEnds PROVE UNCHANGED <<busVars, gwVars, exited>>
    BY <1>4 DEF ConfiguratorStep, Age, BluezTells, BluezEnds
<1>5. CASE Upper(Main /\ UNCHANGED handled)
    BY <1>1, <1>5 DEF Upper, UpperStep, lowerVars
<1>6. CASE Upper(GwStep)
    BY <1>1, <1>6 DEF Upper, UpperStep, lowerVars
<1>7. CASE Lower(PrArms)
    BY <1>2, <1>7 DEF Lower, LowerStep
<1>8. CASE Lower(PrBody)
    BY <1>3, <1>8 DEF Lower, LowerStep
<1>9. CASE Lower(ConfiguratorStep) \/ Lower(Age) \/ Lower(BluezTells) \/ Lower(BluezEnds)
    BY <1>4, <1>9 DEF Lower, LowerStep
<1> QED
    BY <1>5, <1>6, <1>7, <1>8, <1>9 DEF Next

LEMMA InitHolds == Init => IndInv
<1> SUFFICES ASSUME Init PROVE IndInv
    OBVIOUS
<1> USE DEF Init, BusInit, GwInit, PrInit
<1>1. busOpen \in BOOLEAN /\ exited \in BOOLEAN
    OBVIOUS
<1>a. sent \in Seq(Commands) /\ Len(sent) = 0
    OBVIOUS
<1>2. BusTypeOK
    BY <1>1, <1>a, BusAssumption DEF BusTypeOK
<1>3. GwInv
    BY <1>a DEF GwInv, GwTypeOK, GatewayNeverSkips
<1>4. Conf!ConfTypeOK
    <2>1. confOpen \in BOOLEAN
        BY DEF Conf!ConfInit
    <2> QED
        BY <2>1, ProvisionerAssumption DEF Conf!ConfTypeOK, Conf!ConfInit, Conf!Statuses
<1>5. PrInv
    BY <1>4, ProvisionerAssumption DEF PrInv, PrTypeOK, InHand, Ended, Conf!ConfInit
<1> QED
    BY <1>2, <1>3, <1>5 DEF IndInv

-----------------------------------------------------------------------------
(* The bus and the gateway task.                                           *)

LEMMA OldestFacts ==
    ASSUME BusTypeOK
    PROVE  Len(sent) \in 0..MaxSent /\ Oldest \in 1..(MaxSent + 1) /\ Oldest <= Len(sent) + 1
BY BusAssumption DEF BusTypeOK, Oldest

LEMMA BusStep == BusTypeOK /\ [Next]_vars => BusTypeOK'
<1> SUFFICES ASSUME BusTypeOK, [Next]_vars PROVE BusTypeOK'
    OBVIOUS
<1> USE DEF busVars, gwVars
<1>0. MaxSent \in Nat /\ Len(sent) \in 0..MaxSent
    BY OldestFacts, BusAssumption
<1>1. CASE UpperStep /\ UNCHANGED <<lowerVars, prNext, prPc>>
    <2>1. CASE Forward
        <3>1. CASE UNCHANGED sent /\ mainPc' = "done" /\ busOpen' = FALSE
            <4>1. busOpen' \in BOOLEAN
                BY <3>1
            <4> QED
                BY <2>1, <3>1, <4>1 DEF Forward, BusTypeOK
        <3>2. CASE (\E c \in Commands : sent' = Append(sent, c)) /\ mainPc' = "sleep" /\ UNCHANGED busOpen
            <4>1. sent' \in Seq(Commands) /\ Len(sent') = Len(sent) + 1
                BY <3>2, AppendProperties DEF BusTypeOK
            <4> QED
                BY <1>0, <2>1, <3>2, <4>1 DEF Forward, BusTypeOK
        <3> QED
            BY <2>1, <3>1, <3>2 DEF Forward
    <2>2. CASE Wake
        BY <2>2 DEF Wake, BusTypeOK
    <2>3. CASE CtrlC
        <3>1. busOpen' \in BOOLEAN
            BY <2>3 DEF CtrlC
        <3> QED
            BY <2>3, <3>1 DEF CtrlC, BusTypeOK
    <2>4. CASE Exit
        <3>1. exited' \in BOOLEAN
            BY <2>4 DEF Exit
        <3> QED
            BY <2>4, <3>1 DEF Exit, BusTypeOK
    <2>5. CASE GwCommand
        <3>1. gwNext' \in 1..(MaxSent + 1)
            BY <1>0, <2>5, OldestFacts DEF GwCommand, Ready, BusTypeOK
        <3> QED
            BY <1>1, <2>5, <3>1 DEF GwCommand, BusTypeOK
    <2>6. CASE GwElement \/ GwPublished \/ GwSent \/ GwStop
        BY <2>6 DEF GwElement, GwPublished, GwSent, GwStop, BusTypeOK
    <2> QED
        BY <1>1, <2>1, <2>2, <2>3, <2>4, <2>5, <2>6 DEF UpperStep, Main, GwStep
<1>2. CASE LowerStep /\ UNCHANGED <<busVars, gwVars, exited, handled>>
    <2>1. prNext' \in 1..(MaxSent + 1)
        <3>1. CASE PrCommand
            BY <1>0, <3>1, OldestFacts DEF PrCommand, Ready, BusTypeOK
        <3>2. CASE PrLagged
            BY <3>2, OldestFacts DEF PrLagged
        <3>3. CASE PrEvent \/ PrNone \/ PrProvision \/ PrClosed
            BY <3>3 DEF PrEvent, PrNone, PrProvision, PrClosed, BusTypeOK
        <3>4. CASE PrBody
            BY <3>4 DEF PrBody, PrConfigure, PrReport, PrAdd, PrQueue, PrJoin, BusTypeOK
        <3>5. CASE ConfiguratorStep \/ Age \/ BluezTells \/ BluezEnds
            BY <3>5 DEF ConfiguratorStep, Age, BluezTells, BluezEnds, BusTypeOK
        <3> QED
            BY <1>2, <3>1, <3>2, <3>3, <3>4, <3>5 DEF LowerStep, PrArms
    <2> QED
        BY <1>2, <2>1 DEF BusTypeOK
<1>3. CASE UNCHANGED vars
    BY <1>3 DEF vars, BusTypeOK
<1> QED
    BY <1>1, <1>2, <1>3, StepsSplit

LEMMA GwInvStep == BusTypeOK /\ GwInv /\ [Next]_vars => GwInv'
<1> SUFFICES ASSUME BusTypeOK, GwInv, [Next]_vars PROVE GwInv'
    OBVIOUS
<1> USE DEF busVars, gwVars, GwInv
<1>0. MaxSent \in Nat /\ Len(sent) \in 0..MaxSent /\ gwNext \in Nat /\ gwNext >= 1
    BY OldestFacts, BusAssumption DEF BusTypeOK
<1>1. CASE UpperStep /\ UNCHANGED <<lowerVars, prNext, prPc>>
    <2>1. CASE Forward /\ UNCHANGED handled
        <3>1. UNCHANGED <<gwNext, gwPc, handled>>
            BY <2>1 DEF Forward
        <3>2. CASE UNCHANGED sent
            BY <3>1, <3>2 DEF GwTypeOK, GatewayNeverSkips
        <3>3. CASE \E c \in Commands : sent' = Append(sent, c)
            <4>1. Len(sent') = Len(sent) + 1 /\ \A i \in 1..Len(sent) : sent'[i] = sent[i]
                BY <3>3, AppendProperties DEF BusTypeOK
            <4>2. gwNext' <= Len(sent') + 1
                BY <1>0, <3>1, <4>1
            <4>3. GatewayNeverSkips'
                BY <1>0, <3>1, <4>1 DEF GatewayNeverSkips
            <4> QED
                BY <3>1, <4>2, <4>3 DEF GwTypeOK
        <3> QED
            BY <2>1, <3>2, <3>3 DEF Forward
    <2>2. CASE (Wake \/ CtrlC \/ Exit) /\ UNCHANGED handled
        <3>1. UNCHANGED <<sent, gwNext, gwPc, handled>>
            BY <2>2 DEF Wake, CtrlC, Exit
        <3> QED
            BY <3>1 DEF GwTypeOK, GatewayNeverSkips
    <2>3. CASE GwElement
        BY <2>3 DEF GwElement, GwTypeOK, GatewayNeverSkips
    <2>4. CASE GwPublished
        BY <2>4 DEF GwPublished, GwTypeOK, GatewayNeverSkips
    <2>5. CASE GwCommand
        <3>1. gwNext <= Len(sent) /\ gwNext' = gwNext + 1 /\ UNCHANGED <<sent, handled>>
            BY <1>0, <2>5 DEF GwCommand, Ready
        <3>2. gwNext' <= Len(sent') + 1
            BY <1>0, <3>1
        <3>3. ASSUME NEW i \in 1..(gwNext' - 1), sent'[i].op = "sensor"
              PROVE  i \in handled' \/ (i = gwNext' - 1 /\ gwPc' = "send")
            <4>1. CASE i = gwNext
                BY <1>0, <2>5, <3>1, <3>3, <4>1 DEF GwCommand
            <4>2. CASE i # gwNext
                <5>1. i \in 1..(gwNext - 1) /\ gwPc # "send"
                    BY <1>0, <2>5, <3>1, <4>2 DEF GwCommand
                <5> QED
                    BY <3>1, <3>3, <5>1 DEF GatewayNeverSkips
            <4> QED
                BY <4>1, <4>2
        <3>4. GatewayNeverSkips'
            BY <3>3 DEF GatewayNeverSkips
        <3>5. GwTypeOK'
            BY <2>5, <3>1 DEF GwCommand, GwTypeOK
        <3> QED
            BY <1>0, <3>1, <3>2, <3>4, <3>5
    <2>6. CASE GwSent
        <3>1. gwNext - 1 \in 1..MaxSent
            BY <1>0, <2>6 DEF GwSent
        <3>2. GatewayNeverSkips'
            BY <1>0, <2>6 DEF GwSent, GatewayNeverSkips
        <3> QED
            BY <2>6, <3>1, <3>2 DEF GwSent, GwTypeOK
    <2>7. CASE GwStop
        BY <2>7 DEF GwStop, GwTypeOK, GatewayNeverSkips
    <2> QED
        BY <1>1, <2>1, <2>2, <2>3, <2>4, <2>5, <2>6, <2>7 DEF UpperStep, Main, GwStep
<1>2. CASE LowerStep /\ UNCHANGED <<busVars, gwVars, exited, handled>>
    BY <1>2 DEF GwTypeOK, GatewayNeverSkips
<1>3. CASE UNCHANGED vars
    BY <1>3 DEF vars, GwTypeOK, GatewayNeverSkips
<1> QED
    BY <1>1, <1>2, <1>3, StepsSplit

-----------------------------------------------------------------------------
(* The provisioner, the configurator and BlueZ.                            *)

LEMMA CommandsAreJobs ==
    ASSUME NEW c \in Commands
    PROVE  c.device \in Devices /\ (c.op = "reset" => c \in Conf!Jobs)
BY DEF Commands, Conf!Jobs

LEMMA NewJob ==
    ASSUME NEW d \in Devices
    PROVE  [op |-> "configure", device |-> d] \in Conf!Jobs
BY DEF Conf!Jobs

\* The configurator keeps the types of its channel and ends with it.
LEMMA ConfStep ==
    ASSUME Conf!ConfTypeOK, Ended, Conf!Take \/ Conf!Finish \/ Conf!Stop, prPc' = prPc
    PROVE  Conf!ConfTypeOK' /\ Ended'
<1> USE DEF Conf!ConfTypeOK
<1>1. CASE Conf!Take
    <2>1. Head(confQ) \in Conf!Jobs /\ confQ' \in Seq(Conf!Jobs) /\ Len(confQ') = Len(confQ) - 1
        BY <1>1, HeadTailProperties DEF Conf!Take
    <2>2. Len(confQ') <= ConfCap
        BY <2>1, ProvisionerAssumption
    <2>3. Conf!ConfTypeOK'
        BY <1>1, <2>1, <2>2 DEF Conf!Take
    <2>4. Ended'
        BY <1>1, <2>1 DEF Conf!Take, Ended
    <2> QED
        BY <2>3, <2>4
<1>2. CASE Conf!Finish
    <2>1. status' \in [Devices -> Conf!Statuses]
        <3>1. job \in Conf!Jobs /\ job.device \in Devices
            BY <1>2 DEF Conf!Finish, Ended, Conf!Jobs
        <3>2. Conf!Outcomes(job) \subseteq Conf!Statuses
            BY <3>1 DEF Conf!Outcomes, Conf!Statuses
        <3> QED
            BY <1>2, <3>1, <3>2 DEF Conf!Finish
    <2> QED
        BY <1>2, <2>1 DEF Conf!Finish, Ended
<1>3. CASE Conf!Stop
    BY <1>3 DEF Conf!Stop, Ended
<1> QED
    BY <1>1, <1>2, <1>3

LEMMA PrInvStep == BusTypeOK /\ PrInv /\ [Next]_vars => PrInv'
<1> SUFFICES ASSUME BusTypeOK, PrInv, [Next]_vars PROVE PrInv'
    OBVIOUS
<1> USE DEF nodeConfVars, provVars, PrInv
<1>0. ProvCap \in Nat /\ EventCap \in Nat /\ ConfCap \in Nat /\ NoJob \notin Devices
    BY ProvisionerAssumption
<1>k. ASSUME UNCHANGED nodeConfVars PROVE Conf!ConfTypeOK'
    BY <1>k DEF PrTypeOK, Conf!ConfTypeOK
<1>1. CASE UpperStep /\ UNCHANGED <<lowerVars, prNext, prPc>>
    BY <1>1, <1>k DEF lowerVars, PrTypeOK, InHand, Ended
<1>2. CASE PrEvent
    <2>1. Head(events) \in Devices \X BOOLEAN /\ events' \in Seq(Devices \X BOOLEAN)
          /\ Len(events') = Len(events) - 1
        BY <1>2, HeadTailProperties DEF PrEvent, PrTypeOK
    <2>2. Head(events)[1] \in Devices
        BY <2>1
    <2>3. \/ prPc' = "configure" /\ hand' \in Conf!Jobs
          \/ prPc' = "report" /\ hand' \in Devices
        BY <1>2, <2>2, NewJob DEF PrEvent, Select
    <2>4. Len(events') <= EventCap
        BY <1>0, <2>1 DEF PrTypeOK
    <2> QED
        BY <1>2, <1>k, <2>1, <2>3, <2>4 DEF PrEvent, PrTypeOK, InHand, Ended
<1>3. CASE PrProvision
    <2>1. Head(provQ) \in Devices /\ provQ' \in Seq(Devices) /\ Len(provQ') = Len(provQ) - 1
        BY <1>3, HeadTailProperties DEF PrProvision, PrTypeOK
    <2>2. Len(provQ') <= ProvCap
        BY <1>0, <2>1 DEF PrTypeOK
    <2>3. recent' \subseteq Devices
        BY <1>3, <2>1 DEF PrProvision, PrTypeOK
    <2>4. \/ prPc' = "add" /\ hand' \in Devices
          \/ prPc' = "select" /\ hand' = NoJob
        BY <1>3, <2>1 DEF PrProvision, Select
    <2> QED
        BY <1>3, <1>k, <2>1, <2>2, <2>3, <2>4 DEF PrProvision, PrTypeOK, InHand, Ended
<1>4. CASE PrCommand
    <2>1. sent[prNext] \in Commands
        BY <1>4, OldestFacts, ElementOfSeq DEF PrCommand, Ready, BusTypeOK
    <2>2. \/ prPc' = "queue" /\ hand' \in Devices
          \/ prPc' = "configure" /\ hand' \in Conf!Jobs
          \/ prPc' = "select" /\ hand' = NoJob
        BY <1>4, <2>1, CommandsAreJobs DEF PrCommand, Select
    <2> QED
        BY <1>4, <1>k, <2>2 DEF PrCommand, PrTypeOK, InHand, Ended
<1>5. CASE PrLagged
    BY <1>5, <1>k DEF PrLagged, Select, PrTypeOK, InHand, Ended
<1>6. CASE PrClosed
    <2>1. confOpen' \in BOOLEAN /\ UNCHANGED <<confQ, cfg, job, status>> /\ ~confOpen'
        BY <1>6 DEF PrClosed, Conf!CloseQueue
    <2>2. Conf!ConfTypeOK'
        BY <2>1 DEF PrTypeOK, Conf!ConfTypeOK
    <2>3. prPc' = "join" /\ hand' = NoJob
        BY <1>6 DEF PrClosed, Select
    <2> QED
        BY <1>6, <2>1, <2>2, <2>3 DEF PrClosed, PrTypeOK, InHand, Ended
<1>7. CASE PrConfigure
    <2>1. hand \in Conf!Jobs /\ confOpen /\ confQ' = Append(confQ, hand) /\ Len(confQ) < ConfCap
          /\ UNCHANGED <<confOpen, cfg, job, status>>
        BY <1>7 DEF PrConfigure, InHand, Conf!Enqueue
    <2>2. confQ' \in Seq(Conf!Jobs) /\ Len(confQ') = Len(confQ) + 1
        BY <2>1, AppendProperties DEF PrTypeOK, Conf!ConfTypeOK
    <2>3. Len(confQ') <= ConfCap
        BY <1>0, <2>1, <2>2 DEF PrTypeOK, Conf!ConfTypeOK
    <2>4. Conf!ConfTypeOK'
        BY <2>1, <2>2, <2>3 DEF PrTypeOK, Conf!ConfTypeOK
    <2>5. prPc' = "select" /\ hand' = NoJob /\ cfg' # "done"
        BY <1>7, <2>1 DEF PrConfigure, Return, Ended
    <2> QED
        BY <1>7, <2>1, <2>4, <2>5 DEF PrConfigure, PrTypeOK, InHand, Ended
<1>8. CASE PrReport
    <2>1. hand \in Devices /\ status' \in {status, [status EXCEPT ![hand] = "provisioning-error"]}
        BY <1>8 DEF PrReport, InHand
    <2>2. Conf!ConfTypeOK'
        BY <1>8, <2>1 DEF PrReport, PrTypeOK, Conf!ConfTypeOK, Conf!Statuses
    <2>3. prPc' = "select" /\ hand' = NoJob /\ recent' \subseteq Devices
        BY <1>8 DEF PrReport, Return, PrTypeOK
    <2> QED
        BY <1>8, <2>2, <2>3 DEF PrReport, PrTypeOK, InHand, Ended
<1>9. CASE PrAdd
    <2>1. hand \in Devices
        BY <1>9 DEF PrAdd, InHand
    <2>2. /\ adding' \subseteq Devices
          /\ \/ prPc' = "select" /\ hand' = NoJob
             \/ prPc' = "refuse" /\ hand' = hand
        BY <1>9, <2>1 DEF PrAdd, Return, PrTypeOK
    <2> QED
        BY <1>9, <1>k, <2>1, <2>2 DEF PrAdd, PrTypeOK, InHand, Ended
<1>10. CASE PrQueue
    <2>1. hand \in Devices /\ provQ' = Append(provQ, hand) /\ Len(provQ) < ProvCap
        BY <1>10 DEF PrQueue, InHand
    <2>2. provQ' \in Seq(Devices) /\ Len(provQ') = Len(provQ) + 1
        BY <2>1, AppendProperties DEF PrTypeOK
    <2>3. Len(provQ') <= ProvCap
        BY <1>0, <2>1, <2>2 DEF PrTypeOK
    <2>4. prPc' = "select" /\ hand' = NoJob
        BY <1>10 DEF PrQueue, Return
    <2> QED
        BY <1>10, <1>k, <2>2, <2>3, <2>4 DEF PrQueue, PrTypeOK, InHand, Ended
<1>11. CASE PrJoin
    BY <1>11, <1>k DEF PrJoin, PrTypeOK, InHand, Ended
<1>12. CASE ConfiguratorStep
    <2>1. Conf!ConfTypeOK' /\ Ended'
        BY <1>12, ConfStep DEF ConfiguratorStep, PrTypeOK
    <2> QED
        BY <1>12, <2>1 DEF ConfiguratorStep, PrTypeOK, InHand
<1>13. CASE Age
    BY <1>13, <1>k DEF Age, PrTypeOK, InHand, Ended
<1>14. CASE BluezTells
    <2>1. PICK d \in adding, added \in BOOLEAN :
            adding' = adding \ {d} /\ events' = Append(events, <<d, added>>)
        BY <1>14 DEF BluezTells
    <2>2. <<d, added>> \in Devices \X BOOLEAN /\ adding' \subseteq Devices
        BY <2>1 DEF PrTypeOK
    <2>3. events' \in Seq(Devices \X BOOLEAN) /\ Len(events') = Len(events) + 1
        BY <2>1, <2>2, AppendProperties DEF PrTypeOK
    <2>4. Len(events') <= EventCap
        BY <1>0, <1>14, <2>3 DEF BluezTells, PrTypeOK
    <2> QED
        BY <1>14, <1>k, <2>2, <2>3, <2>4 DEF BluezTells, PrTypeOK, InHand, Ended
<1>15. CASE PrNone
    BY <1>15, <1>k DEF PrNone, Select, PrTypeOK, InHand, Ended
<1>16. CASE BluezEnds
    <2>1. provOpen' \in BOOLEAN /\ adding' \subseteq Devices
        BY <1>16 DEF BluezEnds
    <2> QED
        BY <1>16, <1>k, <2>1 DEF BluezEnds, PrTypeOK, InHand, Ended
<1>17. CASE UNCHANGED vars
    BY <1>17, <1>k DEF vars, PrTypeOK, InHand, Ended
<1> QED
    BY <1>1, <1>2, <1>3, <1>4, <1>5, <1>6, <1>7, <1>8, <1>9, <1>10, <1>11, <1>12, <1>13, <1>14, <1>15, <1>16, <1>17,
       StepsSplit DEF LowerStep, PrArms, PrBody

-----------------------------------------------------------------------------
(* The inductive invariant holds in every behaviour.                       *)
THEOREM Inductive == Spec => []IndInv
<1>1. IndInv /\ [Next]_vars => IndInv'
    BY BusStep, GwInvStep, PrInvStep DEF IndInv
<1> QED
    BY InitHolds, <1>1, PTL DEF Spec

(* Type correctness, for any capacities of the channels.                   *)
THEOREM TypeCorrect == Spec => []TypeOK
<1>1. IndInv => TypeOK
    BY DEF IndInv, GwInv, PrInv, TypeOK
<1> QED
    BY Inductive, <1>1, PTL

(* Every command for a node that the gateway task has gone past was given  *)
(* to BlueZ, however far it fell behind (gateway.rs, run).                 *)
THEOREM NeverSkips == Spec => []GatewayNeverSkips
<1>1. IndInv => GatewayNeverSkips
    BY DEF IndInv, GwInv
<1> QED
    BY Inductive, <1>1, PTL

(* The provisioner ends after the configurator, and no job is left behind  *)
(* (provisioner.rs, run: drop and join_all).                               *)
THEOREM JoinsCleanly == Spec => []CleanJoin
<1>1. IndInv => CleanJoin
    BY DEF IndInv, PrInv, Ended, CleanJoin
<1> QED
    BY Inductive, <1>1, PTL
=============================================================================
