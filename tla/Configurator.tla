---------------------------- MODULE Configurator ----------------------------
(***************************************************************************)
(* What the node configurator of the gateway promises the provisioner: it  *)
(* takes the jobs of its channel one at a time and in order, ends each of  *)
(* them, reports about no device but the one it works on, and stops when   *)
(* the channel is closed and empty.  NodeConfigurator implements it.       *)
(***************************************************************************)
EXTENDS Naturals, Sequences

CONSTANTS
    Devices,    \* the nodes, by uuid or address
    ConfCap,    \* capacity of the channel (32 in provisioner.rs)
    NoJob

Jobs == [op : {"configure", "reset"}, device : Devices]

VARIABLES
    confQ,      \* the channel's contents
    confOpen,   \* whether its sender is alive
    cfg,        \* "recv", "busy" or "done"
    job,        \* the job in hand
    status      \* the last status published for a device

confVars == <<confQ, confOpen, cfg, job, status>>

Statuses == {"none", "provisioning-error", "provisioned", "reset"}

ConfTypeOK ==
    /\ confQ \in Seq(Jobs) /\ Len(confQ) <= ConfCap
    /\ confOpen \in BOOLEAN
    /\ cfg \in {"recv", "busy", "done"}
    /\ job \in Jobs \cup {NoJob}
    /\ status \in [Devices -> Statuses]

ConfInit ==
    /\ confQ    = <<>>
    /\ confOpen = TRUE
    /\ cfg      = "recv"
    /\ job      = NoJob
    /\ status   = [d \in Devices |-> "none"]

\* The sender's side: send(..).await goes through once there is room.
Enqueue(j) ==
    /\ confOpen
    /\ Len(confQ) < ConfCap
    /\ confQ' = Append(confQ, j)
    /\ UNCHANGED <<confOpen, cfg, job, status>>

CloseQueue ==
    /\ confOpen
    /\ confOpen' = FALSE
    /\ UNCHANGED <<confQ, cfg, job, status>>

Take ==
    /\ cfg = "recv"
    /\ confQ # <<>>
    /\ job'   = Head(confQ)
    /\ confQ' = Tail(confQ)
    /\ cfg'   = "busy"
    /\ UNCHANGED <<confOpen, status>>

\* A reset that fails is not reported; a status that cannot be published is lost.
Outcomes(j) ==
    {status[j.device]} \cup
    (IF j.op = "configure" THEN {"provisioned", "provisioning-error"} ELSE {"reset"})

Finish ==
    /\ cfg = "busy"
    /\ \E s \in Outcomes(job) : status' = [status EXCEPT ![job.device] = s]
    /\ cfg' = "recv"
    /\ job' = NoJob
    /\ UNCHANGED <<confQ, confOpen>>

Stop ==
    /\ cfg = "recv"
    /\ confQ = <<>>
    /\ ~confOpen
    /\ cfg' = "done"
    /\ UNCHANGED <<confQ, confOpen, job, status>>

ConfNext == (\E j \in Jobs : Enqueue(j)) \/ CloseQueue \/ Take \/ Finish \/ Stop

ConfFairness == WF_confVars(Take) /\ WF_confVars(Finish) /\ WF_confVars(Stop)

ConfSafety == ConfInit /\ [][ConfNext]_confVars

ConfSpec == ConfSafety /\ ConfFairness
=============================================================================
