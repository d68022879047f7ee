-------------------------- MODULE NodeConfigurator --------------------------
(***************************************************************************)
(* node_configurator.rs: a task that configures and resets mesh nodes.  A  *)
(* configuration adds the application key and then sends five messages,    *)
(* each of which send_recv sends again after ten seconds of silence.       *)
(*                                                                         *)
(* send_recv takes any device-key message for the answer it waits for, and *)
(* the channel those messages come in (element_control) is never flushed.  *)
(* Any other message that comes in it starts the ten seconds anew, and when *)
(* BlueZ drops its end of the channel, send_recv spins.                    *)
(* The nodes and the radio are external: a message is heard and answered   *)
(* late, or it or its answer is lost; a node that is switched off is one   *)
(* that loses everything.                                                  *)
(***************************************************************************)
EXTENDS Naturals, Sequences, FiniteSets, SequencesExt

CONSTANTS
    Devices,    \* the nodes, by uuid or address
    ConfCap,    \* capacity of the job channel
    InboxCap,   \* capacity of element_control
    MaxRetries, \* 3
    RadioCap,   \* bound: messages on the air at a time, one more is lost at once
    MaxJobs,    \* bound: jobs of each kind the provisioner hands over
    NoJob

VARIABLES
    confQ, confOpen,    \* the job channel and whether its sender is alive
    pc,                 \* where the task is
    job, step, retries, \* its job, the message it is at, the retries of it
    failed,             \* whether the job failed
    radio,              \* messages on their way, heard in any order
    inbox,              \* element_control: device-key messages for the task
    others,             \* element_control: how many other messages are among them
    elements,           \* element_control: BlueZ's end is there
    heard,              \* the messages a node has handled, in a calm run, since its last reset
    status,             \* the last status published for a device
    jobs,               \* how many of each kind were handed over so far
    calm,               \* nothing has been lost, timed out or refused so far
    keys,               \* application keys sent in a calm run
    wiped               \* the node in hand was reset under its configuration

confQVars == <<confQ, confOpen, jobs>>
channel   == <<inbox, others, elements>>
history   == <<calm, keys, wiped, heard>>
vars == <<confQ, confOpen, pc, job, step, retries, failed,
          radio, channel, status, jobs, history>>

Kinds == {"configure", "reset"}
Jobs  == [op : Kinds, device : Devices]

\* The messages of a configuration, in the order of configure(); number 0 is the
\* application key, which is sent by BlueZ and not awaited.
ConfigSteps == <<"bind-sensor", "bind-onoff", "bind-battery", "pub-sensor", "pub-battery">>
LastStep    == Len(ConfigSteps)
Messages    == {"app-key", "reset"} \cup {ConfigSteps[i] : i \in 1..LastStep}
Configured  == Messages \ {"reset"}

ASSUME ConfiguratorAssumption ==
    /\ ConfCap \in Nat \ {0} /\ InboxCap \in Nat \ {0} /\ RadioCap \in Nat
    /\ MaxRetries \in Nat \ {0} /\ MaxJobs \in [Kinds -> Nat]
    /\ NoJob \notin Jobs

Packets == [device : Devices, message : Messages]

Impl == INSTANCE Configurator
        WITH cfg <- IF pc \in {"recv", "done"} THEN pc ELSE "busy"

TypeOK ==
    /\ confQ \in Seq(Jobs) /\ Len(confQ) <= ConfCap
    /\ confOpen \in BOOLEAN
    /\ pc \in {"recv", "appkey", "send", "wait", "publish", "done"}
    /\ job \in Jobs \cup {NoJob}
    /\ step \in 0..LastStep
    /\ retries \in 0..MaxRetries
    /\ failed \in BOOLEAN
    /\ radio \in Seq(Packets)
    /\ inbox \in Seq(Packets) /\ others \in Nat /\ Len(inbox) + others <= InboxCap
    /\ elements \in BOOLEAN
    /\ heard \in [Devices -> SUBSET Messages]
    /\ status \in [Devices -> {"none", "provisioning-error", "provisioned", "reset"}]
    /\ jobs \in [Kinds -> Nat] /\ keys \in Nat
    /\ calm \in BOOLEAN /\ wiped \in BOOLEAN

Init ==
    /\ confQ = <<>> /\ confOpen = TRUE
    /\ pc = "recv" /\ job = NoJob
    /\ step = 0 /\ retries = 0 /\ failed = FALSE
    /\ radio = <<>> /\ inbox = <<>> /\ others = 0 /\ elements = TRUE
    /\ heard  = [d \in Devices |-> {}]
    /\ status  = [d \in Devices |-> "none"]
    /\ jobs = [k \in Kinds |-> 0] /\ keys = 0 /\ calm = TRUE /\ wiped = FALSE

-----------------------------------------------------------------------------
(* The history.                                                            *)

Remember(isCalm, sent, isWiped, handled) ==
    /\ calm'  = isCalm
    /\ heard' = IF isCalm THEN handled ELSE [d \in Devices |-> {}]
    /\ keys'  = IF isCalm THEN sent ELSE 0
    /\ wiped' = (isCalm /\ isWiped)

Disturbed == Remember(FALSE, 0, FALSE, heard)

-----------------------------------------------------------------------------
(* The provisioner at the other end of the job channel.                    *)

Submit ==
    /\ confOpen /\ Len(confQ) < ConfCap
    /\ \E j \in Jobs :
        /\ jobs[j.op] < MaxJobs[j.op]
        /\ jobs' = [jobs EXCEPT ![j.op] = @ + 1]
        /\ confQ' = Append(confQ, j)
    /\ UNCHANGED <<confOpen, pc, job, step, retries, failed, radio, channel, status, history>>

Hangup ==
    /\ confOpen
    /\ confOpen' = FALSE
    /\ UNCHANGED <<confQ, pc, job, step, retries, failed, radio, channel, status, jobs, history>>

-----------------------------------------------------------------------------
(* run: the task's loop.                                                   *)

Take ==
    /\ pc = "recv" /\ confQ # <<>>
    /\ job'   = Head(confQ)
    /\ confQ' = Tail(confQ)
    /\ pc'    = IF Head(confQ).op = "configure" THEN "appkey" ELSE "send"
    /\ step'  = IF Head(confQ).op = "configure" THEN 1 ELSE 0
    /\ failed' = FALSE
    /\ UNCHANGED <<confOpen, retries, radio, channel, status, jobs, history>>

\* Mutant: the task ends as soon as the sender is gone.
StopAtHangup ==
    /\ pc = "recv" /\ ~confOpen
    /\ pc' = "done"
    /\ UNCHANGED <<confQVars, job, step, retries, failed, radio, channel, status, history>>

Stop ==
    /\ pc = "recv" /\ confQ = <<>> /\ ~confOpen
    /\ pc' = "done"
    /\ UNCHANGED <<confQVars, job, step, retries, failed, radio, channel, status, history>>

Current == [device  |-> job.device,
            message |-> IF job.op = "reset" THEN "reset" ELSE ConfigSteps[step]]

Crowded == Len(radio) >= RadioCap

Airborne(p) == IF Crowded THEN radio ELSE Append(radio, p)

\* An error ends the job; what was sent stays sent.
GiveUp ==
    /\ pc' = "publish"
    /\ failed' = TRUE
    /\ Disturbed

\* Mutant: the call to add_app_key is left out.
AddAppKeyUnsent ==
    /\ pc = "appkey"
    /\ pc' = "send"
    /\ Remember(calm, keys + 1, wiped, heard)
    /\ UNCHANGED <<confQVars, job, step, retries, radio, channel, status, failed>>

\* add_app_key: BlueZ sends the key, and the call returns before the node has it.
AddAppKey ==
    /\ pc = "appkey"
    /\ \/ /\ radio' = Airborne([device |-> job.device, message |-> "app-key"])
          /\ pc' = "send"
          /\ Remember(calm /\ ~Crowded, keys + 1, wiped, heard)
          /\ UNCHANGED failed
       \/ GiveUp /\ UNCHANGED radio
    /\ UNCHANGED <<confQVars, job, step, retries, channel, status>>

\* dev_key_send at the head of send_recv.
Send ==
    /\ pc = "send"
    /\ \/ /\ radio' = Airborne(Current)
          /\ pc' = "wait"
          /\ Remember(calm /\ ~Crowded, keys, wiped, heard)
          /\ UNCHANGED failed
       \/ GiveUp /\ UNCHANGED radio
    /\ UNCHANGED <<confQVars, job, step, retries, channel, status>>

\* Mutant: the job counts as done one message early.
LastButOne == job.op = "reset" \/ step = LastStep - 1

LastMessage == job.op = "reset" \/ step = LastStep

\* A device-key message ends the wait, whatever it answers; one that does not
\* parse is an error.
Receive ==
    /\ pc = "wait" /\ inbox # <<>>
    /\ inbox' = Tail(inbox)
    /\ UNCHANGED <<others, elements>>
    /\ retries' = 0
    /\ \/ /\ IF LastMessage THEN pc' = "publish" /\ UNCHANGED step
                            ELSE pc' = "send" /\ step' = step + 1
          /\ UNCHANGED <<failed, history>>
       \/ GiveUp /\ UNCHANGED step
    /\ UNCHANGED <<confQVars, job, radio, status>>

\* Another message is only logged, and the ten seconds start anew.
ReceiveOther ==
    /\ pc = "wait" /\ others > 0
    /\ others' = others - 1
    /\ UNCHANGED <<confQVars, pc, job, step, retries, failed, radio, inbox, elements, status, history>>

\* Ten seconds of silence: send again; after the last retry nobody waits.  A
\* channel that has ended says so at once, again and again (Ok(None)).
Timeout ==
    /\ pc = "wait" /\ inbox = <<>> /\ others = 0 /\ elements
    /\ \/ /\ radio' = Airborne(Current)
          /\ retries' = retries + 1
          /\ \/ retries + 1 < MaxRetries /\ Disturbed /\ UNCHANGED <<pc, failed>>
             \/ retries + 1 >= MaxRetries /\ GiveUp
       \/ GiveUp /\ UNCHANGED <<radio, retries>>
    /\ UNCHANGED <<confQVars, job, step, channel, status>>

NewStatus == IF job.op = "reset" THEN "reset"
             ELSE IF failed THEN "provisioning-error" ELSE "provisioned"

\* The MQTT message is published or lost; nothing is said of a failed reset.
Publish ==
    /\ pc = "publish"
    /\ \/ /\ ~(failed /\ job.op = "reset")
          /\ status' = [status EXCEPT ![job.device] = NewStatus]
       \/ UNCHANGED status
    /\ pc' = "recv"
    /\ job' = NoJob
    /\ step' = 0 /\ retries' = 0 /\ failed' = FALSE
    /\ Remember(calm, keys, FALSE, heard)
    /\ UNCHANGED <<confQVars, radio, channel>>

-----------------------------------------------------------------------------
(* External: radio, nodes and BlueZ.                                       *)

Handled(p) ==
    [heard EXCEPT ![p.device] =
                 IF p.message = "reset" THEN {} ELSE @ \cup {p.message}]

Undoes(p) ==
    /\ p.message = "reset"
    /\ pc \notin {"recv", "done"} /\ job = [op |-> "configure", device |-> p.device]

Room == Len(inbox) + others < InboxCap

\* The node handles a message and answers it, with success or not.
Deliver ==
    \E i \in DOMAIN radio :
        /\ radio' = RemoveAt(radio, i)
        /\ \/ /\ elements /\ Room /\ inbox' = Append(inbox, radio[i])
              /\ Remember(calm, keys, wiped \/ Undoes(radio[i]), Handled(radio[i]))
           \/ Disturbed /\ UNCHANGED inbox
        /\ UNCHANGED <<confQVars, pc, job, step, retries, failed, others, elements, status>>

Lose ==
    \E i \in DOMAIN radio :
        /\ radio' = RemoveAt(radio, i)
        /\ Disturbed
        /\ UNCHANGED <<confQVars, pc, job, step, retries, failed, channel, status>>

\* A node sends an element message of another kind.
Chatter ==
    /\ elements /\ Room
    /\ others' = others + 1
    /\ UNCHANGED <<confQVars, pc, job, step, retries, failed, radio, inbox, elements, status, history>>

ElementsEnd ==
    /\ elements /\ elements' = FALSE
    /\ UNCHANGED <<confQVars, pc, job, step, retries, failed, radio, inbox, others, status, history>>

Step == Take \/ Stop \/ AddAppKey \/ Send \/ Receive \/ ReceiveOther \/ Timeout \/ Publish

Next ==
    \/ Submit \/ Hangup
    \/ Step
    \/ Deliver \/ Lose \/ Chatter \/ ElementsEnd

\* The task runs, its ten-second timer fires, and the channel is in order: an
\* answer in it is reached.  Nothing is assumed of the provisioner, the radio and
\* the nodes.
Fairness == WF_vars(Step) /\ WF_vars(Receive)

Spec == Init /\ [][Next]_vars /\ Fairness

-----------------------------------------------------------------------------
(* Properties.                                                             *)

\* The task is the configurator the provisioner counts on: jobs one at a time, in
\* order, each reported as what became of it, and none left when it stops.  Each
\* is ended, too, whatever is answered or lost, if the channel of the elements does
\* not end and waits are restarted by other messages only so often.
IsConfigurator ==
    /\ Impl!ConfSafety
    /\ []elements /\ <>[][~ReceiveOther]_vars => Impl!ConfFairness

\* Even when nothing is lost, every configuration leaves one more answer that no
\* one waits for: the one to the application key (configure, "Add app key").
AnswersOwed ==
    calm => Len(inbox) + Len(radio) = keys + (IF pc = "wait" THEN 1 ELSE 0)

\* So "provisioned" is published, in a calm run, for a node that has handled all
\* of the six messages but as many as there have been configurations; unless an
\* earlier reset of the node, whose wait another answer had ended, was handled
\* only now and has undone what came before it.
HeardBeforeProvisioned ==
    calm /\ ~wiped /\ pc = "publish" /\ job.op = "configure" =>
        Cardinality(heard[job.device]) + keys >= LastStep + 1
=============================================================================
