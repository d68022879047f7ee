----------------------- MODULE NodeConfiguratorProof -----------------------
(***************************************************************************)
(* The node configurator, for any numbers of devices, jobs, retries and    *)
(* messages on the air: each of its steps is one of the configurator that  *)
(* the provisioner counts on, or none; how many answers are owed to no one *)
(* in a calm run; and what a node has handled when it is called            *)
(* provisioned.                                                            *)
(*                                                                         *)
(* The last two are not inductive.  A message that was sent must be traced *)
(* to the node or to the air (Traced), at every step of a job (Placed).    *)
(***************************************************************************)
EXTENDS NodeConfigurator, FiniteSetTheorems, SequenceTheorems, TLAPS

InHand == pc \notin {"recv", "done"}

(* Where the task is in its job.                                           *)
Placed ==
    /\ InHand <=> job # NoJob
    /\ pc = "appkey" => job.op = "configure" /\ step = 1
    /\ InHand /\ job.op = "configure" => step \in 1..LastStep
    /\ pc \in {"recv", "appkey", "send"} => retries = 0
    /\ pc = "wait" => retries < MaxRetries
    /\ pc = "recv" => step = 0
    /\ failed => pc = "publish" /\ ~calm
    /\ pc = "publish" /\ job.op = "configure" /\ ~failed => step = LastStep

(* The messages of the job in hand that have been sent.                    *)
Sent ==
    IF pc = "appkey" THEN {}
    ELSE {"app-key"} \cup {ConfigSteps[i] : i \in 1..(IF pc = "send" THEN step - 1 ELSE step)}

HistoryTyped ==
    /\ calm \in BOOLEAN /\ keys \in Nat /\ wiped \in BOOLEAN
    /\ heard \in [Devices -> SUBSET Messages]

OnAir(p) == \E k \in 1..Len(radio) : radio[k] = p

Traced ==
    calm /\ ~wiped /\ InHand /\ job.op = "configure" =>
        \A m \in Sent : m \in heard[job.device] \/ OnAir([device |-> job.device, message |-> m])

IndInv == TypeOK /\ Placed /\ AnswersOwed /\ Traced

-----------------------------------------------------------------------------
(* What leaves the air leaves the rest of it as it was.                    *)
LEMMA RemoveAtFacts ==
    ASSUME NEW S, NEW s \in Seq(S), NEW i \in DOMAIN s
    PROVE  /\ RemoveAt(s, i) \in Seq(S)
           /\ Len(RemoveAt(s, i)) = Len(s) - 1
           /\ \A k \in 1..Len(s) : k # i => \E n \in 1..(Len(s) - 1) : RemoveAt(s, i)[n] = s[k]
<1>1. i \in 1..Len(s) /\ Len(s) \in Nat
    OBVIOUS
<1> DEFINE a == SubSeq(s, 1, i - 1)
           b == SubSeq(s, i + 1, Len(s))
<1>2. a \in Seq(S) /\ Len(a) = i - 1 /\ \A k \in 1..(i - 1) : a[k] = s[k]
    BY <1>1, SubSeqProperties
<1>3. b \in Seq(S) /\ Len(b) = Len(s) - i /\ \A k \in 1..(Len(s) - i) : b[k] = s[i + k]
    BY <1>1, SubSeqProperties
<1>4. RemoveAt(s, i) = a \o b
    BY DEF RemoveAt
<1>5. /\ a \o b \in Seq(S) /\ Len(a \o b) = Len(s) - 1
      /\ \A k \in 1..(i - 1) : (a \o b)[k] = s[k]
      /\ \A k \in i..(Len(s) - 1) : (a \o b)[k] = s[k + 1]
    <2> HIDE DEF a, b
    <2>0. /\ a \o b \in Seq(S) /\ Len(a \o b) = Len(a) + Len(b)
          /\ \A k \in 1..(Len(a) + Len(b)) :
                (a \o b)[k] = IF k <= Len(a) THEN a[k] ELSE b[k - Len(a)]
        BY <1>2, <1>3, ConcatProperties
    <2>1. /\ a \o b \in Seq(S) /\ Len(a \o b) = (i - 1) + (Len(s) - i)
          /\ \A k \in 1..((i - 1) + (Len(s) - i)) :
                (a \o b)[k] = IF k <= i - 1 THEN a[k] ELSE b[k - (i - 1)]
        BY <1>2, <1>3, <2>0
    <2>2. (i - 1) + (Len(s) - i) = Len(s) - 1
        BY <1>1
    <2>3. ASSUME NEW k \in 1..(i - 1)
          PROVE  (a \o b)[k] = s[k]
        BY <1>1, <1>2, <2>1, <2>2, k \in 1..(Len(s) - 1), k <= i - 1
    <2>4. ASSUME NEW k \in i..(Len(s) - 1)
          PROVE  (a \o b)[k] = s[k + 1]
        <3>1. /\ k \in 1..(Len(s) - 1) /\ ~(k <= i - 1)
              /\ k - (i - 1) \in 1..(Len(s) - i) /\ i + (k - (i - 1)) = k + 1
            BY <1>1
        <3> QED
            BY <1>3, <2>1, <2>2, <3>1
    <2> QED
        BY <2>1, <2>2, <2>3, <2>4
<1>6. ASSUME NEW k \in 1..Len(s), k # i
      PROVE  \E n \in 1..(Len(s) - 1) : (a \o b)[n] = s[k]
    <2>1. CASE k < i
        <3>1. k \in 1..(i - 1) /\ k \in 1..(Len(s) - 1)
            BY <1>1, <2>1
        <3> QED
            BY <1>5, <3>1
    <2>2. CASE k > i
        <3>1. k - 1 \in i..(Len(s) - 1) /\ k - 1 \in 1..(Len(s) - 1) /\ (k - 1) + 1 = k
            BY <1>1, <2>2
        <3>2. (a \o b)[k - 1] = s[k]
            BY <1>5, <3>1
        <3> QED
            BY <3>1, <3>2
    <2>3. k < i \/ k > i
        BY <1>1, <1>6
    <2> QED
        BY <2>1, <2>2, <2>3
<1> QED
    BY <1>4, <1>5, <1>6

LEMMA SixMessages ==
    /\ Configured = {"app-key", "bind-sensor", "bind-onoff", "bind-battery", "pub-sensor", "pub-battery"}
    /\ IsFiniteSet(Configured) /\ Cardinality(Configured) = LastStep + 1
    /\ IsFiniteSet(Messages)
<1>1. LastStep = 5
    BY DEF LastStep, ConfigSteps
<1>2. {ConfigSteps[i] : i \in 1..LastStep}
        = {"bind-sensor", "bind-onoff", "bind-battery", "pub-sensor", "pub-battery"}
    BY <1>1 DEF ConfigSteps
<1>3. Configured = {"app-key", "bind-sensor", "bind-onoff", "bind-battery", "pub-sensor", "pub-battery"}
    BY <1>2 DEF Configured, Messages
<1> DEFINE A == {"app-key"}
           B == A \cup {"bind-sensor"}
           C == B \cup {"bind-onoff"}
           D == C \cup {"bind-battery"}
           E == D \cup {"pub-sensor"}
           F == E \cup {"pub-battery"}
<1>4. IsFiniteSet(A) /\ Cardinality(A) = 1
    BY FS_Singleton
<1>5. IsFiniteSet(B) /\ Cardinality(B) = 2
    BY <1>4, FS_AddElement
<1>6. IsFiniteSet(C) /\ Cardinality(C) = 3
    BY <1>5, FS_AddElement
<1>7. IsFiniteSet(D) /\ Cardinality(D) = 4
    BY <1>6, FS_AddElement
<1>8. IsFiniteSet(E) /\ Cardinality(E) = 5
    BY <1>7, FS_AddElement
<1>9. IsFiniteSet(F) /\ Cardinality(F) = 6
    BY <1>8, FS_AddElement
<1>10. Configured = F
    BY <1>3
<1>11. Messages = Configured \cup {"reset"}
    BY DEF Messages, Configured
<1>12. IsFiniteSet(Messages)
    BY <1>9, <1>10, <1>11, FS_AddElement
<1> QED
    BY <1>1, <1>3, <1>9, <1>10, <1>12

(* As many kinds of messages at most as there are messages on the air.     *)
LEMMA AirCovers ==
    ASSUME NEW S, NEW n \in Nat, NEW f \in [S -> 1..n],
           \A x, y \in S : f[x] = f[y] => x = y
    PROVE  IsFiniteSet(S) /\ Cardinality(S) <= n
<1>1. f \in Injection(S, 1..n)
    BY DEF Injection, IsInjective
<1>2. IsFiniteSet(1..n) /\ Cardinality(1..n) = n
    BY FS_Interval
<1> QED
    BY <1>1, <1>2, FS_Injection
-----------------------------------------------------------------------------
(* What the operators of the model return.                                 *)
LEMMA MessageFacts ==
    /\ LastStep = 5
    /\ "app-key" \in Messages /\ "reset" \in Messages
    /\ \A i \in 1..LastStep : ConfigSteps[i] \in Messages
BY DEF LastStep, ConfigSteps, Messages

LEMMA RememberFacts ==
    ASSUME NEW a \in BOOLEAN, NEW n \in Nat, NEW w \in BOOLEAN,
           NEW h \in [Devices -> SUBSET Messages], Remember(a, n, w, h)
    PROVE  /\ HistoryTyped'
           /\ calm' = a /\ (a => keys' = n /\ wiped' = w /\ heard' = h)
BY DEF Remember, HistoryTyped

LEMMA DisturbedFacts ==
    ASSUME Disturbed
    PROVE  calm' = FALSE /\ HistoryTyped'
BY DEF Disturbed, Remember, HistoryTyped

LEMMA GiveUpFacts ==
    ASSUME GiveUp
    PROVE  pc' = "publish" /\ failed' = TRUE /\ calm' = FALSE /\ HistoryTyped'
BY DisturbedFacts DEF GiveUp

LEMMA AirborneFacts ==
    ASSUME TypeOK, NEW p \in Packets
    PROVE  /\ Airborne(p) \in Seq(Packets)
           /\ ~Crowded => /\ Len(Airborne(p)) = Len(radio) + 1
                          /\ Airborne(p)[Len(radio) + 1] = p
                          /\ \A k \in 1..Len(radio) : Airborne(p)[k] = radio[k]
<1>1. radio \in Seq(Packets)
    BY DEF TypeOK
<1>2. /\ Append(radio, p) \in Seq(Packets) /\ Len(Append(radio, p)) = Len(radio) + 1
      /\ Append(radio, p)[Len(radio) + 1] = p
      /\ \A k \in 1..Len(radio) : Append(radio, p)[k] = radio[k]
    BY <1>1, AppendProperties
<1> QED
    BY <1>1, <1>2 DEF Airborne

LEMMA JobInHand ==
    ASSUME TypeOK, Placed, InHand
    PROVE  job \in Jobs /\ job.op \in Kinds /\ job.device \in Devices
           /\ job = [op |-> job.op, device |-> job.device]
BY DEF TypeOK, Placed, InHand, Jobs

LEMMA CurrentIsPacket ==
    ASSUME TypeOK, Placed, InHand
    PROVE  Current \in Packets
<1>1. job.op \in Kinds /\ job.device \in Devices
    BY JobInHand
<1>2. job.op # "reset" => step \in 1..LastStep
    BY <1>1 DEF Placed, InHand, Kinds
<1>3. (IF job.op = "reset" THEN "reset" ELSE ConfigSteps[step]) \in Messages
    BY <1>2, MessageFacts
<1> QED
    BY <1>1, <1>3 DEF Current, Packets

LEMMA KeyIsPacket ==
    ASSUME TypeOK, Placed, InHand
    PROVE  [device |-> job.device, message |-> "app-key"] \in Packets
BY JobInHand, MessageFacts DEF Packets

\* The next-state relation as the cases of the proofs below.
LEMMA Cases ==
    ASSUME [Next]_vars, NEW P,
           Submit => P, Hangup => P, Take => P, Stop => P, AddAppKey => P, Send => P,
           Receive => P, Timeout => P, Publish => P, Deliver => P, Lose => P,
           ReceiveOther => P, Chatter => P, ElementsEnd => P,
           UNCHANGED vars => P
    PROVE  P
BY DEF Next, Step

-----------------------------------------------------------------------------
LEMMA InitHolds == Init => IndInv
<1> SUFFICES ASSUME Init PROVE IndInv
    OBVIOUS
<1>1. TypeOK
    <2>1. confOpen \in BOOLEAN /\ failed \in BOOLEAN /\ calm \in BOOLEAN /\ wiped \in BOOLEAN
        BY DEF Init
    <2> QED
        BY <2>1, MessageFacts, ConfiguratorAssumption DEF Init, TypeOK
<1>2. Placed
    BY ConfiguratorAssumption DEF Init, Placed, InHand
<1>3. AnswersOwed
    BY DEF Init, AnswersOwed
<1>4. Traced
    BY DEF Init, Traced, InHand
<1> QED
    BY <1>1, <1>2, <1>3, <1>4 DEF IndInv

LEMMA TypeStep == TypeOK /\ Placed /\ [Next]_vars => TypeOK'
<1> SUFFICES ASSUME TypeOK, Placed, [Next]_vars PROVE TypeOK'
    OBVIOUS
<1> USE DEF history, confQVars, channel, HistoryTyped
<1>0. LastStep = 5 /\ ConfCap \in Nat \ {0} /\ InboxCap \in Nat \ {0} /\ MaxRetries \in Nat \ {0}
    BY MessageFacts, ConfiguratorAssumption
<1>1. CASE Submit
    <2>1. PICK j \in Jobs : jobs' = [jobs EXCEPT ![j.op] = @ + 1] /\ confQ' = Append(confQ, j)
        BY <1>1 DEF Submit
    <2>2. jobs' \in [Kinds -> Nat]
        BY <2>1 DEF TypeOK, Jobs
    <2>3. confQ' \in Seq(Jobs) /\ Len(confQ') = Len(confQ) + 1
        BY <2>1, AppendProperties DEF TypeOK
    <2> QED
        BY <1>0, <1>1, <2>2, <2>3 DEF Submit, TypeOK
<1>2. CASE Hangup
    BY <1>2 DEF Hangup, TypeOK
<1>3. CASE Take
    <2>1. Head(confQ) \in Jobs /\ confQ' \in Seq(Jobs) /\ Len(confQ') = Len(confQ) - 1
        BY <1>3, HeadTailProperties DEF Take, TypeOK
    <2>2. failed' \in BOOLEAN
        BY <1>3 DEF Take
    <2> QED
        BY <1>0, <1>3, <2>1, <2>2 DEF Take, TypeOK
<1>4. CASE Stop
    BY <1>4 DEF Stop, TypeOK
<1>5. CASE AddAppKey
    <2>1. radio' \in Seq(Packets)
        <3>1. CASE UNCHANGED radio
            BY <3>1 DEF TypeOK
        <3>2. CASE radio' = Airborne([device |-> job.device, message |-> "app-key"])
            BY <1>5, <3>2, KeyIsPacket, AirborneFacts DEF AddAppKey, InHand
        <3> QED
            BY <1>5, <3>1, <3>2 DEF AddAppKey
    <2>2. HistoryTyped'
          /\ pc' \in {"send", "publish"} /\ failed' \in BOOLEAN
        <3>1. CASE GiveUp
            BY <3>1, GiveUpFacts
        <3>2. CASE pc' = "send" /\ Remember(calm /\ ~Crowded, keys + 1, wiped, heard) /\ UNCHANGED failed
            <4>1. (calm /\ ~Crowded) \in BOOLEAN /\ keys + 1 \in Nat /\ wiped \in BOOLEAN
                BY DEF TypeOK
            <4> QED
                BY <3>2, <4>1, RememberFacts DEF TypeOK
        <3> QED
            BY <1>5, <3>1, <3>2 DEF AddAppKey
    <2> QED
        BY <1>5, <2>1, <2>2 DEF AddAppKey, TypeOK
<1>6. CASE Send
    <2>1. radio' \in Seq(Packets)
        <3>1. CASE UNCHANGED radio
            BY <3>1 DEF TypeOK
        <3>2. CASE radio' = Airborne(Current)
            BY <1>6, <3>2, CurrentIsPacket, AirborneFacts DEF Send, InHand
        <3> QED
            BY <1>6, <3>1, <3>2 DEF Send
    <2>2. HistoryTyped'
          /\ pc' \in {"wait", "publish"} /\ failed' \in BOOLEAN
        <3>1. CASE GiveUp
            BY <3>1, GiveUpFacts
        <3>2. CASE pc' = "wait" /\ Remember(calm /\ ~Crowded, keys, wiped, heard) /\ UNCHANGED failed
            BY <3>2, RememberFacts DEF TypeOK
        <3> QED
            BY <1>6, <3>1, <3>2 DEF Send
    <2> QED
        BY <1>6, <2>1, <2>2 DEF Send, TypeOK
<1>7. CASE Receive
    <2>1. inbox' \in Seq(Packets) /\ Len(inbox') = Len(inbox) - 1
        BY <1>7, HeadTailProperties DEF Receive, TypeOK
    <2>2. HistoryTyped'
          /\ pc' \in {"send", "publish"} /\ failed' \in BOOLEAN /\ step' \in 0..LastStep
        <3>1. CASE GiveUp /\ UNCHANGED step
            BY <3>1, GiveUpFacts DEF TypeOK
        <3>2. CASE /\ IF LastMessage THEN pc' = "publish" /\ UNCHANGED step
                                     ELSE pc' = "send" /\ step' = step + 1
                   /\ UNCHANGED <<failed, history>>
            BY <1>0, <3>2 DEF TypeOK, LastMessage
        <3> QED
            BY <1>7, <3>1, <3>2 DEF Receive
    <2> QED
        BY <1>0, <1>7, <2>1, <2>2 DEF Receive, TypeOK
<1>8. CASE Timeout
    <2>1. radio' \in Seq(Packets)
        <3>1. CASE UNCHANGED radio
            BY <3>1 DEF TypeOK
        <3>2. CASE radio' = Airborne(Current)
            BY <1>8, <3>2, CurrentIsPacket, AirborneFacts DEF Timeout, InHand
        <3> QED
            BY <1>8, <3>1, <3>2 DEF Timeout
    <2>2. HistoryTyped'
          /\ pc' \in {"wait", "publish"} /\ failed' \in BOOLEAN
        <3>1. CASE GiveUp
            BY <3>1, GiveUpFacts
        <3>2. CASE Disturbed /\ UNCHANGED <<pc, failed>>
            BY <1>8, <3>2, DisturbedFacts DEF TypeOK, Timeout
        <3> QED
            BY <1>8, <3>1, <3>2 DEF Timeout
    <2>3. retries' \in 0..MaxRetries
        BY <1>0, <1>8 DEF Timeout, TypeOK, Placed
    <2> QED
        BY <1>8, <2>1, <2>2, <2>3 DEF Timeout, TypeOK
<1>9. CASE Publish
    <2>1. HistoryTyped'
        BY <1>9, RememberFacts DEF Publish, TypeOK
    <2>2. status' \in [Devices -> {"none", "provisioning-error", "provisioned", "reset"}]
        BY <1>9 DEF Publish, TypeOK, NewStatus
    <2>3. failed' \in BOOLEAN
        BY <1>9 DEF Publish
    <2> QED
        BY <1>0, <1>9, <2>1, <2>2, <2>3 DEF Publish, TypeOK
<1>10. CASE Deliver
    <2>1. PICK i \in DOMAIN radio :
            /\ radio' = RemoveAt(radio, i)
            /\ \/ /\ Room /\ inbox' = Append(inbox, radio[i])
                  /\ Remember(calm, keys, wiped \/ Undoes(radio[i]), Handled(radio[i]))
               \/ Disturbed /\ UNCHANGED inbox
            /\ UNCHANGED <<confQVars, pc, job, step, retries, failed, others, elements, status>>
        BY <1>10 DEF Deliver
    <2>2. radio[i] \in Packets /\ radio[i].message \in Messages
        <3>1. radio \in Seq(Packets) /\ DOMAIN radio = 1..Len(radio)
            BY DEF TypeOK
        <3>2. radio[i] \in Packets
            BY <3>1, ElementOfSeq
        <3> QED
            BY <3>2 DEF Packets
    <2>3. radio' \in Seq(Packets)
        BY <2>1, RemoveAtFacts DEF TypeOK
    <2>4. Handled(radio[i]) \in [Devices -> SUBSET Messages]
        BY <2>2 DEF TypeOK, Handled
    <2>5. HistoryTyped'
        BY <2>1, <2>4, RememberFacts, DisturbedFacts, (wiped \/ Undoes(radio[i])) \in BOOLEAN DEF TypeOK
    <2>6. inbox' \in Seq(Packets) /\ Len(inbox') + others <= InboxCap
        <3>1. CASE UNCHANGED inbox
            BY <3>1 DEF TypeOK
        <3>2. CASE Room /\ inbox' = Append(inbox, radio[i])
            BY <1>0, <2>2, <3>2, AppendProperties DEF Room, TypeOK
        <3> QED
            BY <2>1, <3>1, <3>2
    <2> QED
        BY <2>1, <2>3, <2>4, <2>5, <2>6 DEF TypeOK
<1>11. CASE Lose
    <2>1. PICK i \in DOMAIN radio : radio' = RemoveAt(radio, i)
        BY <1>11 DEF Lose
    <2>2. radio' \in Seq(Packets)
        BY <2>1, RemoveAtFacts DEF TypeOK
    <2> QED
        BY <1>11, <2>2, DisturbedFacts DEF Lose, TypeOK
<1>12. CASE UNCHANGED vars
    BY <1>12 DEF vars, TypeOK
<1>13. CASE ReceiveOther \/ Chatter \/ ElementsEnd
    <2>1. Len(inbox) \in Nat /\ others \in Nat /\ UNCHANGED inbox
        BY <1>13 DEF ReceiveOther, Chatter, ElementsEnd, TypeOK
    <2>2. others' \in Nat /\ Len(inbox) + others' <= InboxCap /\ elements' \in BOOLEAN
        <3>1. CASE ReceiveOther
            BY <1>0, <2>1, <3>1 DEF ReceiveOther, TypeOK
        <3>2. CASE Chatter
            BY <1>0, <2>1, <3>2 DEF Chatter, Room, TypeOK
        <3>3. CASE ElementsEnd
            BY <1>0, <2>1, <3>3 DEF ElementsEnd, TypeOK
        <3> QED
            BY <1>13, <3>1, <3>2, <3>3
    <2> QED
        BY <1>13, <2>1, <2>2 DEF ReceiveOther, Chatter, ElementsEnd, TypeOK
<1> QED
    BY <1>1, <1>2, <1>3, <1>4, <1>5, <1>6, <1>7, <1>8, <1>9, <1>10, <1>11, <1>12, <1>13, Cases

LEMMA PlacedStep == TypeOK /\ Placed /\ [Next]_vars => Placed'
<1> SUFFICES ASSUME TypeOK, Placed, [Next]_vars PROVE Placed'
    OBVIOUS
<1> USE DEF history, confQVars, channel
<1>0. LastStep = 5 /\ MaxRetries \in Nat \ {0} /\ NoJob \notin Jobs
    BY MessageFacts, ConfiguratorAssumption
<1>1. CASE Submit
    BY <1>1 DEF Submit, Placed, InHand
<1>2. CASE Hangup
    BY <1>2 DEF Hangup, Placed, InHand
<1>3. CASE Take
    <2>1. Head(confQ) \in Jobs /\ job' = Head(confQ) /\ job' # NoJob /\ job'.op \in Kinds
        <3>1. Head(confQ) \in Jobs /\ job' = Head(confQ)
            BY <1>3, HeadTailProperties DEF Take, TypeOK
        <3> QED
            BY <1>0, <3>1 DEF Jobs
    <2>2. job'.op = "configure" => pc' = "appkey" /\ step' = 1
        BY <1>3, <2>1 DEF Take
    <2>3. job'.op # "configure" => pc' = "send" /\ step' = 0
        BY <1>3, <2>1 DEF Take
    <2>4. retries' = 0 /\ ~failed'
        BY <1>3 DEF Take, Placed
    <2> QED
        BY <1>0, <2>1, <2>2, <2>3, <2>4 DEF Placed, InHand
<1>4. CASE Stop
    BY <1>4 DEF Stop, Placed, InHand
<1>5. CASE AddAppKey
    <2>1. CASE GiveUp
        BY <1>0, <1>5, <2>1, GiveUpFacts DEF AddAppKey, Placed, InHand
    <2>2. CASE pc' = "send" /\ UNCHANGED failed
        BY <1>0, <1>5, <2>2 DEF AddAppKey, Placed, InHand
    <2> QED
        BY <1>5, <2>1, <2>2 DEF AddAppKey
<1>6. CASE Send
    <2>1. CASE GiveUp
        BY <1>0, <1>6, <2>1, GiveUpFacts DEF Send, Placed, InHand
    <2>2. CASE pc' = "wait" /\ UNCHANGED failed
        BY <1>0, <1>6, <2>2 DEF Send, Placed, InHand
    <2> QED
        BY <1>6, <2>1, <2>2 DEF Send
<1>7. CASE Receive
    <2>1. CASE GiveUp /\ UNCHANGED step
        BY <1>0, <1>7, <2>1, GiveUpFacts DEF Receive, Placed, InHand
    <2>2. CASE LastMessage /\ pc' = "publish" /\ UNCHANGED <<step, failed, history>>
        BY <1>0, <1>7, <2>2 DEF Receive, Placed, InHand, LastMessage
    <2>3. CASE ~LastMessage /\ pc' = "send" /\ step' = step + 1 /\ UNCHANGED <<failed, history>>
        BY <1>0, <1>7, <2>3 DEF Receive, Placed, InHand, LastMessage, TypeOK
    <2> QED
        BY <1>7, <2>1, <2>2, <2>3 DEF Receive
<1>8. CASE Timeout
    <2>1. CASE GiveUp
        BY <1>0, <1>8, <2>1, GiveUpFacts DEF Timeout, Placed, InHand
    <2>2. CASE retries' = retries + 1 /\ retries + 1 < MaxRetries /\ UNCHANGED <<pc, failed>>
        BY <1>0, <1>8, <2>2 DEF Timeout, Placed, InHand
    <2> QED
        BY <1>8, <2>1, <2>2 DEF Timeout
<1>9. CASE Publish
    BY <1>0, <1>9 DEF Publish, Placed, InHand
<1>10. CASE Deliver
    <2>1. UNCHANGED <<pc, job, step, retries, failed>> /\ (calm' => calm)
        <3>1. /\ UNCHANGED <<pc, job, step, retries, failed>>
              /\ Disturbed \/ \E w, h : Remember(calm, keys, w, h)
            BY <1>10 DEF Deliver
        <3>2. Disturbed => ~calm'
            BY DisturbedFacts
        <3>3. (\E w, h : Remember(calm, keys, w, h)) => calm' = calm
            BY DEF Remember
        <3> QED
            BY <3>1, <3>2, <3>3
    <2> QED
        BY <2>1 DEF Placed, InHand
<1>11. CASE Lose
    BY <1>11, DisturbedFacts DEF Lose, Placed, InHand
<1>12. CASE UNCHANGED vars
    BY <1>12 DEF vars, Placed, InHand
<1>13. CASE ReceiveOther \/ Chatter \/ ElementsEnd
    BY <1>13 DEF ReceiveOther, Chatter, ElementsEnd, Placed, InHand
<1> QED
    BY <1>1, <1>2, <1>3, <1>4, <1>5, <1>6, <1>7, <1>8, <1>9, <1>10, <1>11, <1>12, <1>13, Cases

(* Every message that is sent in a calm run is answered once; only the one *)
(* the task waits for is expected.                                         *)
LEMMA OwedStep == TypeOK /\ Placed /\ AnswersOwed /\ [Next]_vars => AnswersOwed'
<1> SUFFICES ASSUME TypeOK, Placed, AnswersOwed, [Next]_vars, calm'
             PROVE  Len(inbox') + Len(radio') = keys' + (IF pc' = "wait" THEN 1 ELSE 0)
    BY DEF AnswersOwed
<1> USE DEF history, confQVars, channel
<1>0. Len(inbox) \in Nat /\ Len(radio) \in Nat /\ keys \in Nat
    BY DEF TypeOK
<1>1. CASE Submit
    BY <1>1 DEF Submit, AnswersOwed
<1>2. CASE Hangup
    BY <1>2 DEF Hangup, AnswersOwed
<1>3. CASE Take
    BY <1>3 DEF Take, AnswersOwed
<1>4. CASE Stop
    BY <1>4 DEF Stop, AnswersOwed
<1>5. CASE AddAppKey
    <2>1. ~GiveUp
        BY GiveUpFacts
    <2>2. /\ radio' = Airborne([device |-> job.device, message |-> "app-key"])
          /\ pc' = "send" /\ Remember(calm /\ ~Crowded, keys + 1, wiped, heard)
        BY <1>5, <2>1 DEF AddAppKey
    <2>3. calm /\ ~Crowded /\ keys' = keys + 1
        BY <2>2 DEF Remember
    <2>4. Len(radio') = Len(radio) + 1
        BY <1>5, <2>2, <2>3, KeyIsPacket, AirborneFacts DEF AddAppKey, InHand
    <2> QED
        BY <1>0, <1>5, <2>2, <2>3, <2>4 DEF AddAppKey, AnswersOwed
<1>6. CASE Send
    <2>1. ~GiveUp
        BY GiveUpFacts
    <2>2. radio' = Airborne(Current) /\ pc' = "wait" /\ Remember(calm /\ ~Crowded, keys, wiped, heard)
        BY <1>6, <2>1 DEF Send
    <2>3. calm /\ ~Crowded /\ keys' = keys
        BY <2>2 DEF Remember
    <2>4. Len(radio') = Len(radio) + 1
        BY <1>6, <2>2, <2>3, CurrentIsPacket, AirborneFacts DEF Send, InHand
    <2> QED
        BY <1>0, <1>6, <2>2, <2>3, <2>4 DEF Send, AnswersOwed
<1>7. CASE Receive
    <2>1. ~GiveUp
        BY GiveUpFacts
    <2>2. pc' # "wait" /\ calm /\ keys' = keys
        BY <1>7, <2>1 DEF Receive
    <2>3. Len(inbox') = Len(inbox) - 1
        BY <1>7, HeadTailProperties DEF Receive, TypeOK
    <2> QED
        BY <1>0, <1>7, <2>2, <2>3 DEF Receive, AnswersOwed
<1>8. CASE Timeout
    BY <1>8, GiveUpFacts, DisturbedFacts DEF Timeout
<1>9. CASE Publish
    <2>1. calm /\ keys' = keys
        BY <1>9 DEF Publish, Remember
    <2> QED
        BY <1>9, <2>1 DEF Publish, AnswersOwed
<1>10. CASE Deliver
    <2>1. PICK i \in DOMAIN radio :
            /\ radio' = RemoveAt(radio, i)
            /\ inbox' = Append(inbox, radio[i]) /\ Remember(calm, keys, wiped \/ Undoes(radio[i]), Handled(radio[i]))
            /\ UNCHANGED pc
        BY <1>10, DisturbedFacts DEF Deliver
    <2>2. calm /\ keys' = keys
        BY <2>1 DEF Remember
    <2>3. Len(radio') = Len(radio) - 1
        BY <2>1, RemoveAtFacts DEF TypeOK
    <2>4. radio[i] \in Packets
        BY <2>1, ElementOfSeq DEF TypeOK
    <2>5. Len(inbox') = Len(inbox) + 1
        BY <2>1, <2>4, AppendProperties DEF TypeOK
    <2> QED
        BY <1>0, <2>1, <2>2, <2>3, <2>5 DEF AnswersOwed
<1>11. CASE Lose
    BY <1>11, DisturbedFacts DEF Lose
<1>12. CASE UNCHANGED vars
    BY <1>12 DEF vars, AnswersOwed
<1>13. CASE ReceiveOther \/ Chatter \/ ElementsEnd
    BY <1>13 DEF ReceiveOther, Chatter, ElementsEnd, AnswersOwed
<1> QED
    BY <1>1, <1>2, <1>3, <1>4, <1>5, <1>6, <1>7, <1>8, <1>9, <1>10, <1>11, <1>12, <1>13, Cases

\* What is on the air stays there when one more message is sent.
LEMMA SendTraced ==
    ASSUME TypeOK, ~Crowded, NEW p \in Packets, radio' = Airborne(p)
    PROVE  /\ \E k \in 1..Len(radio') : radio'[k] = p
           /\ \A q : OnAir(q) => \E k \in 1..Len(radio') : radio'[k] = q
<1>1. /\ Len(radio) \in Nat /\ Len(radio') = Len(radio) + 1
      /\ radio'[Len(radio) + 1] = p
      /\ \A k \in 1..Len(radio) : radio'[k] = radio[k]
    BY AirborneFacts DEF TypeOK
<1>2. \E k \in 1..Len(radio') : radio'[k] = p
    BY <1>1, Len(radio) + 1 \in 1..Len(radio')
<1>3. ASSUME NEW q, OnAir(q) PROVE \E k \in 1..Len(radio') : radio'[k] = q
    <2>1. PICK k \in 1..Len(radio) : radio[k] = q
        BY <1>3 DEF OnAir
    <2> QED
        BY <1>1, <2>1, k \in 1..Len(radio')
<1> QED
    BY <1>2, <1>3

(* In a calm run no message of the job is lost: it is on the air until the *)
(* node has handled it, and only a reset makes the node forget it.         *)
LEMMA TracedStep == TypeOK /\ Placed /\ Traced /\ [Next]_vars => Traced'
<1> SUFFICES ASSUME TypeOK, Placed, Traced, [Next]_vars,
                    calm', ~wiped', InHand', job'.op = "configure", NEW m \in Sent'
             PROVE  \/ m \in heard'[job'.device]
                    \/ OnAir([device |-> job.device, message |-> m])'
    BY DEF Traced
<1> USE DEF history, confQVars, channel
<1>0. LastStep = 5
    BY MessageFacts
<1> DEFINE Known(n) == n \in heard[job.device] \/ OnAir([device |-> job.device, message |-> n])
<1>a. calm /\ ~wiped /\ InHand /\ job.op = "configure" => \A n \in Sent : Known(n)
    BY DEF Traced
<1>b. ASSUME UNCHANGED <<pc, job, step, radio, heard, history>>
      PROVE  \/ m \in heard'[job'.device]
             \/ OnAir([device |-> job.device, message |-> m])'
    BY <1>a, <1>b DEF InHand, Sent, OnAir
<1>1. CASE Submit
    BY <1>1, <1>b DEF Submit
<1>2. CASE Hangup
    BY <1>2, <1>b DEF Hangup
<1>3. CASE Take
    <2>1. pc' = "appkey"
        BY <1>3 DEF Take
    <2> QED
        BY <2>1 DEF Sent
<1>4. CASE Stop
    BY <1>4 DEF Stop, InHand
<1>5. CASE AddAppKey
    <2>1. ~GiveUp
        BY GiveUpFacts
    <2>2. /\ radio' = Airborne([device |-> job.device, message |-> "app-key"])
          /\ pc' = "send" /\ Remember(calm /\ ~Crowded, keys + 1, wiped, heard)
        BY <1>5, <2>1 DEF AddAppKey
    <2>3. calm /\ ~Crowded
        BY <2>2 DEF Remember
    <2>4. OnAir([device |-> job.device, message |-> "app-key"])'
        <3>1. [device |-> job.device, message |-> "app-key"] \in Packets
            BY <1>5, KeyIsPacket DEF AddAppKey, InHand
        <3>2. \E k \in 1..Len(radio') : radio'[k] = [device |-> job.device, message |-> "app-key"]
            BY <2>2, <2>3, <3>1, SendTraced
        <3>3. job' = job
            BY <1>5 DEF AddAppKey
        <3> QED
            BY <3>2, <3>3 DEF OnAir
    <2>5. m = "app-key"
        BY <1>5, <2>2 DEF AddAppKey, Placed, InHand, Sent
    <2> QED
        BY <2>4, <2>5
<1>6. CASE Send
    <2>1. ~GiveUp
        BY GiveUpFacts
    <2>2. radio' = Airborne(Current) /\ pc' = "wait" /\ Remember(calm /\ ~Crowded, keys, wiped, heard)
        BY <1>6, <2>1 DEF Send
    <2>3. calm /\ ~Crowded /\ ~wiped /\ heard' = heard
        BY <2>2 DEF Remember
    <2>4. InHand /\ job.op = "configure" /\ UNCHANGED <<job, step, heard>>
        BY <1>6, <2>3 DEF Send, InHand
    <2>5. /\ \E k \in 1..Len(radio') : radio'[k] = Current
          /\ \A q : OnAir(q) => \E k \in 1..Len(radio') : radio'[k] = q
        BY <2>2, <2>3, <2>4, CurrentIsPacket, SendTraced
    <2>6. step \in 1..LastStep
        BY <2>4 DEF Placed
    <2>7. CASE m = ConfigSteps[step]
        BY <2>4, <2>5, <2>7 DEF Current, OnAir
    <2>8. CASE m \in Sent
        BY <1>a, <2>3, <2>4, <2>5, <2>8 DEF OnAir
    <2>9. m \in Sent \/ m = ConfigSteps[step]
        BY <1>0, <1>6, <2>2, <2>4, <2>6 DEF Send, Sent
    <2> QED
        BY <2>7, <2>8, <2>9
<1>7. CASE Receive
    <2>1. ~GiveUp
        BY GiveUpFacts
    <2>2. UNCHANGED <<job, radio, heard, history>> /\ pc = "wait"
        BY <1>7, <2>1 DEF Receive
    <2>3. \/ pc' = "publish" /\ step' = step
          \/ pc' = "send" /\ step' = step + 1
        BY <1>7, <2>1 DEF Receive
    <2>4. step \in 0..5
        BY <1>0 DEF TypeOK
    <2>5. m \in Sent
        BY <2>2, <2>3, <2>4 DEF Sent
    <2> QED
        BY <1>a, <2>2, <2>5 DEF OnAir, InHand
<1>8. CASE Timeout
    BY <1>8, GiveUpFacts, DisturbedFacts DEF Timeout
<1>9. CASE Publish
    BY <1>9 DEF Publish, InHand
<1>10. CASE Deliver
    <2>1. PICK i \in DOMAIN radio :
            /\ radio' = RemoveAt(radio, i)
            /\ Remember(calm, keys, wiped \/ Undoes(radio[i]), Handled(radio[i]))
            /\ UNCHANGED <<pc, job, step>>
        BY <1>10, DisturbedFacts DEF Deliver
    <2>2. calm /\ ~wiped /\ ~Undoes(radio[i]) /\ heard' = Handled(radio[i])
        BY <2>1 DEF Remember
    <2>3. InHand /\ job.op = "configure" /\ m \in Sent
        BY <2>1 DEF InHand, Sent
    <2>4. radio[i] \in Packets /\ radio[i].device \in Devices
        <3>1. radio[i] \in Packets
            BY <2>1, ElementOfSeq DEF TypeOK
        <3> QED
            BY <3>1 DEF Packets
    <2>5. job.device \in Devices /\ job = [op |-> "configure", device |-> job.device]
        BY <2>3, JobInHand
    <2>6. ~(radio[i].message = "reset" /\ radio[i].device = job.device)
        BY <2>2, <2>3, <2>5 DEF Undoes, InHand
    <2>7. heard[job.device] \subseteq heard'[job.device]
        BY <2>2, <2>4, <2>5, <2>6 DEF Handled, TypeOK
    <2>8. CASE m \in heard[job.device]
        BY <2>1, <2>7, <2>8
    <2>9. CASE OnAir([device |-> job.device, message |-> m])
        <3>1. PICK k \in 1..Len(radio) : radio[k] = [device |-> job.device, message |-> m]
            BY <2>9 DEF OnAir
        <3>2. CASE k = i
            <4>1. radio[i].device = job.device /\ radio[i].message = m
                BY <3>1, <3>2
            <4>2. m \in heard'[job.device]
                BY <2>2, <2>4, <2>5, <2>6, <4>1 DEF Handled, TypeOK
            <4> QED
                BY <2>1, <4>2
        <3>3. CASE k # i
            <4>1. \E n \in 1..(Len(radio) - 1) : RemoveAt(radio, i)[n] = radio[k]
                  /\ Len(RemoveAt(radio, i)) = Len(radio) - 1
                BY <2>1, <3>1, <3>3, RemoveAtFacts DEF TypeOK
            <4> QED
                BY <2>1, <3>1, <4>1 DEF OnAir
        <3> QED
            BY <3>2, <3>3
    <2> QED
        BY <1>a, <2>2, <2>3, <2>8, <2>9
<1>11. CASE Lose
    BY <1>11, DisturbedFacts DEF Lose
<1>12. CASE UNCHANGED vars
    BY <1>12, <1>b DEF vars
<1>13. CASE ReceiveOther \/ Chatter \/ ElementsEnd
    BY <1>13, <1>b DEF ReceiveOther, Chatter, ElementsEnd
<1> QED
    BY <1>1, <1>2, <1>3, <1>4, <1>5, <1>6, <1>7, <1>8, <1>9, <1>10, <1>11, <1>12, <1>13, Cases

-----------------------------------------------------------------------------
(* The inductive invariant holds in every behaviour.                       *)
THEOREM Inductive == Spec => []IndInv
<1>1. IndInv /\ [Next]_vars => IndInv'
    BY TypeStep, PlacedStep, OwedStep, TracedStep DEF IndInv
<1> QED
    BY InitHolds, <1>1, PTL DEF Spec

(* Type correctness, for any numbers of devices, jobs and retries.         *)
THEOREM TypeCorrect == Spec => []TypeOK
BY Inductive, PTL DEF IndInv

(* How many answers nobody waits for: one for each application key a calm  *)
(* run has sent (node_configurator.rs, send_recv and add_app_key).         *)
THEOREM Owed == Spec => []AnswersOwed
BY Inductive, PTL DEF IndInv

(* The messages of a configuration that a node has not handled are on the  *)
(* air, and there are no more of those than keys sent.                     *)
LEMMA TracedCount == IndInv => HeardBeforeProvisioned
<1> SUFFICES ASSUME IndInv, calm, ~wiped, pc = "publish", job.op = "configure"
             PROVE  Cardinality(heard[job.device]) + keys >= LastStep + 1
    BY DEF HeardBeforeProvisioned
<1> DEFINE D == heard[job.device]
           Missing == Configured \ D
           Air(m) == CHOOSE k \in 1..Len(radio) : radio[k] = [device |-> job.device, message |-> m]
           f == [m \in Missing |-> Air(m)]
<1>1. LastStep = 5 /\ step = LastStep /\ job.device \in Devices
    BY MessageFacts, JobInHand DEF IndInv, Placed, InHand
<1>2. Configured \subseteq Sent
    BY <1>1, SixMessages DEF Sent, ConfigSteps
<1>3. \A m \in Missing : \E k \in 1..Len(radio) : radio[k] = [device |-> job.device, message |-> m]
    BY <1>2 DEF IndInv, Traced, InHand, OnAir
<1>4. \A m \in Missing : Air(m) \in 1..Len(radio) /\ radio[Air(m)] = [device |-> job.device, message |-> m]
    BY <1>3
<1>5. f \in [Missing -> 1..Len(radio)] /\ \A x, y \in Missing : f[x] = f[y] => x = y
    BY <1>4
<1>6. Len(radio) \in Nat /\ Len(inbox) \in Nat /\ keys \in Nat
    BY DEF IndInv, TypeOK
<1>7. IsFiniteSet(Missing) /\ Cardinality(Missing) <= Len(radio)
    <2> HIDE DEF f, Missing
    <2> QED
        BY <1>5, <1>6, AirCovers
<1>8. Len(radio) <= keys
    BY <1>6 DEF IndInv, AnswersOwed
<1>9. IsFiniteSet(D) /\ Cardinality(D) \in Nat
    BY <1>1, SixMessages, FS_Subset, FS_CardinalityType DEF IndInv, TypeOK
<1>10. Cardinality(Configured) <= Cardinality(D) + Cardinality(Missing)
    <2>1. IsFiniteSet(D \cup Missing) /\ Configured \subseteq D \cup Missing
        BY <1>7, <1>9, FS_Union
    <2>2. Cardinality(Configured) <= Cardinality(D \cup Missing)
        BY <2>1, FS_Subset
    <2>3. D \cap Missing = {}
        OBVIOUS
    <2>4. Cardinality(D \cup Missing) = Cardinality(D) + Cardinality(Missing) - Cardinality(D \cap Missing)
        BY <1>7, <1>9, FS_Union
    <2>5. Cardinality(D \cap Missing) = 0
        BY <2>3, FS_EmptySet
    <2> QED
        BY <1>7, <1>9, <2>2, <2>4, <2>5, FS_CardinalityType
<1> QED
    BY <1>1, <1>6, <1>7, <1>8, <1>9, <1>10, SixMessages, FS_CardinalityType

(* A node that is called provisioned in a calm run has handled all of the  *)
(* six messages but as many as there have been configurations, unless a    *)
(* reset that was still on its way has undone them (NodeConfigurator).     *)
THEOREM Heard == Spec => []HeardBeforeProvisioned
BY Inductive, TracedCount, PTL

-----------------------------------------------------------------------------
(* The configurator the provisioner counts on.                             *)

LEMMA AbstractInit == Init => Impl!ConfInit
BY DEF Init, Impl!ConfInit

LEMMA AbstractStep == TypeOK /\ Placed /\ [Next]_vars => [Impl!ConfNext]_(Impl!confVars)
<1> SUFFICES ASSUME TypeOK, Placed, [Next]_vars PROVE [Impl!ConfNext]_(Impl!confVars)
    OBVIOUS
<1> USE DEF history, confQVars, channel
<1>1. CASE Submit
    <2>1. PICK j \in Jobs : confQ' = Append(confQ, j)
        BY <1>1 DEF Submit
    <2>2. j \in Impl!Jobs
        BY <2>1 DEF Jobs, Impl!Jobs, Kinds
    <2>3. Impl!Enqueue(j)
        BY <1>1, <2>1 DEF Submit, Impl!Enqueue
    <2> QED
        BY <2>2, <2>3 DEF Impl!ConfNext
<1>2. CASE Hangup
    BY <1>2 DEF Hangup, Impl!ConfNext, Impl!CloseQueue
<1>3. CASE Take
    BY <1>3 DEF Take, Impl!ConfNext, Impl!Take
<1>4. CASE Stop
    BY <1>4 DEF Stop, Impl!ConfNext, Impl!Stop
<1>5. CASE AddAppKey
    <2>1. pc = "appkey" /\ pc' \in {"send", "publish"}
        BY <1>5, GiveUpFacts DEF AddAppKey
    <2> QED
        BY <1>5, <2>1 DEF AddAppKey, Impl!confVars
<1>6. CASE Send
    <2>1. pc = "send" /\ pc' \in {"wait", "publish"}
        BY <1>6, GiveUpFacts DEF Send
    <2> QED
        BY <1>6, <2>1 DEF Send, Impl!confVars
<1>7. CASE Receive
    <2>1. pc = "wait" /\ pc' \in {"send", "publish"}
        BY <1>7, GiveUpFacts DEF Receive
    <2> QED
        BY <1>7, <2>1 DEF Receive, Impl!confVars
<1>8. CASE Timeout
    <2>1. pc = "wait" /\ pc' \in {"wait", "publish"}
        BY <1>8, GiveUpFacts DEF Timeout
    <2> QED
        BY <1>8, <2>1 DEF Timeout, Impl!confVars
<1>9. CASE Publish
    <2>1. job \in Jobs /\ job.op \in Kinds /\ job.device \in Devices
        BY <1>9, JobInHand DEF Publish, InHand
    <2>2. \E s \in Impl!Outcomes(job) : status' = [status EXCEPT ![job.device] = s]
        <3>1. CASE ~(failed /\ job.op = "reset") /\ status' = [status EXCEPT ![job.device] = NewStatus]
            <4>1. NewStatus \in Impl!Outcomes(job)
                BY <2>1, <3>1 DEF NewStatus, Impl!Outcomes, Kinds
            <4> QED
                BY <3>1, <4>1
        <3>2. CASE status' = status
            <4>1. status' = [status EXCEPT ![job.device] = status[job.device]]
                BY <2>1, <3>2 DEF TypeOK
            <4> QED
                BY <4>1 DEF Impl!Outcomes
        <3> QED
            BY <1>9, <3>1, <3>2 DEF Publish
    <2> QED
        BY <1>9, <2>2 DEF Publish, Impl!ConfNext, Impl!Finish
<1>10. CASE Deliver
    BY <1>10 DEF Deliver, Impl!confVars
<1>11. CASE Lose
    BY <1>11 DEF Lose, Impl!confVars
<1>12. CASE UNCHANGED vars
    BY <1>12 DEF vars, Impl!confVars
<1>13. CASE ReceiveOther \/ Chatter \/ ElementsEnd
    BY <1>13 DEF ReceiveOther, Chatter, ElementsEnd, Impl!confVars
<1> QED
    BY <1>1, <1>2, <1>3, <1>4, <1>5, <1>6, <1>7, <1>8, <1>9, <1>10, <1>11, <1>12, <1>13, Cases

(* The task is a configurator as the provisioner counts on: it takes one   *)
(* job at a time and in order, reports of no device but the one in hand,   *)
(* and stops only when no job is left (run).  This is the safety part of   *)
(* IsConfigurator; when every job ends is checked by TLC.                  *)
THEOREM SafeConfigurator == Spec => Impl!ConfSafety
<1>1. IndInv => TypeOK /\ Placed
    BY DEF IndInv
<1> QED
    BY AbstractInit, AbstractStep, Inductive, <1>1, PTL DEF Spec, Impl!ConfSafety
=============================================================================
