---------------------------- MODULE MqttDelivery ----------------------------
(***************************************************************************)
(* What MQTT promises for one direction of a session: a message that was   *)
(* accepted with QoS 1 or 2 may be taken over by the other side, one with  *)
(* QoS 2 only once, and is confirmed at most once and only after that.     *)
(* MqttSession implements it, in both directions.                          *)
(***************************************************************************)
EXTENDS Naturals

CONSTANT Messages

VARIABLES
    accepted,  \* message -> the QoS it was accepted with, 0 before
    taken,     \* message -> how often the other side took it over
    confirmed  \* messages whose delivery was reported to the sender

Init ==
    /\ accepted  = [m \in Messages |-> 0]
    /\ taken     = [m \in Messages |-> 0]
    /\ confirmed = {}

Accept(m, qos) ==
    /\ accepted[m] = 0
    /\ accepted' = [accepted EXCEPT ![m] = qos]
    /\ UNCHANGED <<taken, confirmed>>

Take(m) ==
    /\ accepted[m] > 0 /\ m \notin confirmed
    /\ accepted[m] = 2 => taken[m] = 0
    /\ taken' = [taken EXCEPT ![m] = @ + 1]
    /\ UNCHANGED <<accepted, confirmed>>

Confirm(m) ==
    /\ taken[m] > 0 /\ m \notin confirmed
    /\ confirmed' = confirmed \cup {m}
    /\ UNCHANGED <<accepted, taken>>

Next ==
    \E m \in Messages :
        \/ \E qos \in {1, 2} : Accept(m, qos)
        \/ Take(m)
        \/ Confirm(m)

Spec == Init /\ [][Next]_<<accepted, taken, confirmed>>
=============================================================================
