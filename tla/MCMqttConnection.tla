-------------------------- MODULE MCMqttConnection --------------------------
EXTENDS MqttConnection

(* As the web simulator connects, with and without onMessageDelivered; and *)
(* with two hosts and whichever version the server takes.                  *)
ConnectOptions ==
    {[hosts |-> 0, explicit |-> TRUE, delivered |-> d] : d \in BOOLEAN}
        \cup {[hosts |-> 2, explicit |-> FALSE, delivered |-> TRUE]}
=============================================================================
