-------------------------- MODULE MCTwinConnector --------------------------
(* Two children with two states each, two changes of the list and two      *)
(* breaks: a child can leave and come back, also across a reconnect.       *)
EXTENDS TwinConnector
=============================================================================
