---------------------------- MODULE MCGatewayApp ----------------------------
(* Two nodes and two commands on a bus that holds one, so that a task can  *)
(* lag, and every other channel holds one, so that each of them fills up.  *)
EXTENDS GatewayApp
=============================================================================
