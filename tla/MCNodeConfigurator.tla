------------------------- MODULE MCNodeConfigurator -------------------------
(* One node, configured, reset and configured again in any order: each job *)
(* meets what the ones before it have left in the inbox and on the air.    *)
EXTENDS NodeConfigurator
JobsOfEachKind == [configure |-> 2, reset |-> 1]
=============================================================================
