------------------------- MODULE MCEventDispatcher -------------------------
(* One device, the two threads that broadcast (the event stream, and a     *)
(* request that releases a claim), and one session that renews its token.  *)
EXTENDS EventDispatcher, TLC

CONSTANTS board, stream, release, tab, first, renewal

MCSessionOf == (first :> tab) @@ (renewal :> tab)
=============================================================================
