----------------------------- MODULE MCUpdates -----------------------------
(* One page, three states and two sortings: enough for an update, a tick   *)
(* and a request of the page to overlap, for a state to be set while the   *)
(* page is opened, and for a later one to set right what went wrong.       *)
EXTENDS Updates
=============================================================================
