------------------------------ MODULE MCClaims ------------------------------
(***************************************************************************)
(* Two users: alice may send two requests at once (two browser tabs), bob,  *)
(* a device-admin, waits for each answer.                                   *)
(***************************************************************************)
EXTENDS Claims, TLC

CONSTANTS alice, bob, tab1, tab2, tab3

MCUsers  == {alice, bob}
MCAdmins == {bob}
MCTabs   == {tab1, tab2, tab3}
Symmetry == Permutations({tab1, tab2})
MCUserOf == tab1 :> alice @@ tab2 :> alice @@ tab3 :> bob
=============================================================================
