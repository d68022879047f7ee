---------------------------- MODULE MCConsoleApp ----------------------------
(* The page with two devices to claim, one after the other, three fetches  *)
(* and up to two operations at a time.                                     *)
EXTENDS ConsoleApp, TLC
Symmetry == Permutations(Devices) \cup Permutations(Sockets)
=============================================================================
