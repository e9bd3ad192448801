---------------------------- MODULE MCGameClients ----------------------------
(* Small instances of GameClients for TLC.                                   *)
EXTENDS GameClients

Symmetry == Permutations(Player) \cup Permutations(Location)
=============================================================================
