---------------------------- MODULE MCInventory ----------------------------
(***************************************************************************)
(* A small instance of Inventory.                                          *)
(***************************************************************************)
EXTENDS Inventory, TLC

Symmetry == Permutations(Keys) \cup Permutations(ActiveTargets)
============================================================================
