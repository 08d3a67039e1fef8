------------------------------ MODULE MCOrders ------------------------------
(***************************************************************************)
(* Small instances of Orders and the inventory desk.                       *)
(***************************************************************************)
EXTENDS OrdersDesk, TLC

Symmetry == Permutations(Drafts) \cup Permutations(Keys) \cup Permutations(Targets)
              \cup Permutations(Quotes)
=============================================================================
