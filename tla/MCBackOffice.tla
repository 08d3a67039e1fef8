---------------------------- MODULE MCBackOffice ----------------------------
(***************************************************************************)
(* A small instance of the components around the conversations.            *)
(***************************************************************************)
EXTENDS BackOffice, TLC

\* By a percentage that is rounded down, by an amount, and not negotiable.
MCPolicies ==
  {[negotiable |-> TRUE, type |-> "percentage_of_list", minimum |-> 33334,
    maxDiscount |-> 9000, belowMinimum |-> "counter", whenNotNegotiable |-> "reject"],
   [negotiable |-> TRUE, type |-> "fixed", minimum |-> 90,
    maxDiscount |-> 505, belowMinimum |-> "counter", whenNotNegotiable |-> "reject"],
   [negotiable |-> FALSE, type |-> "fixed", minimum |-> 90,
    maxDiscount |-> 10000, belowMinimum |-> "reject", whenNotNegotiable |-> "handoff"]}

Symmetry == Permutations(Editors) \cup Permutations(Contents)
=============================================================================
