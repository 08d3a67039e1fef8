--------------------------- MODULE MCConversations ---------------------------
(***************************************************************************)
(* Small instances of Conversations.                                       *)
(***************************************************************************)
EXTENDS Conversations, TLC

Symmetry == Permutations(Members) \cup Permutations(Messages) \cup Permutations(Runs)
=============================================================================
