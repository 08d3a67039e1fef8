---------------------------- MODULE MCAgentTurns ----------------------------
(***************************************************************************)
(* Small instances of AgentTurns.                                          *)
(***************************************************************************)
EXTENDS AgentTurns, TLC

Symmetry == Permutations(Messages) \cup Permutations(Drafts)
============================================================================
