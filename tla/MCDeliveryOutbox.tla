--------------------------- MODULE MCDeliveryOutbox ---------------------------
(***************************************************************************)
(* Small instances of DeliveryOutbox.                                      *)
(***************************************************************************)
EXTENDS DeliveryOutbox, TLC

\* instagram:<host>:<pid>, the default worker id.
OwnNames == [w \in Workers |-> w]

Symmetry == Permutations(Jobs) \cup Permutations(Workers)
=============================================================================
