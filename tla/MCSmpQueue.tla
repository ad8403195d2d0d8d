----------------------------- MODULE MCSmpQueue -----------------------------
(* SmpQueue with a few nodes, which differ only by address. *)
EXTENDS SmpQueue, TLC

NodeSymmetry == Permutations(Nodes)
=============================================================================
