----------------------------- MODULE MCSmpLink -----------------------------
(* SmpLink for TLC: nodes are carved in any order, and data only compared. *)
EXTENDS SmpLink, TLC

NodeDataSymmetry == Permutations(Nodes) \union Permutations(Data)
=============================================================================
