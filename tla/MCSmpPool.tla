----------------------------- MODULE MCSmpPool -----------------------------
(* SmpPool on a small heap.  Big allocations differ only by address.       *)
EXTENDS SmpPool, TLC

BigSymmetry == Permutations(BigIds)
=============================================================================
