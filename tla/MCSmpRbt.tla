----------------------------- MODULE MCSmpRbt -----------------------------
EXTENDS SmpRbt

(* Nodes that carry the same key are interchangeable: a state is the shape *)
(* of the tree with its keys and colors, and the keys outside the tree.    *)
Look(n) == [key |-> key[n], color |-> rbt.color[n], at |-> n = nd,
            due |-> pc = "delete" /\ rbt.parent[NIL] = n,
            low |-> Len(Inorder(n))]

Trees == IF pc = "clean" THEN busy ELSE <<rbt.root>>

LooksOf(n) == [i \in DOMAIN Inorder(n) |-> Look(Inorder(n)[i])]

ShapeView == <<live, size, pc, nd = NIL, out = NIL, saved, drop, idle,
               Cardinality(heap), Cardinality(lost),
               [i \in DOMAIN Trees |-> LooksOf(Trees[i])],
               [k \in Keys |-> Count(held, k)]>>
===========================================================================
