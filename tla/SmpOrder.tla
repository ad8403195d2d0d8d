----------------------------- MODULE SmpOrder -----------------------------
(***************************************************************************)
(* What a red-black tree of smp_stl/smp_tree promises its client: a bag of *)
(* keys.  A key put in is there until that key, and no other, is taken     *)
(* out, in whichever node it leaves.                                       *)
(***************************************************************************)
EXTENDS Integers

CONSTANT Keys  (* the keys of the nodes *)

VARIABLES
  stored, (* how many times each key is in the tree *)
  loose   (* how many nodes outside the tree carry each key *)

OInit == stored = [k \in Keys |-> 0] /\ loose = [k \in Keys |-> 0]

One(f, k, d) == [f EXCEPT ![k] = @ + d]

Make(k) == loose' = One(loose, k, 1) /\ UNCHANGED stored

PutIn(k) == /\ loose[k] > 0
            /\ loose' = One(loose, k, -1)
            /\ stored' = One(stored, k, 1)

TakeOut(k) == /\ stored[k] > 0
              /\ stored' = One(stored, k, -1)
              /\ loose' = One(loose, k, 1)

Scrap(k) == loose[k] > 0 /\ loose' = One(loose, k, -1) /\ UNCHANGED stored

Empty == stored' = [k \in Keys |-> 0] /\ UNCHANGED loose

ONext == \/ \E k \in Keys : Make(k) \/ PutIn(k) \/ TakeOut(k) \/ Scrap(k)
         \/ Empty

OSpec == OInit /\ [][ONext]_<<stored, loose>>
=============================================================================
