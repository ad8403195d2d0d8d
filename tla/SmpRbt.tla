------------------------------ MODULE SmpRbt ------------------------------
(***************************************************************************)
(* The red-black tree of smp_stl/smp_tree/smp_rbt.c, pointer by pointer.   *)
(*                                                                         *)
(* A call runs alone: the tree has a mutex that no function takes.  A call *)
(* that only walks the tree is an operator; a call that changes it is one  *)
(* action up to its fix-up loop, one per iteration of the loop, and one    *)
(* for what follows the loop, so that the properties see the loops'        *)
(* invariants.  smp_rbt_destory is one action per node it visits.          *)
(***************************************************************************)
EXTENDS Integers, Sequences, FiniteSets

CONSTANTS
  Nodes,      (* bound: the addresses the heap can give a node *)
  Keys,       (* the keys, ordered by key_cmp *)
  QnodeFails, (* may the allocations of smp_rbt_destory fail? *)
  NIL,        (* &rbt->nil *)
  NULL

ASSUME RbtAssumption == /\ Keys \subseteq Int /\ NULL \notin Keys
                        /\ NIL \notin Nodes /\ NULL \notin Nodes \union {NIL}
                        /\ QnodeFails \in BOOLEAN
                        /\ IsFiniteSet(Nodes)

RED   == "red"
BLACK == "black"

Slots == Nodes \union {NIL}
Depth == Cardinality(Nodes) + 1

VARIABLES
  live,  (* is there a tree? *)
  rbt,   (* root, and of each node and of nil: parent, left, right and color *)
  key,   (* the key of each node *)
  size,  (* rbt->size *)
  pc,    (* the loop that is running, or "idle" *)
  nd,    (* the node a fix-up loop is at *)
  out,   (* smp_rnode_remove: the node taken out *)
  saved, (* smp_rnode_remove: the key removed *)
  drop,  (* is the node taken out destroyed, or given to the client? *)
  busy,  (* smp_rbt_destory: the queue of the nodes to visit *)
  idle,  (* smp_rbt_destory: the length of the queue of spare queue nodes *)
  heap,  (* heap: the nodes allocated *)
  held,  (* history: the nodes the client has outside the tree *)
  lost   (* history: what smp_rbt_destory left allocated: nodes, and NIL *)
         (* for a tree, whose sentinel is a part of it                   *)

vars == <<live, rbt, key, size, pc, nd, out, saved, drop, busy, idle, heap, held, lost>>

cleaning == <<busy, idle, lost>>
removing == <<out, saved, drop>>

Other(side) == IF side = "left" THEN "right" ELSE "left"

NoTree == [root   |-> NIL,
           parent |-> [n \in Slots |-> IF n = NIL THEN NIL ELSE NULL],
           left   |-> [n \in Slots |-> IF n = NIL THEN NIL ELSE NULL],
           right  |-> [n \in Slots |-> IF n = NIL THEN NIL ELSE NULL],
           color  |-> [n \in Slots |-> BLACK]]

Init == /\ live = FALSE
        /\ rbt = NoTree
        /\ key = [n \in Nodes |-> NULL]
        /\ size = 0
        /\ pc = "idle"
        /\ nd = NIL
        /\ out = NIL /\ saved = NULL /\ drop = FALSE
        /\ busy = <<>> /\ idle = 0
        /\ heap = {} /\ held = {} /\ lost = {}

(***************************************************************************)
(* The walks.  They meet nodes of the tree, and the sentinel.  Depth steps *)
(* are enough to fall off any path of the tree; a walk that goes on longer *)
(* is cut there.                                                           *)
(***************************************************************************)

(* The nodes of the tree. *)
Linked == heap \ (held \union lost \union {out})

(* The first node of smp_rnode_find that has key k, NULL if none has. *)
RnodeFind(k) ==
  LET from[d \in 0 .. Depth] == [n \in Linked \union {NIL} |->
        IF n = NIL \/ d = 0 THEN NULL
        ELSE IF key[n] = k THEN n
        ELSE from[d - 1][IF key[n] > k THEN rbt.left[n] ELSE rbt.right[n]]]
  IN from[Depth][rbt.root]

MutantEdge(n, side) == rbt[side][n]

MutantFarEdge(n, side) ==
  LET from[d \in 0 .. Depth] == [m \in Linked \union {NIL} |->
        LET o == rbt[Other(side)][m] IN IF o = NIL \/ d = 0 THEN m ELSE from[d - 1][o]]
  IN from[Depth][n]

(* The last node from n towards one side: the loops of smp_rnode_min and   *)
(* smp_rnode_max, and the one of smp_rbt_successor when nd has a right     *)
(* child, as it has whenever smp_rnode_remove asks.                        *)
Edge(n, side) ==
  LET from[d \in 0 .. Depth] == [m \in Linked \union {NIL} |->
        IF rbt[side][m] = NIL \/ d = 0 THEN m ELSE from[d - 1][rbt[side][m]]]
  IN from[Depth][n]

RnodeMin == IF rbt.root = NIL THEN NULL ELSE Edge(rbt.root, "left")
RnodeMax == IF rbt.root = NIL THEN NULL ELSE Edge(rbt.root, "right")

(* smp_inorder: the nodes below n, in the order it prints their keys. *)
Inorder(n) ==
  LET of[d \in 0 .. Depth] == [m \in Linked \union {NIL} |->
        IF m = NIL \/ d = 0 THEN <<>>
        ELSE of[d - 1][rbt.left[m]] \o <<m>> \o of[d - 1][rbt.right[m]]]
  IN of[Depth][n]

(***************************************************************************)
(* Rotations.  smp_left_rotate and smp_right_rotate mirror one another;    *)
(* Rotate(t, n, "left") is the first, Rotate(t, n, "right") the second.    *)
(***************************************************************************)

(* Make m the child of n's parent that n was, or the root. *)
Replace(t, n, m) ==
  IF t.parent[n] = NIL THEN [t EXCEPT !.root = m]
  ELSE IF n = t.left[t.parent[n]] THEN [t EXCEPT !.left[t.parent[n]] = m]
  ELSE [t EXCEPT !.right[t.parent[n]] = m]

(* n below m, which has up for its parent, and m's child c below n. *)
Lower(t, n, m, c, side, up) ==
  [t EXCEPT ![Other(side)][n] = c, ![side][m] = n, !.parent[m] = up, !.parent[n] = m]

MutantRotateForgets(t, n, side) ==
  LET m == t[Other(side)][n]
      c == t[side][m]
  IN Lower(Replace(t, n, m), n, m, c, side, t.parent[n])

Rotate(t, n, side) ==
  LET m == t[Other(side)][n]
      c == t[side][m]
      u == IF c = NIL THEN t ELSE [t EXCEPT !.parent[c] = n]
  IN Lower(Replace(u, n, m), n, m, c, side, t.parent[n])

(* The side of its parent that the loops take n to be on. *)
SideOf(t, n) == IF n = t.left[t.parent[n]] THEN "left" ELSE "right"

Paint(t, ns, c) == [t EXCEPT !.color = [n \in Slots |-> IF n \in ns THEN c ELSE @[n]]]

(***************************************************************************)
(* Creation, and the nodes outside the tree.                               *)
(***************************************************************************)
RbtCreate ==
  /\ ~live /\ pc = "idle"
  /\ live' = TRUE
  /\ rbt' = NoTree
  /\ size' = 0
  /\ UNCHANGED <<key, pc, nd, removing, cleaning, heap, held>>

RnodeCreate(n, k) ==
  /\ pc = "idle"
  /\ n \in Nodes \ heap
  /\ key' = [key EXCEPT ![n] = k]
  /\ heap' = heap \union {n}
  /\ held' = held \union {n}
  /\ UNCHANGED <<live, rbt, size, pc, nd, removing, cleaning>>

RnodeDestory(n) ==
  /\ pc = "idle"
  /\ n \in held
  /\ key' = [key EXCEPT ![n] = NULL]
  /\ heap' = heap \ {n}
  /\ held' = held \ {n}
  /\ UNCHANGED <<live, rbt, size, pc, nd, removing, cleaning>>

(***************************************************************************)
(* smp_rnode_insert and smp_insert_fixup.                                  *)
(***************************************************************************)

(* tmp, when the search for the place of a node with key k has ended. *)
InsertParent(k) ==
  LET from[d \in 0 .. Depth] == [n \in Linked |->
        LET m == IF key[n] > k THEN rbt.left[n] ELSE rbt.right[n]
        IN IF m = NIL \/ d = 0 THEN n ELSE from[d - 1][m]]
  IN IF rbt.root = NIL THEN NIL ELSE from[Depth][rbt.root]

RnodeInsert(n) ==
  /\ pc = "idle" /\ live
  /\ n \in held
  /\ LET p == InsertParent(key[n])
         t == IF p = NIL THEN [rbt EXCEPT !.root = n]
              ELSE IF key[p] > key[n] THEN [rbt EXCEPT !.left[p] = n]
              ELSE [rbt EXCEPT !.right[p] = n]
     IN rbt' = [t EXCEPT !.parent[n] = p, !.left[n] = NIL, !.right[n] = NIL,
                         !.color[n] = RED]
  /\ pc' = "insert"
  /\ nd' = n
  /\ held' = held \ {n}
  /\ UNCHANGED <<live, key, size, removing, cleaning, heap>>

(* The parent and the grandparent of nd, and the side the parent is on. *)
Par     == rbt.parent[nd]
Grand   == rbt.parent[Par]
ParSide == SideOf(rbt, Par)
Uncle   == rbt[Other(ParSide)][Grand]

MutantRecolourStays ==
  /\ pc = "insert"
  /\ rbt.color[Par] = RED
  /\ rbt.color[Uncle] = RED
  /\ rbt' = Paint(Paint(rbt, {Par, Uncle}, BLACK), {Grand}, RED)
  /\ UNCHANGED <<live, key, size, pc, nd, removing, cleaning, heap, held>>

InsertRecolour ==
  /\ pc = "insert"
  /\ rbt.color[Par] = RED
  /\ rbt.color[Uncle] = RED
  /\ rbt' = Paint(Paint(rbt, {Par, Uncle}, BLACK), {Grand}, RED)
  /\ nd' = Grand
  /\ UNCHANGED <<live, key, size, pc, removing, cleaning, heap, held>>

(* Straighten the bend at the parent, if there is one, and rotate. *)
InsertRotate ==
  /\ pc = "insert"
  /\ rbt.color[Par] = RED
  /\ rbt.color[Uncle] = BLACK
  /\ LET far  == Other(ParSide)
         bent == nd = rbt[far][Par]
         t    == IF bent THEN Rotate(rbt, Par, ParSide) ELSE rbt
         n    == IF bent THEN Par ELSE nd
         p    == t.parent[n]
         g    == t.parent[p]
     IN /\ rbt' = Rotate(Paint(Paint(t, {p}, BLACK), {g}, RED), g, far)
        /\ nd' = n
  /\ UNCHANGED <<live, key, size, pc, removing, cleaning, heap, held>>

InsertEnd ==
  /\ pc = "insert"
  /\ rbt.color[Par] = BLACK
  /\ rbt' = Paint(rbt, {rbt.root}, BLACK)
  /\ size' = size + 1
  /\ pc' = "idle"
  /\ nd' = NIL
  /\ UNCHANGED <<live, key, removing, cleaning, heap, held>>

(***************************************************************************)
(* smp_rnode_remove and smp_delete_fixup, and smp_rnode_delete (d = TRUE), *)
(* which destroys the node that smp_rnode_remove returns.  That node is n  *)
(* only if n has a nil child; otherwise it is n's successor, whose key is  *)
(* moved to n.                                                             *)
(***************************************************************************)

MutantKeepsKey(n, m) == key

(* nd->key = tmp->key, with m the node taken out for n *)
MoveKey(n, m) == [key EXCEPT ![n] = key[m]]

RnodeRemove(n, d) ==
  /\ pc = "idle" /\ live
  /\ n \in Linked
  /\ LET m == IF NIL \in {rbt.left[n], rbt.right[n]} THEN n
              ELSE Edge(rbt.right[n], "left")
         c == IF rbt.left[m] /= NIL THEN rbt.left[m] ELSE rbt.right[m]
     IN /\ rbt' = Replace([rbt EXCEPT !.parent[c] = rbt.parent[m]], m, c)
        /\ key' = MoveKey(n, m)
        /\ out' = m
        /\ nd' = c
        /\ pc' = IF rbt.color[m] = BLACK THEN "delete" ELSE "unlink"
  /\ saved' = key[n]
  /\ drop' = d
  /\ UNCHANGED <<live, size, cleaning, heap, held>>

(* smp_rnode_find_remove, and smp_rnode_delete_bykey (d = TRUE) *)
FindRemove(k, d) == /\ pc = "idle" /\ RnodeFind(k) /= NULL
                    /\ RnodeRemove(RnodeFind(k), d)

(* Another turn of the loop of smp_delete_fixup. *)
DeleteTurn == pc = "delete" /\ nd /= rbt.root /\ rbt.color[nd] = BLACK

NdSide == SideOf(rbt, nd)

(* The sibling of nd in t. *)
Sibling(t) == t[Other(NdSide)][t.parent[nd]]

(* The tree with the sibling made black, if it was red. *)
BlackSibling ==
  LET w == Sibling(rbt) IN
    IF rbt.color[w] = BLACK THEN rbt
    ELSE Rotate(Paint(Paint(rbt, {w}, BLACK), {Par}, RED), Par, NdSide)

BlackNephews(t) == /\ t.color[t.left[Sibling(t)]] = BLACK
                   /\ t.color[t.right[Sibling(t)]] = BLACK

MutantDeleteStays ==
  /\ DeleteTurn
  /\ LET t == BlackSibling IN
       /\ BlackNephews(t)
       /\ rbt' = Paint(t, {Sibling(t)}, RED)
  /\ UNCHANGED <<live, key, size, pc, nd, removing, cleaning, heap, held>>

DeleteRecolour ==
  /\ DeleteTurn
  /\ LET t == BlackSibling IN
       /\ BlackNephews(t)
       /\ rbt' = Paint(t, {Sibling(t)}, RED)
       /\ nd' = t.parent[nd]
  /\ UNCHANGED <<live, key, size, pc, removing, cleaning, heap, held>>

(* The tree with the far nephew made red, if it was black. *)
RedNephew(t) ==
  LET w   == Sibling(t)
      far == Other(NdSide)
  IN IF t.color[t[far][w]] = RED THEN t
     ELSE Rotate(Paint(Paint(t, {t[NdSide][w]}, BLACK), {w}, RED), w, far)

MutantParentColor(t) == [t EXCEPT !.color[Sibling(t)] = BLACK]

(* tmp->color = nd->parent->color, for the sibling tmp *)
ParentColor(t) == [t EXCEPT !.color[Sibling(t)] = t.color[t.parent[nd]]]

DeleteRotate ==
  /\ DeleteTurn
  /\ ~BlackNephews(BlackSibling)
  /\ LET t == RedNephew(BlackSibling)
         p == t.parent[nd]
         f == t[Other(NdSide)][Sibling(t)]
         u == Rotate(Paint(ParentColor(t), {p, f}, BLACK), p, NdSide)
     IN rbt' = u /\ nd' = u.root
  /\ UNCHANGED <<live, key, size, pc, removing, cleaning, heap, held>>

DeleteEnd ==
  /\ pc = "delete"
  /\ ~DeleteTurn
  /\ rbt' = Paint(rbt, {nd}, BLACK)
  /\ pc' = "unlink"
  /\ UNCHANGED <<live, key, size, nd, removing, cleaning, heap, held>>

MutantUnlinkKeepsKey ==
  /\ pc = "unlink"
  /\ rbt' = [rbt EXCEPT !.left[out] = NULL, !.right[out] = NULL, !.parent[out] = NULL]
  /\ heap' = IF drop THEN heap \ {out} ELSE heap
  /\ held' = IF drop THEN held ELSE held \union {out}
  /\ size' = size - 1
  /\ pc' = "idle"
  /\ nd' = NIL /\ out' = NIL /\ saved' = NULL /\ drop' = FALSE
  /\ UNCHANGED <<live, key, cleaning>>

Unlink ==
  /\ pc = "unlink"
  /\ rbt' = [rbt EXCEPT !.left[out] = NULL, !.right[out] = NULL, !.parent[out] = NULL]
  /\ key' = [key EXCEPT ![out] = IF drop THEN NULL ELSE saved]
  /\ heap' = IF drop THEN heap \ {out} ELSE heap
  /\ held' = IF drop THEN held ELSE held \union {out}
  /\ size' = size - 1
  /\ pc' = "idle"
  /\ nd' = NIL /\ out' = NIL /\ saved' = NULL /\ drop' = FALSE
  /\ UNCHANGED <<live, cleaning>>

(***************************************************************************)
(* smp_rbt_destory: smp_rbt_clean visits the tree in breadth, with a queue *)
(* of the nodes to visit and a queue of spare queue nodes.  A child whose  *)
(* queue node cannot be allocated is passed over, with all that is below.  *)
(***************************************************************************)

CleanBegin ==
  /\ pc = "idle" /\ live
  /\ pc' = "clean"
  /\ \/ rbt.root = NIL /\ busy' = <<>>
     \/ rbt.root /= NIL /\ busy' = <<rbt.root>>
     \/ rbt.root /= NIL /\ QnodeFails /\ busy' = <<>>
  /\ idle' = 0
  /\ UNCHANGED <<live, rbt, key, size, nd, removing, heap, held, lost>>

(* The children of n, the left one first, that are in ns. *)
Kids(n, ns) ==
  LET one(c) == IF c \in ns /\ c /= NIL THEN <<c>> ELSE <<>>
  IN one(rbt.left[n]) \o one(rbt.right[n])

MutantQueued(n, kept) == kept = {Kids(n, Slots)[i] : i \in DOMAIN Kids(n, Slots) \ {2}}

(* The children of n that smp_rnode_enter_queue may put in the busy queue: *)
(* those that get a spare queue node, and those that get a new one.        *)
Queued(n, kept) ==
  LET kids == Kids(n, Slots) IN
  /\ {kids[i] : i \in {j \in DOMAIN kids : j <= idle \/ ~QnodeFails}} \subseteq kept
  /\ kept \subseteq {kids[i] : i \in DOMAIN kids}

CleanNode ==
  /\ pc = "clean"
  /\ busy /= <<>>
  /\ LET n == Head(busy) IN
       /\ \E kept \in SUBSET {rbt.left[n], rbt.right[n]} :
            /\ Queued(n, kept)
            /\ busy' = Tail(busy) \o Kids(n, kept)
       /\ idle' = LET k == Len(Kids(n, Slots)) IN (IF idle > k THEN idle - k ELSE 0) + 1
       /\ rbt' = [rbt EXCEPT !.left[n] = NULL, !.right[n] = NULL, !.parent[n] = NULL]
       /\ key' = [key EXCEPT ![n] = NULL]
       /\ heap' = heap \ {n}
  /\ size' = size - 1
  /\ UNCHANGED <<live, pc, nd, removing, held, lost>>

(***************************************************************************)
(* The queues are destroyed, then smp_rbt_free frees the tree unless it    *)
(* finds a size above 0, as an unsigned one is that is not 0.  The caller  *)
(* is told SMP_OK whatever happened, and has no more use of the tree: what *)
(* is still allocated is lost.                                             *)
(***************************************************************************)
CleanEnd ==
  /\ pc = "clean"
  /\ busy = <<>>
  /\ pc' = "idle"
  /\ live' = FALSE
  /\ rbt' = NoTree
  /\ size' = 0
  /\ idle' = 0
  /\ lost' = lost \union (heap \ held) \union (IF size /= 0 THEN {NIL} ELSE {})
  /\ UNCHANGED <<key, nd, removing, busy, heap, held>>

Step == \/ InsertRecolour \/ InsertRotate \/ InsertEnd
        \/ DeleteRecolour \/ DeleteRotate \/ DeleteEnd \/ Unlink
        \/ CleanNode \/ CleanEnd

Next == \/ RbtCreate
        \/ \E n \in Nodes, k \in Keys : RnodeCreate(n, k)
        \/ \E n \in Nodes : RnodeDestory(n) \/ RnodeInsert(n)
        \/ \E d \in BOOLEAN : \/ \E n \in Nodes : RnodeRemove(n, d)
                              \/ \E k \in Keys : FindRemove(k, d)
        \/ CleanBegin
        \/ Step

Spec == Init /\ [][Next]_vars
-----------------------------------------------------------------------------
(***************************************************************************)
(* Properties.                                                             *)
(***************************************************************************)

(* Every variable has its type, and the size counts nodes, never below 0.  *)
TypeOK ==
  /\ live \in BOOLEAN
  /\ rbt.root \in Slots
  /\ \A f \in {rbt.parent, rbt.left, rbt.right} : f \in [Slots -> Slots \union {NULL}]
  /\ rbt.color \in [Slots -> {RED, BLACK}]
  /\ key \in [Nodes -> Keys \union {NULL}]
  /\ size \in 0 .. Cardinality(Nodes)
  /\ pc \in {"idle", "insert", "delete", "unlink", "clean"}
  /\ nd \in Slots
  /\ out \in Slots
  /\ saved \in Keys \union {NULL}
  /\ drop \in BOOLEAN
  /\ busy \in Seq(Nodes)
  /\ idle \in Nat
  /\ heap \subseteq Nodes
  /\ held \subseteq heap
  /\ lost \subseteq heap \union {NIL}

InTree == Inorder(rbt.root)

(***************************************************************************)
(* smp_rbt_inorder prints the keys in order, whatever the rotations and    *)
(* the removals did, even in the middle of a fix-up: equal keys may stand  *)
(* on either side of one another, and none is out of place.                *)
(***************************************************************************)
Ordered ==
  pc /= "clean" =>
    \A i \in 1 .. Len(InTree) - 1 : key[InTree[i]] <= key[InTree[i + 1]]

(***************************************************************************)
(* No rotation and no removal loses a node, takes one in twice, or leaves  *)
(* a parent pointer behind: the nodes of the tree are those below the      *)
(* root, each once, and each is a child of its parent; the sentinel stays  *)
(* black and childless; smp_rbt_size counts the nodes of the tree.         *)
(***************************************************************************)
Accounted ==
  pc /= "clean" =>
    /\ {InTree[i] : i \in DOMAIN InTree} = Linked
    /\ Len(InTree) = Cardinality(Linked)
    /\ size = Len(InTree) + (IF pc = "insert" THEN -1
                             ELSE IF out /= NIL THEN 1 ELSE 0)
    /\ \A n \in Linked : IF n = rbt.root THEN rbt.parent[n] = NIL
                         ELSE n \in {rbt.left[rbt.parent[n]], rbt.right[rbt.parent[n]]}
    /\ rbt.left[NIL] = NIL /\ rbt.right[NIL] = NIL /\ rbt.color[NIL] = BLACK

(* A child of p counts for 1 if it is black, and 1 more while smp_delete_fixup *)
(* has it in charge.                                                       *)
Weight(c, p) == (IF rbt.color[c] = BLACK THEN 1 ELSE 0) +
                (IF pc = "delete" /\ c = nd /\ rbt.parent[c] = p THEN 1 ELSE 0)

(* The weights of the paths that go down from n. *)
Weights(n) ==
  LET of[d \in 0 .. Depth] == [m \in Linked \union {NIL} |->
        IF m = NIL \/ d = 0 THEN {0}
        ELSE UNION {{w + Weight(c, m) : w \in of[d - 1][c]} : c \in {rbt.left[m], rbt.right[m]}}]
  IN of[Depth][n]

(***************************************************************************)
(* Every path from the root has as many black nodes as any other, at every *)
(* turn of both fix-up loops: the one black node that a removal takes away *)
(* is owed at nd, and only there.                                          *)
(***************************************************************************)
BlackBalanced == pc /= "clean" => Cardinality(Weights(rbt.root)) = 1

(* A red node, but for the one that smp_delete_fixup is to paint black. *)
Red(n) == rbt.color[n] = RED /\ (pc = "delete" => n /= nd)

(***************************************************************************)
(* No red node is the root or the child of a red node, but for the node    *)
(* that smp_insert_fixup is at; a red node that smp_delete_fixup is at     *)
(* counts as black.  When a call has returned there is no exception.       *)
(***************************************************************************)
RedsApart ==
  pc /= "clean" =>
    \A n \in Linked : Red(n) /\ (pc = "insert" => n /= nd)
                      => n /= rbt.root /\ ~Red(rbt.parent[n])

(***************************************************************************)
(* smp_rnode_find takes one path down, and never misses: it finds a node   *)
(* with the key if the tree has one, although rotations move equal keys to *)
(* both sides; smp_rnode_min and smp_rnode_max find the extreme keys.      *)
(***************************************************************************)
FindsAll ==
  pc = "idle" =>
    /\ \A k \in Keys : IF \E n \in Linked : key[n] = k
                       THEN RnodeFind(k) \in Linked /\ key[RnodeFind(k)] = k
                       ELSE RnodeFind(k) = NULL
    /\ Linked = {} => RnodeMin = NULL /\ RnodeMax = NULL
    /\ Linked /= {} => /\ RnodeMin \in Linked /\ RnodeMax \in Linked
                       /\ \A n \in Linked : key[RnodeMin] <= key[n] /\ key[n] <= key[RnodeMax]

(***************************************************************************)
(* "find all node and free_key it" (smp_rbt.c:552): smp_rbt_destory leaves *)
(* no node of the tree allocated.  Nor does it leave the tree: the size,   *)
(* decremented node by node, is 0 when smp_rbt_free looks at it.           *)
(***************************************************************************)
DestoryFreesAll == lost = {}

(* The length of the path from n up to the root. *)
Above(n) ==
  LET of[d \in 0 .. Depth] == [m \in Slots |->
        IF m = rbt.root \/ d = 0 THEN 0 ELSE 1 + of[d - 1][rbt.parent[m]]]
  IN of[Depth][n]

Stops == IF pc = "insert" THEN rbt.color[Par] = BLACK ELSE ~DeleteTurn

(***************************************************************************)
(* The fix-up loops end, after at most as many turns as the tree is deep:  *)
(* a turn after which the loop goes on has brought nd nearer to the root.  *)
(***************************************************************************)
FixupsClimb == [][(pc \in {"insert", "delete"} /\ pc' = pc)
                  => (Stops' \/ Above(nd)' < Above(nd))]_vars

Count(ns, k) == Cardinality({n \in ns : key[n] = k})

Order == INSTANCE SmpOrder WITH
  stored <- [k \in Keys |-> IF pc = "clean" THEN 0
                            ELSE Count({InTree[i] : i \in DOMAIN InTree}, k)],
  loose  <- [k \in Keys |-> Count(held, k) + (IF saved = k THEN 1 ELSE 0)]

(***************************************************************************)
(* The tree keeps SmpOrder's promise: what smp_rnode_remove takes out is   *)
(* the key asked for, although the node may be another one's, and no call  *)
(* changes or loses a key that it was not asked about.                     *)
(***************************************************************************)
OrderKept == Order!OSpec
=============================================================================
