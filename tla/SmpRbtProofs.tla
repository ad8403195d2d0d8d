---------------------------- MODULE SmpRbtProofs ----------------------------
(***************************************************************************)
(* Proofs about SmpRbt.                                                    *)
(*                                                                         *)
(* The nodes below each node, D, and the black nodes on the way down from  *)
(* it, bh, are no state of the program: the invariant says there are such  *)
(* functions, and each step of a loop is shown to leave others.  What the  *)
(* walks of the tree return is then read off D and bh, by induction on the *)
(* number of nodes below.                                                  *)
(***************************************************************************)
EXTENDS SmpRbt, SmpWalks, FiniteSetTheorems, SequenceTheorems

Sides == {"left", "right"}

Tree == [root : Slots, parent : [Slots -> Slots \union {NULL}],
         left : [Slots -> Slots \union {NULL}], right : [Slots -> Slots \union {NULL}],
         color : [Slots -> {RED, BLACK}]]

(* On the side s of a node of key b, a node may have key a.                *)
Before(s, a, b) == IF s = "left" THEN a <= b ELSE b <= a

(* n has the nodes of both its children below it, and itself.              *)
Fork(t, L, D, n) ==
  \A s \in Sides :
    /\ t[s][n] \in L \union {NIL}
    /\ t[s][n] /= NIL => t.parent[t[s][n]] = n
    /\ D[n] = {n} \union D[t[s][n]] \union D[t[Other(s)][n]]
    /\ n \notin D[t[s][n]]
    /\ D[t[s][n]] \intersect D[t[Other(s)][n]] = {}

(* A node, unless it is the root, is a child of its parent.                *)
Hung(t, L, n) ==
  n /= t.root => t.parent[n] \in L /\ \E s \in Sides : t[s][t.parent[n]] = n

(* What is below a node below n is below n, and what is above it, up to n. *)
Nested(t, D, n) ==
  \A a \in D[n] : D[a] \subseteq D[n] /\ (a /= n => t.parent[a] \in D[n])

(* t is a tree of the nodes L, with D the nodes below each.                *)
Shape(t, L, D) ==
  /\ D \in [Slots -> SUBSET L]
  /\ t.root \in L \union {NIL} /\ D[t.root] = L /\ D[NIL] = {}
  /\ t.root /= NIL => t.parent[t.root] = NIL
  /\ \A s \in Sides : t[s][NIL] = NIL
  /\ t.color[NIL] = BLACK
  /\ \A n \in L : Fork(t, L, D, n) /\ Hung(t, L, n) /\ Nested(t, D, n)

(* The keys below a node are on the right side of its own.                 *)
Sorted(t, L, D, k) ==
  \A n \in L, s \in Sides : \A a \in D[t[s][n]] : Before(s, k[a], k[n])

(* What a child c adds to the black nodes below p, x being the node that   *)
(* smp_delete_fixup has in charge.                                         *)
Heft(t, x, c, p) == (IF t.color[c] = BLACK THEN 1 ELSE 0) +
                    (IF c = x /\ t.parent[c] = p THEN 1 ELSE 0)

(* Both ways down from a node meet as many black nodes.                    *)
Level(t, L, x, bh) ==
  /\ bh \in [Slots -> Nat]
  /\ bh[NIL] = 0
  /\ \A n \in L, s \in Sides : bh[n] = bh[t[s][n]] + Heft(t, x, t[s][n], n)

Scarlet(t, x, n) == t.color[n] = RED /\ n /= x

(* No red node is below a red one or is the root, but for x and y.         *)
Apart(t, L, x, y) ==
  \A n \in L : Scarlet(t, x, n) /\ n /= y => n /= t.root /\ ~Scarlet(t, x, t.parent[n])

-----------------------------------------------------------------------------
(***************************************************************************)
(* Sides, colors and rotations.                                            *)
(***************************************************************************)

LEMMA OtherSide ==
  \A s \in Sides : /\ Other(s) \in Sides /\ Other(Other(s)) = s /\ Other(s) /= s
                   /\ \A e \in Sides : e = s \/ e = Other(s)
                   /\ \A a, b : Before(Other(s), a, b) <=> Before(s, b, a)
  BY DEF Sides, Other, Before

LEMMA BeforeTrans ==
  \A s \in Sides, a, b, c \in Int : Before(s, a, b) /\ Before(s, b, c) => Before(s, a, c)
  BY DEF Sides, Before

(* u has the nodes of t where t has them.                                  *)
SameLinks(t, u) == /\ u.root = t.root /\ u.parent = t.parent
                   /\ \A s \in Sides : u[s] = t[s]

LEMMA PaintFacts ==
  ASSUME NEW t \in Tree, NEW ns, NEW c \in {RED, BLACK}
  PROVE  /\ Paint(t, ns, c) \in Tree /\ SameLinks(t, Paint(t, ns, c))
         /\ \A n \in Slots : Paint(t, ns, c).color[n] = IF n \in ns THEN c ELSE t.color[n]
  BY DEF Paint, Tree, SameLinks, Sides

LEMMA TreeFacts ==
  ASSUME NEW t \in Tree
  PROVE  /\ \A s \in Sides : t[s] \in [Slots -> Slots \union {NULL}]
         /\ t.parent \in [Slots -> Slots \union {NULL}]
         /\ t.color \in [Slots -> {RED, BLACK}] /\ t.root \in Slots
  BY DEF Tree, Sides

(* n hangs at one place of the tree only.                                  *)
Hangs(t, L, n) ==
  IF n = t.root
  THEN t.parent[n] = NIL /\ \A x \in L \union {NIL}, s \in Sides : t[s][x] /= n
  ELSE /\ t.parent[n] \in L
       /\ \E e \in Sides : \A x \in L \union {NIL}, s \in Sides :
            t[s][x] = n <=> x = t.parent[n] /\ s = e

LEMMA ShapeHangs ==
  ASSUME NEW L \in SUBSET Nodes, NEW t \in Tree, NEW D, Shape(t, L, D), NEW n \in L
  PROVE  Hangs(t, L, n)
  <1> USE RbtAssumption
  <1>1. \A x \in L \union {NIL}, s \in Sides : t[s][x] = n => x \in L /\ t.parent[n] = x
    BY DEF Shape, Fork
  <1>2. CASE n = t.root
    BY <1>1, <1>2 DEF Hangs, Shape
  <1>3. CASE n /= t.root
    <2>1. t.parent[n] \in L
      BY <1>3 DEF Shape, Hung
    <2>2. PICK e \in Sides : t[e][t.parent[n]] = n
      BY <1>3 DEF Shape, Hung
    <2>3. t[Other(e)][t.parent[n]] /= n
      <3>1. D[t[e][t.parent[n]]] \intersect D[t[Other(e)][t.parent[n]]] = {}
        BY <2>1 DEF Shape, Fork
      <3>2. n \in D[n]
        BY OtherSide, <2>2 DEF Shape, Fork
      <3> QED  BY <2>2, <3>1, <3>2
    <2>4. \A x \in L \union {NIL}, s \in Sides : t[s][x] = n <=> x = t.parent[n] /\ s = e
      BY <1>1, <2>1, <2>2, <2>3, OtherSide
    <2> QED  BY <1>3, <2>1, <2>4 DEF Hangs
  <1> QED  BY <1>2, <1>3

(* r is t with m in that place.                                            *)
Replaced(t, r, L, n, m) ==
  /\ r \in Tree
  /\ r.root = IF n = t.root THEN m ELSE t.root
  /\ r.parent = t.parent /\ r.color = t.color
  /\ \A x \in L \union {NIL}, s \in Sides : r[s][x] = IF t[s][x] = n THEN m ELSE t[s][x]

LEMMA ReplaceFacts ==
  ASSUME NEW L \in SUBSET Nodes, NEW t \in Tree, NEW n \in L, NEW m \in Slots,
         Hangs(t, L, n)
  PROVE  Replaced(t, Replace(t, n, m), L, n, m)
  <1> USE RbtAssumption
  <1> USE DEF Replaced
  <1> DEFINE r == Replace(t, n, m)
  <1>1. CASE n = t.root
    <2>1. r = [t EXCEPT !.root = m]
      BY <1>1 DEF Hangs, Replace
    <2>2. r \in Tree /\ r.root = m /\ r.parent = t.parent /\ r.color = t.color
          /\ \A s \in Sides : r[s] = t[s]
      BY <2>1 DEF Tree, Sides
    <2> QED  BY <1>1, <2>2 DEF Hangs
  <1>2. CASE n /= t.root
    <2> DEFINE p == t.parent[n]
    <2>1. p \in L /\ p \in Slots /\ p /= NIL
      BY <1>2 DEF Hangs, Slots
    <2>2. PICK e \in Sides : \A x \in L \union {NIL}, s \in Sides :
                               t[s][x] = n <=> x = p /\ s = e
      BY <1>2 DEF Hangs
    <2>3. CASE e = "left"
      <3>1. r = [t EXCEPT !.left[p] = m]
        BY <2>1, <2>2, <2>3 DEF Replace, Sides
      <3>2. r \in Tree /\ r.root = t.root /\ r.parent = t.parent /\ r.color = t.color
            /\ r["left"] = [t["left"] EXCEPT ![p] = m] /\ r["right"] = t["right"]
        BY <3>1, <2>1 DEF Tree
      <3> HIDE DEF r
      <3>3. \A x \in L \union {NIL}, s \in Sides : r[s][x] = IF t[s][x] = n THEN m ELSE t[s][x]
        BY <3>2, <2>1, <2>2, <2>3, TreeFacts DEF Sides, Slots
      <3> QED  BY <1>2, <3>2, <3>3 DEF r
    <2>4. CASE e = "right"
      <3>0. t.left[p] /= n
        BY <2>1, <2>2, <2>4 DEF Sides
      <3>1. r = [t EXCEPT !.right[p] = m]
        BY <2>1, <2>2, <2>4, <3>0 DEF Replace, Sides
      <3>2. r \in Tree /\ r.root = t.root /\ r.parent = t.parent /\ r.color = t.color
            /\ r["right"] = [t["right"] EXCEPT ![p] = m] /\ r["left"] = t["left"]
        BY <3>1, <2>1 DEF Tree
      <3> HIDE DEF r
      <3>3. \A x \in L \union {NIL}, s \in Sides : r[s][x] = IF t[s][x] = n THEN m ELSE t[s][x]
        BY <3>2, <2>1, <2>2, <2>4, TreeFacts DEF Sides, Slots
      <3> QED  BY <1>2, <3>2, <3>3 DEF r
    <2> QED  BY <2>3, <2>4 DEF Sides
  <1> QED  BY <1>1, <1>2

(* r is t with n turned down to the side s, below its other child m, and   *)
(* with the child c of m below n.                                          *)
Turned(t, r, L, n, m, c, s) ==
  /\ r \in Tree
  /\ r.root = IF n = t.root THEN m ELSE t.root
  /\ r[s][m] = n /\ r[Other(s)][m] = t[Other(s)][m]
  /\ r[Other(s)][n] = c /\ r[s][n] = t[s][n]
  /\ \A x \in (L \union {NIL}) \ {n, m}, e \in Sides :
       r[e][x] = IF t[e][x] = n THEN m ELSE t[e][x]
  /\ r.parent[m] = t.parent[n] /\ r.parent[n] = m
  /\ c /= NIL => r.parent[c] = n
  /\ \A x \in Slots \ {n, m} : x /= c \/ c = NIL => r.parent[x] = t.parent[x]

(* A node, its child and the child's child on the other side.              *)
Bend(t, L, n, m, c, s) ==
  n \in L /\ s \in Sides /\ m = t[Other(s)][n] /\ m /= NIL /\ c = t[s][m]

Bent(t, L, n, m, c, s) ==
  /\ m \in L /\ m /= n /\ c \in L \union {NIL} /\ c /= n /\ c /= m
  /\ t.parent[m] = n /\ (c /= NIL => t.parent[c] = m)
  /\ t[s][n] /= m /\ (t[s][n] /= NIL => t[s][n] /= c)
  /\ (t[Other(s)][m] /= NIL => t[Other(s)][m] /= c)
  /\ t[s][n] /= n /\ t[Other(s)][m] \notin {n, m}
  /\ n \in Nodes /\ m \in Nodes /\ n /= NIL /\ c \in Slots

LEMMA BendFacts ==
  ASSUME NEW L \in SUBSET Nodes, NEW t, NEW D, Shape(t, L, D),
         NEW n, NEW m, NEW c, NEW s, Bend(t, L, n, m, c, s)
  PROVE  Bent(t, L, n, m, c, s)
  <1> USE RbtAssumption
  <1>1. n \in L /\ s \in Sides /\ Other(s) \in Sides /\ n \in Nodes /\ n /= NIL
    BY OtherSide DEF Bend
  <1>2. m \in L /\ t.parent[m] = n /\ m \in Nodes
    BY <1>1 DEF Bend, Shape, Fork
  <1>3. c \in L \union {NIL} /\ (c /= NIL => t.parent[c] = m)
    BY <1>1, <1>2 DEF Bend, Shape, Fork
  <1>4. \A x \in L, e \in Sides : x \in D[x] /\ x \notin D[t[e][x]]
                                  /\ (t[e][x] /= NIL => t[e][x] \in D[t[e][x]])
    BY DEF Shape, Fork
  <1>5. m /= n /\ m \in D[m] /\ n \in D[n] /\ m \in D[n]
    BY <1>1, <1>2, <1>4 DEF Bend, Shape, Fork
  <1>6. D[m] \subseteq D[n] /\ n \notin D[m] /\ D[c] \subseteq D[m] /\ m \notin D[c]
    BY <1>1, <1>2, <1>4 DEF Bend, Shape, Fork
  <1>7. D[t[s][n]] \intersect D[m] = {}
    BY <1>1, <1>2, OtherSide DEF Bend, Shape, Fork
  <1>8. D[t[Other(s)][m]] \subseteq D[m] /\ D[t[Other(s)][m]] \intersect D[c] = {}
    <2>1. Fork(t, L, D, m)
      BY <1>2 DEF Shape
    <2>2. c = t[s][m]
      BY DEF Bend
    <2> QED  BY <1>1, <2>1, <2>2 DEF Fork
  <1>9. c /= NIL => c \in D[c]
    BY <1>1, <1>3, <1>4
  <1>10. c /= n /\ c /= m
    BY <1>1, <1>2, <1>5, <1>6, <1>9
  <1>11. t[s][n] /= m /\ t[s][n] /= n
    BY <1>1, <1>2, <1>4, <1>5, <1>7
  <1>12. t[Other(s)][m] \notin {n, m}
    BY <1>1, <1>2, <1>4, <1>5, <1>6, <1>8
  <1>13. (t[s][n] /= NIL => t[s][n] /= c) /\ (t[Other(s)][m] /= NIL => t[Other(s)][m] /= c)
    BY <1>6, <1>7, <1>8, <1>9
  <1> QED  BY <1>1, <1>2, <1>3, <1>5, <1>10, <1>11, <1>12, <1>13 DEF Bent, Slots

LEMMA RotateFacts ==
  ASSUME NEW L \in SUBSET Nodes, NEW t \in Tree, NEW D, Shape(t, L, D),
         NEW n, NEW m, NEW c, NEW s, Bend(t, L, n, m, c, s)
  PROVE  Turned(t, Rotate(t, n, s), L, n, m, c, s) /\ Rotate(t, n, s).color = t.color
  <1> USE RbtAssumption
  <1>0. Bent(t, L, n, m, c, s)
    BY BendFacts
  <1> DEFINE u == IF c = NIL THEN t ELSE [t EXCEPT !.parent[c] = n]
             v == Replace(u, n, m)
             r == [v EXCEPT ![Other(s)][n] = c, ![s][m] = n,
                            !.parent[m] = t.parent[n], !.parent[n] = m]
  <1>1. Rotate(t, n, s) = r
    <2>1. m = t[Other(s)][n] /\ c = t[s][m]
      BY DEF Bend
    <2>2. Rotate(t, n, s) = Lower(v, n, m, c, s, t.parent[n])
      BY Zenon, <2>1 DEF Rotate
    <2> HIDE DEF v
    <2> QED  BY Zenon, <2>2 DEF Lower
  <1>2. n \in L /\ s \in Sides /\ Other(s) \in Sides /\ m = t[Other(s)][n] /\ c = t[s][m]
    BY OtherSide DEF Bend
  <1>3. /\ m \in L /\ m /= n /\ c \in L \union {NIL} /\ c /= n /\ c /= m
        /\ n \in Nodes /\ m \in Nodes /\ n /= NIL /\ c \in Slots
        /\ t.parent[m] = n
    BY <1>0 DEF Bent
  <1>4. /\ u \in Tree /\ u.root = t.root /\ u.color = t.color
        /\ \A e \in Sides : u[e] = t[e]
        /\ \A x \in Slots : u.parent[x] = IF x = c /\ c /= NIL THEN n ELSE t.parent[x]
    BY <1>3 DEF Tree, Sides, Slots
  <1>5. Hangs(u, L, n)
    <2>1. Hangs(t, L, n)
      BY <1>2, ShapeHangs
    <2>2. u.parent[n] = t.parent[n]
      BY <1>3, <1>4 DEF Slots
    <2> HIDE DEF u
    <2> QED  BY <1>4, <2>1, <2>2 DEF Hangs
  <1>6. /\ v \in Tree /\ v.root = (IF n = t.root THEN m ELSE t.root)
        /\ v.parent = u.parent /\ v.color = t.color
        /\ \A x \in L \union {NIL}, e \in Sides : v[e][x] = IF t[e][x] = n THEN m ELSE t[e][x]
    <2> HIDE DEF u
    <2>1. m \in Slots /\ n \in L
      BY <1>2, <1>3 DEF Slots
    <2>2. Replaced(u, v, L, n, m)
      BY <1>4, <1>5, <2>1, ReplaceFacts
    <2> HIDE DEF v
    <2> QED  BY <1>4, <2>2 DEF Replaced
  <1> HIDE DEF u, v
  <1>7. /\ r \in Tree /\ r.root = v.root /\ r.color = v.color
        /\ r[Other(s)] = [v[Other(s)] EXCEPT ![n] = c]
        /\ r[s] = [v[s] EXCEPT ![m] = n]
        /\ r.parent = [v.parent EXCEPT ![m] = t.parent[n], ![n] = m]
    <2>1. t.parent[n] \in Slots \union {NULL}
      BY <1>3, TreeFacts DEF Slots
    <2>2. v \in Tree /\ m \in Slots /\ n \in Slots /\ c \in Slots
      BY <1>3, <1>6 DEF Slots
    <2>3. (s = "left" /\ Other(s) = "right") \/ (s = "right" /\ Other(s) = "left")
      BY <1>2 DEF Other, Sides
    <2> QED  BY <2>1, <2>2, <2>3 DEF Tree
  <1> HIDE DEF r
  <1>8. /\ r[s][m] = n /\ r[Other(s)][m] = v[Other(s)][m]
        /\ r[Other(s)][n] = c /\ r[s][n] = v[s][n]
        /\ \A x \in (L \union {NIL}) \ {n, m}, e \in Sides : r[e][x] = v[e][x]
    BY <1>2, <1>3, <1>6, <1>7, TreeFacts, OtherSide DEF Slots
  <1>9. v[Other(s)][m] = t[Other(s)][m] /\ v[s][n] = t[s][n]
    BY <1>2, <1>3, <1>6, <1>0 DEF Bent
  <1>10. /\ r.parent[m] = t.parent[n] /\ r.parent[n] = m
         /\ \A x \in Slots \ {n, m} : r.parent[x] = u.parent[x]
    BY <1>3, <1>6, <1>7, TreeFacts DEF Slots
  <1> QED
    <2>1. c /= NIL => r.parent[c] = n
      BY <1>3, <1>4, <1>10
    <2>2. \A x \in Slots \ {n, m} : x /= c \/ c = NIL => r.parent[x] = t.parent[x]
      BY <1>4, <1>10
    <2>3. \A x \in (L \union {NIL}) \ {n, m}, e \in Sides :
            r[e][x] = IF t[e][x] = n THEN m ELSE t[e][x]
      BY <1>6, <1>8
    <2>4. Turned(t, r, L, n, m, c, s)
      BY <1>6, <1>7, <1>8, <1>9, <1>10, <2>1, <2>2, <2>3 DEF Turned
    <2> QED  BY <1>1, <1>6, <1>7, <2>4

(* What is below each node of r then.                                      *)
Below(t, D, n, m, c, s) == [D EXCEPT ![m] = D[n], ![n] = {n} \union D[c] \union D[t[s][n]]]

Reshaped(t, L, D, E, n, m, c, s) ==
  /\ E[m] = D[n] /\ E[n] = {n} \union D[c] \union D[t[s][n]]
  /\ \A x \in Slots : x \notin {n, m} => E[x] = D[x]
  /\ D[n] = {n} \union D[m] \union D[t[s][n]] /\ D[m] = {m} \union D[c] \union D[t[Other(s)][m]]
  /\ D[m] \intersect D[t[s][n]] = {} /\ D[c] \intersect D[t[Other(s)][m]] = {}
  /\ n \notin D[m] /\ n \notin D[t[s][n]] /\ m \notin D[c] /\ m \notin D[t[Other(s)][m]]
  /\ E[n] \subseteq D[n] /\ n \in D[n] /\ m \in D[n]
  /\ E \in [Slots -> SUBSET L]

LEMMA BelowFacts ==
  ASSUME NEW L \in SUBSET Nodes, NEW t, NEW D, Shape(t, L, D),
         NEW n, NEW m, NEW c, NEW s, Bend(t, L, n, m, c, s),
         NEW E, E = Below(t, D, n, m, c, s)
  PROVE  Reshaped(t, L, D, E, n, m, c, s)
  <1>0. Bent(t, L, n, m, c, s)
    BY BendFacts
  <1>1. /\ m \in L /\ m /= n /\ n \in L /\ n \in Slots /\ m \in Slots /\ n \in Nodes
        /\ s \in Sides /\ Other(s) \in Sides /\ Other(Other(s)) = s
        /\ m = t[Other(s)][n] /\ c = t[s][m]
    BY <1>0, OtherSide DEF Bent, Bend, Slots
  <1>2. Fork(t, L, D, n) /\ Fork(t, L, D, m) /\ D \in [Slots -> SUBSET L]
    BY <1>1 DEF Shape
  <1>3. /\ D[n] = {n} \union D[m] \union D[t[s][n]] /\ D[m] \intersect D[t[s][n]] = {}
        /\ n \notin D[m] /\ n \notin D[t[s][n]]
    BY <1>1, <1>2 DEF Fork
  <1>4. /\ D[m] = {m} \union D[c] \union D[t[Other(s)][m]] /\ D[c] \intersect D[t[Other(s)][m]] = {}
        /\ m \notin D[c] /\ m \notin D[t[Other(s)][m]]
    BY <1>1, <1>2 DEF Fork
  <1>5. /\ E[m] = D[n] /\ E[n] = {n} \union D[c] \union D[t[s][n]]
        /\ \A x \in Slots : x \notin {n, m} => E[x] = D[x]
    BY <1>1, <1>2 DEF Below
  <1>6. E[n] \subseteq D[n] /\ n \in D[n] /\ m \in D[n]
    BY <1>3, <1>4, <1>5
  <1>7. E \in [Slots -> SUBSET L]
    <2>1. D[n] \in SUBSET L /\ {n} \union D[c] \union D[t[s][n]] \in SUBSET L
      BY <1>1, <1>2, <1>5, <1>6
    <2> QED  BY <1>2, <2>1 DEF Below
  <1> QED  BY <1>3, <1>4, <1>5, <1>6, <1>7 DEF Reshaped

LEMMA TurnedShape ==
  ASSUME NEW L \in SUBSET Nodes, NEW t \in Tree, NEW D, Shape(t, L, D),
         NEW n, NEW m, NEW c, NEW s, Bend(t, L, n, m, c, s),
         NEW r, Turned(t, r, L, n, m, c, s), r.color[NIL] = BLACK
  PROVE  Shape(r, L, Below(t, D, n, m, c, s))
  <1> USE RbtAssumption
  <1>0. Bent(t, L, n, m, c, s)
    BY BendFacts
  <1> DEFINE b == t[s][n]
             o == Other(s)
             F == t[o][m]
  <1>e. PICK E : E = Below(t, D, n, m, c, s)
    OBVIOUS
  <1>1. /\ E[m] = D[n] /\ E[n] = {n} \union D[c] \union D[b]
        /\ \A x \in Slots : x \notin {n, m} => E[x] = D[x]
        /\ D[n] = {n} \union D[m] \union D[b] /\ D[m] = {m} \union D[c] \union D[F]
        /\ D[m] \intersect D[b] = {} /\ D[c] \intersect D[F] = {}
        /\ n \notin D[m] /\ n \notin D[b] /\ m \notin D[c] /\ m \notin D[F]
        /\ E[n] \subseteq D[n] /\ n \in D[n] /\ m \in D[n]
        /\ E \in [Slots -> SUBSET L]
    <2>1. Reshaped(t, L, D, E, n, m, c, s)
      BY <1>e, BelowFacts
    <2> QED  BY <2>1 DEF Reshaped
  <1>2. /\ m \in L /\ m /= n /\ c \in L \union {NIL} /\ c /= n /\ c /= m
        /\ t.parent[m] = n /\ (c /= NIL => t.parent[c] = m)
        /\ b /= m /\ (b /= NIL => b /= c) /\ (F /= NIL => F /= c) /\ b /= n /\ F \notin {n, m}
        /\ n \in Nodes /\ m \in Nodes /\ n /= NIL /\ c \in Slots
    BY <1>0 DEF Bent
  <1>3. /\ n \in L /\ s \in Sides /\ o \in Sides /\ m = t[o][n] /\ c = t[s][m] /\ m /= NIL
        /\ \A e \in Sides : e = s \/ e = o
    BY OtherSide DEF Bend
  <1>3a. Other(o) = s
    BY <1>3, OtherSide
  <1>4. L \subseteq Slots /\ NIL \in Slots /\ NIL \notin L
    BY DEF Slots
  <1>5. /\ D[t.root] = L /\ D[NIL] = {} /\ t.root \in L \union {NIL}
        /\ t.root /= NIL => t.parent[t.root] = NIL
        /\ \A e \in Sides : t[e][NIL] = NIL
    BY DEF Shape
  <1>6. \A x \in L : Fork(t, L, D, x) /\ Hung(t, L, x) /\ Nested(t, D, x)
    BY DEF Shape
  <1>7. /\ r.root = IF n = t.root THEN m ELSE t.root
        /\ r[s][m] = n /\ r[o][m] = F /\ r[o][n] = c /\ r[s][n] = b
        /\ \A x \in (L \union {NIL}) \ {n, m}, e \in Sides :
             r[e][x] = IF t[e][x] = n THEN m ELSE t[e][x]
        /\ r.parent[m] = t.parent[n] /\ r.parent[n] = m
        /\ c /= NIL => r.parent[c] = n
        /\ \A x \in Slots \ {n, m} : x /= c \/ c = NIL => r.parent[x] = t.parent[x]
    BY DEF Turned
  <1> HIDE DEF b, o, F
  <1>8. b \in L \union {NIL} /\ F \in L \union {NIL}
        /\ (b /= NIL => t.parent[b] = n) /\ (F /= NIL => t.parent[F] = m)
    BY <1>2, <1>3, <1>6 DEF b, F, Fork
  <1>9. m /= t.root /\ (c /= NIL => c /= t.root)
    BY <1>2, <1>3, <1>5
  <1>10. r.root \in L \union {NIL} /\ E[r.root] = L /\ E[NIL] = {}
    <2>1. CASE n = t.root
      BY <1>1, <1>2, <1>3, <1>4, <1>5, <1>7, <2>1
    <2>2. CASE n /= t.root
      <3>1. t.root \in Slots /\ t.root \notin {n, m} /\ NIL \notin {n, m}
        BY <1>2, <1>3, <1>4, <1>5, <1>9, <2>2
      <3> QED  BY <1>1, <1>4, <1>5, <1>7, <2>2, <3>1
    <2> QED  BY <2>1, <2>2
  <1>11. r.root /= NIL => r.parent[r.root] = NIL
    <2>1. CASE n = t.root
      BY <1>2, <1>5, <1>7, <2>1
    <2>2. CASE n /= t.root
      BY <1>4, <1>5, <1>7, <1>9, <2>2
    <2> QED  BY <2>1, <2>2
  <1>12. \A e \in Sides : r[e][NIL] = NIL
    BY <1>2, <1>3, <1>5, <1>7
  <1>13. ASSUME NEW x \in L PROVE Fork(r, L, E, x)
    <2>1. CASE x = n
      <3>1. E[b] = D[b] /\ E[c] = D[c]
        <4>1. b \in Slots /\ b \notin {n, m} /\ c \in Slots /\ c \notin {n, m}
          BY <1>2, <1>4, <1>8
        <4> QED  BY <4>1, <1>1
      <3>2. D[c] \intersect D[b] = {} /\ n \notin D[c]
        BY <1>1
      <3>3. (c /= NIL => r.parent[c] = n) /\ (b /= NIL => r.parent[b] = n)
        BY <1>2, <1>4, <1>7, <1>8
      <3>4. r[s][n] = b /\ r[o][n] = c
        BY <1>7
      <3>5. \A e \in Sides :
              /\ r[e][n] \in L \union {NIL}
              /\ r[e][n] /= NIL => r.parent[r[e][n]] = n
              /\ E[n] = {n} \union E[r[e][n]] \union E[r[Other(e)][n]]
              /\ n \notin E[r[e][n]]
              /\ E[r[e][n]] \intersect E[r[Other(e)][n]] = {}
        <4> SUFFICES ASSUME NEW e \in Sides
                     PROVE  /\ r[e][n] \in L \union {NIL}
                            /\ r[e][n] /= NIL => r.parent[r[e][n]] = n
                            /\ E[n] = {n} \union E[r[e][n]] \union E[r[Other(e)][n]]
                            /\ n \notin E[r[e][n]]
                            /\ E[r[e][n]] \intersect E[r[Other(e)][n]] = {}
          OBVIOUS
        <4>1. CASE e = s
          BY <1>1, <1>2, <1>8, <3>1, <3>2, <3>3, <3>4, <4>1 DEF o
        <4>2. CASE e = o
          BY <1>1, <1>2, <1>3a, <1>8, <3>1, <3>2, <3>3, <3>4, <4>2
        <4> QED  BY <1>3, <4>1, <4>2
      <3> QED  BY <2>1, <3>5 DEF Fork
    <2>2. CASE x = m
      <3>1. E[F] = D[F]
        BY <1>1, <1>2, <1>4, <1>8
      <3>2. E[n] \intersect D[F] = {} /\ m \notin E[n]
        BY <1>1, <1>2
      <3>3. E[m] = {m} \union E[n] \union E[F]
        BY <1>1, <3>1
      <3>4. r.parent[n] = m /\ (F /= NIL => r.parent[F] = m)
        BY <1>2, <1>4, <1>7, <1>8
      <3>5. r[s][m] = n /\ r[o][m] = F
        BY <1>7
      <3>6. \A e \in Sides :
              /\ r[e][m] \in L \union {NIL}
              /\ r[e][m] /= NIL => r.parent[r[e][m]] = m
              /\ E[m] = {m} \union E[r[e][m]] \union E[r[Other(e)][m]]
              /\ m \notin E[r[e][m]]
              /\ E[r[e][m]] \intersect E[r[Other(e)][m]] = {}
        <4> SUFFICES ASSUME NEW e \in Sides
                     PROVE  /\ r[e][m] \in L \union {NIL}
                            /\ r[e][m] /= NIL => r.parent[r[e][m]] = m
                            /\ E[m] = {m} \union E[r[e][m]] \union E[r[Other(e)][m]]
                            /\ m \notin E[r[e][m]]
                            /\ E[r[e][m]] \intersect E[r[Other(e)][m]] = {}
          OBVIOUS
        <4>1. CASE e = s
          <5>1. r[e][m] = n /\ r[Other(e)][m] = F
            BY <3>5, <4>1 DEF o
          <5>2. n \in L \union {NIL} /\ r.parent[n] = m
            BY <1>3, <3>4
          <5> QED  BY <5>1, <5>2, <1>1, <3>1, <3>2, <3>3
        <4>2. CASE e = o
          <5>1. r[e][m] = F /\ r[Other(e)][m] = n
            BY <1>3a, <3>5, <4>2
          <5>2. E[F] = D[F] /\ m \notin E[F] /\ E[F] \intersect E[n] = {}
            BY <1>1, <3>1, <3>2
          <5>3. E[m] = {m} \union E[F] \union E[n]
            BY <3>3
          <5> QED  BY <5>1, <5>2, <5>3, <1>8, <3>4
        <4> QED  BY <1>3, <4>1, <4>2
      <3> QED  BY <2>2, <3>6 DEF Fork
    <2>3. CASE x \notin {n, m}
      <3>1. Fork(t, L, D, x) /\ x \in Slots /\ x \in L \union {NIL}
        BY <1>4, <1>6
      <3>2. E[x] = D[x]
        BY <1>1, <2>3, <3>1
      <3>3. \A e \in Sides : t[e][x] /= m /\ (t[e][x] /= NIL => t[e][x] /= c)
        BY <1>2, <1>3, <2>3, <3>1 DEF Fork
      <3>4. \A e \in Sides : r[e][x] = IF t[e][x] = n THEN m ELSE t[e][x]
        BY <1>7, <2>3, <3>1
      <3>5. \A e \in Sides : r[e][x] \in L \union {NIL} /\ E[r[e][x]] = D[t[e][x]]
        <4> SUFFICES ASSUME NEW e \in Sides
                     PROVE  r[e][x] \in L \union {NIL} /\ E[r[e][x]] = D[t[e][x]]
          OBVIOUS
        <4>1. t[e][x] \in L \union {NIL} /\ t[e][x] \in Slots
          BY <1>4, <3>1 DEF Fork
        <4> QED  BY <1>1, <1>2, <3>3, <3>4, <4>1
      <3>6. \A e \in Sides : r[e][x] /= NIL => r.parent[r[e][x]] = x
        <4> SUFFICES ASSUME NEW e \in Sides, r[e][x] /= NIL
                     PROVE  r.parent[r[e][x]] = x
          OBVIOUS
        <4>1. CASE t[e][x] = n
          BY <1>2, <1>7, <3>1, <3>4, <4>1 DEF Fork
        <4>2. CASE t[e][x] /= n
          <5>1. t[e][x] \in Slots \ {n, m} /\ t[e][x] /= c /\ t[e][x] /= NIL
            BY <1>4, <3>1, <3>3, <3>4, <4>2 DEF Fork
          <5> QED  BY <1>7, <3>1, <3>4, <4>2, <5>1 DEF Fork
        <4> QED  BY <4>1, <4>2
      <3>7. \A e \in Sides : Other(e) \in Sides
        BY OtherSide
      <3> QED  BY <3>1, <3>2, <3>5, <3>6, <3>7 DEF Fork
    <2> QED  BY <2>1, <2>2, <2>3
  <1>14. ASSUME NEW x \in L PROVE Hung(r, L, x)
    <2> SUFFICES ASSUME x /= r.root
                 PROVE  r.parent[x] \in L /\ \E e \in Sides : r[e][r.parent[x]] = x
      BY DEF Hung
    <2>1. CASE x = n
      BY <1>2, <1>3, <1>7, <2>1
    <2>2. CASE x = c
      BY <1>2, <1>3, <1>4, <1>7, <2>2
    <2>3. CASE x = m
      <3>1. n /= t.root
        BY <1>7, <2>3
      <3>2. PICK e \in Sides : t.parent[n] \in L /\ t[e][t.parent[n]] = n
        BY <1>3, <1>6, <3>1 DEF Hung
      <3>3. t.parent[n] \notin {n, m}
        <4>1. \A d \in Sides : t[d][n] /= n /\ t[d][m] /= n
          BY <1>2, <1>3 DEF b, F
        <4> QED  BY <3>2, <4>1
      <3> QED  BY <1>7, <2>3, <3>2, <3>3
    <2>4. CASE x \notin {n, m, c}
      <3>1. x /= t.root
        BY <1>7, <2>4
      <3>2. PICK e \in Sides : t.parent[x] \in L /\ t[e][t.parent[x]] = x
        BY <1>6, <3>1 DEF Hung
      <3>3. r.parent[x] = t.parent[x]
        BY <1>4, <1>7, <2>4
      <3>4. CASE t.parent[x] = n
        <4>1. e = s
          BY <1>3, <2>4, <3>2, <3>4
        <4> QED  BY <1>3, <1>7, <3>2, <3>3, <3>4, <4>1 DEF b
      <3>5. CASE t.parent[x] = m
        <4>1. e = o
          BY <1>3, <2>4, <3>2, <3>5
        <4> QED  BY <1>3, <1>7, <3>2, <3>3, <3>5, <4>1 DEF F
      <3>6. CASE t.parent[x] \notin {n, m}
        BY <1>7, <2>4, <3>2, <3>3, <3>6
      <3> QED  BY <3>4, <3>5, <3>6
    <2> QED  BY <2>1, <2>2, <2>3, <2>4
  <1>15. ASSUME NEW x \in L PROVE Nested(r, E, x)
    <2> SUFFICES ASSUME NEW a \in E[x]
                 PROVE  E[a] \subseteq E[x] /\ (a /= x => r.parent[a] \in E[x])
      BY DEF Nested
    <2>1. a \in L /\ a \in Slots /\ x \in Slots
      BY <1>1, <1>4
    <2>2. \A y \in L : \A z \in D[y] : D[z] \subseteq D[y] /\ (z /= y => t.parent[z] \in D[y])
      BY <1>6 DEF Nested
    <2>3. CASE x = m
      <3>1. a \in D[n]
        BY <1>1, <2>3
      <3>2. D[a] \subseteq D[n] /\ (a /= n => t.parent[a] \in D[n])
        BY <1>3, <2>2, <3>1
      <3> QED  BY <1>1, <1>2, <1>7, <2>1, <2>3, <3>2
    <2>4. CASE x = n
      <3>1. CASE a = n
        BY <2>4, <3>1
      <3>2. CASE a \in D[c]
        <4>1. c \in L /\ a \notin {n, m}
          BY <1>1, <1>2, <1>5, <3>2
        <4>2. D[a] \subseteq D[c] /\ (a /= c => t.parent[a] \in D[c])
          BY <2>2, <3>2, <4>1
        <4> QED  BY <1>1, <1>4, <1>7, <2>1, <2>4, <4>1, <4>2
      <3>3. CASE a \in D[b]
        <4>1. b \in L /\ a \notin {n, m} /\ a /= c
          <5>1. b \in L
            BY <1>5, <1>8, <3>3
          <5>2. c \in L => c \in D[c]
            BY <1>3, <1>6 DEF Fork
          <5> QED  BY <1>1, <1>2, <1>4, <2>1, <3>3, <5>1, <5>2
        <4>2. D[a] \subseteq D[b] /\ (a /= b => t.parent[a] \in D[b])
          BY <2>2, <3>3, <4>1
        <4>3. r.parent[a] = t.parent[a] /\ (a = b => t.parent[a] = n)
          BY <1>7, <1>8, <2>1, <4>1, <1>4
        <4> QED  BY <1>1, <2>1, <2>4, <4>1, <4>2, <4>3
      <3> QED  BY <1>1, <2>4, <3>1, <3>2, <3>3
    <2>5. CASE x \notin {n, m}
      <3>1. E[x] = D[x] /\ a \in D[x]
        BY <1>1, <2>1, <2>5
      <3>2. D[a] \subseteq D[x] /\ (a /= x => t.parent[a] \in D[x])
        BY <2>2, <3>1
      <3>3. CASE a = m
        <4>1. n \in D[x]
          BY <1>2, <2>5, <3>2, <3>3
        <4>2. D[n] \subseteq D[x] /\ t.parent[n] \in D[x]
          BY <2>2, <2>5, <4>1
        <4> QED  BY <1>1, <1>7, <3>1, <3>3, <4>2
      <3>4. CASE a = n
        BY <1>1, <1>7, <3>1, <3>2, <3>4
      <3>5. CASE a = c
        <4>1. a \notin {n, m} /\ a /= NIL
          BY <1>2, <1>4, <2>1, <3>5
        <4>2. a /= x => m \in D[x]
          BY <1>2, <3>2, <3>5, <4>1
        <4>3. m \in D[x] => n \in D[x]
          BY <1>2, <2>2, <2>5
        <4> QED  BY <1>1, <1>7, <2>1, <3>1, <3>2, <3>5, <4>1, <4>2, <4>3
      <3>6. CASE a \notin {n, m, c}
        BY <1>1, <1>7, <2>1, <3>1, <3>2, <3>6
      <3> QED  BY <3>3, <3>4, <3>5, <3>6
    <2> QED  BY <2>3, <2>4, <2>5
  <1> QED  BY <1>e, <1>1, <1>10, <1>11, <1>12, <1>13, <1>14, <1>15 DEF Shape

(* The nodes of the tree that the turn is not about keep their children,   *)
(* or at least what is below them.                                         *)
Apace(t, r, L, D, E, n, m, c) ==
  \A x \in L \ {n, m}, e \in Sides :
    /\ t[e][x] \in L \union {NIL} /\ t[e][x] \in Slots /\ t[e][x] /= m
    /\ t[e][x] /= NIL => t[e][x] /= c
    /\ r[e][x] = IF t[e][x] = n THEN m ELSE t[e][x]
    /\ E[r[e][x]] = D[t[e][x]]

LEMMA TurnedApace ==
  ASSUME NEW L \in SUBSET Nodes, NEW t \in Tree, NEW D, Shape(t, L, D),
         NEW n, NEW m, NEW c, NEW s, Bend(t, L, n, m, c, s),
         NEW r, Turned(t, r, L, n, m, c, s),
         NEW E, Reshaped(t, L, D, E, n, m, c, s)
  PROVE  Apace(t, r, L, D, E, n, m, c)
  <1> USE RbtAssumption
  <1>0. Bent(t, L, n, m, c, s)
    BY BendFacts
  <1> SUFFICES ASSUME NEW x \in L \ {n, m}, NEW e \in Sides
               PROVE  /\ t[e][x] \in L \union {NIL} /\ t[e][x] \in Slots /\ t[e][x] /= m
                      /\ t[e][x] /= NIL => t[e][x] /= c
                      /\ r[e][x] = IF t[e][x] = n THEN m ELSE t[e][x]
                      /\ E[r[e][x]] = D[t[e][x]]
    BY DEF Apace
  <1>1. m \in L /\ t.parent[m] = n /\ m /= NIL /\ (c /= NIL => t.parent[c] = m) /\ m /= n
    BY <1>0 DEF Bent, Bend
  <1>2. /\ t[e][x] \in L \union {NIL} /\ t[e][x] \in Slots
        /\ t[e][x] /= NIL => t.parent[t[e][x]] = x
    BY DEF Shape, Fork, Slots
  <1>3. t[e][x] /= m /\ (t[e][x] /= NIL => t[e][x] /= c)
    BY <1>1, <1>2
  <1>4. r[e][x] = IF t[e][x] = n THEN m ELSE t[e][x]
    BY DEF Turned
  <1>5. E[r[e][x]] = D[t[e][x]]
    BY <1>2, <1>3, <1>4 DEF Reshaped
  <1> QED  BY <1>2, <1>3, <1>4, <1>5

LEMMA TurnedSorted ==
  ASSUME NEW L \in SUBSET Nodes, NEW t \in Tree, NEW D, Shape(t, L, D),
         NEW n, NEW m, NEW c, NEW s, Bend(t, L, n, m, c, s),
         NEW r, Turned(t, r, L, n, m, c, s),
         NEW k, \A x \in L : k[x] \in Int, Sorted(t, L, D, k)
  PROVE  Sorted(r, L, Below(t, D, n, m, c, s), k)
  <1> USE RbtAssumption
  <1>0. Bent(t, L, n, m, c, s)
    BY BendFacts
  <1>1. PICK E : E = Below(t, D, n, m, c, s)
    OBVIOUS
  <1>2. Reshaped(t, L, D, E, n, m, c, s)
    BY <1>1, BelowFacts
  <1>3. Apace(t, r, L, D, E, n, m, c)
    BY <1>2, TurnedApace
  <1>4. /\ n \in L /\ s \in Sides /\ Other(s) \in Sides /\ m = t[Other(s)][n] /\ c = t[s][m]
        /\ \A e \in Sides : e = s \/ e = Other(s)
    BY OtherSide DEF Bend
  <1>5. /\ m \in L /\ c \in Slots /\ c \notin {n, m} /\ t[s][n] \in Slots /\ t[s][n] \notin {n, m}
        /\ t[Other(s)][m] \in Slots /\ t[Other(s)][m] \notin {n, m}
    BY <1>4, <1>0 DEF Bent, Shape, Fork, Slots
  <1>6. /\ r[s][m] = n /\ r[Other(s)][m] = t[Other(s)][m]
        /\ r[Other(s)][n] = c /\ r[s][n] = t[s][n]
    BY DEF Turned
  <1> SUFFICES ASSUME NEW x \in L, NEW e \in Sides, NEW a \in E[r[e][x]]
               PROVE  Before(e, k[a], k[x])
    BY <1>1 DEF Sorted
  <1>7. \A y \in L, d \in Sides : \A z \in D[t[d][y]] : z \in L /\ Before(d, k[z], k[y])
    BY DEF Sorted, Shape, Fork, Slots
  <1>8. CASE x = n
    <2>1. CASE e = s
      BY <1>2, <1>4, <1>5, <1>6, <1>7, <1>8, <2>1 DEF Reshaped
    <2>2. CASE e = Other(s)
      <3>1. a \in D[m]
        BY <1>2, <1>5, <1>6, <1>8, <2>2 DEF Reshaped
      <3> QED  BY <1>4, <1>7, <1>8, <2>2, <3>1
    <2> QED  BY <1>4, <2>1, <2>2
  <1>9. CASE x = m
    <2>1. CASE e = s
      <3>1. a = n \/ a \in D[c] \/ a \in D[t[s][n]]
        BY <1>2, <1>6, <1>9, <2>1 DEF Reshaped
      <3>2. Before(s, k[n], k[m])
        <4>1. m \in D[m]
          BY <1>2 DEF Reshaped
        <4>2. Before(Other(s), k[m], k[n])
          BY <1>4, <1>7, <4>1
        <4> QED  BY <1>4, <4>2, OtherSide
      <3>3. CASE a \in D[t[s][n]]
        <4>1. Before(s, k[a], k[n]) /\ a \in L
          BY <1>4, <1>7, <3>3
        <4> QED  BY <1>4, <1>5, <1>9, <2>1, <3>2, <4>1, BeforeTrans
      <3> QED  BY <1>4, <1>5, <1>7, <1>9, <2>1, <3>1, <3>2, <3>3
    <2>2. CASE e = Other(s)
      BY <1>2, <1>5, <1>6, <1>7, <1>9, <2>2 DEF Reshaped
    <2> QED  BY <1>4, <2>1, <2>2
  <1>10. CASE x \notin {n, m}
    BY <1>3, <1>7, <1>10 DEF Apace
  <1> QED  BY <1>8, <1>9, <1>10

(* The turn takes m from red to the color that n had, and leaves n red.    *)
Swapped(t, r, n, m) ==
  /\ t.color[m] = RED
  /\ r.color[n] = RED /\ r.color[m] = t.color[n]
  /\ \A z \in Slots \ {n, m} : r.color[z] = t.color[z]

(* Then as many black nodes are below each node as before.                 *)
LEMMA SwappedLevel ==
  ASSUME NEW L \in SUBSET Nodes, NEW t \in Tree, NEW D, Shape(t, L, D),
         NEW n, NEW m, NEW c, NEW s, Bend(t, L, n, m, c, s),
         NEW r, Turned(t, r, L, n, m, c, s), Swapped(t, r, n, m),
         NEW x, x \notin {n, m}, c = NIL /\ x = NIL => t.parent[NIL] \notin {n, m},
         NEW bh, Level(t, L, x, bh)
  PROVE  Level(r, L, x, bh)
  <1> USE RbtAssumption
  <1>0. Bent(t, L, n, m, c, s)
    BY BendFacts
  <1>1. Apace(t, r, L, D, Below(t, D, n, m, c, s), n, m, c)
    BY BelowFacts, TurnedApace
  <1>2. /\ n \in L /\ s \in Sides /\ Other(s) \in Sides /\ m = t[Other(s)][n] /\ c = t[s][m]
        /\ \A e \in Sides : e = s \/ e = Other(s)
    BY OtherSide DEF Bend
  <1>3. /\ m \in L /\ m /= n /\ c \in Slots /\ c \notin {n, m} /\ m /= NIL /\ n /= NIL
        /\ t.parent[m] = n /\ (c /= NIL => t.parent[c] = m)
    BY <1>0 DEF Bent, Bend
  <1>3a. /\ t[s][n] \in Slots /\ t[s][n] \notin {n, m} /\ (t[s][n] /= NIL => t[s][n] /= c)
         /\ t[Other(s)][m] \in Slots /\ t[Other(s)][m] \notin {n, m}
         /\ (t[Other(s)][m] /= NIL => t[Other(s)][m] /= c)
    BY <1>2, <1>3, <1>0 DEF Bent, Shape, Fork, Slots
  <1>4. /\ r[s][m] = n /\ r[Other(s)][m] = t[Other(s)][m]
        /\ r[Other(s)][n] = c /\ r[s][n] = t[s][n]
        /\ r.parent[m] = t.parent[n] /\ r.parent[n] = m
        /\ c /= NIL => r.parent[c] = n
        /\ \A y \in Slots \ {n, m} : y /= c \/ c = NIL => r.parent[y] = t.parent[y]
    BY DEF Turned
  <1>5. /\ t.color[m] = RED /\ r.color[n] = RED /\ r.color[m] = t.color[n]
        /\ \A z \in Slots \ {n, m} : r.color[z] = t.color[z]
    BY DEF Swapped
  <1>6. /\ bh \in [Slots -> Nat] /\ bh[NIL] = 0
        /\ \A y \in L, e \in Sides : bh[y] = bh[t[e][y]] + Heft(t, x, t[e][y], y)
    BY DEF Level
  <1>7. \A y \in Slots \ {n, m}, z \in L : y /= c \/ c = NIL => Heft(r, x, y, z) = Heft(t, x, y, z)
    BY <1>4, <1>5 DEF Heft
  <1>8. Heft(t, x, m, n) = 0 /\ Heft(r, x, n, m) = 0
    BY <1>5 DEF Heft, RED, BLACK
  <1>9. bh[n] \in Nat /\ bh[m] \in Nat /\ bh[m] = bh[n]
    <2>1. bh[n] = bh[m] + 0
      BY <1>2, <1>6, <1>8
    <2> QED  BY <1>2, <1>3, <1>6, <2>1 DEF Slots
  <1> SUFFICES ASSUME NEW z \in L, NEW e \in Sides
               PROVE  bh[z] = bh[r[e][z]] + Heft(r, x, r[e][z], z)
    BY <1>6 DEF Level
  <1>10. CASE z = n
    <2>1. CASE e = s
      <3>1. r[e][z] = t[s][n]
        BY <1>4, <1>10, <2>1
      <3>2. Heft(r, x, t[s][n], n) = Heft(t, x, t[s][n], n)
        BY <1>2, <1>3a, <1>7
      <3>3. bh[n] = bh[t[s][n]] + Heft(t, x, t[s][n], n)
        BY <1>2, <1>6
      <3> QED  BY <1>10, <3>1, <3>2, <3>3
    <2>2. CASE e = Other(s)
      <3>1. Heft(r, x, c, n) = Heft(t, x, c, m)
        <4>1. CASE c /= NIL
          BY <1>3, <1>4, <1>5, <4>1 DEF Heft
        <4>2. CASE c = NIL
          <5>1. r.parent[c] = t.parent[c] /\ r.color[c] = t.color[c]
            BY <1>3, <1>4, <1>5, <4>2
          <5> QED  BY <4>2, <5>1 DEF Heft
        <4> QED  BY <4>1, <4>2
      <3>2. bh[m] = bh[c] + Heft(t, x, c, m)
        BY <1>2, <1>3, <1>6
      <3> QED  BY <1>4, <1>9, <1>10, <2>2, <3>1, <3>2
    <2> QED  BY <1>2, <2>1, <2>2
  <1>11. CASE z = m
    <2>1. CASE e = s
      BY <1>4, <1>8, <1>9, <1>11, <2>1
    <2>2. CASE e = Other(s)
      <3>1. r[e][z] = t[Other(s)][m]
        BY <1>4, <1>11, <2>2
      <3>2. Heft(r, x, t[Other(s)][m], m) = Heft(t, x, t[Other(s)][m], m)
        BY <1>3, <1>3a, <1>7
      <3>3. bh[m] = bh[t[Other(s)][m]] + Heft(t, x, t[Other(s)][m], m)
        BY <1>2, <1>3, <1>6
      <3> QED  BY <1>11, <3>1, <3>2, <3>3
    <2> QED  BY <1>2, <2>1, <2>2
  <1>12. CASE z \notin {n, m}
    <2>1. /\ t[e][z] \in Slots /\ t[e][z] /= m /\ (t[e][z] /= NIL => t[e][z] /= c)
          /\ r[e][z] = IF t[e][z] = n THEN m ELSE t[e][z]
      BY <1>1, <1>12 DEF Apace
    <2>2. bh[z] = bh[t[e][z]] + Heft(t, x, t[e][z], z)
      BY <1>6
    <2>3. CASE t[e][z] = n
      <3>1. Heft(r, x, m, z) = Heft(t, x, n, z)
        BY <1>5 DEF Heft
      <3> QED  BY <1>9, <2>1, <2>2, <2>3, <3>1
    <2>4. CASE t[e][z] /= n
      <3>1. t[e][z] \in Slots \ {n, m} /\ (t[e][z] /= c \/ c = NIL)
        BY <2>1, <2>4
      <3> QED  BY <1>7, <2>1, <2>2, <2>4, <3>1
    <2> QED  BY <2>3, <2>4
  <1> QED  BY <1>10, <1>11, <1>12

(* Nor does the turn bring two red nodes together, if n was black and its  *)
(* other child is not red.                                                 *)
LEMMA SwappedApart ==
  ASSUME NEW L \in SUBSET Nodes, NEW t \in Tree, NEW D, Shape(t, L, D),
         NEW n, NEW m, NEW c, NEW s, Bend(t, L, n, m, c, s),
         NEW r, Turned(t, r, L, n, m, c, s), Swapped(t, r, n, m),
         NEW x, NEW y, x \notin {n, m}, y \notin {m, c},
         t.color[n] = BLACK, ~Scarlet(t, x, t[s][n]), Apart(t, L, x, y)
  PROVE  Apart(r, L, x, y)
  <1> USE RbtAssumption
  <1>0. Bent(t, L, n, m, c, s)
    BY BendFacts
  <1>1. /\ n \in L /\ s \in Sides /\ m = t[Other(s)][n] /\ c = t[s][m]
        /\ \A e \in Sides : e = s \/ e = Other(s)
    BY OtherSide DEF Bend
  <1>2. /\ r.root = IF n = t.root THEN m ELSE t.root
        /\ r.parent[m] = t.parent[n] /\ r.parent[n] = m
        /\ \A z \in Slots \ {n, m} : z /= c \/ c = NIL => r.parent[z] = t.parent[z]
    BY DEF Turned
  <1>3. /\ t.color[m] = RED /\ r.color[n] = RED /\ r.color[m] = BLACK
        /\ \A z \in Slots \ {n, m} : r.color[z] = t.color[z]
    BY DEF Swapped
  <1>4. m \in L /\ m /= n /\ m /= NIL /\ t.parent[m] = n /\ L \subseteq Slots /\ NIL \notin L
    BY <1>0 DEF Bent, Bend, Slots
  <1>5. \A z \in L : z /= t.root => t.parent[z] \in L /\ \E e \in Sides : t[e][t.parent[z]] = z
    BY DEF Shape, Hung
  <1>6. m /= t.root
    BY <1>1, <1>4 DEF Shape
  <1>7. c \in L => ~Scarlet(t, x, c)
    <2> SUFFICES ASSUME c \in L, Scarlet(t, x, c)
                 PROVE  FALSE
      OBVIOUS
    <2>1. t.parent[c] = m
      BY <1>0, <1>4 DEF Bent
    <2>2. Scarlet(t, x, m)
      BY <1>3 DEF Scarlet
    <2> QED  BY <2>1, <2>2 DEF Apart
  <1> SUFFICES ASSUME NEW z \in L, Scarlet(r, x, z), z /= y
               PROVE  z /= r.root /\ ~Scarlet(r, x, r.parent[z])
    BY DEF Apart
  <1>8. CASE z = n
    BY <1>2, <1>3, <1>4, <1>6, <1>8 DEF Scarlet, RED, BLACK
  <1>9. CASE z = m
    BY <1>3, <1>9 DEF Scarlet, RED, BLACK
  <1>10. CASE z \notin {n, m}
    <2>1. Scarlet(t, x, z) /\ z /= c /\ z /= t[s][n]
      BY <1>3, <1>4, <1>7, <1>10 DEF Scarlet
    <2>2. z /= t.root /\ ~Scarlet(t, x, t.parent[z])
      BY <2>1 DEF Apart
    <2>3. z /= r.root /\ r.parent[z] = t.parent[z]
      BY <1>2, <1>4, <1>10, <2>1, <2>2
    <2>4. t.parent[z] \in L /\ t.parent[z] /= n
      BY <1>1, <1>5, <1>10, <2>1, <2>2
    <2> QED  BY <1>3, <1>4, <2>2, <2>3, <2>4 DEF Scarlet, RED, BLACK
  <1> QED  BY <1>8, <1>9, <1>10

(* A turn of two red nodes leaves the lower one out of place.              *)
LEMMA TwistedApart ==
  ASSUME NEW L \in SUBSET Nodes, NEW t \in Tree, NEW D, Shape(t, L, D),
         NEW n, NEW m, NEW c, NEW s, Bend(t, L, n, m, c, s),
         NEW r, Turned(t, r, L, n, m, c, s), Swapped(t, r, n, m),
         NEW x, x \notin {n, m}, t.color[n] = RED, Apart(t, L, x, m)
  PROVE  Apart(r, L, x, n)
  <1> USE RbtAssumption
  <1>0. Bent(t, L, n, m, c, s)
    BY BendFacts
  <1>1. n \in L /\ c \in L \union {NIL} /\ c /= m /\ c /= n
    BY <1>0 DEF Bend, Bent
  <1>2. /\ r.root = IF n = t.root THEN m ELSE t.root
        /\ r.parent[m] = t.parent[n]
        /\ \A z \in Slots \ {n, m} : z /= c \/ c = NIL => r.parent[z] = t.parent[z]
    BY DEF Turned
  <1>3. t.color[m] = RED /\ \A z \in Slots : r.color[z] = t.color[z]
    BY DEF Swapped
  <1>4. m \in L /\ m /= n /\ m /= NIL /\ t.parent[m] = n /\ L \subseteq Slots /\ NIL \notin L
    BY <1>0 DEF Bent, Bend, Slots
  <1>5. \A z \in L : z /= t.root => t.parent[z] \in L
    BY DEF Shape, Hung
  <1>6. Scarlet(t, x, n) /\ Scarlet(t, x, m)
    BY <1>3 DEF Scarlet
  <1>7. n /= t.root /\ ~Scarlet(t, x, t.parent[n]) /\ m /= t.root
    BY <1>1, <1>4, <1>6 DEF Apart, Shape
  <1>8. c \in L => ~Scarlet(t, x, c)
    BY <1>0, <1>1, <1>4, <1>6 DEF Apart, Bent
  <1> SUFFICES ASSUME NEW z \in L, Scarlet(r, x, z), z /= n
               PROVE  z /= r.root /\ ~Scarlet(r, x, r.parent[z])
    BY DEF Apart
  <1>9. Scarlet(t, x, z) /\ z /= c
    BY <1>3, <1>4, <1>8 DEF Scarlet
  <1>10. z /= t.root
    BY <1>7, <1>9 DEF Apart
  <1>11. r.parent[z] \in L /\ ~Scarlet(t, x, r.parent[z])
    <2>1. CASE z = m
      BY <1>1, <1>2, <1>5, <1>7, <2>1
    <2>2. CASE z /= m
      <3>1. r.parent[z] = t.parent[z]
        BY <1>2, <1>4, <1>9, <2>2
      <3> QED  BY <1>5, <1>9, <1>10, <2>2, <3>1 DEF Apart
    <2> QED  BY <2>1, <2>2
  <1> QED  BY <1>2, <1>3, <1>4, <1>7, <1>10, <1>11 DEF Scarlet

(* The last turn of smp_delete_fixup: the black sibling w of x goes above  *)
(* their parent p and takes its color, p and the child f of w are black.   *)
Settled(t, r, p, w, f) ==
  /\ r.color[w] = t.color[p]
  /\ r.color[p] = BLACK /\ r.color[f] = BLACK
  /\ \A z \in Slots \ {p, w, f} : r.color[z] = t.color[z]

LEMMA SettledLevel ==
  ASSUME NEW L \in SUBSET Nodes, NEW t \in Tree, NEW D, Shape(t, L, D),
         NEW p, NEW w, NEW c, NEW s, Bend(t, L, p, w, c, s),
         NEW f, f = t[Other(s)][w], NEW x, x = t[s][p], t.parent[x] = p,
         t.color[x] = BLACK, t.color[w] = BLACK, t.color[f] = RED,
         NEW r, Turned(t, r, L, p, w, c, s), Settled(t, r, p, w, f),
         NEW bh, Level(t, L, x, bh)
  PROVE  Level(r, L, r.root, [bh EXCEPT ![p] = bh[p] - 1, ![w] = bh[p]])
  <1> USE RbtAssumption
  <1>0. Bent(t, L, p, w, c, s)
    BY BendFacts
  <1>1. Apace(t, r, L, D, Below(t, D, p, w, c, s), p, w, c)
    BY BelowFacts, TurnedApace
  <1>2. /\ p \in L /\ s \in Sides /\ Other(s) \in Sides /\ w = t[Other(s)][p] /\ c = t[s][w]
        /\ \A e \in Sides : e = s \/ e = Other(s)
    BY OtherSide DEF Bend
  <1>3. /\ w \in L /\ w /= p /\ c \in Slots /\ c \notin {p, w} /\ w /= NIL /\ p /= NIL
        /\ t.parent[w] = p /\ (c /= NIL => t.parent[c] = w)
        /\ x \in Slots /\ x \notin {p, w} /\ f \in Slots /\ f \notin {p, w}
        /\ L \subseteq Slots /\ NIL \in Slots /\ NIL \notin L
    BY <1>0, <1>2 DEF Bent, Bend, Shape, Fork, Slots
  <1>4. f /= NIL /\ f /= c /\ f /= x /\ t.parent[f] = w
    <2>1. f /= NIL
      BY DEF Shape, RED, BLACK
    <2>2. f /= c
      BY <1>0, <2>1 DEF Bent
    <2>3. Fork(t, L, D, w)
      BY <1>3 DEF Shape
    <2>4. t.parent[f] = w
      BY <1>2, <2>1, <2>3 DEF Fork
    <2> QED  BY <1>3, <2>1, <2>2, <2>4
  <1>5. /\ r[s][w] = p /\ r[Other(s)][w] = f /\ r[Other(s)][p] = c /\ r[s][p] = x
        /\ r.root = IF p = t.root THEN w ELSE t.root
    BY DEF Turned
  <1>6. /\ bh \in [Slots -> Nat] /\ bh[NIL] = 0
        /\ \A y \in L, e \in Sides : bh[y] = bh[t[e][y]] + Heft(t, x, t[e][y], y)
    BY DEF Level
  <1>7. /\ r.color[w] = t.color[p] /\ r.color[p] = BLACK /\ r.color[f] = BLACK
        /\ \A z \in Slots \ {p, w, f} : r.color[z] = t.color[z]
    BY DEF Settled
  <1>8. bh[p] \in Nat /\ bh[w] \in Nat /\ bh[x] \in Nat /\ bh[c] \in Nat /\ bh[f] \in Nat
    BY <1>2, <1>3, <1>6
  <1>9. bh[p] = bh[x] + 2
    <2>1. Heft(t, x, x, p) = 2
      BY DEF Heft
    <2> QED  BY <1>2, <1>6, <2>1
  <1>10. bh[p] = bh[w] + 1
    <2>1. Heft(t, x, w, p) = 1
      BY <1>3 DEF Heft
    <2> QED  BY <1>2, <1>6, <2>1
  <1>11. bh[w] = bh[f]
    <2>1. Heft(t, x, f, w) = 0
      BY <1>4 DEF Heft, RED, BLACK
    <2>2. bh[w] = bh[f] + 0
      BY <1>2, <1>3, <1>6, <2>1
    <2> QED  BY <1>8, <2>2
  <1>12. bh[w] = bh[c] + (IF t.color[c] = BLACK THEN 1 ELSE 0)
    <2>1. Heft(t, x, c, w) = (IF t.color[c] = BLACK THEN 1 ELSE 0)
      BY <1>3 DEF Heft
    <2>2. bh[w] = bh[c] + Heft(t, x, c, w)
      BY <1>2, <1>3, <1>6
    <2> QED  BY <2>1, <2>2
  <1>13. r.root \in L /\ \A z \in L, e \in Sides : t[e][z] /= t.root
    <2>1. t.root \in L /\ t.parent[t.root] = NIL
      BY <1>2 DEF Shape
    <2>2. \A z \in L, e \in Sides : t[e][z] /= NIL => t.parent[t[e][z]] = z
      BY DEF Shape, Fork
    <2> QED  BY <1>3, <1>5, <2>1, <2>2
  <1>14. p /= r.root /\ c /= r.root /\ f /= r.root /\ x /= r.root
    <2>1. x /= t.root /\ f /= t.root /\ c /= t.root /\ c /= w /\ x /= w /\ f /= w
      BY <1>2, <1>3, <1>13
    <2> QED  BY <1>3, <1>5, <2>1
  <1> DEFINE g == [bh EXCEPT ![p] = bh[p] - 1, ![w] = bh[p]]
  <1>15. /\ g \in [Slots -> Nat] /\ g[NIL] = 0 /\ g[p] = bh[p] - 1 /\ g[w] = bh[p]
         /\ \A z \in Slots \ {p, w} : g[z] = bh[z]
    <2>1. bh[p] - 1 \in Nat /\ p \in Slots /\ w \in Slots
      BY <1>2, <1>3, <1>8, <1>10
    <2> QED  BY <1>3, <1>6, <1>8, <2>1
  <1> HIDE DEF g
  <1>16. ASSUME NEW z \in L, NEW e \in Sides
         PROVE  g[z] = g[r[e][z]] + Heft(r, r.root, r[e][z], z)
    <2>1. CASE z = p
      <3>1. CASE e = s
        <4>1. Heft(r, r.root, x, p) = 1
          BY <1>3, <1>4, <1>7, <1>14 DEF Heft
        <4> QED  BY <1>3, <1>5, <1>8, <1>9, <1>15, <2>1, <3>1, <4>1
      <3>2. CASE e = Other(s)
        <4>1. Heft(r, r.root, c, p) = (IF t.color[c] = BLACK THEN 1 ELSE 0)
          BY <1>3, <1>4, <1>7, <1>14 DEF Heft
        <4> QED  BY <1>3, <1>5, <1>8, <1>10, <1>12, <1>15, <2>1, <3>2, <4>1
      <3> QED  BY <1>2, <3>1, <3>2
    <2>2. CASE z = w
      <3>1. CASE e = s
        <4>1. Heft(r, r.root, p, w) = 1
          BY <1>7, <1>14 DEF Heft
        <4> QED  BY <1>5, <1>8, <1>15, <2>2, <3>1, <4>1
      <3>2. CASE e = Other(s)
        <4>1. Heft(r, r.root, f, w) = 1
          BY <1>7, <1>14 DEF Heft
        <4> QED  BY <1>3, <1>5, <1>8, <1>10, <1>11, <1>15, <2>2, <3>2, <4>1
      <3> QED  BY <1>2, <3>1, <3>2
    <2>3. CASE z \notin {p, w}
      <3>1. /\ t[e][z] \in Slots /\ t[e][z] /= w
            /\ r[e][z] = IF t[e][z] = p THEN w ELSE t[e][z]
        BY <1>1, <2>3 DEF Apace
      <3>2. bh[z] = bh[t[e][z]] + Heft(t, x, t[e][z], z) /\ g[z] = bh[z]
        BY <1>3, <1>6, <1>15, <2>3
      <3>3. CASE t[e][z] = p
        <4>1. w /= r.root
          BY <1>2, <1>3, <1>5, <1>13, <3>3
        <4>2. Heft(r, r.root, w, z) = Heft(t, x, p, z)
          BY <1>3, <1>7, <4>1 DEF Heft
        <4> QED  BY <1>15, <3>1, <3>2, <3>3, <4>2
      <3>4. CASE t[e][z] /= p
        <4>1. t[e][z] /= f
          BY <1>3, <1>4, <2>3 DEF Shape, Fork
        <4>2. t[e][z] /= r.root
          BY <1>3, <1>5, <1>13, <3>1
        <4>3. Heft(r, r.root, t[e][z], z) = Heft(t, x, t[e][z], z)
          BY <1>7, <2>3, <3>1, <3>4, <4>1, <4>2 DEF Heft
        <4> QED  BY <1>15, <3>1, <3>2, <3>4, <4>3
      <3> QED  BY <3>3, <3>4
    <2> QED  BY <2>1, <2>2, <2>3
  <1> QED  BY <1>15, <1>16 DEF Level, g

LEMMA SettledApart ==
  ASSUME NEW L \in SUBSET Nodes, NEW t \in Tree, NEW D, Shape(t, L, D),
         NEW p, NEW w, NEW c, NEW s, Bend(t, L, p, w, c, s),
         NEW f, f = t[Other(s)][w], NEW x, x = t[s][p], t.parent[x] = p,
         t.color[x] = BLACK, t.color[w] = BLACK, t.color[f] = RED,
         NEW r, Turned(t, r, L, p, w, c, s), Settled(t, r, p, w, f),
         Apart(t, L, x, NULL)
  PROVE  Apart(r, L, r.root, NULL)
  <1> USE RbtAssumption
  <1>0. Bent(t, L, p, w, c, s)
    BY BendFacts
  <1>1. /\ p \in L /\ w \in L /\ w /= p /\ c /= p /\ c /= w /\ t.parent[w] = p /\ p /= NIL /\ w /= NIL
        /\ L \subseteq Slots /\ NIL \notin L /\ NULL \notin Slots
        /\ s \in Sides /\ c = t[s][w]
        /\ \A e \in Sides : e = s \/ e = Other(s)
    BY <1>0, OtherSide DEF Bend, Bent, Slots
  <1>2. /\ r.root = IF p = t.root THEN w ELSE t.root
        /\ r.parent[w] = t.parent[p] /\ r.parent[p] = w
        /\ c /= NIL => r.parent[c] = p
        /\ \A y \in Slots \ {p, w} : y /= c \/ c = NIL => r.parent[y] = t.parent[y]
    BY DEF Turned
  <1>3. /\ r.color[w] = t.color[p]
        /\ r.color[p] = BLACK /\ r.color[f] = BLACK
        /\ \A z \in Slots \ {p, w, f} : r.color[z] = t.color[z]
    BY DEF Settled
  <1>4. \A z \in L : z /= t.root => t.parent[z] \in L /\ \E e \in Sides : t[e][t.parent[z]] = z
    BY DEF Shape, Hung
  <1>5. \A z \in L : t.color[z] = RED => z /= t.root /\ t.parent[z] \in L /\ t.color[t.parent[z]] /= RED
    <2> SUFFICES ASSUME NEW z \in L, t.color[z] = RED
                 PROVE  z /= t.root /\ t.parent[z] \in L /\ t.color[t.parent[z]] /= RED
      OBVIOUS
    <2>1. Scarlet(t, x, z) /\ z /= NULL
      BY <1>1 DEF Scarlet, RED, BLACK
    <2>2. z /= t.root /\ ~Scarlet(t, x, t.parent[z])
      BY <2>1 DEF Apart
    <2> QED  BY <1>4, <2>2 DEF Scarlet, RED, BLACK
  <1>6. f \in L /\ t.parent[f] = w
    <2>1. f /= NIL
      BY DEF Shape, RED, BLACK
    <2> QED  BY <1>1, <2>1, OtherSide DEF Shape, Fork
  <1>7. t.parent[p] \notin {p, w, f}
    <2>1. \A z \in L : p \in D[z] \/ t.parent[p] /= z \/ p = t.root
      BY <1>1, <1>4, OtherSide DEF Shape, Fork
    <2>2. p \notin D[w] /\ p \notin D[f] /\ t.parent[p] /= p
      <3>1. p \notin D[w] /\ D[f] \subseteq D[w]
        BY <1>1, <1>0, OtherSide DEF Bend, Shape, Fork
      <3>2. \A e \in Sides : t[e][p] /= p
        BY <1>1 DEF Shape, Fork
      <3> QED  BY <1>1, <1>4, <3>1, <3>2 DEF Shape
    <2>3. p = t.root => t.parent[p] = NIL
      BY <1>1 DEF Shape
    <2> QED  BY <1>1, <1>6, <2>1, <2>2, <2>3
  <1> SUFFICES ASSUME NEW z \in L, r.color[z] = RED, z /= r.root
               PROVE  r.color[r.parent[z]] /= RED
    BY DEF Apart, Scarlet
  <1>8. z /= p /\ z /= f
    BY <1>3 DEF RED, BLACK
  <1>9. CASE z = w
    <2>1. t.color[p] = RED
      BY <1>3, <1>9
    <2>2. t.parent[p] \in L /\ t.color[t.parent[p]] /= RED
      BY <1>1, <1>5, <2>1
    <2> QED  BY <1>1, <1>2, <1>3, <1>7, <1>9, <2>2
  <1>10. CASE z = c
    BY <1>1, <1>2, <1>3, <1>10 DEF RED, BLACK
  <1>11. CASE z \notin {w, c}
    <2>1. t.color[z] = RED /\ r.parent[z] = t.parent[z]
      BY <1>1, <1>2, <1>3, <1>8, <1>11
    <2>2. t.parent[z] \in L /\ t.color[t.parent[z]] /= RED /\ z /= t.root
      BY <1>5, <2>1
    <2>3. t.parent[z] /= w
      <3>1. \A e \in Sides : t[e][w] = f \/ t[e][w] = c
        BY <1>1
      <3> QED  BY <1>4, <1>8, <1>11, <2>2, <3>1
    <2> QED  BY <1>1, <1>3, <2>1, <2>2, <2>3 DEF RED, BLACK
  <1> QED  BY <1>9, <1>10, <1>11

-----------------------------------------------------------------------------
(***************************************************************************)
(* The steps of the loops that only paint.                                 *)
(***************************************************************************)

(* u is t with other colors.                                               *)
Repainted(t, u) == u \in Tree /\ SameLinks(t, u) /\ u.color[NIL] = BLACK

LEMMA RepaintedShape ==
  ASSUME NEW L, NEW t, NEW D, Shape(t, L, D), NEW u, Repainted(t, u)
  PROVE  Shape(u, L, D)
  <1>1. \A s \in Sides : u[s] = t[s] /\ Other(s) \in Sides
    BY OtherSide DEF Repainted, SameLinks
  <1>2. u.root = t.root /\ u.parent = t.parent /\ u.color[NIL] = BLACK
    BY DEF Repainted, SameLinks
  <1>3. ASSUME NEW n \in L PROVE Fork(u, L, D, n) /\ Hung(u, L, n) /\ Nested(u, D, n)
    <2>1. Fork(t, L, D, n) /\ Hung(t, L, n) /\ Nested(t, D, n)
      BY DEF Shape
    <2>2. Fork(u, L, D, n)
      <3> SUFFICES ASSUME NEW s \in Sides
                   PROVE  /\ u[s][n] \in L \union {NIL}
                          /\ u[s][n] /= NIL => u.parent[u[s][n]] = n
                          /\ D[n] = {n} \union D[u[s][n]] \union D[u[Other(s)][n]]
                          /\ n \notin D[u[s][n]]
                          /\ D[u[s][n]] \intersect D[u[Other(s)][n]] = {}
        BY Zenon DEF Fork
      <3>1. /\ t[s][n] \in L \union {NIL}
            /\ t[s][n] /= NIL => t.parent[t[s][n]] = n
            /\ D[n] = {n} \union D[t[s][n]] \union D[t[Other(s)][n]]
            /\ n \notin D[t[s][n]]
            /\ D[t[s][n]] \intersect D[t[Other(s)][n]] = {}
        BY <2>1, Zenon DEF Fork
      <3>2. u[s] = t[s] /\ u[Other(s)] = t[Other(s)] /\ u.parent = t.parent
        BY <1>1, <1>2
      <3> QED  BY <3>1, <3>2
    <2>3. Hung(u, L, n)
      BY <1>1, <1>2, <2>1 DEF Hung
    <2>4. Nested(u, D, n)
      BY <1>2, <2>1 DEF Nested
    <2> QED  BY <2>2, <2>3, <2>4
  <1> QED  BY <1>1, <1>2, <1>3 DEF Shape

LEMMA RepaintedSorted ==
  ASSUME NEW L, NEW t, NEW D, NEW k, Sorted(t, L, D, k), NEW u, Repainted(t, u)
  PROVE  Sorted(u, L, D, k)
  BY DEF Sorted, Repainted, SameLinks

(* What a node of the tree and its parent are to one another.              *)
Child(t, L, n) == /\ t.parent[n] \in L /\ t.parent[n] /= n
                  /\ SideOf(t, n) \in Sides /\ t[SideOf(t, n)][t.parent[n]] = n

LEMMA ParentFacts ==
  ASSUME NEW L \in SUBSET Nodes, NEW t, NEW D, Shape(t, L, D), NEW n \in L, n /= t.root
  PROVE  Child(t, L, n)
  <1>1. PICK s \in Sides : t.parent[n] \in L /\ t[s][t.parent[n]] = n
    BY DEF Shape, Hung
  <1>2. t.parent[n] /= n
    BY <1>1 DEF Shape, Fork
  <1>3. SideOf(t, n) \in Sides /\ t[SideOf(t, n)][t.parent[n]] = n
    BY <1>1 DEF SideOf, Sides
  <1> QED  BY <1>1, <1>2, <1>3 DEF Child

Balanced(u, L, x, y, bh) == Level(u, L, x, bh) /\ Apart(u, L, x, y)

(* y is red below its red parent p, and so is its uncle o: the children of *)
(* g, which u has painted over.                                            *)
Sinking(t, u, L, D, bh, y, p, g, o, s) ==
  /\ L \in SUBSET Nodes /\ t \in Tree /\ Shape(t, L, D)
  /\ g \in L /\ s \in Sides /\ p = t[s][g] /\ o = t[Other(s)][g]
  /\ t.color[p] = RED /\ t.color[o] = RED
  /\ y \in L /\ t.parent[y] = p /\ Apart(t, L, NULL, y)
  /\ Level(t, L, NULL, bh) /\ Repainted(t, u)
  /\ \A z \in Slots : u.color[z] = IF z = g THEN RED ELSE IF z \in {p, o} THEN BLACK ELSE t.color[z]

(* smp_insert_fixup moves the black of g down to both its children.        *)
LEMMA BlackDown ==
  ASSUME NEW L, NEW t, NEW D, NEW g, NEW s, NEW p, NEW o, NEW y, NEW bh, NEW u,
         Sinking(t, u, L, D, bh, y, p, g, o, s)
  PROVE  Balanced(u, L, NULL, g, [bh EXCEPT ![g] = bh[g] + 1])
  <1> USE RbtAssumption
  <1> SUFFICES ASSUME L \in SUBSET Nodes, t \in Tree, Shape(t, L, D),
                      g \in L, s \in Sides, p = t[s][g], o = t[Other(s)][g],
                      t.color[p] = RED, t.color[o] = RED,
                      y \in L, t.parent[y] = p, Apart(t, L, NULL, y),
                      Level(t, L, NULL, bh), Repainted(t, u),
                      \A z \in Slots : u.color[z] = IF z = g THEN RED ELSE IF z \in {p, o} THEN BLACK ELSE t.color[z]
               PROVE  Balanced(u, L, NULL, g, [bh EXCEPT ![g] = bh[g] + 1])
    BY DEF Sinking
  <1>1. /\ Other(s) \in Sides /\ \A e \in Sides : e = s \/ e = Other(s)
        /\ L \subseteq Slots /\ NIL \notin L /\ NULL \notin Slots /\ NIL \in Slots
    BY OtherSide DEF Slots
  <1>2. p \in L /\ o \in L /\ t.parent[p] = g /\ t.parent[o] = g /\ p /= NIL /\ p /= g /\ o /= g
    <2>1. p /= NIL /\ o /= NIL
      BY DEF Shape, RED, BLACK
    <2>2. Fork(t, L, D, g)
      BY DEF Shape
    <2> QED  BY <1>1, <2>1, <2>2 DEF Fork
  <1>3. p /= y
    <2>1. y = t.root => t.parent[y] /= y
      BY <1>1 DEF Shape
    <2>2. y /= t.root => Child(t, L, y)
      BY ParentFacts
    <2> QED  BY <2>1, <2>2 DEF Child
  <1>4. t.color[g] = BLACK
    <2>1. Scarlet(t, NULL, p)
      BY <1>1, <1>2 DEF Scarlet
    <2>2. ~Scarlet(t, NULL, g)
      BY <1>2, <1>3, <2>1 DEF Apart
    <2>3. t.color[g] \in {RED, BLACK}
      BY <1>1, TreeFacts
    <2> QED  BY <1>1, <2>2, <2>3 DEF Scarlet
  <1>5. \A z \in L, e \in Sides : u[e][z] = t[e][z] /\ t[e][z] \in Slots
                                  /\ (t[e][z] /= NIL => t.parent[t[e][z]] = z)
    BY DEF Repainted, SameLinks, Shape, Fork, Slots
  <1>6. u.parent = t.parent /\ u.root = t.root
    BY DEF Repainted, SameLinks
  <1>7. /\ bh \in [Slots -> Nat] /\ bh[NIL] = 0
        /\ \A z \in L, e \in Sides : bh[z] = bh[t[e][z]] + Heft(t, NULL, t[e][z], z)
    BY DEF Level
  <1> DEFINE h == [bh EXCEPT ![g] = bh[g] + 1]
  <1>8. h \in [Slots -> Nat] /\ h[g] = bh[g] + 1 /\ \A z \in Slots \ {g} : h[z] = bh[z]
    BY <1>1, <1>7
  <1>9. h[NIL] = 0
    BY <1>1, <1>7, <1>8
  <1> HIDE DEF h
  <1>10. ASSUME NEW z \in L, NEW e \in Sides
         PROVE  h[z] = h[u[e][z]] + Heft(u, NULL, u[e][z], z)
    <2>1. CASE z = g
      <3>1. t[e][g] \in {p, o} /\ t[e][g] /= g
        BY <1>1, <1>2
      <3>2. Heft(t, NULL, t[e][g], g) = 0 /\ Heft(u, NULL, t[e][g], g) = 1
        BY <1>1, <1>2, <3>1 DEF Heft, RED, BLACK
      <3> QED  BY <1>1, <1>5, <1>7, <1>8, <2>1, <3>1, <3>2
    <2>2. CASE t[e][z] = g
      <3>1. z /= g
        BY <1>1, <1>2, <2>2
      <3>2. Heft(t, NULL, g, z) = 1 /\ Heft(u, NULL, g, z) = 0
        BY <1>1, <1>4 DEF Heft, RED, BLACK
      <3>3. bh[z] = bh[g] + 1
        BY <1>7, <2>2, <3>2
      <3> QED  BY <1>1, <1>5, <1>7, <1>8, <2>2, <3>1, <3>2, <3>3
    <2>3. CASE z /= g /\ t[e][z] /= g
      <3>1. t[e][z] \notin {p, o}
        BY <1>1, <1>2, <1>5, <2>3
      <3>2. Heft(u, NULL, t[e][z], z) = Heft(t, NULL, t[e][z], z)
        BY <1>5, <1>6, <2>3, <3>1 DEF Heft
      <3> QED  BY <1>1, <1>5, <1>7, <1>8, <2>3, <3>2
    <2> QED  BY <2>1, <2>2, <2>3
  <1>11. Level(u, L, NULL, h)
    BY <1>8, <1>9, <1>10 DEF Level
  <1>12. ASSUME NEW z \in L, Scarlet(u, NULL, z), z /= g
         PROVE  z /= u.root /\ ~Scarlet(u, NULL, u.parent[z])
    <2>1. z \notin {p, o} /\ t.color[z] = RED
      BY <1>1, <1>12 DEF Scarlet, RED, BLACK
    <2>2. z /= t.root
      <3>1. CASE z = y
        BY <1>1, <1>2, <3>1 DEF Shape
      <3>2. CASE z /= y
        BY <1>1, <2>1, <3>2 DEF Apart, Scarlet
      <3> QED  BY <3>1, <3>2
    <2>3. t.parent[z] \in L /\ t.parent[z] /= g
      <3>1. t.parent[z] \in L /\ \E e \in Sides : t[e][t.parent[z]] = z
        BY <2>2 DEF Shape, Hung
      <3> QED  BY <1>1, <2>1, <3>1
    <2>4. u.color[t.parent[z]] /= RED
      <3>1. CASE z = y
        BY <1>1, <1>2, <3>1 DEF RED, BLACK
      <3>2. CASE z /= y
        <4>1. ~Scarlet(t, NULL, t.parent[z])
          BY <1>1, <2>1, <3>2 DEF Apart, Scarlet
        <4> QED  BY <1>1, <2>3, <4>1 DEF Scarlet, RED, BLACK
      <3> QED  BY <3>1, <3>2
    <2> QED  BY <1>6, <2>2, <2>4 DEF Scarlet
  <1> QED  BY <1>11, <1>12 DEF h, Apart, Balanced

(* x owes a black, and its sibling w is black with black children; u has   *)
(* painted w red.                                                          *)
Owing(t, u, L, D, bh, x, w, p, s) ==
  /\ L \in SUBSET Nodes /\ t \in Tree /\ Shape(t, L, D)
  /\ p \in L /\ s \in Sides /\ x = t[s][p] /\ w = t[Other(s)][p]
  /\ t.parent[x] = p /\ x /= w /\ w /= NIL
  /\ t.color[x] = BLACK /\ t.color[w] = BLACK
  /\ \A e \in Sides : t.color[t[e][w]] = BLACK
  /\ Apart(t, L, x, NULL) /\ Level(t, L, x, bh) /\ Repainted(t, u)
  /\ \A z \in Slots : u.color[z] = IF z = w THEN RED ELSE t.color[z]

(* smp_delete_fixup makes the sibling w of x red: what x owed, p owes.     *)
LEMMA DebtUp ==
  ASSUME NEW L, NEW t, NEW D, NEW p, NEW s, NEW x, NEW w, NEW bh, NEW u,
         Owing(t, u, L, D, bh, x, w, p, s)
  PROVE  Balanced(u, L, p, NULL, [bh EXCEPT ![p] = bh[p] - 1])
  <1> USE RbtAssumption
  <1> SUFFICES ASSUME L \in SUBSET Nodes, t \in Tree, Shape(t, L, D),
                      p \in L, s \in Sides, x = t[s][p], w = t[Other(s)][p],
                      t.parent[x] = p, x /= w, w /= NIL,
                      t.color[x] = BLACK, t.color[w] = BLACK,
                      \A e \in Sides : t.color[t[e][w]] = BLACK,
                      Apart(t, L, x, NULL), Level(t, L, x, bh), Repainted(t, u),
                      \A z \in Slots : u.color[z] = IF z = w THEN RED ELSE t.color[z]
               PROVE  Balanced(u, L, p, NULL, [bh EXCEPT ![p] = bh[p] - 1])
    BY DEF Owing
  <1>1. /\ Other(s) \in Sides /\ \A e \in Sides : e = s \/ e = Other(s)
        /\ L \subseteq Slots /\ NIL \notin L /\ NULL \notin Slots /\ NIL \in Slots
    BY OtherSide DEF Slots
  <1>2. w \in L /\ t.parent[w] = p /\ p /= w /\ x /= p /\ x \in Slots
    BY <1>1 DEF Shape, Fork, Slots
  <1>3. \A z \in L, e \in Sides : u[e][z] = t[e][z] /\ t[e][z] \in Slots
                                  /\ (t[e][z] /= NIL => t.parent[t[e][z]] = z)
    BY DEF Repainted, SameLinks, Shape, Fork, Slots
  <1>4. u.parent = t.parent /\ u.root = t.root
    BY DEF Repainted, SameLinks
  <1>5. /\ bh \in [Slots -> Nat] /\ bh[NIL] = 0
        /\ \A z \in L, e \in Sides : bh[z] = bh[t[e][z]] + Heft(t, x, t[e][z], z)
    BY DEF Level
  <1>6. bh[p] = bh[x] + 2
    <2>1. Heft(t, x, x, p) = 2
      BY DEF Heft
    <2> QED  BY <1>5, <2>1
  <1>7. bh[p] = bh[w] + 1
    <2>1. Heft(t, x, w, p) = 1
      BY DEF Heft
    <2> QED  BY <1>1, <1>5, <2>1
  <1> DEFINE h == [bh EXCEPT ![p] = bh[p] - 1]
  <1>8. /\ bh[p] \in Nat /\ bh[p] - 1 \in Nat /\ h \in [Slots -> Nat] /\ h[p] = bh[p] - 1
        /\ \A z \in Slots \ {p} : h[z] = bh[z]
    BY <1>1, <1>2, <1>5, <1>6
  <1>9. h[NIL] = 0
    BY <1>1, <1>5, <1>8
  <1> HIDE DEF h
  <1>10. ASSUME NEW z \in L, NEW e \in Sides
         PROVE  h[z] = h[u[e][z]] + Heft(u, p, u[e][z], z)
    <2>1. CASE z = p
      <3>1. CASE e = s
        <4>1. Heft(u, p, x, p) = 1
          BY <1>1, <1>2 DEF Heft
        <4> QED  BY <1>1, <1>2, <1>3, <1>5, <1>6, <1>8, <2>1, <3>1, <4>1
      <3>2. CASE e = Other(s)
        <4>1. Heft(u, p, w, p) = 0
          BY <1>1, <1>2 DEF Heft, RED, BLACK
        <4> QED  BY <1>1, <1>2, <1>3, <1>5, <1>7, <1>8, <2>1, <3>2, <4>1
      <3> QED  BY <1>1, <3>1, <3>2
    <2>2. CASE t[e][z] = p
      <3>1. z /= p /\ t.parent[p] = z
        BY <1>1, <1>3, <2>2 DEF Shape, Fork
      <3>2. Heft(u, p, p, z) = Heft(t, x, p, z) + 1
        BY <1>1, <1>2, <1>4, <3>1 DEF Heft
      <3>3. bh[z] = bh[p] + Heft(t, x, p, z) /\ Heft(t, x, p, z) \in Nat
        BY <1>5, <2>2 DEF Heft
      <3> QED  BY <1>1, <1>3, <1>8, <2>2, <3>1, <3>2, <3>3
    <2>3. CASE z /= p /\ t[e][z] /= p
      <3>1. t[e][z] /= w
        BY <1>1, <1>2, <1>3, <2>3
      <3>2. Heft(u, p, t[e][z], z) = Heft(t, x, t[e][z], z)
        BY <1>3, <1>4, <2>3, <3>1 DEF Heft
      <3> QED  BY <1>1, <1>3, <1>5, <1>8, <2>3, <3>2
    <2> QED  BY <2>1, <2>2, <2>3
  <1>11. Level(u, L, p, h)
    BY <1>8, <1>9, <1>10 DEF Level
  <1>12. ASSUME NEW z \in L, Scarlet(u, p, z), z /= NULL
         PROVE  z /= u.root /\ ~Scarlet(u, p, u.parent[z])
    <2>1. CASE z = w
      BY <1>1, <1>2, <1>4, <2>1 DEF Shape, Scarlet
    <2>2. CASE z /= w
      <3>1. Scarlet(t, x, z)
        BY <1>1, <1>12, <2>2 DEF Scarlet, RED, BLACK
      <3>2. z /= t.root /\ ~Scarlet(t, x, t.parent[z])
        BY <1>12, <3>1 DEF Apart
      <3>3. t.parent[z] \in L /\ t.parent[z] /= w
        <4>1. t.parent[z] \in L /\ \E e \in Sides : t[e][t.parent[z]] = z
          BY <3>2 DEF Shape, Hung
        <4> QED  BY <3>1, <4>1 DEF Scarlet, RED, BLACK
      <3> QED  BY <1>1, <1>4, <3>2, <3>3 DEF Scarlet, RED, BLACK
    <2> QED  BY <2>1, <2>2
  <1> QED  BY <1>11, <1>12 DEF h, Apart, Balanced

(* n is the root, or owes a black and is red; u has painted it black.      *)
Lightened(t, u, L, D, bh, x, y, n) ==
  /\ L \in SUBSET Nodes /\ t \in Tree /\ Shape(t, L, D) /\ n \in Slots
  /\ \/ x = NULL /\ n = t.root /\ t.color[t.parent[y]] = BLACK
     \/ x = n /\ y = NULL /\ (n = t.root \/ t.color[n] = RED)
  /\ Apart(t, L, x, y) /\ Level(t, L, x, bh)
  /\ (x = n /\ n /= t.root => n \in L)
  /\ Repainted(t, u)
  /\ \A z \in Slots : u.color[z] = IF z = n THEN BLACK ELSE t.color[z]

(* Both loops end by painting a node black: the root, or the node that     *)
(* owes a black.                                                           *)
LEMMA LastPaint ==
  ASSUME NEW L, NEW t, NEW D, NEW x, NEW y, NEW n, NEW bh, NEW u,
         Lightened(t, u, L, D, bh, x, y, n)
  PROVE  Balanced(u, L, NULL, NULL, bh)
  <1> USE RbtAssumption
  <1> SUFFICES ASSUME L \in SUBSET Nodes, t \in Tree, Shape(t, L, D), n \in Slots,
                      \/ x = NULL /\ n = t.root /\ t.color[t.parent[y]] = BLACK
                      \/ x = n /\ y = NULL /\ (n = t.root \/ t.color[n] = RED),
                      x = NULL \/ x = n, Apart(t, L, x, y), Level(t, L, x, bh),
                      x = n /\ n /= t.root => n \in L, Repainted(t, u),
                      \A z \in Slots : u.color[z] = IF z = n THEN BLACK ELSE t.color[z]
               PROVE  Balanced(u, L, NULL, NULL, bh)
    BY DEF Lightened
  <1>1. L \subseteq Slots /\ NIL \notin L /\ NULL \notin Slots /\ NIL \in Slots
    BY DEF Slots
  <1>3. \A z \in L, e \in Sides : u[e][z] = t[e][z] /\ t[e][z] \in Slots
                                  /\ (t[e][z] /= NIL => t.parent[t[e][z]] = z)
    BY DEF Repainted, SameLinks, Shape, Fork, Slots
  <1>4. u.parent = t.parent /\ u.root = t.root
    BY DEF Repainted, SameLinks
  <1>5. /\ bh \in [Slots -> Nat] /\ bh[NIL] = 0
        /\ \A z \in L, e \in Sides : bh[z] = bh[t[e][z]] + Heft(t, x, t[e][z], z)
    BY DEF Level
  <1>6. ASSUME NEW z \in L, NEW e \in Sides
        PROVE  Heft(u, NULL, t[e][z], z) = Heft(t, x, t[e][z], z)
    <2>1. t[e][z] /= t.root \/ t[e][z] = NIL
      BY <1>1, <1>3 DEF Shape
    <2>2. CASE t[e][z] /= n
      BY <1>1, <1>3, <2>2 DEF Heft
    <2>3. CASE t[e][z] = n /\ n = t.root
      <3>1. n = NIL /\ L = {}
        BY <2>1, <2>3 DEF Shape
      <3> QED  BY <3>1
    <2>4. CASE t[e][z] = n /\ n /= t.root
      <3>1. x = n /\ t.color[n] = RED /\ n \in L
        BY <2>4
      <3>2. t.parent[n] = z /\ u.color[n] = BLACK
        BY <1>1, <1>3, <2>4, <3>1
      <3> QED  BY <1>1, <2>4, <3>1, <3>2 DEF Heft, RED, BLACK
    <2> QED  BY <2>2, <2>3, <2>4
  <1>7. Level(u, L, NULL, bh)
    BY <1>3, <1>5, <1>6 DEF Level
  <1>8. ASSUME NEW z \in L, Scarlet(u, NULL, z), z /= NULL
        PROVE  z /= u.root /\ ~Scarlet(u, NULL, u.parent[z])
    <2>1. z /= n /\ t.color[z] = RED
      BY <1>1, <1>8 DEF Scarlet, RED, BLACK
    <2>2. Scarlet(t, x, z)
      BY <1>1, <2>1 DEF Scarlet
    <2>3. z /= t.root
      BY <2>1, <2>2 DEF Apart
    <2>4. t.parent[z] \in L
      BY <2>3 DEF Shape, Hung
    <2>5. ~Scarlet(t, x, t.parent[z])
      BY <1>1, <2>2 DEF Apart, Scarlet, RED, BLACK
    <2> QED  BY <1>1, <1>4, <2>3, <2>4, <2>5 DEF Scarlet, RED, BLACK
  <1> QED  BY <1>7, <1>8 DEF Apart, Balanced

-----------------------------------------------------------------------------
(***************************************************************************)
(* The turns of the two loops, on a tree t whatever it is.                 *)
(***************************************************************************)

Sound(t, L, k, D, bh, x, y) ==
  Shape(t, L, D) /\ Sorted(t, L, D, k) /\ Level(t, L, x, bh) /\ Apart(t, L, x, y)

LEMMA PaintedTurn ==
  ASSUME NEW L \in SUBSET Nodes, NEW t \in Tree, NEW D, Shape(t, L, D),
         NEW n, NEW m, NEW c, NEW s, Bend(t, L, n, m, c, s),
         NEW u, Repainted(t, u)
  PROVE  Turned(t, Rotate(u, n, s), L, n, m, c, s) /\ Rotate(u, n, s).color = u.color
  <1>1. Shape(u, L, D) /\ u \in Tree
    BY RepaintedShape DEF Repainted
  <1>2. \A e \in Sides : u[e] = t[e]
    BY DEF Repainted, SameLinks
  <1>3. u.root = t.root /\ u.parent = t.parent /\ s \in Sides /\ Other(s) \in Sides
    BY OtherSide DEF Repainted, SameLinks, Bend
  <1>4. Bend(u, L, n, m, c, s)
    BY <1>2, <1>3 DEF Bend
  <1>5. Turned(u, Rotate(u, n, s), L, n, m, c, s) /\ Rotate(u, n, s).color = u.color
    BY <1>1, <1>4, RotateFacts
  <1> QED  BY <1>2, <1>3, <1>5 DEF Turned

(* Its color apart, a turn keeps the tree sound.                           *)
LEMMA SwappedSound ==
  ASSUME NEW L \in SUBSET Nodes, NEW t \in Tree, NEW D, NEW k, NEW bh, NEW x, NEW y,
         Sound(t, L, k, D, bh, x, y), \A z \in L : k[z] \in Int,
         NEW n, NEW m, NEW c, NEW s, Bend(t, L, n, m, c, s),
         NEW u, Repainted(t, u), Swapped(t, u, n, m),
         x \notin {n, m}, y \notin {m, c}, c = NIL /\ x = NIL => t.parent[NIL] \notin {n, m},
         t.color[n] = BLACK, ~Scarlet(t, x, t[s][n])
  PROVE  \E E : Sound(Rotate(u, n, s), L, k, E, bh, x, y)
  <1> DEFINE r == Rotate(u, n, s)
  <1>1. Shape(t, L, D) /\ Sorted(t, L, D, k) /\ Level(t, L, x, bh) /\ Apart(t, L, x, y)
    BY DEF Sound
  <1>2. Turned(t, r, L, n, m, c, s) /\ r.color = u.color
    BY <1>1, PaintedTurn
  <1> HIDE DEF r
  <1>3. Swapped(t, r, n, m) /\ r.color[NIL] = BLACK
    BY <1>2 DEF Swapped, Repainted
  <1>4. Shape(r, L, Below(t, D, n, m, c, s))
    BY <1>1, <1>2, <1>3, TurnedShape
  <1>5. Sorted(r, L, Below(t, D, n, m, c, s), k)
    BY <1>1, <1>2, TurnedSorted
  <1>6. Level(r, L, x, bh)
    BY <1>1, <1>2, <1>3, SwappedLevel
  <1>7. Apart(r, L, x, y)
    BY <1>1, <1>2, <1>3, SwappedApart
  <1> QED  BY <1>4, <1>5, <1>6, <1>7 DEF Sound, r

Straightened(t, r, L, k, bh, g, s, p, y) ==
  /\ r \in Tree /\ r.color = t.color
  /\ r[s][g] = y /\ r[Other(s)][g] = t[Other(s)][g] /\ r[s][y] = p
  /\ r.parent[p] = y /\ r.parent[y] = g
  /\ \E E : Sound(r, L, k, E, bh, NULL, p)

(* smp_insert_fixup straightens the bend at nd's parent p.                 *)
LEMMA Straighten ==
  ASSUME NEW L \in SUBSET Nodes, NEW t \in Tree, NEW D, NEW k, NEW bh, NEW y,
         Sound(t, L, k, D, bh, NULL, y), \A z \in L : k[z] \in Int,
         NEW g \in L, NEW s \in Sides, NEW p, p = t[s][g], y = t[Other(s)][p],
         t.color[p] = RED, t.color[y] = RED,
         NEW r, r = Rotate(t, p, s)
  PROVE  Straightened(t, r, L, k, bh, g, s, p, y)
  <1> USE RbtAssumption
  <1> DEFINE c == t[s][y]
  <1>1. Shape(t, L, D) /\ Sorted(t, L, D, k) /\ Level(t, L, NULL, bh) /\ Apart(t, L, NULL, y)
    BY DEF Sound
  <1>2. p /= NIL /\ y /= NIL /\ t.color[NIL] = BLACK
    BY <1>1 DEF Shape, RED, BLACK
  <1>3. p \in L /\ t.parent[p] = g /\ p /= g
    BY <1>1, <1>2 DEF Shape, Fork
  <1>4. Bend(t, L, p, y, c, s)
    BY <1>2, <1>3 DEF Bend
  <1>5. Bent(t, L, p, y, c, s)
    BY <1>1, <1>4, BendFacts
  <1>6. Repainted(t, t) /\ Swapped(t, t, p, y)
    BY <1>2 DEF Repainted, SameLinks, Swapped
  <1>7. Turned(t, r, L, p, y, c, s) /\ r.color = t.color
    BY <1>1, <1>4, RotateFacts
  <1> HIDE DEF c
  <1>8. Swapped(t, r, p, y) /\ r.color[NIL] = BLACK
    BY <1>2, <1>6, <1>7 DEF Swapped
  <1>9. NULL \notin {p, y}
    BY <1>5 DEF Bent
  <1>10. Shape(r, L, Below(t, D, p, y, c, s))
    BY <1>1, <1>4, <1>7, <1>8, TurnedShape
  <1>11. Sorted(r, L, Below(t, D, p, y, c, s), k)
    BY <1>1, <1>4, <1>7, TurnedSorted
  <1>12. Level(r, L, NULL, bh)
    <2>1. ~(c = NIL /\ NULL = NIL)
      OBVIOUS
    <2> QED  BY <1>1, <1>4, <1>7, <1>8, <1>9, <2>1, SwappedLevel
  <1>13. Apart(r, L, NULL, p)
    BY <1>1, <1>4, <1>7, <1>8, <1>9, TwistedApart
  <1>14. Sound(r, L, k, Below(t, D, p, y, c, s), bh, NULL, p)
    BY <1>10, <1>11, <1>12, <1>13 DEF Sound
  <1>15. g /= y /\ t[Other(s)][g] /= p
    <2>1. p \in D[p] /\ g \notin D[p] /\ D[t[s][g]] \intersect D[t[Other(s)][g]] = {}
      BY <1>1, <1>3 DEF Shape, Fork
    <2>2. y \in D[p]
      <3>1. Fork(t, L, D, p) /\ Fork(t, L, D, y)
        BY <1>1, <1>3, <1>5 DEF Shape, Bent
      <3>2. s \in Sides /\ Other(s) \in Sides
        BY OtherSide
      <3>3. /\ D[p] = {p} \union D[t[s][p]] \union D[t[Other(s)][p]]
            /\ D[y] = {y} \union D[t[s][y]] \union D[t[Other(s)][y]]
        BY Zenon, <3>1, <3>2 DEF Fork
      <3>4. D[t[Other(s)][p]] \subseteq D[p] /\ y \in D[y]
        BY <3>3
      <3> QED  BY <3>4
    <2> QED  BY <2>1, <2>2
  <1>16. r[s][g] = y /\ r[Other(s)][g] = t[Other(s)][g]
    <2>1. g \in (L \union {NIL}) \ {p, y} /\ Other(s) \in Sides
      BY <1>3, <1>15, OtherSide
    <2>2. \A e \in Sides : r[e][g] = IF t[e][g] = p THEN y ELSE t[e][g]
      BY <1>7, <2>1 DEF Turned
    <2> QED  BY <1>15, <2>1, <2>2
  <1>17. r \in Tree /\ r[s][y] = p /\ r.parent[p] = y /\ r.parent[y] = g
    BY <1>3, <1>7 DEF Turned
  <1> QED  BY <1>7, <1>14, <1>16, <1>17 DEF Straightened

Upturned(r, L, k, bh, y) ==
  /\ r \in Tree /\ r.color[y] = RED /\ r.color[r.parent[y]] = BLACK
  /\ \E E : Sound(r, L, k, E, bh, NULL, y)

(* And turns the grandparent g, with nd = y below p below g on one side.   *)
LEMMA InsertTurn ==
  ASSUME NEW L \in SUBSET Nodes, NEW t \in Tree, NEW D, NEW k, NEW bh, NEW y,
         Sound(t, L, k, D, bh, NULL, y), \A z \in L : k[z] \in Int,
         NEW g \in L, NEW s \in Sides, NEW p, p = t[s][g], y = t[s][p],
         t.color[p] = RED, t.color[y] = RED, t.color[t[Other(s)][g]] = BLACK,
         NEW r, r = Rotate(Paint(Paint(t, {p}, BLACK), {g}, RED), g, Other(s))
  PROVE  Upturned(r, L, k, bh, y)
  <1> USE RbtAssumption
  <1> DEFINE u == Paint(Paint(t, {p}, BLACK), {g}, RED)
             o == Other(s)
             c == t[o][p]
  <1>1. Shape(t, L, D) /\ Apart(t, L, NULL, y)
    BY DEF Sound
  <1>2. p /= NIL /\ y /= NIL /\ t.color[NIL] = BLACK
    BY <1>1 DEF Shape, RED, BLACK
  <1>3. p \in L /\ t.parent[p] = g /\ p /= g /\ y \in L
    BY <1>1, <1>2 DEF Shape, Fork
  <1>4. o \in Sides /\ Other(o) = s
    BY OtherSide
  <1>5. Bend(t, L, g, p, c, o)
    BY <1>2, <1>4 DEF Bend
  <1>6. Bent(t, L, g, p, c, o)
    BY <1>1, <1>5, BendFacts
  <1>7. y /= p /\ y /= c /\ y /= g /\ y \in Slots /\ g \in Slots /\ p \in Slots /\ NIL \notin {g, p}
    BY <1>2, <1>3, <1>4, <1>6 DEF Bent, Slots
  <1>8. t.color[g] = BLACK
    <2>1. Scarlet(t, NULL, p) /\ p /= y
      BY <1>3, <1>7 DEF Scarlet
    <2>2. ~Scarlet(t, NULL, g)
      BY <1>1, <1>3, <2>1 DEF Apart
    <2>3. t.color[g] \in {RED, BLACK} /\ g /= NULL
      BY <1>7, TreeFacts
    <2> QED  BY <2>2, <2>3 DEF Scarlet
  <1>9. /\ Repainted(t, u)
        /\ \A z \in Slots : u.color[z] = IF z = g THEN RED ELSE IF z = p THEN BLACK ELSE t.color[z]
    <2> DEFINE v == Paint(t, {p}, BLACK)
    <2>1. v \in Tree /\ SameLinks(t, v) /\ \A z \in Slots : v.color[z] = IF z = p THEN BLACK ELSE t.color[z]
      BY PaintFacts
    <2> HIDE DEF v
    <2>2. Paint(v, {g}, RED) \in Tree /\ SameLinks(v, Paint(v, {g}, RED))
          /\ \A z \in Slots : Paint(v, {g}, RED).color[z] = IF z = g THEN RED ELSE v.color[z]
      BY <2>1, PaintFacts
    <2>3. u = Paint(v, {g}, RED)
      BY DEF v
    <2> HIDE DEF u
    <2>4. NIL \in Slots
      BY DEF Slots
    <2>5. \A z \in Slots : u.color[z] = IF z = g THEN RED ELSE IF z = p THEN BLACK ELSE t.color[z]
      BY <2>1, <2>2, <2>3
    <2>6. u.color[NIL] = BLACK
      BY <1>2, <1>7, <2>4, <2>5
    <2>7. u \in Tree /\ SameLinks(t, u)
      BY <2>1, <2>2, <2>3, Zenon DEF SameLinks
    <2> QED  BY <2>5, <2>6, <2>7, Zenon DEF Repainted
  <1> HIDE DEF u, o, c
  <1>10. Swapped(t, u, g, p)
    BY <1>3, <1>7, <1>8, <1>9 DEF Swapped
  <1>11. ~Scarlet(t, NULL, t[o][g])
    BY DEF Scarlet, RED, BLACK, o
  <1>12. \E E : Sound(Rotate(u, g, o), L, k, E, bh, NULL, y)
    <2>1. NULL \notin {g, p} /\ y \notin {p, c} /\ ~(c = NIL /\ NULL = NIL)
      BY <1>7 DEF Slots
    <2> QED  BY <1>5, <1>8, <1>9, <1>10, <1>11, <2>1, SwappedSound
  <1>13. Turned(t, Rotate(u, g, o), L, g, p, c, o) /\ Rotate(u, g, o).color = u.color
    BY <1>1, <1>5, <1>9, PaintedTurn
  <1>14. Rotate(u, g, o) \in Tree /\ Rotate(u, g, o).color[y] = RED
    BY <1>7, <1>9, <1>13 DEF Turned
  <1>15. r = Rotate(u, g, o)
    BY DEF u, o
  <1>16. Rotate(u, g, o).parent[y] = p
    <2>1. t.parent[y] = p
      BY <1>1, <1>2, <1>3 DEF Shape, Fork
    <2>2. y \in Slots \ {g, p} /\ y /= c
      BY <1>7
    <2> QED  BY <1>13, <2>1, <2>2 DEF Turned
  <1>17. Rotate(u, g, o).color[p] = BLACK
    BY <1>3, <1>7, <1>9, <1>13
  <1> QED  BY <1>12, <1>14, <1>15, <1>16, <1>17 DEF Upturned

(* smp_delete_fixup's black node x, on the side s of p, and its sibling w. *)
Debtor(t, L, x, p, s, w) ==
  /\ p \in L /\ s \in Sides /\ t.parent[x] = p /\ x = t[s][p] /\ w = t[Other(s)][p]
  /\ x \in Slots /\ x /= p /\ w /= x /\ w \in L /\ w /= p
  /\ t.color[x] = BLACK

(* The sibling is a node: there is as much black on its side.              *)
LEMMA SiblingThere ==
  ASSUME NEW L \in SUBSET Nodes, NEW t \in Tree, NEW D, Shape(t, L, D),
         NEW x, NEW bh, Level(t, L, x, bh),
         NEW p \in L, NEW s \in Sides, NEW w, t.parent[x] = p, x = t[s][p], w = t[Other(s)][p],
         w /= x, t.color[x] = BLACK
  PROVE  Debtor(t, L, x, p, s, w)
  <1> USE RbtAssumption
  <1>1. Other(s) \in Sides /\ L \subseteq Slots /\ NIL \in Slots /\ Other(Other(s)) = s
    BY OtherSide DEF Slots
  <1>2. x \in Slots /\ x /= p /\ w /= p /\ w \in L \union {NIL}
    BY <1>1 DEF Shape, Fork, Slots
  <1>3. w /= NIL
    <2>1. /\ bh \in [Slots -> Nat] /\ bh[NIL] = 0
          /\ bh[p] = bh[x] + Heft(t, x, x, p) /\ bh[p] = bh[w] + Heft(t, x, w, p)
      BY <1>1 DEF Level
    <2>2. Heft(t, x, x, p) = 2 /\ Heft(t, x, w, p) \in {0, 1}
      BY DEF Heft
    <2>3. bh[x] \in Nat
      BY <1>2, <2>1
    <2> QED  BY <2>1, <2>2, <2>3
  <1> QED  BY <1>2, <1>3 DEF Debtor

Relieved(r, L, k, bh, x, p, s, w) ==
  /\ r \in Tree /\ \E E : Sound(r, L, k, E, bh, x, NULL)
  /\ Debtor(r, L, x, p, s, w) /\ r.color[w] = BLACK

(* A red sibling goes above the parent: the next one is black.             *)
LEMMA RedSiblingTurn ==
  ASSUME NEW L \in SUBSET Nodes, NEW t \in Tree, NEW D, NEW k, NEW bh, NEW x,
         Sound(t, L, k, D, bh, x, NULL), \A z \in L : k[z] \in Int,
         NEW p, NEW s, NEW w, Debtor(t, L, x, p, s, w), t.color[w] = RED,
         NEW q, q = Rotate(Paint(Paint(t, {w}, BLACK), {p}, RED), p, s)
  PROVE  Relieved(q, L, k, bh, x, p, s, q[Other(s)][p])
  <1> USE RbtAssumption
  <1> DEFINE u == Paint(Paint(t, {w}, BLACK), {p}, RED)
             c == t[s][w]
             r == Rotate(u, p, s)
  <1>1. Shape(t, L, D) /\ Apart(t, L, x, NULL) /\ Level(t, L, x, bh)
    BY DEF Sound
  <1>2. /\ p \in L /\ s \in Sides /\ t.parent[x] = p /\ x = t[s][p] /\ w = t[Other(s)][p]
        /\ x \in Slots /\ x /= p /\ w /= x /\ w \in L /\ w /= p /\ t.color[x] = BLACK
        /\ L \subseteq Slots /\ NIL \in Slots /\ NIL \notin L /\ NULL \notin Slots
        /\ Other(s) \in Sides
    BY OtherSide DEF Debtor, Slots
  <1>3. Bend(t, L, p, w, c, s)
    BY <1>2 DEF Bend
  <1>4. Bent(t, L, p, w, c, s)
    BY <1>1, <1>3, BendFacts
  <1>5. t.parent[w] = p /\ (c /= NIL => t.parent[c] = w /\ c \in L) /\ c \in Slots /\ t.color[NIL] = BLACK
        /\ c /= p /\ c /= w
    BY <1>1, <1>4 DEF Bent, Shape
  <1>6. t.color[p] = BLACK
    <2>1. Scarlet(t, x, w)
      BY <1>2 DEF Scarlet
    <2>2. ~Scarlet(t, x, p)
      BY <1>1, <1>2, <1>5, <2>1 DEF Apart
    <2>3. t.color[p] \in {RED, BLACK}
      BY <1>2, TreeFacts
    <2> QED  BY <1>2, <2>2, <2>3 DEF Scarlet
  <1>7. c /= NIL /\ t.color[c] = BLACK
    <2>1. /\ bh \in [Slots -> Nat] /\ bh[NIL] = 0
          /\ bh[p] = bh[x] + Heft(t, x, x, p) /\ bh[p] = bh[w] + Heft(t, x, w, p)
          /\ bh[w] = bh[c] + Heft(t, x, c, w)
      BY <1>1, <1>2 DEF Level
    <2>2. Heft(t, x, x, p) = 2 /\ Heft(t, x, w, p) = 0 /\ Heft(t, x, c, w) \in {0, 1}
      BY <1>2 DEF Heft, RED, BLACK
    <2>3. bh[x] \in Nat /\ bh[c] \in Nat
      BY <1>2, <1>5, <2>1
    <2>4. c /= NIL
      BY <2>1, <2>2, <2>3
    <2>5. t.color[c] = RED => Scarlet(t, x, c) /\ Scarlet(t, x, w)
      BY <1>2, <1>5 DEF Scarlet, RED, BLACK
    <2>6. t.color[c] \in {RED, BLACK}
      BY <1>5, TreeFacts
    <2> QED  BY <1>1, <1>2, <1>5, <2>4, <2>5, <2>6 DEF Apart
  <1>8. x /= c
    BY <1>2, <1>5, <1>7
  <1>9. /\ Repainted(t, u)
        /\ \A z \in Slots : u.color[z] = IF z = p THEN RED ELSE IF z = w THEN BLACK ELSE t.color[z]
    <2> DEFINE v == Paint(t, {w}, BLACK)
    <2>1. v \in Tree /\ SameLinks(t, v) /\ \A z \in Slots : v.color[z] = IF z = w THEN BLACK ELSE t.color[z]
      BY PaintFacts
    <2> HIDE DEF v
    <2>2. Paint(v, {p}, RED) \in Tree /\ SameLinks(v, Paint(v, {p}, RED))
          /\ \A z \in Slots : Paint(v, {p}, RED).color[z] = IF z = p THEN RED ELSE v.color[z]
      BY <2>1, PaintFacts
    <2>3. u = Paint(v, {p}, RED)
      BY DEF v
    <2> HIDE DEF u
    <2>4. NIL \notin {p, w} /\ NIL \in Slots
      BY <1>2
    <2>5. \A z \in Slots : u.color[z] = IF z = p THEN RED ELSE IF z = w THEN BLACK ELSE t.color[z]
      BY <2>1, <2>2, <2>3
    <2>6. u.color[NIL] = BLACK
      BY <1>5, <2>4, <2>5
    <2>7. u \in Tree /\ SameLinks(t, u)
      BY <2>1, <2>2, <2>3, Zenon DEF SameLinks
    <2> QED  BY <2>5, <2>6, <2>7, Zenon DEF Repainted
  <1> HIDE DEF u, c
  <1>10. Swapped(t, u, p, w)
    BY <1>2, <1>6, <1>9 DEF Swapped
  <1>11. ~Scarlet(t, x, t[s][p])
    BY <1>2 DEF Scarlet
  <1>12. \E E : Sound(r, L, k, E, bh, x, NULL)
    <2>1. x \notin {p, w} /\ NULL \notin {w, c} /\ ~(c = NIL /\ x = NIL)
      BY <1>2, <1>5, <1>7
    <2> QED  BY <1>3, <1>6, <1>9, <1>10, <1>11, <2>1, SwappedSound
  <1>13. Turned(t, r, L, p, w, c, s) /\ r.color = u.color
    BY <1>1, <1>3, <1>9, PaintedTurn
  <1> HIDE DEF r
  <1>14. r \in Tree /\ r[Other(s)][p] = c /\ r[s][p] = x /\ r.parent[x] = p
    BY <1>2, <1>8, <1>13 DEF Turned
  <1>15. r.color[c] = BLACK /\ r.color[x] = BLACK
    BY <1>2, <1>5, <1>7, <1>9, <1>13
  <1>16. Debtor(r, L, x, p, s, c)
    BY <1>2, <1>5, <1>7, <1>8, <1>14, <1>15 DEF Debtor
  <1>17. q = r
    BY DEF r, u
  <1> QED  BY <1>12, <1>14, <1>15, <1>16, <1>17 DEF Relieved

Readied(r, L, k, bh, x, p, s, n, w) ==
  Relieved(r, L, k, bh, x, p, s, n) /\ r[Other(s)][n] = w /\ r.color[w] = RED

(* A red near nephew z goes above the black sibling w, and is the sibling. *)
LEMMA RedNephewTurn ==
  ASSUME NEW L \in SUBSET Nodes, NEW t \in Tree, NEW D, NEW k, NEW bh, NEW x,
         Sound(t, L, k, D, bh, x, NULL), \A z \in L : k[z] \in Int,
         NEW p, NEW s, NEW w, Debtor(t, L, x, p, s, w), t.color[w] = BLACK,
         NEW n, n = t[s][w], t.color[n] = RED, t.color[t[Other(s)][w]] = BLACK,
         NEW q, q = Rotate(Paint(Paint(t, {n}, BLACK), {w}, RED), w, Other(s))
  PROVE  Readied(q, L, k, bh, x, p, s, n, w)
  <1> USE RbtAssumption
  <1> DEFINE u == Paint(Paint(t, {n}, BLACK), {w}, RED)
             o == Other(s)
             c == t[o][n]
             r == Rotate(u, w, o)
  <1>1. Shape(t, L, D) /\ Apart(t, L, x, NULL)
    BY DEF Sound
  <1>2. /\ p \in L /\ s \in Sides /\ t.parent[x] = p /\ x = t[s][p] /\ w = t[o][p]
        /\ x \in Slots /\ x /= p /\ w /= x /\ w \in L /\ w /= p /\ t.color[x] = BLACK
        /\ L \subseteq Slots /\ NIL \in Slots /\ NIL \notin L /\ NULL \notin Slots
        /\ o \in Sides /\ Other(o) = s /\ o /= s
    BY OtherSide DEF Debtor, Slots
  <1>3. n /= NIL /\ n /= x
    BY <1>1, <1>2 DEF Shape, RED, BLACK
  <1>4. Bend(t, L, w, n, c, o)
    BY <1>2, <1>3 DEF Bend
  <1>5. Bent(t, L, w, n, c, o)
    BY <1>1, <1>4, BendFacts
  <1>6. /\ n \in L /\ n /= w /\ t.parent[n] = w /\ (c /= NIL => t.parent[c] = n) /\ c \in Slots
        /\ t.parent[w] = p /\ n /= p /\ t.color[NIL] = BLACK
    <2>1. t.parent[w] = p
      BY <1>1, <1>2 DEF Shape, Fork
    <2>2. n /= p
      <3>1. n \in D[n] /\ D[n] \subseteq D[w] /\ p \notin D[w]
        BY <1>1, <1>2, <1>3 DEF Shape, Fork
      <3> QED  BY <3>1
    <2> QED  BY <1>1, <1>5, <2>1, <2>2 DEF Bent, Shape
  <1>7. c /= NIL => c /= x
    BY <1>2, <1>6
  <1>9. /\ Repainted(t, u)
        /\ \A z \in Slots : u.color[z] = IF z = w THEN RED ELSE IF z = n THEN BLACK ELSE t.color[z]
    <2> DEFINE v == Paint(t, {n}, BLACK)
    <2>1. v \in Tree /\ SameLinks(t, v) /\ \A z \in Slots : v.color[z] = IF z = n THEN BLACK ELSE t.color[z]
      BY PaintFacts
    <2> HIDE DEF v
    <2>2. Paint(v, {w}, RED) \in Tree /\ SameLinks(v, Paint(v, {w}, RED))
          /\ \A z \in Slots : Paint(v, {w}, RED).color[z] = IF z = w THEN RED ELSE v.color[z]
      BY <2>1, PaintFacts
    <2>3. u = Paint(v, {w}, RED)
      BY DEF v
    <2> HIDE DEF u
    <2>4. NIL \notin {n, w} /\ NIL \in Slots
      BY <1>2, <1>3
    <2>5. u \in Tree /\ SameLinks(v, u) /\ \A z \in Slots : u.color[z] = IF z = w THEN RED ELSE v.color[z]
      BY <2>2, <2>3
    <2>6. SameLinks(t, u)
      BY <2>1, <2>5 DEF SameLinks
    <2>7. \A z \in Slots : u.color[z] = IF z = w THEN RED ELSE IF z = n THEN BLACK ELSE t.color[z]
      BY <2>1, <2>5
    <2>8. u.color[NIL] = BLACK
      BY <1>6, <2>4, <2>7
    <2> QED  BY <2>5, <2>6, <2>7, <2>8 DEF Repainted
  <1> HIDE DEF u, c
  <1>10. Swapped(t, u, w, n)
    BY <1>2, <1>6, <1>9 DEF Swapped
  <1>11. ~Scarlet(t, x, t[o][w])
    BY DEF Scarlet, RED, BLACK
  <1> HIDE DEF o
  <1>12. \E E : Sound(r, L, k, E, bh, x, NULL)
    <2>1. x \notin {w, n} /\ NULL \notin {n, c} /\ p \notin {w, n}
      BY <1>2, <1>3, <1>6
    <2>2. c = NIL /\ x = NIL => t.parent[NIL] \notin {w, n}
      BY <1>2, <2>1
    <2> QED  BY <1>4, <1>9, <1>10, <1>11, <2>1, <2>2, SwappedSound
  <1>13. Turned(t, r, L, w, n, c, o) /\ r.color = u.color
    BY <1>1, <1>4, <1>9, PaintedTurn
  <1> HIDE DEF r
  <1>14. r \in Tree /\ r[o][n] = w /\ r[o][p] = n /\ r[s][p] = x /\ r.parent[x] = p
    <2>1. p \in (L \union {NIL}) \ {w, n} /\ x \in Slots \ {w, n}
      BY <1>2, <1>3, <1>6
    <2> QED  BY <1>2, <1>7, <1>13, <2>1 DEF Turned
  <1>15. r.color[n] = BLACK /\ r.color[w] = RED /\ r.color[x] = BLACK
    BY <1>2, <1>3, <1>6, <1>9, <1>13
  <1>16. Debtor(r, L, x, p, s, n)
    BY <1>2, <1>3, <1>6, <1>14, <1>15 DEF Debtor, o
  <1>17. q = r
    BY DEF r, u, o
  <1> QED  BY <1>12, <1>14, <1>15, <1>16, <1>17 DEF Readied, Relieved, o

Paid(r, L, k) ==
  r \in Tree /\ r.root \in L /\ \E E, h : Sound(r, L, k, E, h, r.root, NULL)

(* A red far nephew pays: the loop is over.                                *)
LEMMA LastTurn ==
  ASSUME NEW L \in SUBSET Nodes, NEW t \in Tree, NEW D, NEW k, NEW bh, NEW x,
         Sound(t, L, k, D, bh, x, NULL), \A z \in L : k[z] \in Int,
         NEW p, NEW s, NEW w, Debtor(t, L, x, p, s, w), t.color[w] = BLACK,
         NEW f, f = t[Other(s)][w], t.color[f] = RED,
         NEW v \in Tree, SameLinks(t, v),
         \A z \in Slots : v.color[z] = IF z = w THEN t.color[p] ELSE t.color[z],
         NEW q, q = Rotate(Paint(v, {p, f}, BLACK), p, s)
  PROVE  Paid(q, L, k)
  <1> USE RbtAssumption
  <1> DEFINE u == Paint(v, {p, f}, BLACK)
             c == t[s][w]
             r == Rotate(u, p, s)
  <1>1. Shape(t, L, D) /\ Apart(t, L, x, NULL) /\ Level(t, L, x, bh) /\ Sorted(t, L, D, k)
    BY DEF Sound
  <1>2. /\ p \in L /\ s \in Sides /\ t.parent[x] = p /\ x = t[s][p] /\ w = t[Other(s)][p]
        /\ x \in Slots /\ x /= p /\ w /= x /\ w \in L /\ w /= p /\ t.color[x] = BLACK
        /\ L \subseteq Slots /\ NIL \in Slots /\ NIL \notin L /\ NULL \notin Slots
        /\ Other(s) \in Sides
    BY OtherSide DEF Debtor, Slots
  <1>3. Bend(t, L, p, w, c, s)
    BY <1>2 DEF Bend
  <1>4. Bent(t, L, p, w, c, s)
    BY <1>1, <1>3, BendFacts
  <1>5. f \notin {p, w} /\ f /= NIL /\ t.color[NIL] = BLACK
    BY <1>1, <1>4 DEF Bent, Shape, RED, BLACK
  <1>6. /\ Repainted(t, u)
        /\ \A z \in Slots : u.color[z] = IF z \in {p, f} THEN BLACK ELSE v.color[z]
    <2>1. u \in Tree /\ SameLinks(v, u)
          /\ \A z \in Slots : u.color[z] = IF z \in {p, f} THEN BLACK ELSE v.color[z]
      BY PaintFacts
    <2> HIDE DEF u
    <2> QED  BY <1>2, <1>5, <2>1 DEF Repainted, SameLinks
  <1> HIDE DEF u, c
  <1>7. Turned(t, r, L, p, w, c, s) /\ r.color = u.color
    BY <1>1, <1>3, <1>6, PaintedTurn
  <1> HIDE DEF r
  <1>8. Settled(t, r, p, w, f)
    <2>1. f \in Slots
      BY <1>1, <1>2 DEF Shape, Fork, Slots
    <2> QED  BY <1>2, <1>5, <1>6, <1>7, <2>1 DEF Settled
  <1>9. r.color[NIL] = BLACK
    BY <1>6, <1>7 DEF Repainted
  <1>10. Shape(r, L, Below(t, D, p, w, c, s))
    BY <1>1, <1>3, <1>7, <1>9, TurnedShape
  <1>11. Sorted(r, L, Below(t, D, p, w, c, s), k)
    BY <1>1, <1>3, <1>7, TurnedSorted
  <1>12. Level(r, L, r.root, [bh EXCEPT ![p] = bh[p] - 1, ![w] = bh[p]])
    BY <1>1, <1>2, <1>3, <1>7, <1>8, SettledLevel
  <1>13. Apart(r, L, r.root, NULL)
    BY <1>1, <1>2, <1>3, <1>7, <1>8, SettledApart
  <1>14. r.root \in L /\ r \in Tree
    <2>1. t.root \in L
      BY <1>1, <1>2 DEF Shape
    <2> QED  BY <1>2, <1>7, <2>1 DEF Turned
  <1>15. \E E, h : Sound(r, L, k, E, h, r.root, NULL)
    BY <1>10, <1>11, <1>12, <1>13 DEF Sound
  <1>16. q = r
    BY DEF r, u
  <1> QED  BY <1>14, <1>15, <1>16 DEF Paid

-----------------------------------------------------------------------------
(***************************************************************************)
(* The walks.                                                              *)
(***************************************************************************)

Joined == Linked \union {NIL}

(* What the invariant says of the tree is enough for the walks.            *)
Walkable == /\ Linked \in SUBSET Nodes /\ IsFiniteSet(Nodes)
            /\ \A n \in Joined, s \in Sides : rbt[s][n] \in Joined

LEMMA EdgeWalk ==
  ASSUME Walkable, NEW s \in Sides
  PROVE  \E f : /\ \A n : Edge(n, s) = f[Depth][n]
                /\ \A d \in 0 .. Depth, n \in Joined :
                     f[d][n] = IF rbt[s][n] = NIL \/ d = 0 THEN n ELSE f[d - 1][rbt[s][n]]
  <1> DEFINE from[d \in 0 .. Depth] == [n \in Linked \union {NIL} |->
               IF rbt[s][n] = NIL \/ d = 0 THEN n ELSE from[d - 1][rbt[s][n]]]
             W == [Joined -> Joined]
             w == [n \in Joined |-> n]
             G == [g \in W |-> [n \in Joined |-> IF rbt[s][n] = NIL THEN n ELSE g[rbt[s][n]]]]
  <1>1. \A n : Edge(n, s) = from[Depth][n]
    BY DEF Edge
  <1>2. Depth \in Nat
    BY FS_CardinalityType DEF Walkable, Depth
  <1>3. w \in W /\ G \in [W -> W]
    BY DEF Walkable
  <1>4. PICK h \in [0 .. Depth -> W] : Iterates(h, Depth, w, G)
    <2> HIDE DEF W, w, G
    <2> QED  BY <1>2, <1>3, IteratesExist
  <1>5. ASSUME NEW d \in 0 .. Depth
        PROVE  h[d] = [n \in Joined |-> IF rbt[s][n] = NIL \/ d = 0 THEN n ELSE h[d - 1][rbt[s][n]]]
    <2>1. CASE d = 0
      BY <1>4, <2>1 DEF Iterates
    <2>2. CASE d /= 0
      <3>1. d \in 1 .. Depth /\ d - 1 \in 0 .. Depth
        BY <1>2, <2>2
      <3>2. h[d] = G[h[d - 1]] /\ h[d - 1] \in W
        BY <1>4, <3>1 DEF Iterates
      <3> QED  BY <2>2, <3>2
    <2> QED  BY <2>1, <2>2
  <1>6. h = [d \in 0 .. Depth |-> [n \in Linked \union {NIL} |->
               IF rbt[s][n] = NIL \/ d = 0 THEN n ELSE h[d - 1][rbt[s][n]]]]
    <2> HIDE DEF W, w, G
    <2> QED  BY <1>4, <1>5 DEF Joined
  <1>7. from = [d \in 0 .. Depth |-> [n \in Linked \union {NIL} |->
                  IF rbt[s][n] = NIL \/ d = 0 THEN n ELSE from[d - 1][rbt[s][n]]]]
    <2> HIDE DEF W, w, G
    <2> QED  BY <1>6
  <1> HIDE DEF from
  <1>8. ASSUME NEW d \in 0 .. Depth
        PROVE  from[d] = [n \in Joined |-> IF rbt[s][n] = NIL \/ d = 0 THEN n ELSE from[d - 1][rbt[s][n]]]
    BY <1>7 DEF Joined
  <1>9. ASSUME NEW d \in 0 .. Depth, NEW n \in Joined
        PROVE  from[d][n] = IF rbt[s][n] = NIL \/ d = 0 THEN n ELSE from[d - 1][rbt[s][n]]
    <2>1. from[d] = [m \in Joined |-> IF rbt[s][m] = NIL \/ d = 0 THEN m ELSE from[d - 1][rbt[s][m]]]
      BY <1>8
    <2> QED  BY <2>1
  <1> QED  BY <1>1, <1>9

(* How many nodes are below each.                                          *)
Sized(t, L, D) ==
  /\ Cardinality(D[NIL]) = 0
  /\ \A n \in L \union {NIL} : /\ IsFiniteSet(D[n]) /\ Cardinality(D[n]) \in Nat
                              /\ Cardinality(D[n]) < Depth
  /\ \A n \in L, s \in Sides :
       /\ Cardinality(D[n]) = 1 + Cardinality(D[t[s][n]]) + Cardinality(D[t[Other(s)][n]])
       /\ Cardinality(D[t[s][n]]) < Cardinality(D[n])
  /\ \A n \in L : Cardinality(D[n]) > 0
  /\ Depth \in Nat /\ Cardinality(L) \in Nat /\ Cardinality(L) < Depth

LEMMA ShapeSized ==
  ASSUME NEW L \in SUBSET Nodes, NEW t, NEW D, Shape(t, L, D)
  PROVE  Sized(t, L, D)
  <1> USE RbtAssumption
  <1>1. \A M : M \subseteq Nodes => /\ IsFiniteSet(M) /\ Cardinality(M) \in Nat
                                    /\ Cardinality(M) <= Cardinality(Nodes)
    BY FS_Subset, FS_CardinalityType
  <1>2. \A n \in L \union {NIL} : D[n] \subseteq Nodes
    BY DEF Shape, Slots
  <1>3. Cardinality(D[NIL]) = 0
    BY FS_EmptySet DEF Shape
  <1>4. \A n \in L \union {NIL} : IsFiniteSet(D[n]) /\ Cardinality(D[n]) \in Nat
    BY <1>1, <1>2
  <1>5. ASSUME NEW n \in L, NEW s \in Sides
        PROVE  Cardinality(D[n]) = 1 + Cardinality(D[t[s][n]]) + Cardinality(D[t[Other(s)][n]])
    <2>1. PICK a, b : a = D[t[s][n]] /\ b = D[t[Other(s)][n]]
      OBVIOUS
    <2>2. /\ D[n] = (a \union b) \union {n} /\ n \notin a /\ n \notin b /\ a \intersect b = {}
          /\ IsFiniteSet(a) /\ IsFiniteSet(b) /\ Cardinality(a) \in Nat /\ Cardinality(b) \in Nat
      BY <1>4, <2>1, OtherSide DEF Shape, Fork
    <2>3. IsFiniteSet(a \union b) /\ Cardinality(a \union b) = Cardinality(a) + Cardinality(b)
      <3>1. Cardinality(a \intersect b) = 0
        BY <2>2, FS_EmptySet
      <3>2. IsFiniteSet(a \union b)
            /\ Cardinality(a \union b) = Cardinality(a) + Cardinality(b) - Cardinality(a \intersect b)
        BY <2>2, FS_Union
      <3> QED  BY <2>2, <3>1, <3>2
    <2>4. Cardinality((a \union b) \union {n}) = Cardinality(a \union b) + 1
      BY <2>2, <2>3, FS_AddElement
    <2> QED  BY <2>1, <2>2, <2>3, <2>4
  <1>7. ASSUME NEW n \in L, NEW s \in Sides
        PROVE  Cardinality(D[t[s][n]]) < Cardinality(D[n]) /\ Cardinality(D[n]) > 0
    <2>1. t[s][n] \in L \union {NIL} /\ t[Other(s)][n] \in L \union {NIL}
      BY OtherSide DEF Shape, Fork
    <2>2. Cardinality(D[t[s][n]]) \in Nat /\ Cardinality(D[t[Other(s)][n]]) \in Nat
      BY <1>4, <2>1
    <2> QED  BY <1>5, <2>2
  <1>6. Depth \in Nat /\ Cardinality(L) \in Nat /\ Cardinality(L) < Depth
    BY <1>1, FS_CardinalityType DEF Depth
  <1>8. \A n \in L \union {NIL} : Cardinality(D[n]) < Depth
    <2>1. Cardinality(Nodes) \in Nat
      BY FS_CardinalityType
    <2>2. \A n \in L \union {NIL} : Cardinality(D[n]) <= Cardinality(Nodes)
      BY <1>1, <1>2
    <2> QED  BY <1>4, <2>1, <2>2 DEF Depth
  <1>9. \A n \in L : Cardinality(D[n]) > 0
    <2>1. "left" \in Sides
      BY DEF Sides
    <2> QED  BY <1>7, <2>1
  <1> QED  BY <1>3, <1>4, <1>5, <1>6, <1>7, <1>8, <1>9 DEF Sized

LEMMA ShapeWalkable ==
  ASSUME Linked \in SUBSET Nodes, NEW D, Shape(rbt, Linked, D)
  PROVE  Walkable
  <1> QED  BY RbtAssumption DEF Walkable, Shape, Fork, Joined

(* An edge of the tree: nothing is further on that side.                   *)
Extreme(D, n, s, e) == /\ e \in D[n] /\ rbt[s][e] = NIL
                       /\ \A a \in D[n] : Before(s, key[e], key[a])

LEMMA EdgeFacts ==
  ASSUME Linked \in SUBSET Nodes, NEW D, Shape(rbt, Linked, D), Sorted(rbt, Linked, D, key),
         \A z \in Linked : key[z] \in Int, NEW n \in Linked, NEW s \in Sides
  PROVE  Extreme(D, n, s, Edge(n, s))
  <1> USE RbtAssumption
  <1>1. Walkable
    BY ShapeWalkable
  <1>2. Sized(rbt, Linked, D)
    BY ShapeSized
  <1>3. PICK f : /\ \A m : Edge(m, s) = f[Depth][m]
                 /\ \A d \in 0 .. Depth, m \in Joined :
                      f[d][m] = IF rbt[s][m] = NIL \/ d = 0 THEN m ELSE f[d - 1][rbt[s][m]]
    BY <1>1, EdgeWalk
  <1>4. Depth \in Nat /\ Cardinality(D[n]) \in Nat /\ Cardinality(D[n]) < Depth
    BY <1>2 DEF Sized
  <1> DEFINE Right == {d \in Nat : d <= Depth =>
                \A m \in Linked : Cardinality(D[m]) <= d => Extreme(D, m, s, f[d][m])}
  <1>5. 0 \in Right
    <2>1. \A m \in Linked : Cardinality(D[m]) \in Nat /\ Cardinality(D[m]) > 0
      BY <1>2 DEF Sized
    <2> QED  BY <2>1
  <1>6. ASSUME NEW d \in Nat, d \in Right PROVE d + 1 \in Right
    <2> SUFFICES ASSUME d + 1 <= Depth, NEW m \in Linked, Cardinality(D[m]) <= d + 1
                 PROVE  Extreme(D, m, s, f[d + 1][m])
      OBVIOUS
    <2>1. /\ Cardinality(D[m]) = 1 + Cardinality(D[rbt[s][m]]) + Cardinality(D[rbt[Other(s)][m]])
          /\ rbt[s][m] \in Linked \union {NIL} /\ rbt[Other(s)][m] \in Linked \union {NIL}
          /\ D[m] = {m} \union D[rbt[s][m]] \union D[rbt[Other(s)][m]]
          /\ D[NIL] = {}
      BY <1>2, OtherSide DEF Shape, Fork, Sized
    <2>2. Cardinality(D[rbt[s][m]]) \in Nat /\ Cardinality(D[rbt[Other(s)][m]]) \in Nat
      BY <1>2, <2>1 DEF Sized
    <2>3. d + 1 \in 0 .. Depth /\ (d + 1) - 1 = d /\ m \in Joined /\ d + 1 /= 0 /\ d <= Depth
      BY <1>4 DEF Joined
    <2>4. f[d + 1][m] = IF rbt[s][m] = NIL THEN m ELSE f[d][rbt[s][m]]
      BY <1>3, <2>3
    <2>5. \A a \in D[rbt[Other(s)][m]] : a \in Linked /\ Before(s, key[m], key[a])
      <3>1. \A a \in D[rbt[Other(s)][m]] : a \in Linked /\ Before(Other(s), key[a], key[m])
        BY <2>1, OtherSide DEF Shape, Sorted, Slots
      <3> QED  BY <3>1, OtherSide
    <2>6. \A a \in D[rbt[s][m]] : a \in Linked /\ Before(s, key[a], key[m])
      BY <2>1 DEF Shape, Sorted, Slots
    <2>7. CASE rbt[s][m] = NIL
      <3>1. Before(s, key[m], key[m])
        BY DEF Before
      <3> QED  BY <2>1, <2>4, <2>5, <2>7, <3>1 DEF Extreme
    <2>8. CASE rbt[s][m] /= NIL
      <3>1. PICK c \in Linked : c = rbt[s][m]
        BY <2>1, <2>8
      <3>2. Cardinality(D[c]) <= d
        BY <2>1, <2>2, <3>1
      <3>3. Extreme(D, c, s, f[d][c])
        BY <1>6, <2>3, <3>2
      <3>4. PICK e : e = f[d + 1][m]
        OBVIOUS
      <3>5. e \in D[c] /\ rbt[s][e] = NIL /\ \A a \in D[c] : Before(s, key[e], key[a])
        BY <2>4, <2>8, <3>1, <3>3, <3>4 DEF Extreme
      <3>6. Before(s, key[e], key[m]) /\ e \in Linked
        BY <2>6, <3>1, <3>5
      <3>7. \A a \in D[rbt[Other(s)][m]] : Before(s, key[e], key[a])
        BY <2>5, <3>6, BeforeTrans
      <3> QED  BY <2>1, <3>1, <3>4, <3>5, <3>6, <3>7 DEF Extreme
    <2> QED  BY <2>7, <2>8
  <1>7. \A d \in Nat : d \in Right
    <2> HIDE DEF Right
    <2> QED  BY <1>5, <1>6, NatInSet
  <1> QED  BY <1>3, <1>4, <1>7

(* The child of n on the way to a node with key k.                         *)
Toward(k, n) == IF key[n] > k THEN rbt.left[n] ELSE rbt.right[n]

LEMMA FindWalk ==
  ASSUME Walkable, NEW k
  PROVE  \E f : /\ RnodeFind(k) = f[Depth][rbt.root]
                /\ \A d \in 0 .. Depth, n \in Joined :
                     f[d][n] = IF n = NIL \/ d = 0 THEN NULL
                               ELSE IF key[n] = k THEN n ELSE f[d - 1][Toward(k, n)]
  <1> DEFINE from[d \in 0 .. Depth] == [n \in Linked \union {NIL} |->
               IF n = NIL \/ d = 0 THEN NULL
               ELSE IF key[n] = k THEN n
               ELSE from[d - 1][IF key[n] > k THEN rbt.left[n] ELSE rbt.right[n]]]
             W == [Joined -> Joined \union {NULL}]
             w == [n \in Joined |-> NULL]
             G == [g \in W |-> [n \in Joined |-> IF n = NIL THEN NULL
                                                 ELSE IF key[n] = k THEN n ELSE g[Toward(k, n)]]]
  <1>1. RnodeFind(k) = from[Depth][rbt.root]
    BY DEF RnodeFind
  <1>2. Depth \in Nat
    BY FS_CardinalityType DEF Walkable, Depth
  <1>3. \A n \in Joined : Toward(k, n) \in Joined
    BY DEF Walkable, Toward, Sides
  <1>4. w \in W /\ G \in [W -> W]
    BY <1>3
  <1>5. PICK h \in [0 .. Depth -> W] : Iterates(h, Depth, w, G)
    <2> HIDE DEF W, w, G
    <2> QED  BY <1>2, <1>4, IteratesExist
  <1>6. ASSUME NEW d \in 0 .. Depth
        PROVE  h[d] = [n \in Joined |-> IF n = NIL \/ d = 0 THEN NULL
                                        ELSE IF key[n] = k THEN n ELSE h[d - 1][Toward(k, n)]]
    <2>1. CASE d = 0
      BY <1>5, <2>1 DEF Iterates
    <2>2. CASE d /= 0
      <3>1. d \in 1 .. Depth /\ d - 1 \in 0 .. Depth
        BY <1>2, <2>2
      <3>2. h[d] = G[h[d - 1]] /\ h[d - 1] \in W
        BY <1>5, <3>1 DEF Iterates
      <3> QED  BY <2>2, <3>2
    <2> QED  BY <2>1, <2>2
  <1>7. h = [d \in 0 .. Depth |-> [n \in Linked \union {NIL} |->
               IF n = NIL \/ d = 0 THEN NULL
               ELSE IF key[n] = k THEN n
               ELSE h[d - 1][IF key[n] > k THEN rbt.left[n] ELSE rbt.right[n]]]]
    <2> HIDE DEF W, w, G
    <2> QED  BY <1>5, <1>6 DEF Joined, Toward
  <1>8. from = [d \in 0 .. Depth |-> [n \in Linked \union {NIL} |->
                  IF n = NIL \/ d = 0 THEN NULL
                  ELSE IF key[n] = k THEN n
                  ELSE from[d - 1][IF key[n] > k THEN rbt.left[n] ELSE rbt.right[n]]]]
    <2> HIDE DEF W, w, G
    <2> QED  BY <1>7
  <1> HIDE DEF from
  <1>9. ASSUME NEW d \in 0 .. Depth, NEW n \in Joined
        PROVE  from[d][n] = IF n = NIL \/ d = 0 THEN NULL
                            ELSE IF key[n] = k THEN n ELSE from[d - 1][Toward(k, n)]
    <2>1. from[d] = [m \in Joined |-> IF m = NIL \/ d = 0 THEN NULL
                                      ELSE IF key[m] = k THEN m ELSE from[d - 1][Toward(k, m)]]
      BY <1>8 DEF Joined, Toward
    <2> QED  BY <2>1
  <1> QED  BY <1>1, <1>9

(* It finds a node of key k below n, if there is one.                      *)
Found(D, k, n, v) == IF \E a \in D[n] : key[a] = k THEN v \in D[n] /\ key[v] = k
                     ELSE v = NULL

LEMMA FindFacts ==
  ASSUME Linked \in SUBSET Nodes, NEW D, Shape(rbt, Linked, D), Sorted(rbt, Linked, D, key),
         \A z \in Linked : key[z] \in Int, NEW k \in Int
  PROVE  Found(D, k, rbt.root, RnodeFind(k))
  <1> USE RbtAssumption
  <1>1. Walkable /\ Sized(rbt, Linked, D)
    BY ShapeWalkable, ShapeSized
  <1>2. PICK f : /\ RnodeFind(k) = f[Depth][rbt.root]
                 /\ \A d \in 0 .. Depth, n \in Joined :
                      f[d][n] = IF n = NIL \/ d = 0 THEN NULL
                                ELSE IF key[n] = k THEN n ELSE f[d - 1][Toward(k, n)]
    BY <1>1, FindWalk
  <1>3. /\ rbt.root \in Linked \union {NIL} /\ Depth \in Nat
        /\ Cardinality(D[rbt.root]) \in Nat /\ Cardinality(D[rbt.root]) < Depth
    BY <1>1 DEF Sized, Shape
  <1> DEFINE Right == {d \in Nat : d <= Depth =>
                \A m \in Joined : Cardinality(D[m]) <= d => Found(D, k, m, f[d][m])}
  <1>4. \A d \in 0 .. Depth : Found(D, k, NIL, f[d][NIL])
    BY <1>2 DEF Found, Joined, Shape
  <1>5. 0 \in Right
    <2>1. \A m \in Linked : Cardinality(D[m]) \in Nat /\ Cardinality(D[m]) > 0
      BY <1>1 DEF Sized
    <2>2. 0 \in 0 .. Depth
      BY <1>3
    <2> QED  BY <1>4, <2>1, <2>2 DEF Joined
  <1>6. ASSUME NEW d \in Nat, d \in Right PROVE d + 1 \in Right
    <2> SUFFICES ASSUME d + 1 <= Depth, NEW m \in Joined, Cardinality(D[m]) <= d + 1
                 PROVE  Found(D, k, m, f[d + 1][m])
      OBVIOUS
    <2>1. d + 1 \in 0 .. Depth /\ (d + 1) - 1 = d /\ d + 1 /= 0 /\ d <= Depth
      BY <1>3
    <2>2. CASE m = NIL
      BY <1>4, <2>1, <2>2
    <2>3. CASE m /= NIL
      <3>1. m \in Linked /\ m \in D[m]
        BY <2>3, OtherSide DEF Joined, Shape, Fork, Sides
      <3>2. f[d + 1][m] = IF key[m] = k THEN m ELSE f[d][Toward(k, m)]
        BY <1>2, <2>1, <2>3
      <3>3. CASE key[m] = k
        BY <3>1, <3>2, <3>3 DEF Found
      <3>4. CASE key[m] /= k
        <4>1. PICK s \in Sides : /\ Toward(k, m) = rbt[s][m]
                                 /\ ~Before(Other(s), k, key[m])
          <5>1. key[m] \in Int
            BY <3>1
          <5>2. CASE key[m] > k
            BY <3>4, <5>1, <5>2 DEF Toward, Before, Sides, Other
          <5>3. CASE ~(key[m] > k)
            BY <3>4, <5>1, <5>3 DEF Toward, Before, Sides, Other
          <5> QED  BY <5>2, <5>3
        <4>2. PICK c \in Joined : c = rbt[s][m]
          BY <1>1 DEF Walkable
        <4>3. Cardinality(D[c]) <= d
          <5>1. Cardinality(D[c]) < Cardinality(D[m])
            BY <1>1, <3>1, <4>2 DEF Sized
          <5>2. Cardinality(D[c]) \in Nat /\ Cardinality(D[m]) \in Nat
            BY <1>1, <3>1 DEF Sized, Joined
          <5> QED  BY <5>1, <5>2
        <4>4. Found(D, k, c, f[d][c])
          BY <1>6, <2>1, <4>3
        <4>5. D[m] = {m} \union D[c] \union D[rbt[Other(s)][m]]
          BY <3>1, <4>2 DEF Shape, Fork
        <4>6. \A a \in D[rbt[Other(s)][m]] : key[a] /= k
          BY <3>1, <4>1, OtherSide DEF Sorted
        <4>7. \A a \in D[m] : key[a] = k => a \in D[c]
          BY <3>4, <4>5, <4>6
        <4>8. f[d + 1][m] = f[d][c]
          BY <3>2, <3>4, <4>1, <4>2
        <4> QED  BY <4>4, <4>5, <4>7, <4>8 DEF Found
      <3> QED  BY <3>3, <3>4
    <2> QED  BY <2>2, <2>3
  <1>7. \A d \in Nat : d \in Right
    <2> HIDE DEF Right
    <2> QED  BY <1>5, <1>6, NatInSet
  <1> QED  BY <1>2, <1>3, <1>7 DEF Joined

LEMMA PlaceWalk ==
  ASSUME Walkable, NEW k
  PROVE  \E f : /\ InsertParent(k) = IF rbt.root = NIL THEN NIL ELSE f[Depth][rbt.root]
                /\ \A d \in 0 .. Depth, n \in Linked :
                     f[d][n] = IF Toward(k, n) = NIL \/ d = 0 THEN n ELSE f[d - 1][Toward(k, n)]
  <1> DEFINE from[d \in 0 .. Depth] == [n \in Linked |->
               LET m == IF key[n] > k THEN rbt.left[n] ELSE rbt.right[n]
               IN IF m = NIL \/ d = 0 THEN n ELSE from[d - 1][m]]
             W == [Linked -> Linked]
             w == [n \in Linked |-> n]
             G == [g \in W |-> [n \in Linked |-> IF Toward(k, n) = NIL THEN n ELSE g[Toward(k, n)]]]
  <1>1. InsertParent(k) = IF rbt.root = NIL THEN NIL ELSE from[Depth][rbt.root]
    BY DEF InsertParent
  <1>2. Depth \in Nat
    BY FS_CardinalityType DEF Walkable, Depth
  <1>3. \A n \in Linked : Toward(k, n) \in Linked \union {NIL}
    BY DEF Walkable, Toward, Sides, Joined
  <1>4. w \in W /\ G \in [W -> W]
    BY <1>3
  <1>5. PICK h \in [0 .. Depth -> W] : Iterates(h, Depth, w, G)
    <2> HIDE DEF W, w, G
    <2> QED  BY <1>2, <1>4, IteratesExist
  <1>6. ASSUME NEW d \in 0 .. Depth
        PROVE  h[d] = [n \in Linked |-> IF Toward(k, n) = NIL \/ d = 0 THEN n ELSE h[d - 1][Toward(k, n)]]
    <2>1. CASE d = 0
      BY <1>5, <2>1 DEF Iterates
    <2>2. CASE d /= 0
      <3>1. d \in 1 .. Depth /\ d - 1 \in 0 .. Depth
        BY <1>2, <2>2
      <3>2. h[d] = G[h[d - 1]] /\ h[d - 1] \in W
        BY <1>5, <3>1 DEF Iterates
      <3> QED  BY <2>2, <3>2
    <2> QED  BY <2>1, <2>2
  <1>7. h = [d \in 0 .. Depth |-> [n \in Linked |->
               LET m == IF key[n] > k THEN rbt.left[n] ELSE rbt.right[n]
               IN IF m = NIL \/ d = 0 THEN n ELSE h[d - 1][m]]]
    <2> HIDE DEF W, w, G
    <2> QED  BY <1>5, <1>6 DEF Toward
  <1>8. from = [d \in 0 .. Depth |-> [n \in Linked |->
               LET m == IF key[n] > k THEN rbt.left[n] ELSE rbt.right[n]
               IN IF m = NIL \/ d = 0 THEN n ELSE from[d - 1][m]]]
    <2> HIDE DEF W, w, G
    <2> QED  BY <1>7
  <1> HIDE DEF from
  <1>9. ASSUME NEW d \in 0 .. Depth, NEW n \in Linked
        PROVE  from[d][n] = IF Toward(k, n) = NIL \/ d = 0 THEN n ELSE from[d - 1][Toward(k, n)]
    <2>1. from[d] = [m \in Linked |-> IF Toward(k, m) = NIL \/ d = 0 THEN m ELSE from[d - 1][Toward(k, m)]]
      BY <1>8 DEF Toward
    <2> QED  BY <2>1
  <1> QED  BY <1>1, <1>9

(* A node of key k belongs below n, on the side of every node that n is.   *)
Fitting(D, k, n) == \A z \in Linked, s \in Sides : n \in D[rbt[s][z]] => Before(s, k, key[z])

LEMMA PlaceFacts ==
  ASSUME Linked \in SUBSET Nodes, NEW D, Shape(rbt, Linked, D),
         \A z \in Linked : key[z] \in Int, NEW k \in Int, rbt.root /= NIL
  PROVE  /\ InsertParent(k) \in Linked /\ Toward(k, InsertParent(k)) = NIL
         /\ Fitting(D, k, InsertParent(k))
  <1> USE RbtAssumption
  <1>1. Walkable /\ Sized(rbt, Linked, D)
    BY ShapeWalkable, ShapeSized
  <1>2. PICK f : /\ InsertParent(k) = f[Depth][rbt.root]
                 /\ \A d \in 0 .. Depth, n \in Linked :
                      f[d][n] = IF Toward(k, n) = NIL \/ d = 0 THEN n ELSE f[d - 1][Toward(k, n)]
    BY <1>1, PlaceWalk
  <1>3. /\ rbt.root \in Linked /\ Depth \in Nat
        /\ Cardinality(D[rbt.root]) \in Nat /\ Cardinality(D[rbt.root]) < Depth
    BY <1>1 DEF Sized, Shape
  <1>4. \A z \in Linked, b \in Linked : /\ z \in D[b] => D[z] \subseteq D[b] /\ (z /= b => rbt.parent[z] \in D[b])
                                        /\ z \in D[z]
    BY OtherSide DEF Shape, Nested, Fork, Sides
  <1>5. \A z \in Linked, s \in Sides : /\ rbt[s][z] \in Linked \union {NIL}
                                       /\ rbt[s][z] /= NIL => rbt.parent[rbt[s][z]] = z
    BY DEF Shape, Fork
  <1>6. D[NIL] = {} /\ NIL \notin Linked /\ rbt.parent[rbt.root] = NIL /\ D \in [Slots -> SUBSET Linked]
    BY <1>3 DEF Shape
  <1> DEFINE Good(m) == m \in Linked /\ Toward(k, m) = NIL /\ Fitting(D, k, m)
             Right == {d \in Nat : d <= Depth =>
                \A m \in Linked : Cardinality(D[m]) <= d /\ Fitting(D, k, m) => Good(f[d][m])}
  <1>7. 0 \in Right
    <2>1. \A m \in Linked : Cardinality(D[m]) \in Nat /\ Cardinality(D[m]) > 0
      BY <1>1 DEF Sized
    <2> QED  BY <2>1
  <1>8. ASSUME NEW d \in Nat, d \in Right PROVE d + 1 \in Right
    <2> SUFFICES ASSUME d + 1 <= Depth, NEW m \in Linked, Cardinality(D[m]) <= d + 1, Fitting(D, k, m)
                 PROVE  Good(f[d + 1][m])
      OBVIOUS
    <2>1. d + 1 \in 0 .. Depth /\ (d + 1) - 1 = d /\ d + 1 /= 0 /\ d <= Depth
      BY <1>3
    <2>2. f[d + 1][m] = IF Toward(k, m) = NIL THEN m ELSE f[d][Toward(k, m)]
      BY <1>2, <2>1
    <2>3. CASE Toward(k, m) = NIL
      BY <2>2, <2>3
    <2>4. CASE Toward(k, m) /= NIL
      <3>1. PICK e \in Sides : Toward(k, m) = rbt[e][m] /\ Before(e, k, key[m])
        BY DEF Toward, Before, Sides
      <3>2. PICK c \in Linked : c = rbt[e][m]
        BY <1>5, <2>4, <3>1
      <3>3. Cardinality(D[c]) <= d
        <4>1. Cardinality(D[c]) < Cardinality(D[m])
          BY <1>1, <3>2 DEF Sized
        <4>2. Cardinality(D[c]) \in Nat /\ Cardinality(D[m]) \in Nat
          BY <1>1 DEF Sized
        <4> QED  BY <4>1, <4>2
      <3>4. rbt.parent[c] = m
        BY <1>5, <1>6, <3>2
      <3>5. Fitting(D, k, c)
        <4> SUFFICES ASSUME NEW z \in Linked, NEW s \in Sides, c \in D[rbt[s][z]]
                     PROVE  Before(s, k, key[z])
          BY DEF Fitting
        <4>1. PICK b \in Linked : b = rbt[s][z]
          BY <1>5, <1>6
        <4>2. CASE c = b
          <5>1. z = m
            BY <1>5, <1>6, <3>4, <4>1, <4>2
          <5>2. s = e
            <6>1. Fork(rbt, Linked, D, m)
              BY DEF Shape
            <6>2. s = Other(e) => c \in D[rbt[e][m]] \intersect D[rbt[Other(e)][m]]
              BY <1>4, <3>2, <4>1, <4>2, <5>1
            <6> QED  BY <6>1, <6>2, OtherSide DEF Fork
          <5> QED  BY <3>1, <5>1, <5>2
        <4>3. CASE c /= b
          <5>1. m \in D[b]
            BY <1>4, <3>4, <4>1, <4>3
          <5> QED  BY <4>1, <5>1 DEF Fitting
        <4> QED  BY <4>2, <4>3
      <3> QED  BY <1>8, <2>1, <2>2, <2>4, <3>1, <3>2, <3>3, <3>5
    <2> QED  BY <2>3, <2>4
  <1>9. \A d \in Nat : d \in Right
    <2> HIDE DEF Right
    <2> QED  BY <1>7, <1>8, NatInSet
  <1>10. Fitting(D, k, rbt.root)
    <2> SUFFICES ASSUME NEW z \in Linked, NEW s \in Sides, rbt.root \in D[rbt[s][z]]
                 PROVE  FALSE
      BY DEF Fitting
    <2>1. PICK b \in Linked : b = rbt[s][z]
      BY <1>5, <1>6
    <2>2. b \in Slots /\ D[b] \subseteq Linked
      BY <1>6 DEF Slots
    <2> QED  BY <1>3, <1>4, <1>5, <1>6, <2>1, <2>2
  <1> QED  BY <1>2, <1>3, <1>9, <1>10
(* Two sequences with an element between them.                             *)
Joint(S, a, m, b, q) ==
  /\ q \in Seq(S) /\ Len(q) = Len(a) + 1 + Len(b)
  /\ \A i \in 1 .. Len(a) : q[i] = a[i]
  /\ q[Len(a) + 1] = m
  /\ \A i \in 1 .. Len(b) : q[Len(a) + 1 + i] = b[i]

LEMMA JointFacts ==
  ASSUME NEW S, NEW a \in Seq(S), NEW b \in Seq(S), NEW m \in S
  PROVE  Joint(S, a, m, b, a \o <<m>> \o b)
  <1>1. PICK k \in Nat, l \in Nat : k = Len(a) /\ l = Len(b)
    BY LenProperties
  <1>2. <<m>> \in Seq(S) /\ Len(<<m>>) = 1 /\ <<m>>[1] = m
    OBVIOUS
  <1>3. PICK c : c = a \o <<m>>
    OBVIOUS
  <1>4. c \in Seq(S) /\ Len(c) = k + 1
        /\ \A i \in 1 .. k + 1 : c[i] = IF i <= k THEN a[i] ELSE <<m>>[i - k]
    BY <1>1, <1>2, <1>3, ConcatProperties
  <1>5. c \o b \in Seq(S) /\ Len(c \o b) = (k + 1) + l
        /\ \A i \in 1 .. (k + 1) + l : (c \o b)[i] = IF i <= k + 1 THEN c[i] ELSE b[i - (k + 1)]
    <2>1. c \in Seq(S) /\ b \in Seq(S)
      BY <1>4
    <2>2. c \o b \in Seq(S) /\ Len(c \o b) = Len(c) + Len(b)
          /\ \A i \in 1 .. Len(c) + Len(b) : (c \o b)[i] = IF i <= Len(c) THEN c[i] ELSE b[i - Len(c)]
      BY <2>1, ConcatProperties
    <2>3. Len(c) = k + 1 /\ Len(b) = l
      BY <1>1, <1>4
    <2> QED  BY <2>2, <2>3
  <1>6. PICK q : q = c \o b
    OBVIOUS
  <1>7. \A i \in 1 .. k : q[i] = a[i]
    <2> SUFFICES ASSUME NEW i \in 1 .. k PROVE q[i] = a[i]
      OBVIOUS
    <2>1. i \in 1 .. (k + 1) + l /\ i <= k + 1 /\ i \in 1 .. k + 1 /\ i <= k
      BY <1>1
    <2> QED  BY <1>4, <1>5, <1>6, <2>1
  <1>8. q[k + 1] = m
    <2>1. k + 1 \in 1 .. (k + 1) + l /\ k + 1 \in 1 .. k + 1 /\ ~(k + 1 <= k) /\ (k + 1) - k = 1
      BY <1>1
    <2>2. q[k + 1] = c[k + 1]
      BY <1>5, <1>6, <2>1
    <2> QED  BY <1>2, <1>4, <2>1, <2>2
  <1>9. \A i \in 1 .. l : q[k + 1 + i] = b[i]
    <2> SUFFICES ASSUME NEW i \in 1 .. l PROVE q[(k + 1) + i] = b[i]
      BY <1>1
    <2>1. (k + 1) + i \in 1 .. (k + 1) + l /\ ~((k + 1) + i <= k + 1) /\ ((k + 1) + i) - (k + 1) = i
      BY <1>1
    <2> QED  BY <1>5, <1>6, <2>1
  <1> QED  BY <1>1, <1>3, <1>5, <1>6, <1>7, <1>8, <1>9 DEF Joint

LEMMA InorderWalk ==
  ASSUME Walkable
  PROVE  \E f : /\ \A n : Inorder(n) = f[Depth][n]
                /\ \A d \in 0 .. Depth, n \in Joined :
                     f[d][n] = IF n = NIL \/ d = 0 THEN <<>>
                               ELSE f[d - 1][rbt.left[n]] \o <<n>> \o f[d - 1][rbt.right[n]]
  <1> DEFINE of[d \in 0 .. Depth] == [m \in Linked \union {NIL} |->
               IF m = NIL \/ d = 0 THEN <<>>
               ELSE of[d - 1][rbt.left[m]] \o <<m>> \o of[d - 1][rbt.right[m]]]
             W == [Joined -> Seq(Linked)]
             w == [n \in Joined |-> <<>>]
             G == [g \in W |-> [n \in Joined |-> IF n = NIL THEN <<>>
                                  ELSE g[rbt.left[n]] \o <<n>> \o g[rbt.right[n]]]]
  <1>1. \A n : Inorder(n) = of[Depth][n]
    BY DEF Inorder
  <1>2. Depth \in Nat
    BY FS_CardinalityType DEF Walkable, Depth
  <1>3. w \in W /\ G \in [W -> W]
    <2>1. w \in W
      BY EmptySeq
    <2>2. ASSUME NEW g \in W, NEW n \in Joined
          PROVE  (IF n = NIL THEN <<>> ELSE g[rbt.left[n]] \o <<n>> \o g[rbt.right[n]]) \in Seq(Linked)
      <3>1. CASE n = NIL
        BY <3>1, EmptySeq
      <3>2. CASE n /= NIL
        <4>1. n \in Linked /\ rbt.left[n] \in Joined /\ rbt.right[n] \in Joined
          BY <3>2 DEF Walkable, Joined, Sides
        <4>2. g[rbt.left[n]] \in Seq(Linked) /\ g[rbt.right[n]] \in Seq(Linked)
          BY <4>1
        <4>3. Joint(Linked, g[rbt.left[n]], n, g[rbt.right[n]], g[rbt.left[n]] \o <<n>> \o g[rbt.right[n]])
          BY <4>1, <4>2, JointFacts
        <4> QED  BY <3>2, <4>3 DEF Joint
      <3> QED  BY <3>1, <3>2
    <2> QED  BY <2>1, <2>2
  <1>4. PICK h \in [0 .. Depth -> W] : Iterates(h, Depth, w, G)
    <2> HIDE DEF W, w, G
    <2> QED  BY <1>2, <1>3, IteratesExist
  <1>5. ASSUME NEW d \in 0 .. Depth
        PROVE  h[d] = [n \in Joined |-> IF n = NIL \/ d = 0 THEN <<>>
                         ELSE h[d - 1][rbt.left[n]] \o <<n>> \o h[d - 1][rbt.right[n]]]
    <2>1. CASE d = 0
      BY <1>4, <2>1 DEF Iterates
    <2>2. CASE d /= 0
      <3>1. d \in 1 .. Depth /\ d - 1 \in 0 .. Depth
        BY <1>2, <2>2
      <3>2. h[d] = G[h[d - 1]] /\ h[d - 1] \in W
        BY <1>4, <3>1 DEF Iterates
      <3> QED  BY <2>2, <3>2
    <2> QED  BY <2>1, <2>2
  <1>6. h = [d \in 0 .. Depth |-> [m \in Linked \union {NIL} |->
               IF m = NIL \/ d = 0 THEN <<>>
               ELSE h[d - 1][rbt.left[m]] \o <<m>> \o h[d - 1][rbt.right[m]]]]
    <2> HIDE DEF W, w, G
    <2> QED  BY <1>4, <1>5 DEF Joined
  <1>7. of = [d \in 0 .. Depth |-> [m \in Linked \union {NIL} |->
                IF m = NIL \/ d = 0 THEN <<>>
                ELSE of[d - 1][rbt.left[m]] \o <<m>> \o of[d - 1][rbt.right[m]]]]
    <2> HIDE DEF W, w, G
    <2> QED  BY <1>6
  <1> HIDE DEF of
  <1>8. ASSUME NEW d \in 0 .. Depth
        PROVE  of[d] = [m \in Joined |-> IF m = NIL \/ d = 0 THEN <<>>
                          ELSE of[d - 1][rbt.left[m]] \o <<m>> \o of[d - 1][rbt.right[m]]]
    BY <1>7 DEF Joined
  <1>9. ASSUME NEW d \in 0 .. Depth, NEW n \in Joined
        PROVE  of[d][n] = IF n = NIL \/ d = 0 THEN <<>>
                          ELSE of[d - 1][rbt.left[n]] \o <<n>> \o of[d - 1][rbt.right[n]]
    <2>1. of[d] = [m \in Joined |-> IF m = NIL \/ d = 0 THEN <<>>
                     ELSE of[d - 1][rbt.left[m]] \o <<m>> \o of[d - 1][rbt.right[m]]]
      BY <1>8
    <2> QED  BY <2>1
  <1> QED  BY <1>1, <1>9

(* The nodes of M, each once, in the order of their keys.                  *)
Listed(M, q) ==
  /\ q \in Seq(Linked) /\ Len(q) = Cardinality(M)
  /\ \A i \in 1 .. Len(q) : q[i] \in M
  /\ \A a \in M : \E i \in 1 .. Len(q) : q[i] = a
  /\ \A i, j \in 1 .. Len(q) : i < j => key[q[i]] <= key[q[j]]

LEMMA JointListed ==
  ASSUME NEW A \in SUBSET Linked, NEW B \in SUBSET Linked, NEW m \in Linked,
         \A z \in Linked : key[z] \in Int,
         \A z \in A : key[z] <= key[m], \A z \in B : key[m] <= key[z],
         NEW a, NEW b, Listed(A, a), Listed(B, b),
         NEW M, M = {m} \union A \union B,
         Cardinality(A) \in Nat, Cardinality(B) \in Nat,
         Cardinality(M) = 1 + Cardinality(A) + Cardinality(B)
  PROVE  Listed(M, a \o <<m>> \o b)
  <1>1. PICK q : q = a \o <<m>> \o b
    OBVIOUS
  <1>2. PICK k \in Nat, l \in Nat : k = Cardinality(A) /\ l = Cardinality(B)
    OBVIOUS
  <1>3. Len(a) = k /\ Len(b) = l /\ a \in Seq(Linked) /\ b \in Seq(Linked)
    BY <1>2 DEF Listed
  <1>4. Joint(Linked, a, m, b, q)
    BY <1>1, <1>3, JointFacts
  <1>5. /\ q \in Seq(Linked) /\ Len(q) = k + 1 + l
        /\ \A i \in 1 .. k : q[i] = a[i]
        /\ q[k + 1] = m
        /\ \A i \in 1 .. l : q[k + 1 + i] = b[i]
    BY <1>3, <1>4 DEF Joint
  <1>6. /\ \A i \in 1 .. k : a[i] \in A
        /\ \A z \in A : \E i \in 1 .. k : a[i] = z
        /\ \A i, j \in 1 .. k : i < j => key[a[i]] <= key[a[j]]
    BY <1>3 DEF Listed
  <1>7. /\ \A i \in 1 .. l : b[i] \in B
        /\ \A z \in B : \E i \in 1 .. l : b[i] = z
        /\ \A i, j \in 1 .. l : i < j => key[b[i]] <= key[b[j]]
    BY <1>3 DEF Listed
  <1>8. \A i \in 1 .. k + 1 + l : i \in 1 .. k \/ i = k + 1 \/ \E j \in 1 .. l : i = k + 1 + j
    <2> SUFFICES ASSUME NEW i \in 1 .. k + 1 + l, ~(i \in 1 .. k), i /= k + 1
                 PROVE  \E j \in 1 .. l : i = k + 1 + j
      OBVIOUS
    <2>1. i - (k + 1) \in 1 .. l /\ i = k + 1 + (i - (k + 1))
      BY <1>2
    <2> QED  BY <2>1
  <1>9. /\ \A i \in 1 .. k : q[i] \in A
        /\ q[k + 1] = m
        /\ \A j \in 1 .. l : q[k + 1 + j] \in B
    BY <1>5, <1>6, <1>7
  <1>10. \A i \in 1 .. k + 1 + l : q[i] \in M
    BY <1>8, <1>9
  <1>11. \A z \in M : \E i \in 1 .. k + 1 + l : q[i] = z
    <2>1. ASSUME NEW z \in A PROVE \E i \in 1 .. k + 1 + l : q[i] = z
      <3>1. PICK i \in 1 .. k : a[i] = z
        BY <1>6
      <3>2. i \in 1 .. k + 1 + l
        BY <1>2
      <3> QED  BY <1>5, <3>1, <3>2
    <2>2. ASSUME NEW z \in B PROVE \E i \in 1 .. k + 1 + l : q[i] = z
      <3>1. PICK i \in 1 .. l : b[i] = z
        BY <1>7
      <3>2. k + 1 + i \in 1 .. k + 1 + l
        BY <1>2
      <3> QED  BY <1>5, <3>1, <3>2
    <2>3. \E i \in 1 .. k + 1 + l : q[i] = m
      <3>1. k + 1 \in 1 .. k + 1 + l
        BY <1>2
      <3> QED  BY <1>5, <3>1
    <2> QED  BY <2>1, <2>2, <2>3
  <1>12. ASSUME NEW i \in 1 .. k + 1 + l, NEW j \in 1 .. k + 1 + l, i < j
         PROVE  key[q[i]] <= key[q[j]]
    <2>0. \A z \in A \union B \union {m} : key[z] \in Int
      OBVIOUS
    <2>1. CASE i \in 1 .. k /\ j \in 1 .. k
      BY <1>5, <1>6, <1>12, <2>1
    <2>2. CASE i \in 1 .. k /\ j = k + 1
      BY <1>9, <2>2
    <2>3. CASE i \in 1 .. k /\ \E h \in 1 .. l : j = k + 1 + h
      <3>1. q[i] \in A /\ q[j] \in B
        BY <1>9, <2>3
      <3>2. key[q[i]] <= key[m] /\ key[m] <= key[q[j]] /\ key[q[i]] \in Int /\ key[q[j]] \in Int /\ key[m] \in Int
        BY <2>0, <3>1
      <3> QED  BY <3>2
    <2>4. CASE i = k + 1 /\ \E h \in 1 .. l : j = k + 1 + h
      BY <1>9, <2>4
    <2>5. CASE (\E h \in 1 .. l : i = k + 1 + h) /\ \E h \in 1 .. l : j = k + 1 + h
      <3>1. PICK h \in 1 .. l : i = k + 1 + h
        BY <2>5
      <3>2. PICK g \in 1 .. l : j = k + 1 + g
        BY <2>5
      <3>3. h < g
        BY <1>2, <1>12, <3>1, <3>2
      <3> QED  BY <1>5, <1>7, <3>1, <3>2, <3>3
    <2>6. CASE j = k + 1 /\ ~(i \in 1 .. k)
      BY <1>2, <1>12, <2>6
    <2>7. CASE j \in 1 .. k /\ ~(i \in 1 .. k)
      BY <1>2, <1>12, <2>7
    <2> QED  BY <1>8, <2>1, <2>2, <2>3, <2>4, <2>5, <2>6, <2>7
  <1>13. Len(q) = Cardinality(M)
    BY <1>2, <1>5
  <1> QED  BY <1>1, <1>5, <1>10, <1>11, <1>12, <1>13 DEF Listed

LEMMA InorderFacts ==
  ASSUME Linked \in SUBSET Nodes, NEW D, Shape(rbt, Linked, D), Sorted(rbt, Linked, D, key),
         \A z \in Linked : key[z] \in Int
  PROVE  Listed(Linked, Inorder(rbt.root))
  <1> USE RbtAssumption
  <1>1. Walkable /\ Sized(rbt, Linked, D)
    BY ShapeWalkable, ShapeSized
  <1>2. PICK f : /\ \A n : Inorder(n) = f[Depth][n]
                 /\ \A d \in 0 .. Depth, n \in Joined :
                      f[d][n] = IF n = NIL \/ d = 0 THEN <<>>
                                ELSE f[d - 1][rbt.left[n]] \o <<n>> \o f[d - 1][rbt.right[n]]
    BY <1>1, InorderWalk
  <1>3. /\ rbt.root \in Joined /\ Depth \in Nat /\ D[rbt.root] = Linked
        /\ Cardinality(D[rbt.root]) \in Nat /\ Cardinality(D[rbt.root]) < Depth
    BY <1>1 DEF Sized, Shape, Joined
  <1> DEFINE Right == {d \in Nat : d <= Depth =>
                \A m \in Joined : Cardinality(D[m]) <= d => Listed(D[m], f[d][m])}
  <1>4. \A d \in 0 .. Depth : Listed(D[NIL], f[d][NIL])
    <2>1. D[NIL] = {} /\ Cardinality(D[NIL]) = 0
      BY <1>1 DEF Shape, Sized
    <2>2. \A d \in 0 .. Depth : f[d][NIL] = <<>>
      BY <1>2 DEF Joined
    <2>3. PICK e : e = <<>> /\ e \in Seq(Linked) /\ Len(e) = 0
      BY EmptySeq
    <2>4. Listed(D[NIL], e)
      BY <2>1, <2>3 DEF Listed
    <2> QED  BY <2>2, <2>3, <2>4
  <1>5. 0 \in Right
    <2>1. \A m \in Linked : Cardinality(D[m]) \in Nat /\ Cardinality(D[m]) > 0
      BY <1>1 DEF Sized
    <2>2. 0 \in 0 .. Depth
      BY <1>3
    <2> QED  BY <1>4, <2>1, <2>2 DEF Joined
  <1>6. ASSUME NEW d \in Nat, d \in Right PROVE d + 1 \in Right
    <2> SUFFICES ASSUME d + 1 <= Depth, NEW m \in Joined, Cardinality(D[m]) <= d + 1
                 PROVE  Listed(D[m], f[d + 1][m])
      OBVIOUS
    <2>1. d + 1 \in 0 .. Depth /\ (d + 1) - 1 = d /\ d + 1 /= 0 /\ d <= Depth
      BY <1>3
    <2>2. CASE m = NIL
      BY <1>4, <2>1, <2>2
    <2>3. CASE m /= NIL
      <3>1. PICK a, b : a = rbt.left[m] /\ b = rbt.right[m]
        OBVIOUS
      <3>2. /\ m \in Linked /\ a \in Joined /\ b \in Joined
            /\ D[m] = {m} \union D[a] \union D[b]
        <4>1. m \in Linked /\ "left" \in Sides /\ Other("left") = "right" /\ "right" \in Sides
          BY <2>3 DEF Joined, Sides, Other
        <4> QED  BY <3>1, <4>1 DEF Shape, Fork, Joined
      <3>3. /\ Cardinality(D[m]) = 1 + Cardinality(D[a]) + Cardinality(D[b])
            /\ Cardinality(D[a]) \in Nat /\ Cardinality(D[b]) \in Nat
        <4>1. "left" \in Sides /\ Other("left") = "right"
          BY DEF Sides, Other
        <4> QED  BY <1>1, <3>1, <3>2, <4>1 DEF Sized, Joined
      <3>4. Cardinality(D[a]) <= d /\ Cardinality(D[b]) <= d
        BY <3>3
      <3>5. Listed(D[a], f[d][a]) /\ Listed(D[b], f[d][b])
        BY <1>6, <2>1, <3>2, <3>4
      <3>6. (\A z \in D[a] : key[z] <= key[m]) /\ (\A z \in D[b] : key[m] <= key[z])
        <4>1. \A s \in Sides : \A z \in D[rbt[s][m]] : Before(s, key[z], key[m])
          BY <3>2 DEF Sorted
        <4> QED  BY <3>1, <4>1 DEF Sides, Before
      <3>7. D[a] \in SUBSET Linked /\ D[b] \in SUBSET Linked
        BY <3>2 DEF Shape, Joined, Slots
      <3>8. f[d + 1][m] = f[d][a] \o <<m>> \o f[d][b]
        BY <1>2, <2>1, <2>3, <3>1
      <3>9. Listed(D[m], f[d][a] \o <<m>> \o f[d][b])
        BY <3>2, <3>3, <3>5, <3>6, <3>7, JointListed
      <3> QED  BY <3>8, <3>9
    <2> QED  BY <2>2, <2>3
  <1>7. \A d \in Nat : d \in Right
    <2> HIDE DEF Right
    <2> QED  BY <1>5, <1>6, NatInSet
  <1> QED  BY <1>2, <1>3, <1>7
(* The node that smp_delete_fixup has in charge.                           *)
Charge == IF pc = "delete" THEN nd ELSE NULL

(* The weights of the paths down from m, g being those of its children.    *)
Paths(g, m) == UNION {{w + Weight(c, m) : w \in g[c]} : c \in {rbt.left[m], rbt.right[m]}}

LEMMA WeightsWalk ==
  ASSUME Walkable
  PROVE  \E f : /\ \A n : Weights(n) = f[Depth][n]
                /\ \A d \in 0 .. Depth, m \in Joined :
                     f[d][m] = IF m = NIL \/ d = 0 THEN {0}
                               ELSE Paths(f[d - 1], m)
  <1> DEFINE of[d \in 0 .. Depth] == [m \in Linked \union {NIL} |->
               IF m = NIL \/ d = 0 THEN {0}
               ELSE Paths(of[d - 1], m)]
             W == [Joined -> SUBSET Int]
             v == [n \in Joined |-> {0}]
             G == [g \in W |-> [m \in Joined |-> IF m = NIL THEN {0}
                    ELSE Paths(g, m)]]
  <1>1. \A n : Weights(n) = of[Depth][n]
    BY DEF Weights, Paths
  <1>2. Depth \in Nat
    BY FS_CardinalityType DEF Walkable, Depth
  <1>3. v \in W /\ G \in [W -> W]
    <2>1. v \in W
      OBVIOUS
    <2>2. \A c, m : Weight(c, m) \in Int
      BY DEF Weight
    <2>3. ASSUME NEW g \in W, NEW m \in Joined
          PROVE  (IF m = NIL THEN {0} ELSE Paths(g, m))
                 \in SUBSET Int
      <3>1. \A c \in {rbt.left[m], rbt.right[m]} : g[c] \in SUBSET Int
        BY DEF Walkable, Sides
      <3>2. \A c \in {rbt.left[m], rbt.right[m]} : {w + Weight(c, m) : w \in g[c]} \in SUBSET Int
        BY <2>2, <3>1
      <3> QED  BY <3>2 DEF Paths
    <2> QED  BY <2>1, <2>3
  <1>4. PICK h \in [0 .. Depth -> W] : Iterates(h, Depth, v, G)
    <2> HIDE DEF W, v, G
    <2> QED  BY <1>2, <1>3, IteratesExist
  <1>5. ASSUME NEW d \in 0 .. Depth
        PROVE  h[d] = [m \in Joined |-> IF m = NIL \/ d = 0 THEN {0}
                         ELSE Paths(h[d - 1], m)]
    <2>1. CASE d = 0
      BY <1>4, <2>1 DEF Iterates
    <2>2. CASE d /= 0
      <3>1. d \in 1 .. Depth /\ d - 1 \in 0 .. Depth
        BY <1>2, <2>2
      <3>2. h[d] = G[h[d - 1]] /\ h[d - 1] \in W
        BY <1>4, <3>1 DEF Iterates
      <3> QED  BY <2>2, <3>2
    <2> QED  BY <2>1, <2>2
  <1>6. h = [d \in 0 .. Depth |-> [m \in Linked \union {NIL} |->
               IF m = NIL \/ d = 0 THEN {0}
               ELSE Paths(h[d - 1], m)]]
    <2> HIDE DEF W, v, G
    <2> QED  BY <1>4, <1>5 DEF Joined
  <1>7. of = [d \in 0 .. Depth |-> [m \in Linked \union {NIL} |->
                IF m = NIL \/ d = 0 THEN {0}
                ELSE Paths(of[d - 1], m)]]
    <2> HIDE DEF W, v, G
    <2> QED  BY <1>6
  <1> HIDE DEF of
  <1>8. ASSUME NEW d \in 0 .. Depth
        PROVE  of[d] = [m \in Joined |-> IF m = NIL \/ d = 0 THEN {0}
                          ELSE Paths(of[d - 1], m)]
    BY <1>7 DEF Joined
  <1>9. ASSUME NEW d \in 0 .. Depth, NEW m \in Joined
        PROVE  of[d][m] = IF m = NIL \/ d = 0 THEN {0}
                          ELSE Paths(of[d - 1], m)
    <2>1. of[d] = [n \in Joined |-> IF n = NIL \/ d = 0 THEN {0}
                     ELSE Paths(of[d - 1], n)]
      BY <1>8
    <2> QED  BY <2>1
  <1> QED  BY <1>1, <1>9

LEMMA WeightsFacts ==
  ASSUME Linked \in SUBSET Nodes, NEW D, Shape(rbt, Linked, D),
         NEW bh, Level(rbt, Linked, Charge, bh)
  PROVE  Weights(rbt.root) = {bh[rbt.root]}
  <1> USE RbtAssumption
  <1>1. Walkable /\ Sized(rbt, Linked, D)
    BY ShapeWalkable, ShapeSized
  <1>2. PICK f : /\ \A n : Weights(n) = f[Depth][n]
                 /\ \A d \in 0 .. Depth, m \in Joined :
                      f[d][m] = IF m = NIL \/ d = 0 THEN {0}
                                ELSE Paths(f[d - 1], m)
    BY <1>1, WeightsWalk
  <1>3. /\ rbt.root \in Joined /\ Depth \in Nat
        /\ Cardinality(D[rbt.root]) \in Nat /\ Cardinality(D[rbt.root]) < Depth
    BY <1>1 DEF Sized, Shape, Joined
  <1> DEFINE Right == {d \in Nat : d <= Depth =>
                \A m \in Joined : Cardinality(D[m]) <= d => f[d][m] = {bh[m]}}
  <1>4. \A d \in 0 .. Depth : f[d][NIL] = {bh[NIL]}
    BY <1>2 DEF Joined, Level
  <1>5. 0 \in Right
    <2>1. \A m \in Linked : Cardinality(D[m]) \in Nat /\ Cardinality(D[m]) > 0
      BY <1>1 DEF Sized
    <2>2. 0 \in 0 .. Depth
      BY <1>3
    <2> QED  BY <1>4, <2>1, <2>2 DEF Joined
  <1>6. ASSUME NEW d \in Nat, d \in Right PROVE d + 1 \in Right
    <2> SUFFICES ASSUME d + 1 <= Depth, NEW m \in Joined, Cardinality(D[m]) <= d + 1
                 PROVE  f[d + 1][m] = {bh[m]}
      OBVIOUS
    <2>1. d + 1 \in 0 .. Depth /\ (d + 1) - 1 = d /\ d + 1 /= 0 /\ d <= Depth
      BY <1>3
    <2>2. CASE m = NIL
      BY <1>4, <2>1, <2>2
    <2>3. CASE m /= NIL
      <3>1. m \in Linked
        BY <2>3 DEF Joined
      <3>2. ASSUME NEW c \in {rbt.left[m], rbt.right[m]}
            PROVE  {w + Weight(c, m) : w \in f[d][c]} = {bh[m]}
        <4>1. PICK s \in Sides : c = rbt[s][m]
          BY DEF Sides
        <4>2. c \in Joined
          BY <1>1, <3>1, <4>1 DEF Walkable, Joined
        <4>3. Cardinality(D[c]) <= d
          <5>1. Cardinality(D[c]) < Cardinality(D[m])
            BY <1>1, <3>1, <4>1 DEF Sized
          <5>2. Cardinality(D[c]) \in Nat /\ Cardinality(D[m]) \in Nat
            BY <1>1, <3>1, <4>2 DEF Sized, Joined
          <5> QED  BY <5>1, <5>2
        <4>4. f[d][c] = {bh[c]}
          BY <1>6, <2>1, <4>2, <4>3
        <4>5. Weight(c, m) = Heft(rbt, Charge, c, m)
          <5>1. c /= NULL
            BY <4>2 DEF Joined
          <5> QED  BY <5>1 DEF Weight, Heft, Charge
        <4>6. bh[m] = bh[c] + Heft(rbt, Charge, c, m)
          BY <3>1, <4>1 DEF Level
        <4> QED  BY <4>4, <4>5, <4>6
      <3>3. f[d + 1][m] = Paths(f[d], m)
        BY <1>2, <2>1, <2>3
      <3> QED  BY <3>2, <3>3 DEF Paths
    <2> QED  BY <2>2, <2>3
  <1>7. \A d \in Nat : d \in Right
    <2> HIDE DEF Right
    <2> QED  BY <1>5, <1>6, NatInSet
  <1> QED  BY <1>2, <1>3, <1>7
(***************************************************************************)
(* A node put in, and a node taken out.                                    *)
(***************************************************************************)

(* r is t with the red leaf n below p on the side s, or as its only node.  *)
Grown(t, r, L, n, p, s) ==
  /\ r.root = IF p = NIL THEN n ELSE t.root
  /\ r.parent[n] = p /\ \A z \in Slots \ {n} : r.parent[z] = t.parent[z]
  /\ r.color[n] = RED /\ \A z \in Slots \ {n} : r.color[z] = t.color[z]
  /\ \A e \in Sides : r[e][n] = NIL
  /\ \A z \in L \union {NIL}, e \in Sides :
       r[e][z] = IF z = p /\ p /= NIL /\ e = s THEN n ELSE t[e][z]

(* There is a place for n below p on the side s.                           *)
Vacant(t, L, D, k, n, p, s) ==
  /\ n \in Nodes \ L /\ s \in Sides
  /\ IF p = NIL THEN t.root = NIL
     ELSE /\ p \in L /\ t[s][p] = NIL /\ Before(s, k[n], k[p])
          /\ \A z \in L, e \in Sides : p \in D[t[e][z]] => Before(e, k[n], k[z])

LEMMA GrownShape ==
  ASSUME NEW L \in SUBSET Nodes, NEW t, NEW D, Shape(t, L, D),
         NEW k, NEW n, NEW p, NEW s, Vacant(t, L, D, k, n, p, s),
         NEW r, Grown(t, r, L, n, p, s),
         NEW E, E = [x \in Slots |-> IF x = n THEN {n} ELSE IF p \in D[x] THEN D[x] \union {n} ELSE D[x]]
  PROVE  Shape(r, L \union {n}, E)
  <1> USE RbtAssumption
  <1>1. /\ D \in [Slots -> SUBSET L] /\ t.root \in L \union {NIL} /\ D[t.root] = L /\ D[NIL] = {}
        /\ t.root /= NIL => t.parent[t.root] = NIL
        /\ \A e \in Sides : t[e][NIL] = NIL
        /\ t.color[NIL] = BLACK
        /\ \A z \in L : Fork(t, L, D, z) /\ Hung(t, L, z) /\ Nested(t, D, z)
    BY DEF Shape
  <1>2. /\ n \in Nodes /\ n \notin L /\ n /= NIL /\ NIL \notin L /\ n \in Slots /\ NIL \in Slots /\ L \subseteq Slots
        /\ s \in Sides /\ Other(s) \in Sides /\ Other(Other(s)) = s /\ Other(s) /= s
        /\ \A e \in Sides : e = s \/ e = Other(s)
    BY OtherSide DEF Vacant, Slots
  <1>3. /\ p = NIL => L = {}
        /\ p /= NIL => p \in L /\ t[s][p] = NIL /\ p /= n
    BY <1>1, <1>2 DEF Vacant
  <1>4. /\ r.root = IF p = NIL THEN n ELSE t.root
        /\ r.parent[n] = p /\ \A z \in Slots \ {n} : r.parent[z] = t.parent[z]
        /\ \A z \in Slots \ {n} : r.color[z] = t.color[z]
        /\ \A e \in Sides : r[e][n] = NIL
        /\ \A z \in L \union {NIL}, e \in Sides :
             r[e][z] = IF z = p /\ p /= NIL /\ e = s THEN n ELSE t[e][z]
    BY DEF Grown
  <1>5. /\ E[n] = {n} /\ E[NIL] = {}
        /\ \A x \in L : E[x] = IF p \in D[x] THEN D[x] \union {n} ELSE D[x]
        /\ \A x \in L \union {NIL} : E[x] = IF p \in D[x] THEN D[x] \union {n} ELSE D[x]
    BY <1>1, <1>2
  <1>6. E \in [Slots -> SUBSET (L \union {n})]
    BY <1>1
  <1>7. \A x \in L : D[x] \subseteq L /\ x \in D[x] /\ n \notin D[x]
    BY <1>1, <1>2 DEF Fork
  <1>8. r.root \in (L \union {n}) \union {NIL} /\ E[r.root] = L \union {n}
    <2>1. CASE p = NIL
      BY <1>3, <1>4, <1>5, <2>1
    <2>2. CASE p /= NIL
      <3>1. t.root \in L
        BY <1>1, <1>2, <1>3, <2>2
      <3> QED  BY <1>1, <1>3, <1>4, <1>5, <2>2, <3>1
    <2> QED  BY <2>1, <2>2
  <1>9. r.root /= NIL => r.parent[r.root] = NIL
    <2>1. CASE p = NIL
      BY <1>4, <2>1
    <2>2. CASE p /= NIL
      BY <1>1, <1>2, <1>3, <1>4, <2>2
    <2> QED  BY <2>1, <2>2
  <1>10. (\A e \in Sides : r[e][NIL] = NIL) /\ r.color[NIL] = BLACK
    BY <1>1, <1>2, <1>4
  <1>11. ASSUME NEW z \in L \union {n} PROVE Fork(r, L \union {n}, E, z)
    <2>1. CASE z = n
      BY <1>2, <1>4, <1>5, <2>1, OtherSide DEF Fork
    <2>2. CASE z = p
      <3>1. p \in L /\ p /= NIL /\ z \in L
        BY <1>2, <1>3, <1>11, <2>2
      <3>2. PICK o : o = t[Other(s)][p]
        OBVIOUS
      <3>3. /\ o \in L \union {NIL} /\ (o /= NIL => t.parent[o] = p)
            /\ D[p] = {p} \union D[NIL] \union D[o] /\ p \notin D[o]
        BY <1>1, <1>2, <1>3, <3>1, <3>2 DEF Fork
      <3>4. E[p] = {p} \union {n} \union D[o] /\ E[o] = D[o] /\ n \notin D[o]
        BY <1>1, <1>2, <1>5, <1>7, <3>1, <3>3
      <3>5. r[s][p] = n /\ r[Other(s)][p] = o
        BY <1>2, <1>4, <3>1, <3>2
      <3>6. r.parent[n] = p /\ (o /= NIL => r.parent[o] = p)
        BY <1>2, <1>4, <3>3
      <3> SUFFICES ASSUME NEW e \in Sides
                   PROVE  /\ r[e][p] \in (L \union {n}) \union {NIL}
                          /\ r[e][p] /= NIL => r.parent[r[e][p]] = p
                          /\ E[p] = {p} \union E[r[e][p]] \union E[r[Other(e)][p]]
                          /\ p \notin E[r[e][p]]
                          /\ E[r[e][p]] \intersect E[r[Other(e)][p]] = {}
        BY <2>2 DEF Fork
      <3>7. CASE e = s
        <4>1. r[e][p] = n /\ r[Other(e)][p] = o /\ E[n] = {n} /\ p /= n
          BY <1>3, <1>5, <3>1, <3>5, <3>7
        <4>2. E[r[e][p]] = {n} /\ E[r[Other(e)][p]] = D[o]
          BY <3>4, <4>1
        <4>3. r[e][p] \in (L \union {n}) \union {NIL} /\ (r[e][p] /= NIL => r.parent[r[e][p]] = p)
          BY <3>6, <4>1
        <4>4. E[p] = {p} \union {n} \union D[o] /\ p \notin {n} /\ {n} \intersect D[o] = {}
          BY <3>4, <4>1
        <4> QED  BY <4>2, <4>3, <4>4
      <3>8. CASE e = Other(s)
        BY <1>2, <1>3, <1>5, <3>3, <3>4, <3>5, <3>6, <3>8
      <3> QED  BY <1>2, <3>7, <3>8
    <2>3. CASE z \notin {n, p}
      <3>1. z \in L
        BY <2>3
      <3> SUFFICES ASSUME NEW e \in Sides
                   PROVE  /\ r[e][z] \in (L \union {n}) \union {NIL}
                          /\ r[e][z] /= NIL => r.parent[r[e][z]] = z
                          /\ E[z] = {z} \union E[r[e][z]] \union E[r[Other(e)][z]]
                          /\ z \notin E[r[e][z]]
                          /\ E[r[e][z]] \intersect E[r[Other(e)][z]] = {}
        BY DEF Fork
      <3>2. PICK a, b : a = t[e][z] /\ b = t[Other(e)][z]
        OBVIOUS
      <3>3. /\ a \in L \union {NIL} /\ b \in L \union {NIL} /\ (a /= NIL => t.parent[a] = z)
            /\ D[z] = {z} \union D[a] \union D[b] /\ z \notin D[a] /\ D[a] \intersect D[b] = {}
        BY <1>1, <3>1, <3>2, OtherSide DEF Fork
      <3>4. r[e][z] = a /\ r[Other(e)][z] = b
        BY <1>4, <2>3, <3>1, <3>2, OtherSide
      <3>5. n \notin D[a] /\ n \notin D[b]
        BY <1>1, <1>7, <3>3
      <3>6. a /= NIL => r.parent[a] = z
        BY <1>2, <1>4, <3>3
      <3>7. \A x \in {z, a, b} : E[x] = IF p \in D[x] THEN D[x] \union {n} ELSE D[x]
        BY <1>5, <3>1, <3>3
      <3>8. E[z] = {z} \union E[a] \union E[b] /\ z \notin E[a] /\ E[a] \intersect E[b] = {}
        <4>1. p \in D[z] <=> p \in D[a] \/ p \in D[b]
          BY <2>3, <3>3
        <4>2. ~(p \in D[a] /\ p \in D[b])
          BY <3>3
        <4>3. PICK N : N = IF p \in D[a] THEN {n} ELSE {}
          OBVIOUS
        <4>4. PICK M : M = IF p \in D[b] THEN {n} ELSE {}
          OBVIOUS
        <4>5. E[a] = D[a] \union N /\ E[b] = D[b] \union M /\ E[z] = D[z] \union N \union M
          BY <3>7, <4>1, <4>2, <4>3, <4>4
        <4>6. z \notin N /\ z \notin M /\ N \intersect D[b] = {} /\ M \intersect D[a] = {} /\ N \intersect M = {}
          BY <2>3, <3>5, <4>2, <4>3, <4>4
        <4> QED  BY <3>3, <4>5, <4>6
      <3> QED  BY <3>3, <3>4, <3>6, <3>8
    <2> QED  BY <2>1, <2>2, <2>3
  <1>12. ASSUME NEW z \in L \union {n} PROVE Hung(r, L \union {n}, z)
    <2> SUFFICES ASSUME z /= r.root
                 PROVE  r.parent[z] \in L \union {n} /\ \E e \in Sides : r[e][r.parent[z]] = z
      BY DEF Hung
    <2>1. p /= NIL
      BY <1>3, <1>4
    <2>2. CASE z = n
      BY <1>2, <1>3, <1>4, <2>1, <2>2
    <2>3. CASE z /= n
      <3>1. z \in L /\ z /= t.root
        BY <1>4, <2>1, <2>3
      <3>2. t.parent[z] \in L /\ \E e \in Sides : t[e][t.parent[z]] = z
        BY <1>1, <3>1 DEF Hung
      <3> QED  BY <1>2, <1>3, <1>4, <2>3, <3>1, <3>2
    <2> QED  BY <2>2, <2>3
  <1>13. ASSUME NEW z \in L \union {n} PROVE Nested(r, E, z)
    <2> SUFFICES ASSUME NEW a \in E[z]
                 PROVE  E[a] \subseteq E[z] /\ (a /= z => r.parent[a] \in E[z])
      BY DEF Nested
    <2>1. CASE z = n
      BY <1>5, <2>1
    <2>2. CASE z /= n /\ a = n
      <3>1. z \in L /\ p \in D[z]
        BY <1>5, <1>7, <2>2
      <3>2. E[z] = D[z] \union {n} /\ E[a] = {n} /\ r.parent[a] = p
        BY <1>4, <1>5, <2>2, <3>1
      <3> QED  BY <3>1, <3>2
    <2>3. CASE z /= n /\ a /= n
      <3>0. z \in L /\ E[z] = IF p \in D[z] THEN D[z] \union {n} ELSE D[z]
        BY <1>5, <2>3
      <3>1. z \in L /\ a \in D[z] /\ a \in L
        BY <1>7, <2>3, <3>0
      <3>2. D[a] \subseteq D[z] /\ (a /= z => t.parent[a] \in D[z])
        BY <1>1, <3>1 DEF Nested
      <3> QED  BY <1>2, <1>4, <1>5, <2>3, <3>1, <3>2
    <2> QED  BY <2>1, <2>2, <2>3
  <1> QED  BY <1>6, <1>8, <1>5, <1>9, <1>10, <1>11, <1>12, <1>13 DEF Shape

LEMMA GrownSound ==
  ASSUME NEW L \in SUBSET Nodes, NEW t, NEW D, NEW k, NEW bh, Sound(t, L, k, D, bh, NULL, NULL),
         NEW n, NEW p, NEW s, Vacant(t, L, D, k, n, p, s),
         NEW r, Grown(t, r, L, n, p, s)
  PROVE  \E E, h : Sound(r, L \union {n}, k, E, h, NULL, n)
  <1> USE RbtAssumption
  <1>0. Shape(t, L, D) /\ Sorted(t, L, D, k) /\ Level(t, L, NULL, bh) /\ Apart(t, L, NULL, NULL)
    BY DEF Sound
  <1>1. PICK E : E = [x \in Slots |-> IF x = n THEN {n} ELSE IF p \in D[x] THEN D[x] \union {n} ELSE D[x]]
    OBVIOUS
  <1>2. PICK h : h = [bh EXCEPT ![n] = 1]
    OBVIOUS
  <1>3. Shape(r, L \union {n}, E)
    BY <1>0, <1>1, GrownShape
  <1>4. /\ n \in Nodes /\ n \notin L /\ n /= NIL /\ NIL \notin L /\ n \in Slots /\ NIL \in Slots /\ L \subseteq Slots
        /\ s \in Sides /\ n /= NULL /\ \A z \in Slots : z /= NULL
    BY DEF Vacant, Slots
  <1>5. /\ p = NIL => L = {}
        /\ p /= NIL => p \in L /\ t[s][p] = NIL /\ p /= n
    BY <1>0, <1>4 DEF Vacant, Shape
  <1>6. /\ r.root = IF p = NIL THEN n ELSE t.root
        /\ r.parent[n] = p /\ \A z \in Slots \ {n} : r.parent[z] = t.parent[z]
        /\ r.color[n] = RED /\ \A z \in Slots \ {n} : r.color[z] = t.color[z]
        /\ \A e \in Sides : r[e][n] = NIL
        /\ \A z \in L \union {NIL}, e \in Sides :
             r[e][z] = IF z = p /\ p /= NIL /\ e = s THEN n ELSE t[e][z]
    BY DEF Grown
  <1>7. \A z \in L, e \in Sides : t[e][z] \in L \union {NIL} /\ t[e][z] /= n /\ t[e][z] \in Slots \ {n}
    BY <1>0, <1>4 DEF Shape, Fork
  <1>8. Sorted(r, L \union {n}, E, k)
    <2> SUFFICES ASSUME NEW z \in L \union {n}, NEW e \in Sides, NEW a \in E[r[e][z]]
                 PROVE  Before(e, k[a], k[z])
      BY DEF Sorted
    <2>1. E[NIL] = {} /\ E[n] = {n} /\ \A x \in L \union {NIL} : E[x] = IF p \in D[x] THEN D[x] \union {n} ELSE D[x]
      BY <1>0, <1>1, <1>4 DEF Shape
    <2>2. z /= n
      BY <1>6, <2>1
    <2>3. CASE z = p /\ p /= NIL /\ e = s
      BY <1>6, <2>1, <2>2, <2>3 DEF Vacant
    <2>4. CASE ~(z = p /\ p /= NIL /\ e = s)
      <3>1. r[e][z] = t[e][z] /\ z \in L
        BY <1>6, <2>2, <2>4
      <3>2. p /= NIL
        BY <1>5, <3>1
      <3>3. a \in D[t[e][z]] \/ (a = n /\ p \in D[t[e][z]])
        BY <1>7, <2>1, <3>1
      <3>4. a \in D[t[e][z]] => Before(e, k[a], k[z])
        BY <1>0, <3>1 DEF Sorted
      <3>5. p \in D[t[e][z]] => Before(e, k[n], k[z])
        BY <3>1, <3>2 DEF Vacant
      <3> QED  BY <3>3, <3>4, <3>5
    <2> QED  BY <2>3, <2>4
  <1>9. Level(r, L \union {n}, NULL, h)
    <2>1. bh \in [Slots -> Nat] /\ bh[NIL] = 0
          /\ \A z \in L, e \in Sides : bh[z] = bh[t[e][z]] + Heft(t, NULL, t[e][z], z)
      BY <1>0 DEF Level
    <2>2. h \in [Slots -> Nat] /\ h[n] = 1 /\ h[NIL] = 0 /\ \A z \in Slots \ {n} : h[z] = bh[z]
      BY <1>2, <1>4, <2>1
    <2>3. /\ \A c \in Slots : \A z : Heft(r, NULL, c, z) = IF r.color[c] = BLACK THEN 1 ELSE 0
          /\ \A c \in Slots : \A z : Heft(t, NULL, c, z) = IF t.color[c] = BLACK THEN 1 ELSE 0
      BY <1>4 DEF Heft
    <2>4. ASSUME NEW z \in L \union {n}, NEW e \in Sides
          PROVE  h[z] = h[r[e][z]] + Heft(r, NULL, r[e][z], z)
      <3>1. CASE z = n
        <4>1. r[e][z] = NIL /\ r.color[NIL] = BLACK
          BY <1>3, <1>6, <3>1 DEF Shape
        <4> QED  BY <1>4, <2>2, <2>3, <3>1, <4>1
      <3>2. CASE z /= n /\ z = p /\ p /= NIL /\ e = s
        <4>1. r[e][z] = n /\ t[e][z] = NIL /\ t.color[NIL] = BLACK /\ z \in L /\ z \in Slots \ {n}
          BY <1>0, <1>4, <1>5, <1>6, <3>2 DEF Shape
        <4>2. Heft(r, NULL, n, z) = 0 /\ Heft(t, NULL, NIL, z) = 1
          BY <1>4, <1>6, <2>3, <4>1 DEF RED, BLACK
        <4>3. bh[z] = 1 /\ h[z] = 1
          BY <2>1, <2>2, <4>1, <4>2
        <4> QED  BY <2>2, <4>1, <4>2, <4>3
      <3>3. CASE z /= n /\ ~(z = p /\ p /= NIL /\ e = s)
        <4>1. r[e][z] = t[e][z] /\ z \in L /\ z \in Slots \ {n}
          BY <1>4, <1>6, <3>3
        <4>2. Heft(r, NULL, t[e][z], z) = Heft(t, NULL, t[e][z], z) /\ h[t[e][z]] = bh[t[e][z]]
          BY <1>6, <1>7, <2>2, <2>3, <4>1
        <4> QED  BY <2>1, <2>2, <4>1, <4>2
      <3> QED  BY <3>1, <3>2, <3>3
    <2> QED  BY <2>2, <2>4 DEF Level
  <1>10. Apart(r, L \union {n}, NULL, n)
    <2> SUFFICES ASSUME NEW z \in L, Scarlet(r, NULL, z)
                 PROVE  z /= r.root /\ ~Scarlet(r, NULL, r.parent[z])
      BY DEF Apart
    <2>1. z \in Slots \ {n} /\ p /= NIL
      BY <1>4, <1>5
    <2>2. z /= NULL /\ Scarlet(t, NULL, z)
      BY <1>4, <1>6, <2>1 DEF Scarlet
    <2>3. z /= t.root /\ ~Scarlet(t, NULL, t.parent[z])
      BY <1>0, <2>2 DEF Apart
    <2>4. t.parent[z] \in L
      BY <1>0, <2>3 DEF Shape, Hung
    <2> QED  BY <1>4, <1>6, <2>1, <2>3, <2>4 DEF Scarlet
  <1> QED  BY <1>3, <1>8, <1>9, <1>10 DEF Sound
(* m has no child on the side s, and c on the other one, or none there.    *)
Cut(t, L, m, c, s) == m \in L /\ s \in Sides /\ t[s][m] = NIL /\ c = t[Other(s)][m]

(* r is t with c in the place of m.                                        *)
Spliced(t, r, L, m, c) ==
  /\ r \in Tree
  /\ r.root = IF m = t.root THEN c ELSE t.root
  /\ r.color = t.color
  /\ r.parent[c] = t.parent[m] /\ \A z \in Slots \ {c} : r.parent[z] = t.parent[z]
  /\ \A z \in L \union {NIL}, e \in Sides : r[e][z] = IF t[e][z] = m THEN c ELSE t[e][z]

(* The place of c is at the other end of nothing else.                     *)
Cutting(t, L, D, m, c) ==
  /\ c \in L \union {NIL} /\ c \in Slots /\ c /= m /\ m \in Slots /\ m /= NIL
  /\ D[m] = {m} \union D[c] /\ m \notin D[c] /\ (c /= NIL => t.parent[c] = m)
  /\ \A z \in L, e \in Sides : t[e][z] /= NIL => t[e][z] /= m \/ z /= m
  /\ \A e \in Sides : t[e][m] \in {NIL, c}
  /\ \A z \in L \ {c} : z /= t.root => t.parent[z] \in L \ {m}
  /\ m /= t.root => t.parent[m] \in L \ {m}

LEMMA CutFacts ==
  ASSUME NEW L \in SUBSET Nodes, NEW t, NEW D, Shape(t, L, D),
         NEW m, NEW c, NEW s, Cut(t, L, m, c, s)
  PROVE  Cutting(t, L, D, m, c)
  <1> USE RbtAssumption
  <1>1. /\ m \in L /\ s \in Sides /\ Other(s) \in Sides /\ t[s][m] = NIL /\ c = t[Other(s)][m]
        /\ Other(Other(s)) = s /\ \A e \in Sides : e = s \/ e = Other(s)
    BY OtherSide DEF Cut
  <1>2. /\ c \in L \union {NIL} /\ (c /= NIL => t.parent[c] = m)
        /\ D[m] = {m} \union D[c] \union D[NIL] /\ m \notin D[c] /\ D[NIL] = {}
    BY <1>1 DEF Shape, Fork
  <1>3. c \in Slots /\ m \in Slots /\ m /= NIL
    BY <1>1, <1>2 DEF Slots
  <1>4. \A z \in L : z \in D[z]
    BY <1>1 DEF Shape, Fork
  <1>5. c /= m
    BY <1>1, <1>2, <1>4
  <1>6. \A z \in L, e \in Sides : t[e][z] /= NIL => t[e][z] /= m \/ z /= m
    BY <1>4 DEF Shape, Fork
  <1>7. \A e \in Sides : t[e][m] \in {NIL, c}
    BY <1>1
  <1>8. \A z \in L : z /= t.root => t.parent[z] \in L /\ \E e \in Sides : t[e][t.parent[z]] = z
    BY DEF Shape, Hung
  <1>9. \A z \in L \ {c} : z /= t.root => t.parent[z] \in L \ {m}
    BY <1>3, <1>7, <1>8
  <1>10. m /= t.root => t.parent[m] \in L \ {m}
    BY <1>1, <1>3, <1>6, <1>8
  <1> QED  BY <1>2, <1>3, <1>5, <1>6, <1>7, <1>9, <1>10 DEF Cutting

LEMMA SpliceFacts ==
  ASSUME NEW L \in SUBSET Nodes, NEW t \in Tree, NEW D, Shape(t, L, D),
         NEW m, NEW c, NEW s, Cut(t, L, m, c, s)
  PROVE  Spliced(t, Replace([t EXCEPT !.parent[c] = t.parent[m]], m, c), L, m, c)
  <1> USE RbtAssumption
  <1>1. PICK u : u = [t EXCEPT !.parent[c] = t.parent[m]]
    OBVIOUS
  <1>2. c \in Slots /\ c /= m /\ m \in Slots /\ m \in L
    <2>1. Cutting(t, L, D, m, c)
      BY CutFacts
    <2> QED  BY <2>1 DEF Cutting, Cut
  <1>3. /\ u \in Tree /\ u.root = t.root /\ u.color = t.color
        /\ \A e \in Sides : u[e] = t[e]
        /\ u.parent[c] = t.parent[m]
        /\ \A z \in Slots \ {c} : u.parent[z] = t.parent[z]
    <2>1. t.parent[m] \in Slots \union {NULL}
      BY <1>2, TreeFacts
    <2> QED  BY <1>1, <1>2, <2>1 DEF Tree, Sides
  <1>4. Hangs(u, L, m)
    <2>1. Hangs(t, L, m)
      BY <1>2, ShapeHangs
    <2>2. u.parent[m] = t.parent[m]
      BY <1>2, <1>3
    <2> QED  BY <1>3, <2>1, <2>2 DEF Hangs
  <1>5. Replaced(u, Replace(u, m, c), L, m, c)
    BY <1>2, <1>3, <1>4, ReplaceFacts
  <1>6. PICK r : r = Replace(u, m, c)
    OBVIOUS
  <1>7. Spliced(t, r, L, m, c)
    BY <1>2, <1>3, <1>5, <1>6 DEF Replaced, Spliced
  <1> QED  BY <1>1, <1>6, <1>7

(* What is below each node without m.                                      *)
Less(D, m) == [z \in Slots |-> D[z] \ {m}]

LEMMA SplicedShape ==
  ASSUME NEW L \in SUBSET Nodes, NEW t, NEW D, Shape(t, L, D),
         NEW m, NEW c, NEW s, Cut(t, L, m, c, s), NEW r, Spliced(t, r, L, m, c)
  PROVE  Shape(r, L \ {m}, Less(D, m))
  <1> USE RbtAssumption
  <1>1. /\ c \in L \union {NIL} /\ c \in Slots /\ c /= m /\ m \in Slots /\ m /= NIL
        /\ D[m] = {m} \union D[c] /\ m \notin D[c] /\ (c /= NIL => t.parent[c] = m)
        /\ \A e \in Sides : t[e][m] \in {NIL, c}
        /\ \A z \in L \ {c} : z /= t.root => t.parent[z] \in L \ {m}
        /\ m /= t.root => t.parent[m] \in L \ {m}
    <2>1. Cutting(t, L, D, m, c)
      BY CutFacts
    <2> QED  BY <2>1 DEF Cutting
  <1>2. /\ D \in [Slots -> SUBSET L] /\ t.root \in L \union {NIL} /\ D[t.root] = L /\ D[NIL] = {}
        /\ t.root /= NIL => t.parent[t.root] = NIL
        /\ \A e \in Sides : t[e][NIL] = NIL
        /\ t.color[NIL] = BLACK
        /\ \A z \in L : Fork(t, L, D, z) /\ Hung(t, L, z) /\ Nested(t, D, z)
    BY DEF Shape
  <1>3. /\ r.root = IF m = t.root THEN c ELSE t.root
        /\ r.color = t.color
        /\ r.parent[c] = t.parent[m] /\ \A z \in Slots \ {c} : r.parent[z] = t.parent[z]
        /\ \A z \in L \union {NIL}, e \in Sides : r[e][z] = IF t[e][z] = m THEN c ELSE t[e][z]
    BY DEF Spliced
  <1>4. NIL \in Slots /\ NIL \notin L /\ L \subseteq Slots /\ m \in L
    BY DEF Slots, Cut
  <1>5. PICK E : E = Less(D, m)
    OBVIOUS
  <1>6. E \in [Slots -> SUBSET (L \ {m})] /\ \A z \in Slots : E[z] = D[z] \ {m}
    BY <1>2, <1>5 DEF Less
  <1>7. E[c] = E[m] /\ E[NIL] = {}
    <2>1. E[c] = D[c] \ {m} /\ E[m] = D[m] \ {m} /\ E[NIL] = D[NIL] \ {m}
      BY <1>1, <1>4, <1>6
    <2> QED  BY <1>1, <1>2, <2>1
  <1>8. r.root \in (L \ {m}) \union {NIL} /\ E[r.root] = L \ {m}
    <2>1. CASE m = t.root
      BY <1>1, <1>2, <1>3, <1>6, <1>7, <2>1
    <2>2. CASE m /= t.root
      <3>1. t.root \in Slots
        BY <1>2, <1>4
      <3> QED  BY <1>2, <1>3, <1>6, <2>2, <3>1
    <2> QED  BY <2>1, <2>2
  <1>9. r.root /= NIL => r.parent[r.root] = NIL
    <2>1. CASE m = t.root
      BY <1>2, <1>3, <1>4, <2>1
    <2>2. CASE m /= t.root
      <3>1. t.root /= NIL => t.root \in Slots \ {c}
        BY <1>1, <1>2, <1>4
      <3> QED  BY <1>2, <1>3, <2>2, <3>1
    <2> QED  BY <2>1, <2>2
  <1>10. (\A e \in Sides : r[e][NIL] = NIL) /\ r.color[NIL] = BLACK
    BY <1>1, <1>2, <1>3
  <1>11. ASSUME NEW z \in L \ {m} PROVE Fork(r, L \ {m}, E, z)
    <2> SUFFICES ASSUME NEW e \in Sides
                 PROVE  /\ r[e][z] \in (L \ {m}) \union {NIL}
                        /\ r[e][z] /= NIL => r.parent[r[e][z]] = z
                        /\ E[z] = {z} \union E[r[e][z]] \union E[r[Other(e)][z]]
                        /\ z \notin E[r[e][z]]
                        /\ E[r[e][z]] \intersect E[r[Other(e)][z]] = {}
      BY DEF Fork
    <2>1. PICK a, b : a = t[e][z] /\ b = t[Other(e)][z]
      OBVIOUS
    <2>2. /\ a \in L \union {NIL} /\ b \in L \union {NIL} /\ (a /= NIL => t.parent[a] = z)
          /\ D[z] = {z} \union D[a] \union D[b] /\ z \notin D[a] /\ D[a] \intersect D[b] = {}
      BY <1>2, <2>1, OtherSide DEF Fork
    <2>3. r[e][z] = (IF a = m THEN c ELSE a) /\ r[Other(e)][z] = (IF b = m THEN c ELSE b)
      BY <1>3, <2>1, OtherSide
    <2>4. E[r[e][z]] = D[a] \ {m} /\ E[r[Other(e)][z]] = D[b] \ {m} /\ E[z] = D[z] \ {m}
      <3>1. a \in Slots /\ b \in Slots /\ z \in Slots
        BY <1>4, <2>2
      <3> QED  BY <1>6, <1>7, <2>3, <3>1
    <2>5. r[e][z] \in (L \ {m}) \union {NIL}
      BY <1>1, <2>2, <2>3
    <2>6. r[e][z] /= NIL => r.parent[r[e][z]] = z
      <3>1. CASE a = m
        BY <1>1, <1>3, <1>4, <2>2, <2>3, <3>1
      <3>2. CASE a /= m
        <4>1. a /= NIL => a \in Slots \ {c}
          BY <1>1, <1>4, <2>2
        <4> QED  BY <1>3, <2>2, <2>3, <3>2, <4>1
      <3> QED  BY <3>1, <3>2
    <2> QED  BY <2>2, <2>4, <2>5, <2>6
  <1>12. ASSUME NEW z \in L \ {m} PROVE Hung(r, L \ {m}, z)
    <2> SUFFICES ASSUME z /= r.root
                 PROVE  r.parent[z] \in L \ {m} /\ \E e \in Sides : r[e][r.parent[z]] = z
      BY DEF Hung
    <2>1. CASE z = c
      <3>1. m /= t.root
        BY <1>3, <2>1
      <3>2. t.parent[m] \in L \ {m} /\ \E e \in Sides : t[e][t.parent[m]] = m
        BY <1>1, <1>2, <1>4, <3>1 DEF Hung
      <3> QED  BY <1>3, <2>1, <3>2
    <2>2. CASE z /= c
      <3>1. z /= t.root /\ z \in Slots
        BY <1>3, <1>4, <1>12
      <3>2. t.parent[z] \in L \ {m} /\ \E e \in Sides : t[e][t.parent[z]] = z
        BY <1>1, <1>2, <2>2, <3>1 DEF Hung
      <3> QED  BY <1>3, <1>12, <2>2, <3>1, <3>2
    <2> QED  BY <2>1, <2>2
  <1>13. ASSUME NEW z \in L \ {m} PROVE Nested(r, E, z)
    <2> SUFFICES ASSUME NEW a \in E[z]
                 PROVE  E[a] \subseteq E[z] /\ (a /= z => r.parent[a] \in E[z])
      BY DEF Nested
    <2>1. z \in Slots /\ a \in D[z] /\ a /= m /\ a \in L /\ a \in Slots /\ E[z] = D[z] \ {m} /\ E[a] = D[a] \ {m}
      BY <1>2, <1>4, <1>6
    <2>2. \A x \in D[z] : D[x] \subseteq D[z] /\ (x /= z => t.parent[x] \in D[z])
      BY <1>2 DEF Nested
    <2>3. a /= z => r.parent[a] \in E[z]
      <3> SUFFICES ASSUME a /= z PROVE r.parent[a] \in E[z]
        OBVIOUS
      <3>1. CASE a = c
        <4>1. m \in D[z]
          BY <1>1, <1>4, <2>1, <2>2, <3>1
        <4>2. t.parent[m] \in D[z]
          BY <1>13, <2>2, <4>1
        <4>3. m /= t.root
          BY <1>2, <1>4, <2>1, <4>2
        <4> QED  BY <1>1, <1>3, <2>1, <3>1, <4>2, <4>3
      <3>2. CASE a /= c
        <4>1. t.parent[a] \in D[z]
          BY <2>1, <2>2
        <4>2. a /= t.root
          BY <1>2, <1>4, <2>1, <4>1
        <4> QED  BY <1>1, <1>3, <2>1, <3>2, <4>1, <4>2
      <3> QED  BY <3>1, <3>2
    <2> QED  BY <2>1, <2>2, <2>3
  <1> QED  BY <1>5, <1>6, <1>7, <1>8, <1>9, <1>10, <1>11, <1>12, <1>13 DEF Shape
(* The key of m may stand at n: m is n, or the first node on its right.    *)
Stands(t, L, D, k, n, m) ==
  /\ n \in L
  /\ m = n \/ (m \in D[t.right[n]] /\ \A a \in D[t.right[n]] : k[m] <= k[a])

LEMMA SplicedSorted ==
  ASSUME NEW L \in SUBSET Nodes, NEW t, NEW D, Shape(t, L, D),
         NEW m, NEW c, NEW s, Cut(t, L, m, c, s), NEW r, Spliced(t, r, L, m, c),
         NEW k, Sorted(t, L, D, k), \A z \in L : k[z] \in Int,
         NEW n, Stands(t, L, D, k, n, m),
         NEW j, \A z \in L : j[z] = IF z = n THEN k[m] ELSE k[z]
  PROVE  Sorted(r, L \ {m}, Less(D, m), j)
  <1> USE RbtAssumption
  <1>1. c \in L \union {NIL} /\ c \in Slots /\ m \in L /\ m \in Slots /\ D[m] = {m} \union D[c]
    <2>1. Cutting(t, L, D, m, c)
      BY CutFacts
    <2> QED  BY <2>1 DEF Cutting, Cut
  <1>2. D \in [Slots -> SUBSET L] /\ L \subseteq Slots /\ NIL \in Slots /\ NIL \notin L /\ D[NIL] = {}
    BY DEF Shape, Slots
  <1> SUFFICES ASSUME NEW z \in L \ {m}, NEW e \in Sides, NEW a \in Less(D, m)[r[e][z]]
               PROVE  Before(e, j[a], j[z])
    BY DEF Sorted
  <1>3. PICK b : b = t[e][z]
    OBVIOUS
  <1>4. b \in L \union {NIL} /\ b \in Slots /\ D[z] = {z} \union D[b] \union D[t[Other(e)][z]] /\ z \notin D[b]
    BY <1>2, <1>3 DEF Shape, Fork
  <1>5. r[e][z] = IF b = m THEN c ELSE b
    BY <1>3 DEF Spliced
  <1>6. a \in D[b] /\ a /= m /\ a \in L /\ b \in L
    <2>1. a \in D[r[e][z]] \ {m} /\ r[e][z] \in Slots
      BY <1>1, <1>4, <1>5 DEF Less
    <2>2. a \in D[b]
      BY <1>1, <1>5, <2>1
    <2> QED  BY <1>2, <1>4, <2>1, <2>2
  <1>7. Before(e, k[a], k[z])
    BY <1>3, <1>6 DEF Sorted
  <1>8. /\ k[a] \in Int /\ k[z] \in Int /\ k[m] \in Int
        /\ j[a] = (IF a = n THEN k[m] ELSE k[a]) /\ j[z] = IF z = n THEN k[m] ELSE k[z]
    BY <1>1, <1>6
  <1>9. CASE m = n
    BY <1>6, <1>7, <1>8, <1>9
  <1>10. CASE m /= n
    <2>1. n \in L /\ m \in D[t.right[n]] /\ \A x \in D[t.right[n]] : k[m] <= k[x]
      BY <1>10 DEF Stands
    <2>2. CASE z = n
      <3>1. a /= n
        BY <1>4, <1>6, <2>2
      <3>2. CASE e = "right"
        <4>1. k[m] <= k[a]
          BY <1>3, <1>6, <2>1, <2>2, <3>2
        <4> QED  BY <1>8, <2>2, <3>1, <3>2, <4>1 DEF Before
      <3>3. CASE e = "left"
        <4>1. Before("right", k[m], k[n]) /\ k[n] \in Int
          <5>1. "right" \in Sides /\ t["right"] = t.right
            BY DEF Sides
          <5> QED  BY <2>1, <5>1 DEF Sorted
        <4>2. k[a] <= k[n] /\ k[n] <= k[m]
          BY <1>7, <2>2, <3>3, <4>1 DEF Before
        <4>3. k[a] <= k[m]
          BY <1>8, <4>1, <4>2
        <4> QED  BY <1>8, <2>2, <3>1, <3>3, <4>3 DEF Before
      <3> QED  BY <3>2, <3>3 DEF Sides
    <2>3. CASE z /= n /\ a = n
      <3>1. m \in D[n]
        <4>1. "right" \in Sides /\ t["right"] = t.right
          BY DEF Sides
        <4> QED  BY <2>1, <4>1 DEF Shape, Fork
      <3>2. D[n] \subseteq D[b]
        BY <1>6, <2>3 DEF Shape, Nested
      <3>3. Before(e, k[m], k[z])
        BY <1>3, <3>1, <3>2 DEF Sorted
      <3> QED  BY <1>8, <2>3, <3>3
    <2>4. CASE z /= n /\ a /= n
      BY <1>7, <1>8, <2>4
    <2> QED  BY <2>2, <2>3, <2>4
  <1> QED  BY <1>9, <1>10

(* The node that smp_delete_fixup has in charge hangs at its parent, on    *)
(* one side only: it may be the sentinel.                                  *)
Charged(t, L, x) ==
  /\ x \in L \union {NIL}
  /\ \/ x = t.root
     \/ /\ t.parent[x] \in L
        /\ \E s \in Sides : t[s][t.parent[x]] = x /\ t[Other(s)][t.parent[x]] /= x

(* What is left when m is taken out: if it was black, c is in charge.      *)
Lacking(t, r, L, D, j, bh, m, c) ==
  /\ t.color[m] = BLACK => Sound(r, L \ {m}, j, Less(D, m), bh, c, NULL) /\ Charged(r, L \ {m}, c)
  /\ t.color[m] /= BLACK => Sound(r, L \ {m}, j, Less(D, m), bh, NULL, NULL)

LEMMA SplicedSound ==
  ASSUME NEW L \in SUBSET Nodes, NEW t \in Tree, NEW D, NEW k, NEW bh,
         Sound(t, L, k, D, bh, NULL, NULL),
         NEW m, NEW c, NEW s, Cut(t, L, m, c, s), NEW r, Spliced(t, r, L, m, c),
         \A z \in L : k[z] \in Int,
         NEW n, Stands(t, L, D, k, n, m),
         NEW j, \A z \in L : j[z] = IF z = n THEN k[m] ELSE k[z]
  PROVE  Lacking(t, r, L, D, j, bh, m, c)
  <1> USE RbtAssumption
  <1>0. Shape(t, L, D) /\ Sorted(t, L, D, k) /\ Level(t, L, NULL, bh) /\ Apart(t, L, NULL, NULL)
    BY DEF Sound
  <1>1. Shape(r, L \ {m}, Less(D, m)) /\ Sorted(r, L \ {m}, Less(D, m), j)
    BY <1>0, SplicedShape, SplicedSorted
  <1>2. /\ c \in L \union {NIL} /\ c \in Slots /\ c /= m /\ m \in Slots /\ m /= NIL
        /\ (c /= NIL => t.parent[c] = m)
        /\ \A e \in Sides : t[e][m] \in {NIL, c}
        /\ \A z \in L \ {c} : z /= t.root => t.parent[z] \in L \ {m}
        /\ m /= t.root => t.parent[m] \in L \ {m}
    <2>1. Cutting(t, L, D, m, c)
      BY <1>0, CutFacts
    <2> QED  BY <2>1 DEF Cutting
  <1>3. /\ r.root = IF m = t.root THEN c ELSE t.root
        /\ r.color = t.color
        /\ r.parent[c] = t.parent[m] /\ \A z \in Slots \ {c} : r.parent[z] = t.parent[z]
        /\ \A z \in L \union {NIL}, e \in Sides : r[e][z] = IF t[e][z] = m THEN c ELSE t[e][z]
    BY DEF Spliced
  <1>4. /\ m \in L /\ s \in Sides /\ Other(s) \in Sides /\ t[s][m] = NIL /\ c = t[Other(s)][m]
        /\ L \subseteq Slots /\ NIL \in Slots /\ NIL \notin L /\ NULL \notin Slots
        /\ t.color[NIL] = BLACK
    BY <1>0, OtherSide DEF Cut, Slots, Shape
  <1>5. PICK x : x = IF t.color[m] = BLACK THEN c ELSE NULL
    OBVIOUS
  <1>6. /\ bh \in [Slots -> Nat] /\ bh[NIL] = 0
        /\ \A z \in L, e \in Sides : bh[z] = bh[t[e][z]] + Heft(t, NULL, t[e][z], z)
    BY <1>0 DEF Level
  <1>7. \A z \in L, e \in Sides : /\ t[e][z] \in L \union {NIL} /\ t[e][z] \in Slots
                                  /\ t[e][z] /= NIL => t.parent[t[e][z]] = z
    BY <1>0, <1>4 DEF Shape, Fork
  <1>8. \A a \in Slots : \A z : Heft(t, NULL, a, z) = IF t.color[a] = BLACK THEN 1 ELSE 0
    BY <1>4 DEF Heft
  <1>9. m /= t.root => /\ t.parent[m] \in L \ {m}
                       /\ \E e \in Sides : /\ t[e][t.parent[m]] = m
                                           /\ \A d \in Sides : t[d][t.parent[m]] = m => d = e
    <2>1. Hangs(t, L, m)
      BY <1>0, <1>4, TreeFacts, ShapeHangs
    <2> QED  BY <1>2, <2>1 DEF Hangs
  <1>10. ASSUME t.color[m] = BLACK, m /= t.root, NEW e \in Sides, t[e][t.parent[m]] /= m
         PROVE  t[e][t.parent[m]] /= c
    <2>1. PICK p \in L : p = t.parent[m]
      BY <1>9, <1>10
    <2>2. PICK d \in Sides : t[d][p] = m
      BY <1>9, <1>10, <2>1
    <2>3. c = NIL => bh[p] = 2
      <3>1. c = NIL => bh[m] = 1
        BY <1>4, <1>6, <1>8
      <3>2. bh[p] = bh[m] + 1
        BY <1>2, <1>6, <1>8, <1>10, <2>2
      <3> QED  BY <3>1, <3>2
    <2>4. t[e][p] = NIL => bh[p] = 1
      BY <1>4, <1>6, <1>8
    <2>5. c /= NIL => t[e][p] /= c
      BY <1>2, <1>7, <1>9, <1>10, <2>1
    <2> QED  BY <2>1, <2>3, <2>4, <2>5
  <1>11. Level(r, L \ {m}, x, bh)
    <2>1. ASSUME NEW z \in L \ {m}, NEW e \in Sides
          PROVE  bh[z] = bh[r[e][z]] + Heft(r, x, r[e][z], z)
      <3>1. r[e][z] = IF t[e][z] = m THEN c ELSE t[e][z]
        BY <1>3
      <3>2. CASE t[e][z] = m
        <4>1. z = t.parent[m] /\ r.parent[c] = z
          BY <1>2, <1>3, <1>7, <3>2
        <4>2. bh[z] = bh[m] + (IF t.color[m] = BLACK THEN 1 ELSE 0)
          BY <1>2, <1>6, <1>8, <3>2
        <4>3. bh[m] = bh[c] + (IF t.color[c] = BLACK THEN 1 ELSE 0)
          BY <1>2, <1>4, <1>6, <1>8
        <4>4. Heft(r, x, c, z) = (IF t.color[c] = BLACK THEN 1 ELSE 0) + (IF t.color[m] = BLACK THEN 1 ELSE 0)
          BY <1>2, <1>3, <1>4, <1>5, <4>1 DEF Heft
        <4>5. bh[c] \in Nat
          BY <1>2, <1>6
        <4> QED  BY <3>1, <3>2, <4>2, <4>3, <4>4, <4>5
      <3>3. CASE t[e][z] /= m
        <4>1. PICK a : a = t[e][z]
          OBVIOUS
        <4>2. a \in Slots /\ bh[z] = bh[a] + (IF t.color[a] = BLACK THEN 1 ELSE 0)
          BY <1>6, <1>7, <1>8, <4>1
        <4>3. ~(a = x /\ r.parent[a] = z)
          <5> SUFFICES ASSUME a = c, t.color[m] = BLACK, r.parent[c] = z PROVE FALSE
            BY <1>4, <1>5, <4>2
          <5>1. z = t.parent[m]
            BY <1>3
          <5>2. m /= t.root
            <6>1. m = t.root => t.parent[m] = NIL
              BY <1>0, <1>2 DEF Shape
            <6> QED  BY <1>4, <5>1, <6>1
          <5> QED  BY <1>10, <3>3, <4>1, <5>1, <5>2
        <4>4. Heft(r, x, a, z) = IF t.color[a] = BLACK THEN 1 ELSE 0
          BY <1>3, <4>3 DEF Heft
        <4> QED  BY <3>1, <3>3, <4>1, <4>2, <4>4
      <3> QED  BY <3>2, <3>3
    <2> QED  BY <1>6, <2>1 DEF Level
  <1>12. Apart(r, L \ {m}, x, NULL)
    <2> SUFFICES ASSUME NEW z \in L \ {m}, Scarlet(r, x, z)
                 PROVE  z /= r.root /\ ~Scarlet(r, x, r.parent[z])
      BY DEF Apart
    <2>1. Scarlet(t, NULL, z) /\ z /= NULL /\ z \in Slots
      BY <1>3, <1>4 DEF Scarlet
    <2>2. z /= t.root /\ ~Scarlet(t, NULL, t.parent[z])
      BY <1>0, <1>4, <2>1 DEF Apart
    <2>3. z /= c
      <3>1. SUFFICES ASSUME z = c PROVE FALSE
        OBVIOUS
      <3>2. t.color[m] = BLACK
        <4>1. t.parent[z] = m /\ t.color[m] \in {RED, BLACK} /\ m /= NULL
          <5>1. t.color[m] \in {RED, BLACK}
            <6>1. r.color \in [Slots -> {RED, BLACK}]
              BY DEF Spliced, Tree
            <6> QED  BY <1>2, <1>3, <6>1
          <5> QED  BY <1>2, <1>4, <3>1, <5>1
        <4> QED  BY <2>2, <4>1 DEF Scarlet
      <3> QED  BY <1>5, <3>1, <3>2 DEF Scarlet
    <2>4. z /= r.root /\ r.parent[z] = t.parent[z] /\ t.parent[z] \in L \ {m}
      BY <1>2, <1>3, <2>1, <2>2, <2>3
    <2> QED  BY <1>3, <1>4, <2>2, <2>4 DEF Scarlet
  <1>13. t.color[m] = BLACK => Charged(r, L \ {m}, c)
    <2> SUFFICES ASSUME t.color[m] = BLACK, c /= r.root
                 PROVE  /\ r.parent[c] \in L \ {m}
                        /\ \E e \in Sides : r[e][r.parent[c]] = c /\ r[Other(e)][r.parent[c]] /= c
      BY <1>2 DEF Charged
    <2>1. m /= t.root
      BY <1>3
    <2>2. PICK p \in L \ {m} : p = t.parent[m]
      BY <1>9, <2>1
    <2>3. PICK e \in Sides : t[e][p] = m /\ \A d \in Sides : t[d][p] = m => d = e
      BY <1>9, <2>1, <2>2
    <2>4. Other(e) \in Sides /\ Other(e) /= e
      BY OtherSide
    <2>5. t[Other(e)][p] /= m /\ t[Other(e)][p] /= c
      BY <1>10, <2>1, <2>2, <2>3, <2>4
    <2> QED  BY <1>3, <2>2, <2>3, <2>4, <2>5
  <1> QED  BY <1>1, <1>5, <1>11, <1>12, <1>13 DEF Lacking, Sound
(***************************************************************************)
(* smp_rbt_clean.                                                          *)
(***************************************************************************)

(* What is below c is still a tree of nodes of L.                          *)
Patch(t, L, D, c) ==
  /\ c \in D[c] /\ D[c] \subseteq L
  /\ \A z \in D[c] :
       /\ \A a \in D[z] : D[a] \subseteq D[z]
       /\ \A s \in Sides :
            /\ t[s][z] \in Slots
            /\ t[s][z] /= NIL => t[s][z] \in D[t[s][z]]
            /\ D[z] = {z} \union D[t[s][z]] \union D[t[Other(s)][z]]
            /\ z \notin D[t[s][z]]
            /\ D[t[s][z]] \intersect D[t[Other(s)][z]] = {}

(* The queue b is one of roots of trees apart from each other, which have  *)
(* every node that is left if no allocation fails.                         *)
Swept(t, L, D, b) ==
  /\ D[NIL] = {}
  /\ \A i \in 1 .. Len(b) : Patch(t, L, D, b[i])
  /\ \A i, j \in 1 .. Len(b) : i /= j => D[b[i]] \intersect D[b[j]] = {}
  /\ ~QnodeFails => \A a \in L : \E i \in 1 .. Len(b) : a \in D[b[i]]

LEMMA PatchAll ==
  ASSUME NEW L \in SUBSET Nodes, NEW t, NEW D, Shape(t, L, D), t.root /= NIL
  PROVE  Patch(t, L, D, t.root) /\ D[t.root] = L
  <1> USE RbtAssumption
  <1>1. t.root \in L /\ D[t.root] = L /\ NIL \notin L /\ L \subseteq Slots /\ NIL \in Slots
    BY DEF Shape, Slots
  <1>2. \A z \in L : Fork(t, L, D, z) /\ Nested(t, D, z)
    BY DEF Shape
  <1>3. \A z \in L : z \in D[z]
    BY <1>2 DEF Fork, Sides
  <1>4. \A z \in L : \A a \in D[z] : D[a] \subseteq D[z]
    BY <1>2 DEF Nested
  <1>5. \A z \in L, s \in Sides :
            /\ t[s][z] \in Slots
            /\ t[s][z] /= NIL => t[s][z] \in D[t[s][z]]
            /\ D[z] = {z} \union D[t[s][z]] \union D[t[Other(s)][z]]
            /\ z \notin D[t[s][z]]
            /\ D[t[s][z]] \intersect D[t[Other(s)][z]] = {}
    BY <1>1, <1>2, <1>3 DEF Fork
  <1> QED  BY <1>1, <1>3, <1>4, <1>5 DEF Patch

LEMMA PatchAside ==
  ASSUME NEW L, NEW t, NEW D, NEW c, Patch(t, L, D, c), NEW n, n \notin D[c],
         NEW r, \A z \in L \ {n}, s \in Sides : r[s][z] = t[s][z]
  PROVE  Patch(r, L \ {n}, D, c)
  <1>1. c \in D[c] /\ D[c] \subseteq L \ {n}
    BY DEF Patch
  <1>2. \A z \in D[c], s \in Sides : r[s][z] = t[s][z] /\ r[Other(s)][z] = t[Other(s)][z]
    BY <1>1, OtherSide
  <1> QED  BY <1>1, <1>2 DEF Patch

LEMMA PatchDown ==
  ASSUME NEW L, NEW t, NEW D, NEW n, Patch(t, L, D, n), NEW s \in Sides, t[s][n] /= NIL,
         NEW r, \A z \in L \ {n}, e \in Sides : r[e][z] = t[e][z]
  PROVE  Patch(r, L \ {n}, D, t[s][n])
  <1>1. PICK c : c = t[s][n]
    OBVIOUS
  <1>2. n \in D[n] /\ D[n] \subseteq L /\ c \in D[c] /\ D[c] \subseteq D[n] /\ n \notin D[c]
    BY <1>1 DEF Patch
  <1>3. Patch(t, L, D, c)
    BY <1>2 DEF Patch
  <1> QED  BY <1>1, <1>2, <1>3, PatchAside

(* q has children of n, each at most once, and all if none can fail.       *)
Picked(t, n, q) ==
  /\ q \in Seq(Nodes)
  /\ \A i \in 1 .. Len(q) : \E s \in Sides : q[i] = t[s][n] /\ t[s][n] /= NIL
  /\ \A i, j \in 1 .. Len(q) : i /= j => \E s \in Sides : q[i] = t[s][n] /\ q[j] = t[Other(s)][n]
  /\ ~QnodeFails => \A s \in Sides : t[s][n] /= NIL => \E i \in 1 .. Len(q) : q[i] = t[s][n]

Onward(r, L, D, b, q) ==
  /\ Head(b) \in L /\ Tail(b) \o q \in Seq(Nodes)
  /\ Swept(r, L \ {Head(b)}, D, Tail(b) \o q)

LEMMA SweptStep ==
  ASSUME NEW L, NEW t, NEW D, NEW b \in Seq(Nodes), Swept(t, L, D, b), b /= <<>>,
         NEW q, Picked(t, Head(b), q),
         NEW r, \A z \in L \ {Head(b)}, e \in Sides : r[e][z] = t[e][z]
  PROVE  Onward(r, L, D, b, q)
  <1>1. PICK n, a : n = Head(b) /\ a = Tail(b)
    OBVIOUS
  <1>2. PICK k \in Nat, l \in Nat : Len(b) = k + 1 /\ l = Len(q)
    <2>1. PICK h \in Nat, l \in Nat : h = Len(b) /\ h /= 0 /\ l = Len(q)
      <3>1. Len(b) \in Nat \ {0}
        BY EmptySeq
      <3>2. Len(q) \in Nat
        BY LenProperties DEF Picked
      <3> QED  BY <3>1, <3>2
    <2>2. h - 1 \in Nat /\ h = (h - 1) + 1
      BY <2>1
    <2> QED  BY <2>1, <2>2
  <1>3. a \in Seq(Nodes) /\ Len(a) = k /\ n = b[1] /\ \A i \in 1 .. k : a[i] = b[i + 1]
    BY <1>1, <1>2, HeadTailProperties
  <1>4. PICK d : d = a \o q
    OBVIOUS
  <1>5. d \in Seq(Nodes) /\ Len(d) = k + l
        /\ (\A i \in 1 .. k : d[i] = b[i + 1]) /\ \A i \in 1 .. l : d[k + i] = q[i]
    <2>1. d \in Seq(Nodes) /\ Len(d) = k + l
          /\ \A i \in 1 .. k + l : d[i] = IF i <= k THEN a[i] ELSE q[i - k]
      <3>1. a \in Seq(Nodes) /\ q \in Seq(Nodes) /\ Len(a) = k /\ Len(q) = l
        BY <1>2, <1>3 DEF Picked
      <3>2. a \o q \in Seq(Nodes) /\ Len(a \o q) = Len(a) + Len(q)
            /\ \A i \in 1 .. Len(a) + Len(q) : (a \o q)[i] = IF i <= Len(a) THEN a[i] ELSE q[i - Len(a)]
        BY <3>1, ConcatProperties
      <3> QED  BY <1>4, <3>1, <3>2
    <2>2. \A i \in 1 .. k : i \in 1 .. k + l /\ i <= k
      BY <1>2
    <2>3. \A i \in 1 .. l : k + i \in 1 .. k + l /\ ~(k + i <= k) /\ (k + i) - k = i
      BY <1>2
    <2> QED  BY <1>3, <2>1, <2>2, <2>3
  <1>6. \A i \in 1 .. k + l : i \in 1 .. k \/ \E j \in 1 .. l : i = k + j
    <2> SUFFICES ASSUME NEW i \in 1 .. k + l, ~(i \in 1 .. k)
                 PROVE  \E j \in 1 .. l : i = k + j
      OBVIOUS
    <2>1. i - k \in 1 .. l /\ i = k + (i - k)
      BY <1>2
    <2> QED  BY <2>1
  <1>7. /\ \A i \in 1 .. k : i + 1 \in 1 .. k + 1 /\ i + 1 /= 1
        /\ 1 \in 1 .. k + 1
        /\ \A i \in 1 .. k + 1 : i /= 1 => i - 1 \in 1 .. k /\ (i - 1) + 1 = i
        /\ \A i \in 1 .. k : i \in 1 .. k + l
        /\ \A i \in 1 .. l : k + i \in 1 .. k + l
    BY <1>2
  <1>8. /\ D[NIL] = {}
        /\ \A i \in 1 .. k + 1 : Patch(t, L, D, b[i])
        /\ \A i, j \in 1 .. k + 1 : i /= j => D[b[i]] \intersect D[b[j]] = {}
        /\ ~QnodeFails => \A z \in L : \E i \in 1 .. k + 1 : z \in D[b[i]]
    BY <1>2 DEF Swept
  <1>9. Patch(t, L, D, n) /\ n \in D[n] /\ n \in L
    <2>1. Patch(t, L, D, n)
      BY <1>3, <1>7, <1>8
    <2> QED  BY <2>1 DEF Patch
  <1>10. \A s \in Sides : /\ D[t[s][n]] \subseteq D[n] /\ D[n] = {n} \union D[t[s][n]] \union D[t[Other(s)][n]]
                          /\ D[t[s][n]] \intersect D[t[Other(s)][n]] = {}
    BY <1>9 DEF Patch
  <1>11. /\ \A i \in 1 .. l : \E s \in Sides : q[i] = t[s][n] /\ t[s][n] /= NIL
         /\ \A i, j \in 1 .. l : i /= j => \E s \in Sides : q[i] = t[s][n] /\ q[j] = t[Other(s)][n]
         /\ ~QnodeFails => \A s \in Sides : t[s][n] /= NIL => \E i \in 1 .. l : q[i] = t[s][n]
    BY <1>1, <1>2 DEF Picked
  <1>12. \A z \in L \ {n}, e \in Sides : r[e][z] = t[e][z]
    BY <1>1
  <1>13. \A i \in 1 .. k : Patch(r, L \ {n}, D, d[i]) /\ D[d[i]] \intersect D[n] = {}
    <2> SUFFICES ASSUME NEW i \in 1 .. k PROVE Patch(r, L \ {n}, D, b[i + 1]) /\ D[b[i + 1]] \intersect D[n] = {}
      BY <1>5
    <2>1. Patch(t, L, D, b[i + 1]) /\ D[b[i + 1]] \intersect D[n] = {}
      BY <1>3, <1>7, <1>8
    <2>2. n \notin D[b[i + 1]]
      BY <1>9, <2>1
    <2> QED  BY <1>12, <2>1, <2>2, PatchAside
  <1>14. \A i \in 1 .. l : Patch(r, L \ {n}, D, d[k + i]) /\ D[d[k + i]] \subseteq D[n]
    <2> SUFFICES ASSUME NEW i \in 1 .. l PROVE Patch(r, L \ {n}, D, q[i]) /\ D[q[i]] \subseteq D[n]
      BY <1>5
    <2>1. PICK s \in Sides : q[i] = t[s][n] /\ t[s][n] /= NIL
      BY <1>11
    <2>2. Patch(r, L \ {n}, D, t[s][n])
      BY <1>9, <1>12, <2>1, PatchDown
    <2> QED  BY <1>10, <2>1, <2>2
  <1>15. \A i \in 1 .. k + l : Patch(r, L \ {n}, D, d[i])
    BY <1>6, <1>13, <1>14
  <1>16. ASSUME NEW i \in 1 .. k + l, NEW j \in 1 .. k + l, i /= j
         PROVE  D[d[i]] \intersect D[d[j]] = {}
    <2>1. CASE i \in 1 .. k /\ j \in 1 .. k
      <3>1. i + 1 /= j + 1
        BY <1>16
      <3>2. D[b[i + 1]] \intersect D[b[j + 1]] = {}
        BY <1>7, <1>8, <2>1, <3>1
      <3> QED  BY <1>5, <2>1, <3>2
    <2>2. CASE i \in 1 .. k /\ \E h \in 1 .. l : j = k + h
      BY <1>13, <1>14, <2>2
    <2>3. CASE j \in 1 .. k /\ \E h \in 1 .. l : i = k + h
      BY <1>13, <1>14, <2>3
    <2>4. CASE (\E h \in 1 .. l : i = k + h) /\ \E h \in 1 .. l : j = k + h
      <3>1. PICK g \in 1 .. l : i = k + g
        BY <2>4
      <3>2. PICK h \in 1 .. l : j = k + h
        BY <2>4
      <3>3. PICK s \in Sides : q[g] = t[s][n] /\ q[h] = t[Other(s)][n]
        <4>1. g /= h
          BY <1>16, <3>1, <3>2
        <4> QED  BY <1>11, <4>1
      <3>4. d[i] = q[g] /\ d[j] = q[h]
        BY <1>5, <3>1, <3>2
      <3>5. D[t[s][n]] \intersect D[t[Other(s)][n]] = {}
        BY <1>10
      <3>6. d[i] = t[s][n] /\ d[j] = t[Other(s)][n]
        BY <3>3, <3>4
      <3> QED  BY <3>5, <3>6
    <2> QED  BY <1>6, <2>1, <2>2, <2>3, <2>4
  <1>17. ASSUME ~QnodeFails, NEW z \in L \ {n} PROVE \E i \in 1 .. k + l : z \in D[d[i]]
    <2>1. PICK i \in 1 .. k + 1 : z \in D[b[i]]
      BY <1>8, <1>17
    <2>2. CASE i /= 1
      <3>1. PICK h \in 1 .. k : h + 1 = i
        BY <1>7, <2>2
      <3> QED  BY <1>5, <1>7, <2>1, <3>1
    <2>3. CASE i = 1
      <3>1. PICK s \in Sides : z \in D[t[s][n]]
        <4>1. "left" \in Sides
          BY DEF Sides
        <4>2. D[n] = {n} \union D[t["left"][n]] \union D[t[Other("left")][n]]
          BY <1>10, <4>1
        <4> QED  BY <1>3, <1>17, <2>1, <2>3, <4>1, <4>2, OtherSide
      <3>2. t[s][n] /= NIL
        BY <1>8, <3>1
      <3>3. PICK h \in 1 .. l : q[h] = t[s][n]
        BY <1>11, <1>17, <3>2
      <3> QED  BY <1>5, <1>7, <3>1, <3>3
    <2> QED  BY <2>2, <2>3
  <1>18. Swept(r, L \ {n}, D, d)
    BY <1>5, <1>8, <1>15, <1>16, <1>17 DEF Swept
  <1> QED  BY <1>1, <1>4, <1>5, <1>9, <1>18 DEF Onward

(* The children of n that are in ns.                                       *)
Chosen(n, ns, q) ==
  LET l == rbt.left[n]
      r == rbt.right[n]
      a == IF l \in ns /\ l /= NIL THEN 1 ELSE 0
      b == IF r \in ns /\ r /= NIL THEN 1 ELSE 0
  IN /\ q \in Seq(Nodes) /\ Len(q) = a + b
     /\ a = 1 => q[1] = l
     /\ b = 1 => q[a + b] = r

LEMMA KidsFacts ==
  ASSUME NEW n, NEW ns, rbt.left[n] \in Slots, rbt.right[n] \in Slots
  PROVE  Chosen(n, ns, Kids(n, ns))
  <1> DEFINE one(c) == IF c \in ns /\ c /= NIL THEN <<c>> ELSE <<>>
             l == rbt.left[n]
             r == rbt.right[n]
             a == IF l \in ns /\ l /= NIL THEN 1 ELSE 0
             b == IF r \in ns /\ r /= NIL THEN 1 ELSE 0
  <1>1. \A c \in Slots : /\ one(c) \in Seq(Nodes)
                         /\ Len(one(c)) = IF c \in ns /\ c /= NIL THEN 1 ELSE 0
                         /\ (c \in ns /\ c /= NIL) => one(c)[1] = c
    BY EmptySeq DEF Slots
  <1>2. PICK p, q : p = one(l) /\ q = one(r)
    OBVIOUS
  <1>3. /\ p \in Seq(Nodes) /\ Len(p) = a /\ (a = 1 => p[1] = l)
        /\ q \in Seq(Nodes) /\ Len(q) = b /\ (b = 1 => q[1] = r)
    <2>1. l \in Slots /\ r \in Slots
      OBVIOUS
    <2>2. a = 1 => l \in ns /\ l /= NIL
      OBVIOUS
    <2>3. b = 1 => r \in ns /\ r /= NIL
      OBVIOUS
    <2> HIDE DEF one
    <2>4. p \in Seq(Nodes) /\ Len(p) = a /\ (l \in ns /\ l /= NIL => p[1] = l)
      BY <1>1, <1>2, <2>1
    <2>5. q \in Seq(Nodes) /\ Len(q) = b /\ (r \in ns /\ r /= NIL => q[1] = r)
      BY <1>1, <1>2, <2>1
    <2> QED  BY <2>2, <2>3, <2>4, <2>5
  <1>4. Kids(n, ns) = p \o q
    BY <1>2 DEF Kids
  <1>5. a \in {0, 1} /\ b \in {0, 1}
    OBVIOUS
  <1> HIDE DEF one, a, b
  <1>6. p \o q \in Seq(Nodes) /\ Len(p \o q) = a + b
        /\ \A i \in 1 .. a + b : (p \o q)[i] = IF i <= a THEN p[i] ELSE q[i - a]
    BY <1>3, ConcatProperties
  <1>7. a = 1 => (p \o q)[1] = l
    <2>1. a = 1 => 1 \in 1 .. a + b /\ 1 <= a
      BY <1>5
    <2> QED  BY <1>3, <1>6, <2>1
  <1>8. b = 1 => (p \o q)[a + b] = r
    <2>1. b = 1 => a + b \in 1 .. a + b /\ ~(a + b <= a) /\ (a + b) - a = 1
      BY <1>5
    <2> QED  BY <1>3, <1>6, <2>1
  <1> QED  BY <1>4, <1>6, <1>7, <1>8 DEF Chosen, a, b
LEMMA QueuedPicked ==
  ASSUME NEW n, NEW kept, rbt.left[n] \in Slots, rbt.right[n] \in Slots, Queued(n, kept)
  PROVE  Picked(rbt, n, Kids(n, kept))
  <1> DEFINE l == rbt.left[n]
             r == rbt.right[n]
             a == IF l \in kept /\ l /= NIL THEN 1 ELSE 0
             b == IF r \in kept /\ r /= NIL THEN 1 ELSE 0
             c == IF l \in Slots /\ l /= NIL THEN 1 ELSE 0
             d == IF r \in Slots /\ r /= NIL THEN 1 ELSE 0
  <1>1. PICK q, p : q = Kids(n, kept) /\ p = Kids(n, Slots)
    OBVIOUS
  <1>2. Chosen(n, kept, q) /\ Chosen(n, Slots, p)
    BY <1>1, KidsFacts
  <1>3. q \in Seq(Nodes) /\ Len(q) = a + b /\ (a = 1 => q[1] = l) /\ (b = 1 => q[a + b] = r)
    BY <1>2 DEF Chosen
  <1>4. p \in Seq(Nodes) /\ Len(p) = c + d /\ (c = 1 => p[1] = l) /\ (d = 1 => p[c + d] = r)
    BY <1>2 DEF Chosen
  <1>5. /\ a \in {0, 1} /\ b \in {0, 1} /\ c \in {0, 1} /\ d \in {0, 1}
        /\ a = 1 <=> l \in kept /\ l /= NIL
        /\ b = 1 <=> r \in kept /\ r /= NIL
        /\ c = 1 <=> l /= NIL
        /\ d = 1 <=> r /= NIL
    OBVIOUS
  <1>6. /\ \A s \in Sides : rbt[s][n] = IF s = "left" THEN l ELSE r
        /\ "left" \in Sides /\ "right" \in Sides /\ Other("left") = "right" /\ Other("right") = "left"
        /\ "left" /= "right" /\ \A s \in Sides : s = "left" \/ s = "right"
    BY DEF Sides, Other
  <1> HIDE DEF l, r, a, b, c, d
  <1>7. ASSUME NEW i \in 1 .. Len(q)
        PROVE  \E s \in Sides : q[i] = rbt[s][n] /\ rbt[s][n] /= NIL
    <2>1. i \in 1 .. a + b
      BY <1>3
    <2>2. (a = 1 /\ i = 1) \/ (b = 1 /\ i = a + b)
      BY <1>5, <2>1
    <2> QED  BY <1>3, <1>5, <1>6, <2>2
  <1>8. ASSUME NEW i \in 1 .. Len(q), NEW j \in 1 .. Len(q), i /= j
        PROVE  \E s \in Sides : q[i] = rbt[s][n] /\ q[j] = rbt[Other(s)][n]
    <2>1. i \in 1 .. a + b /\ j \in 1 .. a + b
      BY <1>3
    <2>2. a = 1 /\ b = 1 /\ ((i = 1 /\ j = a + b) \/ (i = a + b /\ j = 1))
      BY <1>5, <1>8, <2>1
    <2> QED  BY <1>3, <1>6, <2>2
  <1>9. ASSUME ~QnodeFails, NEW s \in Sides, rbt[s][n] /= NIL
        PROVE  \E i \in 1 .. Len(q) : q[i] = rbt[s][n]
    <2>1. \A i \in 1 .. Len(p) : p[i] \in kept
      <3>1. DOMAIN p = 1 .. Len(p)
        BY <1>4, LenProperties
      <3>2. {p[i] : i \in {j \in DOMAIN p : j <= idle \/ ~QnodeFails}} \subseteq kept
        BY <1>1 DEF Queued
      <3> QED  BY <1>9, <3>1, <3>2
    <2>2. \A i \in 1 .. c + d : p[i] \in kept
      BY <1>4, <2>1
    <2>3. CASE s = "left"
      <3>1. c = 1 /\ 1 \in 1 .. c + d
        BY <1>5, <1>6, <1>9, <2>3
      <3>2. l \in kept
        BY <1>4, <2>2, <3>1
      <3>3. a = 1 /\ 1 \in 1 .. a + b
        BY <1>5, <3>1, <3>2
      <3> QED  BY <1>3, <1>6, <2>3, <3>3
    <2>4. CASE s = "right"
      <3>1. d = 1 /\ c + d \in 1 .. c + d
        BY <1>5, <1>6, <1>9, <2>4
      <3>2. r \in kept
        BY <1>4, <2>2, <3>1
      <3>3. b = 1 /\ a + b \in 1 .. a + b
        BY <1>5, <3>1, <3>2
      <3> QED  BY <1>3, <1>6, <2>4, <3>3
    <2> QED  BY <1>6, <2>3, <2>4
  <1> QED  BY <1>1, <1>3, <1>7, <1>8, <1>9 DEF Picked

(***************************************************************************)
(* Changes that the tree does not see.                                     *)
(***************************************************************************)

LEMMA BareSound ==
  ASSUME NEW k
  PROVE  \E D, bh : Sound(NoTree, {}, k, D, bh, NULL, NULL)
  <1> USE RbtAssumption
  <1>1. PICK D, bh : D = [z \in Slots |-> {}] /\ bh = [z \in Slots |-> 0]
    OBVIOUS
  <1>2. NIL \in Slots
    BY DEF Slots
  <1>3. Shape(NoTree, {}, D)
    BY <1>1, <1>2 DEF Shape, NoTree, Sides
  <1>4. Sorted(NoTree, {}, D, k) /\ Level(NoTree, {}, NULL, bh) /\ Apart(NoTree, {}, NULL, NULL)
    BY <1>1, <1>2 DEF Sorted, Level, Apart
  <1> QED  BY <1>3, <1>4 DEF Sound

LEMMA KeysElsewhere ==
  ASSUME NEW L \in SUBSET Nodes, NEW t, NEW k, NEW D, NEW bh, NEW x, NEW y, Sound(t, L, k, D, bh, x, y),
         NEW j, \A z \in L : j[z] = k[z]
  PROVE  Sound(t, L, j, D, bh, x, y)
  <1>1. \A z \in L, s \in Sides : D[t[s][z]] \subseteq L
    BY DEF Sound, Shape, Fork, Slots
  <1> QED  BY <1>1 DEF Sound, Sorted

(* The pointers of n are set to NULL.                                      *)
Freed(t, n) == [t EXCEPT !.left[n] = NULL, !.right[n] = NULL, !.parent[n] = NULL]

LEMMA FreedFacts ==
  ASSUME NEW t \in Tree, NEW n \in Slots
  PROVE  /\ Freed(t, n) \in Tree /\ Freed(t, n).root = t.root /\ Freed(t, n).color = t.color
         /\ \A z \in Slots \ {n} : /\ Freed(t, n).parent[z] = t.parent[z]
                                   /\ \A s \in Sides : Freed(t, n)[s][z] = t[s][z]
  BY DEF Freed, Tree, Sides

LEMMA LinksElsewhere ==
  ASSUME NEW L \in SUBSET Nodes, NEW t \in Tree, NEW k, NEW D, NEW bh,
         Sound(t, L, k, D, bh, NULL, NULL),
         NEW n \in Nodes \ L
  PROVE  Sound(Freed(t, n), L, k, D, bh, NULL, NULL)
  <1> USE RbtAssumption
  <1>1. PICK r : r = Freed(t, n)
    OBVIOUS
  <1>2. n \in Slots /\ n /= NIL /\ NIL \in Slots \ {n} /\ L \subseteq Slots \ {n}
    BY DEF Slots
  <1>3. r.root = t.root /\ r.color = t.color
        /\ \A z \in Slots \ {n} : r.parent[z] = t.parent[z] /\ \A s \in Sides : r[s][z] = t[s][z]
    BY <1>1, <1>2, FreedFacts
  <1>4. \A z \in L \union {NIL} : r.parent[z] = t.parent[z] /\ \A s \in Sides : r[s][z] = t[s][z]
    BY <1>2, <1>3
  <1>5. Shape(t, L, D) /\ Sorted(t, L, D, k) /\ Level(t, L, NULL, bh) /\ Apart(t, L, NULL, NULL)
    BY DEF Sound
  <1>6. \A z \in L, s \in Sides : t[s][z] \in L \union {NIL}
    BY <1>5 DEF Shape, Fork
  <1>7. D \in [Slots -> SUBSET L]
    BY <1>5 DEF Shape
  <1>8. Shape(r, L, D)
    <2>1. \A z \in L : Fork(r, L, D, z)
      BY <1>4, <1>5, <1>6, OtherSide DEF Shape, Fork
    <2>2. \A z \in L : Hung(r, L, z)
      BY <1>3, <1>4, <1>5 DEF Shape, Hung
    <2>3. \A z \in L : Nested(r, D, z)
      BY <1>2, <1>4, <1>5, <1>7 DEF Shape, Nested
    <2>4. t.root \in L \union {NIL}
      BY <1>5 DEF Shape
    <2> QED  BY <1>3, <1>4, <1>5, <2>1, <2>2, <2>3, <2>4 DEF Shape
  <1>9. Sorted(r, L, D, k)
    BY <1>4, <1>5 DEF Sorted
  <1>10. Level(r, L, NULL, bh)
    <2>1. \A c \in L \union {NIL} : \A z : Heft(r, NULL, c, z) = Heft(t, NULL, c, z)
      BY <1>3, <1>4 DEF Heft
    <2> QED  BY <1>4, <1>5, <1>6, <2>1 DEF Level
  <1>11. Apart(r, L, NULL, NULL)
    BY <1>3, <1>4, <1>5 DEF Apart, Scarlet
  <1> QED  BY <1>1, <1>8, <1>9, <1>10, <1>11 DEF Sound
(***************************************************************************)
(* The inductive invariant.                                                *)
(***************************************************************************)

(* The red node that may be below a red one in smp_insert_fixup.           *)
Loose == IF pc = "insert" THEN nd ELSE NULL

(* A node has been taken out, and is not the client's yet.                 *)
Taken == pc \in {"delete", "unlink"}

Typed ==
  /\ live \in BOOLEAN /\ drop \in BOOLEAN
  /\ rbt \in Tree
  /\ key \in [Nodes -> Keys \union {NULL}]
  /\ pc \in {"idle", "insert", "delete", "unlink", "clean"}
  /\ nd \in Slots /\ out \in Slots
  /\ busy \in Seq(Nodes) /\ idle \in Nat
  /\ heap \in SUBSET Nodes /\ held \in SUBSET heap /\ lost \in SUBSET (heap \union {NIL})

(* Whose each node is, and its key.                                        *)
Owned ==
  /\ lost \intersect held = {}
  /\ IF Taken THEN out \in heap \ (held \union lost) /\ saved \in Keys
     ELSE out = NIL /\ saved = NULL /\ drop = FALSE
  /\ \A n \in heap : key[n] \in Keys

(* What the running call has at hand.                                      *)
Phased ==
  /\ pc \in {"idle", "clean"} => nd = NIL
  /\ pc /= "idle" => live
  /\ ~live => Linked = {} /\ rbt = NoTree
  /\ pc = "insert" => nd \in Linked /\ rbt.color[nd] = RED
  /\ pc = "delete" => Charged(rbt, Linked, nd)

Counted == size = Cardinality(Linked) + (IF pc = "insert" THEN -1 ELSE IF Taken THEN 1 ELSE 0)

Standing == pc /= "clean" => \E D, bh : Sound(rbt, Linked, key, D, bh, Charge, Loose)

Sweeping == pc = "clean" => \E D : Swept(rbt, Linked, D, busy)

RbtInv == Typed /\ Owned /\ Phased /\ Counted /\ Standing /\ Sweeping

LEMMA LinkedFacts ==
  ASSUME Typed, Owned
  PROVE  /\ Linked \in SUBSET Nodes /\ NIL \notin Linked /\ NULL \notin Linked
         /\ \A z \in Linked : z \in Slots /\ key[z] \in Int /\ key[z] \in Keys
         /\ IsFiniteSet(Linked) /\ Cardinality(Linked) \in Nat
  <1> USE RbtAssumption
  <1>1. Linked \subseteq heap /\ heap \subseteq Nodes
    BY DEF Typed, Linked
  <1>2. IsFiniteSet(Linked) /\ Cardinality(Linked) \in Nat
    BY <1>1, FS_Subset, FS_CardinalityType
  <1> QED  BY <1>1, <1>2 DEF Owned, Slots

LEMMA InitInv == Init => RbtInv
  <1> USE RbtAssumption
  <1> SUFFICES ASSUME Init PROVE RbtInv
    OBVIOUS
  <1>1. Linked = {} /\ Charge = NULL /\ Loose = NULL
    BY DEF Init, Linked, Charge, Loose
  <1>2. Typed
    <2>1. NoTree \in Tree
      BY DEF NoTree, Tree, Slots
    <2>2. busy \in Seq(Nodes) /\ key \in [Nodes -> Keys \union {NULL}]
      BY EmptySeq DEF Init
    <2>3. nd \in Slots /\ out \in Slots
      BY DEF Init, Slots
    <2> QED  BY <2>1, <2>2, <2>3 DEF Typed, Init
  <1>3. Owned /\ Phased
    BY <1>1 DEF Owned, Phased, Taken, Init
  <1>4. Counted
    <2>1. Cardinality({}) = 0
      BY FS_EmptySet
    <2> QED  BY <1>1, <2>1 DEF Counted, Taken, Init
  <1>5. \E D, bh : Sound(NoTree, {}, key, D, bh, NULL, NULL)
    BY BareSound
  <1>6. Standing /\ Sweeping
    BY <1>1, <1>5 DEF Standing, Sweeping, Init
  <1> QED  BY <1>2, <1>3, <1>4, <1>6 DEF RbtInv

LEMMA CreateInv == RbtInv /\ RbtCreate => RbtInv'
  <1> USE RbtAssumption
  <1> SUFFICES ASSUME RbtInv, RbtCreate PROVE RbtInv'
    OBVIOUS
  <1> USE DEF RbtCreate, cleaning, removing
  <1>1. Linked = {} /\ Linked' = {} /\ Charge' = NULL /\ Loose' = NULL
    BY DEF RbtInv, Phased, Linked, Charge, Loose
  <1>2. Typed'
    <2>1. NoTree \in Tree
      BY DEF NoTree, Tree, Slots
    <2> QED  BY <2>1 DEF RbtInv, Typed
  <1>3. Owned' /\ Phased'
    BY <1>1 DEF RbtInv, Owned, Phased, Taken
  <1>4. Counted'
    <2>1. Cardinality({}) = 0
      BY FS_EmptySet
    <2> QED  BY <1>1, <2>1 DEF Counted, Taken
  <1>5. \E D, bh : Sound(NoTree, {}, key', D, bh, NULL, NULL)
    BY BareSound
  <1>6. Standing' /\ Sweeping'
    BY <1>1, <1>5 DEF Standing, Sweeping
  <1> QED  BY <1>2, <1>3, <1>4, <1>6 DEF RbtInv

LEMMA NodeCreateInv ==
  ASSUME RbtInv, NEW n \in Nodes, NEW k \in Keys, RnodeCreate(n, k)
  PROVE  RbtInv'
  <1> USE RbtAssumption
  <1> USE DEF RnodeCreate, cleaning, removing
  <1>0. Typed /\ Owned /\ Phased /\ Counted
    BY DEF RbtInv
  <1>1. Linked' = Linked /\ Charge' = NULL /\ Loose' = NULL /\ Charge = NULL /\ Loose = NULL /\ n \notin Linked
    BY <1>0 DEF Typed, Linked, Charge, Loose
  <1>2. Typed'
    BY <1>0 DEF Typed
  <1>3. Owned'
    BY <1>0 DEF Owned, Typed, Taken
  <1>4. Phased' /\ Counted'
    BY <1>0, <1>1 DEF Phased, Counted, Taken
  <1>5. PICK D, bh : Sound(rbt, Linked, key, D, bh, NULL, NULL)
    BY <1>1 DEF RbtInv, Standing
  <1>6. \A z \in Linked : key'[z] = key[z]
    BY <1>0, <1>1, LinkedFacts DEF Typed
  <1>7. Sound(rbt, Linked, key', D, bh, NULL, NULL)
    BY <1>0, <1>5, <1>6, LinkedFacts, KeysElsewhere
  <1>8. Standing' /\ Sweeping'
    BY <1>1, <1>7 DEF Standing, Sweeping
  <1> QED  BY <1>2, <1>3, <1>4, <1>8 DEF RbtInv

LEMMA NodeDestoryInv ==
  ASSUME RbtInv, NEW n \in Nodes, RnodeDestory(n)
  PROVE  RbtInv'
  <1> USE RbtAssumption
  <1> USE DEF RnodeDestory, cleaning, removing
  <1>0. Typed /\ Owned /\ Phased /\ Counted
    BY DEF RbtInv
  <1>1. Linked' = Linked /\ Charge' = NULL /\ Loose' = NULL /\ Charge = NULL /\ Loose = NULL /\ n \notin Linked
    BY <1>0 DEF Typed, Linked, Charge, Loose
  <1>2. Typed'
    BY <1>0 DEF Typed, Owned
  <1>3. Owned'
    BY <1>0 DEF Owned, Typed, Taken
  <1>4. Phased' /\ Counted'
    BY <1>0, <1>1 DEF Phased, Counted, Taken
  <1>5. PICK D, bh : Sound(rbt, Linked, key, D, bh, NULL, NULL)
    BY <1>1 DEF RbtInv, Standing
  <1>6. \A z \in Linked : key'[z] = key[z]
    BY <1>0, <1>1, LinkedFacts DEF Typed
  <1>7. Sound(rbt, Linked, key', D, bh, NULL, NULL)
    BY <1>0, <1>5, <1>6, LinkedFacts, KeysElsewhere
  <1>8. Standing' /\ Sweeping'
    BY <1>1, <1>7 DEF Standing, Sweeping
  <1> QED  BY <1>2, <1>3, <1>4, <1>8 DEF RbtInv

(* The steps that leave the nodes of the tree and their keys as they are   *)
(* and stay in a loop or leave it.                                         *)
LEMMA UnlinkInv == RbtInv /\ Unlink => RbtInv'
  <1> USE RbtAssumption
  <1> SUFFICES ASSUME RbtInv, Unlink PROVE RbtInv'
    OBVIOUS
  <1> USE DEF Unlink, cleaning, removing
  <1>0. Typed /\ Owned /\ Phased /\ Counted
    BY DEF RbtInv
  <1>1. out \in heap \ (held \union lost) /\ out \in Nodes /\ saved \in Keys /\ out \notin Linked /\ out \in Slots
    BY <1>0 DEF Typed, Owned, Taken, Linked, Slots
  <1>2. Linked' = Linked /\ Charge' = NULL /\ Loose' = NULL /\ Charge = NULL /\ Loose = NULL
    BY <1>0, <1>1 DEF Typed, Linked, Charge, Loose
  <1>3. rbt' = Freed(rbt, out) /\ rbt' \in Tree
    BY <1>0, <1>1, FreedFacts DEF Freed, Typed
  <1>4. Typed'
    <2>1. heap' \in SUBSET Nodes /\ held' \in SUBSET heap' /\ lost' \in SUBSET (heap' \union {NIL})
      BY <1>0, <1>1 DEF Typed
    <2>2. key' \in [Nodes -> Keys \union {NULL}]
      BY <1>0, <1>1 DEF Typed
    <2> QED  BY <1>0, <1>3, <2>1, <2>2 DEF Typed, Slots
  <1>5. Owned'
    <2>1. \A z \in heap' : key'[z] \in Keys
      BY <1>0, <1>1 DEF Owned, Typed
    <2> QED  BY <1>0, <1>1, <2>1 DEF Owned, Typed, Taken
  <1>6. Phased'
    BY <1>0 DEF Phased
  <1>7. Counted'
    BY <1>0, <1>2, LinkedFacts DEF Counted, Taken
  <1>8. PICK D, bh : Sound(rbt, Linked, key, D, bh, NULL, NULL)
    BY <1>2 DEF RbtInv, Standing
  <1>9. Sound(rbt', Linked, key, D, bh, NULL, NULL)
    <2>1. out \in Nodes \ Linked /\ rbt \in Tree /\ Linked \in SUBSET Nodes
      BY <1>0, <1>1, LinkedFacts DEF Typed
    <2> QED  BY <1>3, <1>8, <2>1, LinksElsewhere
  <1>10. \A z \in Linked : key'[z] = key[z]
    BY <1>0, <1>1, LinkedFacts DEF Typed
  <1>11. Sound(rbt', Linked, key', D, bh, NULL, NULL)
    <2>1. Linked \in SUBSET Nodes
      BY <1>0, LinkedFacts
    <2>2. PICK u, j : u = rbt' /\ j = key'
      OBVIOUS
    <2>3. Sound(u, Linked, key, D, bh, NULL, NULL) /\ \A z \in Linked : j[z] = key[z]
      BY <1>9, <1>10, <2>2
    <2>4. Sound(u, Linked, j, D, bh, NULL, NULL)
      BY <2>1, <2>3, KeysElsewhere
    <2> QED  BY <2>2, <2>4
  <1>12. Standing' /\ Sweeping'
    BY <1>2, <1>11 DEF Standing, Sweeping
  <1> QED  BY <1>4, <1>5, <1>6, <1>7, <1>12 DEF RbtInv
LEMMA InsertInv ==
  ASSUME RbtInv, NEW n \in Nodes, RnodeInsert(n)
  PROVE  RbtInv'
  <1> USE RbtAssumption
  <1>0. Typed /\ Owned /\ Phased /\ Counted /\ pc = "idle" /\ live /\ n \in held
    BY DEF RbtInv, RnodeInsert
  <1>1. PICK L : L = Linked
    OBVIOUS
  <1>2. /\ L \in SUBSET Nodes /\ NIL \notin L /\ n \notin L /\ n \in heap /\ n \in Slots /\ n /= NIL
        /\ \A z \in L : key[z] \in Int
        /\ key[n] \in Int /\ IsFiniteSet(L) /\ Cardinality(L) \in Nat
    BY <1>0, <1>1, LinkedFacts DEF Linked, Owned, Typed, Slots
  <1>3. Linked' = L \union {n} /\ Charge' = NULL /\ Loose' = n
    BY <1>0, <1>1 DEF RnodeInsert, Linked, Owned, Typed, Charge, Loose, Taken, removing, cleaning
  <1>4. PICK D, bh : Sound(rbt, L, key, D, bh, NULL, NULL)
    BY <1>0, <1>1 DEF RbtInv, Standing, Charge, Loose
  <1>5. Shape(rbt, L, D)
    BY <1>4 DEF Sound
  <1>6. PICK p : p = InsertParent(key[n])
    OBVIOUS
  <1>7. PICK s \in Sides : s = IF key[p] > key[n] THEN "left" ELSE "right"
    BY DEF Sides
  <1>8. Vacant(rbt, L, D, key, n, p, s)
    <2>1. CASE rbt.root = NIL
      <3>1. p = NIL
        BY <1>6, <2>1 DEF InsertParent
      <3> QED  BY <1>2, <2>1, <3>1 DEF Vacant
    <2>2. CASE rbt.root /= NIL
      <3>1. p \in L /\ Toward(key[n], p) = NIL /\ Fitting(D, key[n], p)
        BY <1>1, <1>2, <1>5, <1>6, <2>2, PlaceFacts
      <3>2. rbt[s][p] = NIL /\ p /= NIL
        BY <1>2, <1>7, <3>1 DEF Toward
      <3>3. Before(s, key[n], key[p])
        BY <1>2, <1>7, <3>1 DEF Before
      <3> QED  BY <1>1, <1>2, <3>1, <3>2, <3>3 DEF Vacant, Fitting
    <2> QED  BY <2>1, <2>2
  <1>9. p \in L \union {NIL} /\ p /= n /\ (p = NIL => L = {})
    BY <1>2, <1>5, <1>8 DEF Vacant, Shape
  <1>10. rbt' \in Tree /\ Grown(rbt, rbt', L, n, p, s)
    <2>1. PICK t : t = IF p = NIL THEN [rbt EXCEPT !.root = n]
                       ELSE IF key[p] > key[n] THEN [rbt EXCEPT !.left[p] = n]
                       ELSE [rbt EXCEPT !.right[p] = n]
      OBVIOUS
    <2>2. rbt' = [t EXCEPT !.parent[n] = p, !.left[n] = NIL, !.right[n] = NIL, !.color[n] = RED]
      BY <1>6, <2>1 DEF RnodeInsert
    <2>3. rbt \in Tree /\ p \in Slots /\ NIL \in Slots /\ L \subseteq Slots
      BY <1>0, <1>2, <1>9 DEF Typed, Slots
    <2>4. /\ t \in Tree /\ t.root = (IF p = NIL THEN n ELSE rbt.root)
          /\ t.parent = rbt.parent /\ t.color = rbt.color
          /\ \A z \in Slots, e \in Sides : t[e][z] = IF z = p /\ p /= NIL /\ e = s THEN n ELSE rbt[e][z]
      <3>1. CASE p = NIL
        BY <1>2, <2>1, <2>3, <3>1 DEF Tree, Sides
      <3>2. CASE p /= NIL /\ key[p] > key[n]
        BY <1>2, <1>7, <2>1, <2>3, <3>2 DEF Tree, Sides
      <3>3. CASE p /= NIL /\ ~(key[p] > key[n])
        BY <1>2, <1>7, <2>1, <2>3, <3>3 DEF Tree, Sides
      <3> QED  BY <3>1, <3>2, <3>3
    <2>5. PICK r : r = rbt'
      OBVIOUS
    <2>6. /\ r \in Tree /\ r.root = t.root
          /\ r.parent[n] = p /\ \A z \in Slots \ {n} : r.parent[z] = t.parent[z]
          /\ r.color[n] = RED /\ \A z \in Slots \ {n} : r.color[z] = t.color[z]
          /\ \A e \in Sides : r[e][n] = NIL
          /\ \A z \in Slots \ {n}, e \in Sides : r[e][z] = t[e][z]
      BY <1>2, <2>2, <2>3, <2>4, <2>5 DEF Tree, Sides
    <2>7. L \union {NIL} \subseteq Slots \ {n}
      BY <1>2, <2>3
    <2>8. Grown(rbt, r, L, n, p, s)
      BY <2>3, <2>4, <2>6, <2>7 DEF Grown
    <2> QED  BY <2>5, <2>6, <2>8
  <1>11. \E E, h : Sound(rbt', L \union {n}, key, E, h, NULL, n)
    BY <1>2, <1>4, <1>8, <1>10, GrownSound
  <1>12. Standing' /\ Sweeping'
    <2>1. key' = key /\ pc' = "insert"
      BY DEF RnodeInsert
    <2> QED  BY <1>3, <1>11, <2>1 DEF Standing, Sweeping
  <1>13. Typed'
    BY <1>0, <1>2, <1>10 DEF RnodeInsert, Typed, removing, cleaning
  <1>14. Owned'
    BY <1>0 DEF RnodeInsert, Owned, Taken, removing, cleaning
  <1>15. Phased'
    <2>1. rbt'.color[n] = RED
      BY <1>10 DEF Grown
    <2> QED  BY <1>0, <1>3, <2>1 DEF RnodeInsert, Phased
  <1>16. Counted'
    <2>1. Cardinality(L \union {n}) = Cardinality(L) + 1
      BY <1>2, FS_AddElement
    <2>2. size = Cardinality(L)
      BY <1>0, <1>1, <1>2 DEF Counted, Taken
    <2> QED  BY <1>2, <1>3, <2>1, <2>2 DEF RnodeInsert, Counted, Taken
  <1> QED  BY <1>12, <1>13, <1>14, <1>15, <1>16 DEF RbtInv

(* A turn of a loop moves no node in or out, and no key.                   *)
LEMMA TurnFacts ==
  ASSUME Typed, Owned, UNCHANGED <<live, key, removing, cleaning, heap, held>>,
         rbt' \in Tree, nd' \in Slots, pc \in {"insert", "delete"},
         pc' = pc \/ (pc = "insert" /\ pc' = "idle") \/ (pc = "delete" /\ pc' = "unlink")
  PROVE  Typed' /\ Owned' /\ Linked' = Linked
  <1>1. Typed'
    BY DEF Typed, removing, cleaning
  <1>2. Owned'
    <2>1. Taken' <=> Taken
      BY DEF Taken
    <2> QED  BY <2>1 DEF Owned, removing, cleaning
  <1>3. Linked' = Linked
    BY DEF Linked, removing, cleaning
  <1> QED  BY <1>1, <1>2, <1>3

(* smp_insert_fixup below a red parent: y is nd, p its parent, and g the   *)
(* parent of p, with p on the side s.                                      *)
Climbing(L, y, p, g, s) ==
  /\ y \in L /\ p \in L /\ g \in L /\ s \in Sides
  /\ p = Par /\ g = Grand /\ s = ParSide /\ y = nd
  /\ p = rbt[s][g] /\ rbt.parent[y] = p /\ rbt.parent[p] = g
  /\ rbt.color[y] = RED /\ rbt.color[p] = RED
  /\ \E e \in Sides : y = rbt[e][p]

LEMMA InsertClimbs ==
  ASSUME Typed, Owned, Phased, pc = "insert", rbt.color[Par] = RED,
         NEW D, NEW bh, Sound(rbt, Linked, key, D, bh, NULL, nd)
  PROVE  Climbing(Linked, nd, Par, Grand, ParSide)
  <1> USE RbtAssumption
  <1>1. Shape(rbt, Linked, D) /\ Apart(rbt, Linked, NULL, nd) /\ Linked \in SUBSET Nodes /\ NULL \notin Linked
    BY LinkedFacts DEF Sound
  <1>2. nd \in Linked /\ rbt.color[nd] = RED
    BY DEF Phased
  <1>3. nd /= rbt.root
    <2> SUFFICES ASSUME nd = rbt.root PROVE FALSE
      OBVIOUS
    <2>1. Par = NIL /\ rbt.color[NIL] = BLACK
      BY <1>1, <1>2, LinkedFacts DEF Shape, Par
    <2> QED  BY <2>1 DEF RED, BLACK
  <1>4. Child(rbt, Linked, nd)
    BY <1>1, <1>2, <1>3, ParentFacts
  <1>5. Par \in Linked /\ Par /= nd /\ \E e \in Sides : nd = rbt[e][Par]
    BY <1>4 DEF Child, Par
  <1>6. Par /= rbt.root
    BY <1>1, <1>5 DEF Apart, Scarlet
  <1>7. Child(rbt, Linked, Par)
    BY <1>1, <1>5, <1>6, ParentFacts
  <1>8. Grand \in Linked /\ ParSide \in Sides /\ rbt[ParSide][Grand] = Par
    BY <1>7 DEF Child, Grand, ParSide
  <1> QED  BY <1>2, <1>5, <1>8 DEF Climbing, Par, Grand

LEMMA RecolourInv == RbtInv /\ InsertRecolour => RbtInv'
  <1> USE RbtAssumption
  <1> SUFFICES ASSUME RbtInv, InsertRecolour PROVE RbtInv'
    OBVIOUS
  <1>0. /\ Typed /\ Owned /\ Phased /\ Counted /\ pc = "insert" /\ pc' = "insert"
        /\ rbt.color[Par] = RED /\ rbt.color[Uncle] = RED
        /\ rbt \in Tree /\ UNCHANGED <<live, key, removing, cleaning, heap, held, size>>
    BY DEF RbtInv, InsertRecolour, Typed
  <1>1. PICK L, y, p, g, s, o : /\ L = Linked /\ y = nd /\ p = Par /\ g = Grand /\ s = ParSide
                                /\ o = rbt[Other(s)][g]
    OBVIOUS
  <1>2. L \in SUBSET Nodes /\ NIL \notin L /\ L \subseteq Slots
    BY <1>0, <1>1, LinkedFacts DEF Slots
  <1>3. PICK D, bh : Sound(rbt, L, key, D, bh, NULL, y)
    BY <1>0, <1>1 DEF RbtInv, Standing, Charge, Loose
  <1>4. Climbing(L, y, p, g, s)
    BY <1>0, <1>1, <1>3, InsertClimbs
  <1>5. /\ y \in L /\ p \in L /\ g \in L /\ s \in Sides /\ p = rbt[s][g] /\ rbt.parent[y] = p
        /\ rbt.color[p] = RED /\ rbt.color[o] = RED
    BY <1>0, <1>1, <1>4 DEF Climbing, Uncle
  <1>6. Shape(rbt, L, D) /\ Sorted(rbt, L, D, key) /\ Level(rbt, L, NULL, bh) /\ Apart(rbt, L, NULL, y)
        /\ rbt.color[NIL] = BLACK
    BY <1>3 DEF Sound, Shape
  <1>7. PICK u : u = rbt'
    OBVIOUS
  <1>8. /\ Repainted(rbt, u) /\ u \in Tree
        /\ \A z \in Slots : u.color[z] = IF z = g THEN RED ELSE IF z \in {p, o} THEN BLACK ELSE rbt.color[z]
    <2> DEFINE v == Paint(rbt, {p, o}, BLACK)
    <2>1. v \in Tree /\ SameLinks(rbt, v) /\ \A z \in Slots : v.color[z] = IF z \in {p, o} THEN BLACK ELSE rbt.color[z]
      BY <1>0, PaintFacts
    <2>2. u = Paint(v, {g}, RED)
      BY <1>1, <1>7 DEF InsertRecolour, Uncle
    <2> HIDE DEF v
    <2>3. u \in Tree /\ SameLinks(v, u) /\ \A z \in Slots : u.color[z] = IF z \in {g} THEN RED ELSE v.color[z]
      BY <2>1, <2>2, PaintFacts
    <2>4. NIL \in Slots /\ NIL /= g
      BY <1>2, <1>5 DEF Slots
    <2> QED  BY <1>6, <2>1, <2>3, <2>4 DEF Repainted, SameLinks
  <1>9. Balanced(u, L, NULL, g, [bh EXCEPT ![g] = bh[g] + 1])
    <2> DEFINE t == rbt
    <2>1. t \in Tree /\ Repainted(t, u) /\ Shape(t, L, D) /\ Level(t, L, NULL, bh) /\ Apart(t, L, NULL, y)
      BY <1>0, <1>6, <1>8
    <2>2. /\ p = t[s][g] /\ o = t[Other(s)][g] /\ t.color[p] = RED /\ t.color[o] = RED /\ t.parent[y] = p
          /\ \A z \in Slots : u.color[z] = IF z = g THEN RED ELSE IF z \in {p, o} THEN BLACK ELSE t.color[z]
      BY <1>1, <1>5, <1>8
    <2> HIDE DEF t
    <2>3. Sinking(t, u, L, D, bh, y, p, g, o, s)
      BY <1>2, <1>5, <2>1, <2>2 DEF Sinking
    <2> QED  BY <2>3, BlackDown
  <1>10. Shape(u, L, D) /\ Sorted(u, L, D, key)
    BY <1>6, <1>8, RepaintedShape, RepaintedSorted
  <1>11. \E E, h : Sound(u, L, key, E, h, NULL, g)
    BY <1>9, <1>10 DEF Sound, Balanced
  <1>12. nd' = g /\ rbt'.color[g] = RED /\ rbt' \in Tree /\ g \in Slots
    BY <1>1, <1>2, <1>5, <1>7, <1>8 DEF InsertRecolour
  <1>13. Typed' /\ Owned' /\ Linked' = L
    BY <1>0, <1>1, <1>12, TurnFacts
  <1>14. Phased'
    BY <1>0, <1>5, <1>12, <1>13 DEF Phased
  <1>15. Counted'
    BY <1>0, <1>1, <1>13 DEF Counted, Taken
  <1>16. Standing' /\ Sweeping'
    <2>1. Charge' = NULL /\ Loose' = g /\ key' = key
      BY <1>0, <1>12 DEF Charge, Loose
    <2> QED  BY <1>0, <1>7, <1>11, <1>13, <2>1 DEF Standing, Sweeping
  <1> QED  BY <1>13, <1>14, <1>15, <1>16 DEF RbtInv
(* What the turns of smp_insert_fixup have to leave behind.                *)
Climbed(L, k, y) ==
  /\ rbt' \in Tree /\ nd' = y /\ y \in L
  /\ rbt'.color[y] = RED /\ rbt'.color[rbt'.parent[y]] = BLACK
  /\ \E E, h : Sound(rbt', L, k, E, h, NULL, y)

LEMMA ClimbedInv ==
  ASSUME RbtInv, pc = "insert", pc' = "insert",
         UNCHANGED <<live, key, removing, cleaning, heap, held, size>>,
         NEW y, Climbed(Linked, key, y)
  PROVE  RbtInv'
  <1>0. Typed /\ Owned /\ Phased /\ Counted
    BY DEF RbtInv
  <1>1. PICK L : L = Linked
    OBVIOUS
  <1>2. L \in SUBSET Nodes /\ L \subseteq Slots
    BY <1>0, <1>1, LinkedFacts DEF Slots
  <1>3. nd' = y /\ y \in L /\ rbt'.color[y] = RED /\ rbt' \in Tree /\ y \in Slots
        /\ \E E, h : Sound(rbt', L, key, E, h, NULL, y)
    BY <1>1, <1>2 DEF Climbed
  <1>4. Typed' /\ Owned' /\ Linked' = L
    BY <1>0, <1>1, <1>3, TurnFacts
  <1>5. Phased'
    BY <1>0, <1>3, <1>4 DEF Phased
  <1>6. Counted'
    BY <1>0, <1>1, <1>4 DEF Counted, Taken
  <1>7. Standing' /\ Sweeping'
    <2>1. Charge' = NULL /\ Loose' = y /\ key' = key
      BY <1>3 DEF Charge, Loose
    <2> QED  BY <1>3, <1>4, <2>1 DEF Standing, Sweeping
  <1> QED  BY <1>4, <1>5, <1>6, <1>7 DEF RbtInv

LEMMA RotateClimbs == RbtInv /\ InsertRotate => \E z : Climbed(Linked, key, z)
  <1> USE RbtAssumption
  <1> SUFFICES ASSUME RbtInv, InsertRotate PROVE \E z : Climbed(Linked, key, z)
    OBVIOUS
  <1>0. /\ Typed /\ Owned /\ Phased /\ pc = "insert" /\ pc' = "insert"
        /\ rbt.color[Par] = RED /\ rbt.color[Uncle] = BLACK
        /\ rbt \in Tree /\ UNCHANGED <<live, key, removing, cleaning, heap, held, size>>
    BY DEF RbtInv, InsertRotate, Typed
  <1>1. PICK L, y, p, g, s : L = Linked /\ y = nd /\ p = Par /\ g = Grand /\ s = ParSide
    OBVIOUS
  <1>2. L \in SUBSET Nodes /\ \A z \in L : key[z] \in Int
    BY <1>0, <1>1, LinkedFacts
  <1>3. PICK D, bh : Sound(rbt, L, key, D, bh, NULL, y)
    BY <1>0, <1>1 DEF RbtInv, Standing, Charge, Loose
  <1>4. Climbing(L, y, p, g, s)
    BY <1>0, <1>1, <1>3, InsertClimbs
  <1>5. /\ y \in L /\ p \in L /\ g \in L /\ s \in Sides /\ p = rbt[s][g]
        /\ rbt.parent[y] = p /\ rbt.parent[p] = g
        /\ rbt.color[y] = RED /\ rbt.color[p] = RED /\ rbt.color[rbt[Other(s)][g]] = BLACK
        /\ \E e \in Sides : y = rbt[e][p]
    BY <1>0, <1>1, <1>4 DEF Climbing, Uncle
  <1>6. Other(s) \in Sides /\ Other(Other(s)) = s /\ \A e \in Sides : e = s \/ e = Other(s)
    BY <1>5, OtherSide
  <1>7. SUFFICES \E z : Climbed(L, key, z)
    BY <1>1
  <1>8. CASE y = rbt[Other(s)][p]
    <2>1. PICK t : t = Rotate(rbt, p, s)
      OBVIOUS
    <2>7. Straightened(rbt, t, L, key, bh, g, s, p, y)
      BY <1>0, <1>2, <1>3, <1>5, <1>8, <2>1, Straighten
    <2>2. /\ t \in Tree /\ t.color = rbt.color
          /\ t[s][g] = y /\ t[Other(s)][g] = rbt[Other(s)][g] /\ t[s][y] = p
          /\ t.parent[p] = y /\ t.parent[y] = g
          /\ \E E : Sound(t, L, key, E, bh, NULL, p)
      BY <2>7 DEF Straightened
    <2>3. PICK E : Sound(t, L, key, E, bh, NULL, p)
      BY <2>2
    <2>4. PICK r : r = Rotate(Paint(Paint(t, {y}, BLACK), {g}, RED), g, Other(s))
      OBVIOUS
    <2>5. Upturned(r, L, key, bh, p)
      BY <1>2, <1>5, <2>2, <2>3, <2>4, InsertTurn
    <2>6. rbt' = r /\ nd' = p
      BY <1>1, <1>5, <1>8, <2>1, <2>2, <2>4 DEF InsertRotate
    <2> QED  BY <1>5, <2>5, <2>6 DEF Climbed, Upturned
  <1>9. CASE y /= rbt[Other(s)][p]
    <2>1. y = rbt[s][p]
      BY <1>5, <1>6, <1>9
    <2>2. PICK r : r = Rotate(Paint(Paint(rbt, {p}, BLACK), {g}, RED), g, Other(s))
      OBVIOUS
    <2>3. Upturned(r, L, key, bh, y)
      BY <1>0, <1>2, <1>3, <1>5, <2>1, <2>2, InsertTurn
    <2>4. rbt' = r /\ nd' = y
      BY <1>1, <1>5, <1>9, <2>2 DEF InsertRotate
    <2> QED  BY <1>5, <2>3, <2>4 DEF Climbed, Upturned
  <1> QED  BY <1>8, <1>9

LEMMA RotateInv == RbtInv /\ InsertRotate => RbtInv'
  <1> SUFFICES ASSUME RbtInv, InsertRotate PROVE RbtInv'
    OBVIOUS
  <1>1. PICK z : Climbed(Linked, key, z)
    BY RotateClimbs
  <1>2. pc = "insert" /\ pc' = "insert" /\ UNCHANGED <<live, key, removing, cleaning, heap, held, size>>
    BY DEF InsertRotate
  <1> QED  BY <1>1, <1>2, ClimbedInv

LEMMA InsertEndInv == RbtInv /\ InsertEnd => RbtInv'
  <1> USE RbtAssumption
  <1> SUFFICES ASSUME RbtInv, InsertEnd PROVE RbtInv'
    OBVIOUS
  <1>0. /\ Typed /\ Owned /\ Phased /\ Counted /\ pc = "insert" /\ pc' = "idle" /\ nd' = NIL
        /\ rbt.color[Par] = BLACK /\ rbt' = Paint(rbt, {rbt.root}, BLACK) /\ size' = size + 1
        /\ rbt \in Tree /\ UNCHANGED <<live, key, removing, cleaning, heap, held>>
    BY DEF RbtInv, InsertEnd, Typed
  <1>1. PICK L, y, n : L = Linked /\ y = nd /\ n = rbt.root
    OBVIOUS
  <1>2. L \in SUBSET Nodes /\ L \union {NIL} \subseteq Slots /\ Cardinality(L) \in Nat
    BY <1>0, <1>1, LinkedFacts DEF Slots
  <1>3. PICK D, bh : Sound(rbt, L, key, D, bh, NULL, y)
    BY <1>0, <1>1 DEF RbtInv, Standing, Charge, Loose
  <1>4. Shape(rbt, L, D) /\ Sorted(rbt, L, D, key) /\ Level(rbt, L, NULL, bh) /\ Apart(rbt, L, NULL, y)
        /\ rbt.color[NIL] = BLACK /\ n \in L \union {NIL} /\ n \in Slots
    BY <1>1, <1>2, <1>3 DEF Sound, Shape
  <1>5. PICK u : u = rbt'
    OBVIOUS
  <1>6. u \in Tree /\ SameLinks(rbt, u) /\ \A z \in Slots : u.color[z] = IF z \in {n} THEN BLACK ELSE rbt.color[z]
    BY <1>0, <1>1, <1>5, PaintFacts
  <1>7. Repainted(rbt, u) /\ \A z \in Slots : u.color[z] = IF z = n THEN BLACK ELSE rbt.color[z]
    <2>1. NIL \in Slots
      BY DEF Slots
    <2> QED  BY <1>4, <1>6, <2>1 DEF Repainted
  <1>8. Balanced(u, L, NULL, NULL, bh)
    <2> DEFINE t == rbt
    <2>1. t \in Tree /\ Repainted(t, u) /\ Shape(t, L, D) /\ Level(t, L, NULL, bh) /\ Apart(t, L, NULL, y)
          /\ n = t.root /\ t.color[t.parent[y]] = BLACK
          /\ \A z \in Slots : u.color[z] = IF z = n THEN BLACK ELSE t.color[z]
      BY <1>0, <1>1, <1>4, <1>7 DEF Par
    <2> HIDE DEF t
    <2>2. PICK x : x = NULL
      OBVIOUS
    <2>3. n \in Slots /\ NULL \notin Slots
      BY <1>4 DEF Slots
    <2>4. Lightened(t, u, L, D, bh, x, y, n)
      BY <1>2, <2>1, <2>2, <2>3 DEF Lightened
    <2> QED  BY <2>2, <2>4, LastPaint
  <1>9. Shape(u, L, D) /\ Sorted(u, L, D, key)
    BY <1>4, <1>7, RepaintedShape, RepaintedSorted
  <1>10. \E E, h : Sound(u, L, key, E, h, NULL, NULL)
    BY <1>8, <1>9 DEF Sound, Balanced
  <1>11. Typed' /\ Owned' /\ Linked' = L
    <2>1. rbt' \in Tree /\ nd' \in Slots
      BY <1>0, <1>5, <1>7 DEF Repainted, Slots
    <2> QED  BY <1>0, <1>1, <2>1, TurnFacts
  <1>12. Phased'
    BY <1>0, <1>11 DEF Phased
  <1>13. Counted'
    BY <1>0, <1>1, <1>2, <1>11 DEF Counted, Taken
  <1>14. Standing' /\ Sweeping'
    <2>1. Charge' = NULL /\ Loose' = NULL /\ key' = key
      BY <1>0 DEF Charge, Loose
    <2> QED  BY <1>0, <1>5, <1>10, <1>11, <2>1 DEF Standing, Sweeping
  <1> QED  BY <1>11, <1>12, <1>13, <1>14 DEF RbtInv
(* The node taken out has at most one child.                               *)
LEMMA RemoveCuts ==
  ASSUME Typed, Owned, NEW n \in Linked, NEW D,
         Shape(rbt, Linked, D), Sorted(rbt, Linked, D, key),
         NEW m, m = IF NIL \in {rbt.left[n], rbt.right[n]} THEN n ELSE Edge(rbt.right[n], "left"),
         NEW c, c = IF rbt.left[m] /= NIL THEN rbt.left[m] ELSE rbt.right[m]
  PROVE  Stands(rbt, Linked, D, key, n, m) /\ \E s : Cut(rbt, Linked, m, c, s)
  <1>1. Linked \in SUBSET Nodes /\ \A z \in Linked : key[z] \in Int
    BY LinkedFacts
  <1>2. "left" \in Sides /\ "right" \in Sides /\ Other("left") = "right" /\ Other("right") = "left"
    BY DEF Sides, Other
  <1>3. CASE NIL \in {rbt.left[n], rbt.right[n]}
    <2>1. m = n
      BY <1>3
    <2>2. Stands(rbt, Linked, D, key, n, m)
      BY <2>1 DEF Stands
    <2>3. CASE rbt.left[n] = NIL
      <3>1. Cut(rbt, Linked, m, c, "left")
        BY <1>2, <2>1, <2>3 DEF Cut
      <3> QED  BY <2>2, <3>1
    <2>4. CASE rbt.left[n] /= NIL
      <3>1. Cut(rbt, Linked, m, c, "right")
        BY <1>2, <1>3, <2>1, <2>4 DEF Cut
      <3> QED  BY <2>2, <3>1
    <2> QED  BY <2>3, <2>4
  <1>4. CASE NIL \notin {rbt.left[n], rbt.right[n]}
    <2>1. PICK x : x = rbt.right[n]
      OBVIOUS
    <2>2. x \in Linked /\ D[x] \in SUBSET Linked
      BY <1>1, <1>2, <1>4, <2>1 DEF Shape, Fork, Slots
    <2>3. Extreme(D, x, "left", m)
      BY <1>1, <1>2, <1>4, <2>1, <2>2, EdgeFacts
    <2>4. m \in D[x] /\ rbt.left[m] = NIL /\ \A a \in D[x] : key[m] <= key[a]
      BY <2>3 DEF Extreme, Before
    <2>5. Stands(rbt, Linked, D, key, n, m)
      BY <2>1, <2>4 DEF Stands
    <2>6. Cut(rbt, Linked, m, c, "left")
      BY <1>2, <2>2, <2>4 DEF Cut
    <2> QED  BY <2>5, <2>6
  <1> QED  BY <1>3, <1>4

LEMMA RemoveInv ==
  ASSUME RbtInv, NEW n \in Nodes, NEW d \in BOOLEAN, RnodeRemove(n, d)
  PROVE  RbtInv'
  <1> USE RbtAssumption
  <1>0. /\ Typed /\ Owned /\ Phased /\ Counted /\ pc = "idle" /\ live /\ n \in Linked /\ rbt \in Tree
        /\ out = NIL /\ UNCHANGED <<live, size, cleaning, heap, held>> /\ saved' = key[n] /\ drop' = d
    BY DEF RbtInv, RnodeRemove, Typed, Owned, Taken
  <1>1. PICK L, t, k : L = Linked /\ t = rbt /\ k = key
    OBVIOUS
  <1>2. PICK m, c : /\ m = IF NIL \in {rbt.left[n], rbt.right[n]} THEN n ELSE Edge(rbt.right[n], "left")
                    /\ c = IF rbt.left[m] /= NIL THEN rbt.left[m] ELSE rbt.right[m]
    OBVIOUS
  <1>3. PICK r, j : r = rbt' /\ j = key'
    OBVIOUS
  <1>4. /\ r = Replace([t EXCEPT !.parent[c] = t.parent[m]], m, c) /\ j = [k EXCEPT ![n] = k[m]]
        /\ out' = m /\ nd' = c /\ pc' = IF t.color[m] = BLACK THEN "delete" ELSE "unlink"
    BY <1>1, <1>2, <1>3 DEF RnodeRemove, MoveKey
  <1>5. /\ L \in SUBSET Nodes /\ NIL \notin L /\ L \subseteq Slots /\ NULL \notin L /\ IsFiniteSet(L)
        /\ Cardinality(L) \in Nat
        /\ \A z \in L : k[z] \in Int /\ k[z] \in Keys
        /\ t \in Tree /\ k \in [Nodes -> Keys \union {NULL}] /\ n \in L
    BY <1>0, <1>1, LinkedFacts DEF Slots, Typed
  <1>6. PICK D, bh : Sound(t, L, k, D, bh, NULL, NULL)
    BY <1>0, <1>1 DEF RbtInv, Standing, Charge, Loose
  <1>7. Shape(t, L, D) /\ Sorted(t, L, D, k)
    BY <1>6 DEF Sound
  <1>8. Stands(t, L, D, k, n, m) /\ \E s : Cut(t, L, m, c, s)
    BY <1>0, <1>1, <1>2, <1>5, <1>7, RemoveCuts
  <1>9. PICK s : Cut(t, L, m, c, s)
    BY <1>8
  <1>10. Cutting(t, L, D, m, c)
    BY <1>5, <1>7, <1>9, CutFacts
  <1>11. m \in L /\ c \in Slots
    BY <1>9, <1>10 DEF Cut, Cutting
  <1>12. Spliced(t, r, L, m, c)
    BY <1>4, <1>5, <1>7, <1>9, SpliceFacts
  <1>13. \A z \in L : j[z] = IF z = n THEN k[m] ELSE k[z]
    BY <1>4, <1>5
  <1>14. Lacking(t, r, L, D, j, bh, m, c)
    BY <1>5, <1>6, <1>8, <1>9, <1>12, <1>13, SplicedSound
  <1>15. Linked' = L \ {m}
    <2>1. L = heap \ (held \union lost)
      BY <1>0, <1>1 DEF Linked, Typed
    <2>2. Linked' = heap \ (held \union lost \union {m})
      BY <1>0, <1>4 DEF Linked, cleaning
    <2> QED  BY <2>1, <2>2
  <1>16. Typed'
    <2>1. r \in Tree
      BY <1>12 DEF Spliced
    <2>2. j \in [Nodes -> Keys \union {NULL}]
      BY <1>4, <1>5, <1>11
    <2> QED  BY <1>0, <1>3, <1>4, <1>5, <1>11, <2>1, <2>2 DEF Typed, cleaning
  <1>17. Taken' /\ pc' \in {"delete", "unlink"}
    BY <1>4 DEF Taken
  <1>18. Owned'
    <2>1. \A z \in heap : j[z] \in Keys
      BY <1>0, <1>4, <1>5, <1>11, <1>1 DEF Owned, Typed
    <2>2. m \in heap \ (held \union lost) /\ k[n] \in Keys
      BY <1>1, <1>5, <1>11 DEF Linked
    <2> QED  BY <1>0, <1>1, <1>3, <1>4, <1>17, <2>1, <2>2 DEF Owned, cleaning
  <1>19. Phased'
    <2>1. pc' = "delete" => Charged(r, L \ {m}, c)
      BY <1>4, <1>14 DEF Lacking
    <2> QED  BY <1>0, <1>3, <1>4, <1>15, <1>17, <2>1 DEF Phased
  <1>20. Counted'
    <2>1. Cardinality(L \ {m}) = Cardinality(L) - 1
      BY <1>5, <1>11, FS_RemoveElement
    <2>2. size = Cardinality(L)
      BY <1>0, <1>1, <1>5 DEF Counted, Taken
    <2> QED  BY <1>0, <1>5, <1>15, <1>17, <2>1, <2>2 DEF Counted
  <1>21. Standing' /\ Sweeping'
    <2>1. CASE t.color[m] = BLACK
      <3>1. Sound(r, L \ {m}, j, Less(D, m), bh, c, NULL)
        BY <1>14, <2>1 DEF Lacking
      <3>2. Charge' = c /\ Loose' = NULL
        BY <1>4, <2>1 DEF Charge, Loose
      <3> QED  BY <1>3, <1>15, <1>17, <3>1, <3>2 DEF Standing, Sweeping
    <2>2. CASE t.color[m] /= BLACK
      <3>1. Sound(r, L \ {m}, j, Less(D, m), bh, NULL, NULL)
        BY <1>14, <2>2 DEF Lacking
      <3>2. Charge' = NULL /\ Loose' = NULL
        BY <1>4, <2>2 DEF Charge, Loose
      <3> QED  BY <1>3, <1>15, <1>17, <3>1, <3>2 DEF Standing, Sweeping
    <2> QED  BY <2>1, <2>2
  <1> QED  BY <1>16, <1>18, <1>19, <1>20, <1>21 DEF RbtInv

LEMMA FindRemoveInv ==
  ASSUME RbtInv, NEW k \in Keys, NEW d \in BOOLEAN, FindRemove(k, d)
  PROVE  RbtInv'
  <1>1. RnodeRemove(RnodeFind(k), d)
    BY DEF FindRemove
  <1>2. RnodeFind(k) \in Nodes
    <2>1. RnodeFind(k) \in Linked
      BY <1>1 DEF RnodeRemove
    <2> QED  BY <2>1, LinkedFacts DEF RbtInv
  <1> QED  BY <1>1, <1>2, RemoveInv
(* What the turns of smp_delete_fixup have to leave behind.                *)
Owed(L, k, y) ==
  /\ rbt' \in Tree /\ nd' = y /\ Charged(rbt', L, y)
  /\ \E E, h : Sound(rbt', L, k, E, h, y, NULL)

LEMMA OwedInv ==
  ASSUME RbtInv, pc = "delete", pc' = "delete",
         UNCHANGED <<live, key, removing, cleaning, heap, held, size>>,
         NEW y, Owed(Linked, key, y)
  PROVE  RbtInv'
  <1>0. Typed /\ Owned /\ Phased /\ Counted
    BY DEF RbtInv
  <1>1. PICK L : L = Linked
    OBVIOUS
  <1>2. L \in SUBSET Nodes /\ L \union {NIL} \subseteq Slots
    BY <1>0, <1>1, LinkedFacts DEF Slots
  <1>3. nd' = y /\ y \in Slots /\ Charged(rbt', L, y) /\ rbt' \in Tree
        /\ \E E, h : Sound(rbt', L, key, E, h, y, NULL)
    BY <1>1, <1>2 DEF Owed, Charged
  <1>4. Typed' /\ Owned' /\ Linked' = L
    BY <1>0, <1>1, <1>3, TurnFacts
  <1>5. Phased'
    BY <1>0, <1>3, <1>4 DEF Phased
  <1>6. Counted'
    BY <1>0, <1>1, <1>4 DEF Counted, Taken
  <1>7. Standing' /\ Sweeping'
    <2>1. Charge' = y /\ Loose' = NULL /\ key' = key
      BY <1>3 DEF Charge, Loose
    <2> QED  BY <1>3, <1>4, <2>1 DEF Standing, Sweeping
  <1> QED  BY <1>4, <1>5, <1>6, <1>7 DEF RbtInv

(* Once its sibling is black, nd and it are below a node.                  *)
LEMMA SiblingRelieved ==
  ASSUME Typed, Owned, Phased, DeleteTurn,
         NEW D, NEW bh, Sound(rbt, Linked, key, D, bh, nd, NULL)
  PROVE  Relieved(BlackSibling, Linked, key, bh, nd, Par, NdSide, Sibling(BlackSibling))
  <1> USE RbtAssumption
  <1>1. PICK L, t, x, p, s, w, k : /\ L = Linked /\ t = rbt /\ x = nd /\ p = Par /\ s = NdSide
                                   /\ w = Sibling(rbt) /\ k = key
    OBVIOUS
  <1>2. /\ L \in SUBSET Nodes /\ \A z \in L : k[z] \in Int
        /\ t \in Tree /\ Sound(t, L, k, D, bh, x, NULL) /\ t.color[x] = BLACK /\ x /= t.root
        /\ Charged(t, L, x) /\ p = t.parent[x] /\ w = t[Other(s)][p]
    BY <1>1, LinkedFacts DEF Typed, Phased, DeleteTurn, Par, Sibling
  <1>3. p \in L /\ s \in Sides /\ x = t[s][p] /\ w /= x
    <2>1. PICK e \in Sides : t[e][p] = x /\ t[Other(e)][p] /= x
      BY <1>2 DEF Charged
    <2>2. s = IF x = t.left[p] THEN "left" ELSE "right"
      BY <1>1, <1>2 DEF NdSide, SideOf
    <2>3. s = e
      BY <2>1, <2>2 DEF Sides, Other
    <2> QED  BY <1>2, <2>1, <2>3 DEF Charged
  <1>4. Shape(t, L, D) /\ Level(t, L, x, bh)
    BY <1>2 DEF Sound
  <1>5. Debtor(t, L, x, p, s, w)
    BY <1>2, <1>3, <1>4, SiblingThere
  <1>6. CASE t.color[w] = BLACK
    <2>1. BlackSibling = t
      BY <1>1, <1>6 DEF BlackSibling
    <2>2. Relieved(t, L, k, bh, x, p, s, w)
      BY <1>2, <1>5, <1>6 DEF Relieved
    <2> QED  BY <1>1, <2>1, <2>2
  <1>7. CASE t.color[w] /= BLACK
    <2>1. PICK q : q = Rotate(Paint(Paint(t, {w}, BLACK), {p}, RED), p, s)
      OBVIOUS
    <2>2. BlackSibling = q
      BY <1>1, <1>7, <2>1 DEF BlackSibling
    <2>3. t.color[w] = RED
      <3>1. w \in Slots
        BY <1>2, <1>5 DEF Debtor, Slots
      <3> QED  BY <1>2, <1>7, <3>1, TreeFacts
    <2>4. Relieved(q, L, k, bh, x, p, s, q[Other(s)][p])
      BY <1>2, <1>5, <2>1, <2>3, RedSiblingTurn
    <2>5. q.parent[x] = p
      BY <2>4 DEF Relieved, Debtor
    <2>6. Sibling(q) = q[Other(s)][p]
      BY <1>1, <2>5 DEF Sibling
    <2> QED  BY <1>1, <2>2, <2>4, <2>6
  <1> QED  BY <1>6, <1>7

LEMMA DeleteRecolourInv == RbtInv /\ DeleteRecolour => RbtInv'
  <1> USE RbtAssumption
  <1> SUFFICES ASSUME RbtInv, DeleteRecolour PROVE RbtInv'
    OBVIOUS
  <1>0. /\ Typed /\ Owned /\ Phased /\ DeleteTurn /\ pc = "delete" /\ pc' = "delete"
        /\ BlackNephews(BlackSibling) /\ rbt' = Paint(BlackSibling, {Sibling(BlackSibling)}, RED)
        /\ nd' = BlackSibling.parent[nd]
        /\ UNCHANGED <<live, key, removing, cleaning, heap, held, size>>
    BY DEF RbtInv, DeleteRecolour, DeleteTurn
  <1>1. PICK L, t, x, p, s, w, k : /\ L = Linked /\ t = BlackSibling /\ x = nd /\ p = Par /\ s = NdSide
                                   /\ w = Sibling(BlackSibling) /\ k = key
    OBVIOUS
  <1>2. L \in SUBSET Nodes /\ L \union {NIL} \subseteq Slots /\ NIL \notin L
    BY <1>0, <1>1, LinkedFacts DEF Slots
  <1>3. PICK A, bh : Sound(rbt, L, k, A, bh, x, NULL)
    BY <1>0, <1>1 DEF RbtInv, Standing, Charge, Loose
  <1>4. Relieved(t, L, k, bh, x, p, s, w)
    BY <1>0, <1>1, <1>3, SiblingRelieved
  <1>5. PICK D : Sound(t, L, k, D, bh, x, NULL)
    BY <1>4 DEF Relieved
  <1>6. /\ t \in Tree /\ p \in L /\ s \in Sides /\ t.parent[x] = p /\ x = t[s][p] /\ w = t[Other(s)][p]
        /\ x \in Slots /\ x /= p /\ w /= x /\ w \in L /\ w /= p /\ t.color[x] = BLACK /\ t.color[w] = BLACK
    BY <1>4 DEF Relieved, Debtor
  <1>7. Shape(t, L, D) /\ Sorted(t, L, D, k) /\ Level(t, L, x, bh) /\ Apart(t, L, x, NULL) /\ t.color[NIL] = BLACK
    BY <1>5 DEF Sound, Shape
  <1>8. PICK u : u = rbt'
    OBVIOUS
  <1>9. u \in Tree /\ SameLinks(t, u) /\ \A z \in Slots : u.color[z] = IF z \in {w} THEN RED ELSE t.color[z]
    <2>1. u = Paint(t, {w}, RED)
      BY <1>0, <1>1, <1>8
    <2> QED  BY <1>6, <2>1, PaintFacts
  <1>10. Repainted(t, u) /\ \A z \in Slots : u.color[z] = IF z = w THEN RED ELSE t.color[z]
    <2>1. NIL \in Slots /\ NIL /= w
      BY <1>2, <1>6
    <2> QED  BY <1>7, <1>9, <2>1 DEF Repainted
  <1>11. \A e \in Sides : t.color[t[e][w]] = BLACK
    BY <1>0, <1>1 DEF BlackNephews, Sides
  <1>12. Balanced(u, L, p, NULL, [bh EXCEPT ![p] = bh[p] - 1])
    <2>1. w /= NIL /\ x /= w
      BY <1>2, <1>6
    <2>2. Owing(t, u, L, D, bh, x, w, p, s)
      BY <1>2, <1>6, <1>7, <1>10, <1>11, <2>1 DEF Owing
    <2> QED  BY <2>2, DebtUp
  <1>13. Shape(u, L, D) /\ Sorted(u, L, D, k)
    BY <1>7, <1>10, RepaintedShape, RepaintedSorted
  <1>14. Charged(u, L, p)
    <2>1. Hangs(u, L, p)
      BY <1>2, <1>6, <1>9, <1>13, ShapeHangs
    <2>2. CASE p = u.root
      BY <1>6, <2>2 DEF Charged
    <2>3. CASE p /= u.root
      <3>1. PICK e \in Sides : u.parent[p] \in L /\ \A z \in L \union {NIL}, s1 \in Sides :
                                 u[s1][z] = p <=> z = u.parent[p] /\ s1 = e
        BY <2>1, <2>3 DEF Hangs
      <3>2. u[e][u.parent[p]] = p /\ u[Other(e)][u.parent[p]] /= p
        BY <3>1, OtherSide
      <3> QED  BY <1>6, <3>1, <3>2 DEF Charged
    <2> QED  BY <2>2, <2>3
  <1>15. Sound(u, L, k, D, [bh EXCEPT ![p] = bh[p] - 1], p, NULL)
    BY <1>12, <1>13 DEF Sound, Balanced
  <1>16. Owed(L, k, p)
    BY <1>0, <1>1, <1>6, <1>8, <1>9, <1>14, <1>15 DEF Owed
  <1> QED  BY <1>0, <1>1, <1>16, OwedInv

(* The far nephew is red, after a turn if it has to be.                    *)
LEMMA NephewReadied ==
  ASSUME NEW L \in SUBSET Nodes, NEW t, NEW k, NEW bh, \A z \in L : k[z] \in Int,
         NEW p, NEW s, s = NdSide, NEW w, w = Sibling(t), Relieved(t, L, k, bh, nd, p, s, w),
         ~BlackNephews(t)
  PROVE  \E v : /\ Relieved(RedNephew(t), L, k, bh, nd, p, s, v)
                /\ RedNephew(t).color[RedNephew(t)[Other(s)][v]] = RED
  <1>1. PICK x : x = nd
    OBVIOUS
  <1>2. PICK D : Sound(t, L, k, D, bh, x, NULL)
    BY <1>1 DEF Relieved
  <1>3. t \in Tree /\ Debtor(t, L, x, p, s, w) /\ t.color[w] = BLACK /\ w \in L /\ s \in Sides
    BY <1>1 DEF Relieved, Debtor
  <1>4. \A e \in Sides : t.color[t[e][w]] \in {RED, BLACK}
    <2>1. Shape(t, L, D)
      BY <1>2 DEF Sound
    <2>2. \A e \in Sides : t[e][w] \in Slots
      BY <1>3, <2>1 DEF Shape, Fork, Slots
    <2> QED  BY <1>3, <2>2, TreeFacts
  <1>5. CASE t.color[t[Other(s)][w]] = RED
    <2>1. RedNephew(t) = t
      BY <1>5 DEF RedNephew
    <2> QED  BY <1>1, <1>5, <2>1
  <1>6. CASE t.color[t[Other(s)][w]] /= RED
    <2>1. PICK n : n = t[s][w]
      OBVIOUS
    <2>2. t.color[t[Other(s)][w]] = BLACK
      BY <1>3, <1>4, <1>6, OtherSide
    <2>3. t.color[n] = RED
      <3>1. \E e \in Sides : t.color[t[e][w]] /= BLACK
        BY DEF BlackNephews, Sides
      <3>2. t.color[t[s][w]] /= BLACK
        BY <1>3, <2>2, <3>1, OtherSide
      <3> QED  BY <1>3, <1>4, <2>1, <3>2
    <2>4. PICK q : q = Rotate(Paint(Paint(t, {n}, BLACK), {w}, RED), w, Other(s))
      OBVIOUS
    <2>5. Readied(q, L, k, bh, x, p, s, n, w)
      BY <1>2, <1>3, <2>1, <2>2, <2>3, <2>4, RedNephewTurn
    <2>6. RedNephew(t) = q
      BY <1>6, <2>1, <2>4 DEF RedNephew
    <2> QED  BY <1>1, <2>5, <2>6 DEF Readied
  <1> QED  BY <1>5, <1>6

LEMMA DeleteRotateInv == RbtInv /\ DeleteRotate => RbtInv'
  <1> USE RbtAssumption
  <1> SUFFICES ASSUME RbtInv, DeleteRotate PROVE RbtInv'
    OBVIOUS
  <1>0. /\ Typed /\ Owned /\ Phased /\ DeleteTurn /\ pc = "delete" /\ pc' = "delete"
        /\ ~BlackNephews(BlackSibling)
        /\ UNCHANGED <<live, key, removing, cleaning, heap, held, size>>
    BY DEF RbtInv, DeleteRotate, DeleteTurn
  <1>1. PICK L, b, x, p, s, k : /\ L = Linked /\ b = BlackSibling /\ x = nd /\ p = Par /\ s = NdSide
                                /\ k = key
    OBVIOUS
  <1>2. L \in SUBSET Nodes /\ \A z \in L : k[z] \in Int
    BY <1>0, <1>1, LinkedFacts
  <1>3. PICK A, bh : Sound(rbt, L, k, A, bh, x, NULL)
    BY <1>0, <1>1 DEF RbtInv, Standing, Charge, Loose
  <1>4. Relieved(b, L, k, bh, nd, p, s, Sibling(b))
    BY <1>0, <1>1, <1>3, SiblingRelieved
  <1>5. PICK t : t = RedNephew(b)
    OBVIOUS
  <1>6. PICK w : Relieved(t, L, k, bh, x, p, s, w) /\ t.color[t[Other(s)][w]] = RED
    BY <1>0, <1>1, <1>2, <1>4, <1>5, NephewReadied
  <1>7. PICK D : Sound(t, L, k, D, bh, x, NULL)
    BY <1>6 DEF Relieved
  <1>8. t \in Tree /\ Debtor(t, L, x, p, s, w) /\ t.color[w] = BLACK
    BY <1>6 DEF Relieved
  <1>9. t.parent[x] = p /\ w = t[Other(s)][p] /\ p \in Slots /\ w \in Slots
    BY <1>2, <1>8 DEF Debtor, Slots
  <1>10. PICK f : f = t[Other(s)][w]
    OBVIOUS
  <1>11. Sibling(t) = w
    BY <1>1, <1>9 DEF Sibling
  <1>12. PICK v : v = [t EXCEPT !.color[w] = t.color[p]]
    OBVIOUS
  <1>13. ParentColor(t) = v
    BY <1>1, <1>9, <1>11, <1>12 DEF ParentColor
  <1>14. v \in Tree /\ SameLinks(t, v) /\ \A z \in Slots : v.color[z] = IF z = w THEN t.color[p] ELSE t.color[z]
    BY <1>8, <1>9, <1>12 DEF Tree, SameLinks, Sides
  <1>15. PICK q : q = Rotate(Paint(v, {p, f}, BLACK), p, s)
    OBVIOUS
  <1>16. Paid(q, L, k)
    BY <1>2, <1>6, <1>7, <1>8, <1>10, <1>14, <1>15, LastTurn
  <1>17. rbt' = q /\ nd' = q.root
    BY <1>1, <1>5, <1>9, <1>10, <1>11, <1>13, <1>15 DEF DeleteRotate
  <1>18. Owed(L, k, q.root)
    BY <1>16, <1>17 DEF Owed, Paid, Charged
  <1> QED  BY <1>0, <1>1, <1>18, OwedInv

LEMMA DeleteEndInv == RbtInv /\ DeleteEnd => RbtInv'
  <1> USE RbtAssumption
  <1> SUFFICES ASSUME RbtInv, DeleteEnd PROVE RbtInv'
    OBVIOUS
  <1>0. /\ Typed /\ Owned /\ Phased /\ Counted /\ pc = "delete" /\ pc' = "unlink" /\ nd' = nd
        /\ rbt' = Paint(rbt, {nd}, BLACK) /\ (nd = rbt.root \/ rbt.color[nd] /= BLACK)
        /\ rbt \in Tree /\ UNCHANGED <<live, key, removing, cleaning, heap, held, size>>
    BY DEF RbtInv, DeleteEnd, DeleteTurn, Typed
  <1>1. PICK L, t, n, k : L = Linked /\ t = rbt /\ n = nd /\ k = key
    OBVIOUS
  <1>2. L \in SUBSET Nodes /\ L \union {NIL} \subseteq Slots /\ Cardinality(L) \in Nat /\ t \in Tree
    BY <1>0, <1>1, LinkedFacts DEF Slots
  <1>3. PICK D, bh : Sound(t, L, k, D, bh, n, NULL)
    BY <1>0, <1>1 DEF RbtInv, Standing, Charge, Loose
  <1>4. Shape(t, L, D) /\ Sorted(t, L, D, k) /\ Level(t, L, n, bh) /\ Apart(t, L, n, NULL)
        /\ t.color[NIL] = BLACK
    BY <1>3 DEF Sound, Shape
  <1>5. n \in L \union {NIL} /\ n \in Slots
    BY <1>0, <1>1, <1>2 DEF Phased, Charged
  <1>6. (n = t.root \/ t.color[n] = RED) /\ (n /= t.root => n \in L)
    <2>1. t.color[n] \in {RED, BLACK}
      BY <1>2, <1>5, TreeFacts
    <2> QED  BY <1>0, <1>1, <1>4, <1>5, <2>1
  <1>7. PICK u : u = Paint(t, {n}, BLACK)
    OBVIOUS
  <1>8. u \in Tree /\ SameLinks(t, u) /\ \A z \in Slots : u.color[z] = IF z \in {n} THEN BLACK ELSE t.color[z]
    BY <1>2, <1>7, PaintFacts
  <1>9. Repainted(t, u) /\ \A z \in Slots : u.color[z] = IF z = n THEN BLACK ELSE t.color[z]
    <2>1. NIL \in Slots
      BY DEF Slots
    <2> QED  BY <1>4, <1>8, <2>1 DEF Repainted
  <1>10. Balanced(u, L, NULL, NULL, bh)
    <2>1. PICK x, y : x = n /\ y = NULL
      OBVIOUS
    <2>2. /\ Apart(t, L, x, y) /\ Level(t, L, x, bh)
          /\ x = n /\ y = NULL /\ (n = t.root \/ t.color[n] = RED) /\ (x = n /\ n /= t.root => n \in L)
      BY <1>4, <1>6, <2>1
    <2>3. Lightened(t, u, L, D, bh, x, y, n)
      BY <1>2, <1>4, <1>5, <1>9, <2>2 DEF Lightened
    <2> QED  BY <2>1, <2>3, LastPaint
  <1>11. Shape(u, L, D) /\ Sorted(u, L, D, k)
    BY <1>4, <1>9, RepaintedShape, RepaintedSorted
  <1>12. Sound(u, L, k, D, bh, NULL, NULL)
    BY <1>10, <1>11 DEF Sound, Balanced
  <1>13. rbt' = u
    BY <1>0, <1>1, <1>7
  <1>14. Typed' /\ Owned' /\ Linked' = L
    <2>1. rbt' \in Tree /\ nd' \in Slots
      BY <1>0, <1>1, <1>5, <1>8, <1>13
    <2> QED  BY <1>0, <1>1, <2>1, TurnFacts
  <1>15. Phased'
    BY <1>0, <1>14 DEF Phased
  <1>16. Counted'
    BY <1>0, <1>1, <1>2, <1>14 DEF Counted, Taken
  <1>17. Standing' /\ Sweeping'
    <2>1. Charge' = NULL /\ Loose' = NULL /\ key' = k
      BY <1>0, <1>1 DEF Charge, Loose
    <2> QED  BY <1>0, <1>12, <1>13, <1>14, <2>1 DEF Standing, Sweeping
  <1> QED  BY <1>14, <1>15, <1>16, <1>17 DEF RbtInv
LEMMA CleanBeginInv == RbtInv /\ CleanBegin => RbtInv'
  <1> USE RbtAssumption
  <1> SUFFICES ASSUME RbtInv, CleanBegin PROVE RbtInv'
    OBVIOUS
  <1>0. /\ Typed /\ Owned /\ Phased /\ Counted /\ pc = "idle" /\ live /\ pc' = "clean" /\ idle' = 0
        /\ UNCHANGED <<live, rbt, key, size, nd, removing, heap, held, lost>>
    BY DEF RbtInv, CleanBegin
  <1>1. PICK L, t, b : L = Linked /\ t = rbt /\ b = busy'
    OBVIOUS
  <1>2. L \in SUBSET Nodes
    BY <1>0, <1>1, LinkedFacts
  <1>3. PICK D, bh : Sound(t, L, key, D, bh, NULL, NULL)
    BY <1>0, <1>1 DEF RbtInv, Standing, Charge, Loose
  <1>4. Shape(t, L, D) /\ D[NIL] = {} /\ D[t.root] = L /\ t.root \in L \union {NIL}
    BY <1>3 DEF Sound, Shape
  <1>5. b \in Seq(Nodes) /\ Swept(t, L, D, b)
    <2>1. CASE b = <<>> /\ (t.root = NIL \/ QnodeFails)
      <3>1. PICK e : e = <<>>
        OBVIOUS
      <3>2. e \in Seq(Nodes) /\ Len(e) = 0
        BY <3>1, EmptySeq
      <3>3. ~QnodeFails => L = {}
        BY <1>4, <2>1
      <3>4. Swept(t, L, D, e)
        BY <1>4, <3>2, <3>3 DEF Swept
      <3> QED  BY <2>1, <3>1, <3>2, <3>4
    <2>2. CASE b = <<t.root>> /\ t.root /= NIL
      <3>1. Patch(t, L, D, t.root)
        BY <1>2, <1>4, <2>2, PatchAll
      <3>2. b \in Seq(Nodes) /\ Len(b) = 1 /\ b[1] = t.root
        BY <1>2, <1>4, <2>2
      <3> QED  BY <1>4, <3>1, <3>2 DEF Swept
    <2> QED  BY <1>1, <2>1, <2>2 DEF CleanBegin
  <1>6. Linked' = L
    BY <1>0, <1>1 DEF Linked, removing
  <1>7. Typed'
    BY <1>0, <1>1, <1>5 DEF Typed, removing
  <1>8. Owned' /\ Phased' /\ Counted'
    BY <1>0, <1>1, <1>6 DEF Owned, Phased, Counted, Taken, removing
  <1>9. Standing' /\ Sweeping'
    BY <1>0, <1>1, <1>5, <1>6 DEF Standing, Sweeping
  <1> QED  BY <1>7, <1>8, <1>9 DEF RbtInv

LEMMA CleanNodeInv == RbtInv /\ CleanNode => RbtInv'
  <1> USE RbtAssumption
  <1> SUFFICES ASSUME RbtInv, CleanNode PROVE RbtInv'
    OBVIOUS
  <1>0. /\ Typed /\ Owned /\ Phased /\ Counted /\ pc = "clean" /\ pc' = "clean" /\ busy /= <<>>
        /\ busy \in Seq(Nodes) /\ size' = size - 1 /\ out = NIL /\ rbt \in Tree /\ live
        /\ key \in [Nodes -> Keys \union {NULL}] /\ heap \in SUBSET Nodes
        /\ UNCHANGED <<live, pc, nd, removing, held, lost>>
    BY DEF RbtInv, CleanNode, Typed, Owned, Taken, Phased
  <1>1. PICK L, t, b, n : L = Linked /\ t = rbt /\ b = busy /\ n = Head(b)
    OBVIOUS
  <1>2. PICK u : u = Freed(t, n)
    OBVIOUS
  <1>3. /\ L \in SUBSET Nodes /\ IsFiniteSet(L) /\ Cardinality(L) \in Nat
        /\ L = heap \ (held \union lost) /\ t \in Tree /\ b \in Seq(Nodes) /\ b /= <<>>
    BY <1>0, <1>1, LinkedFacts DEF Linked
  <1>4. PICK D : Swept(t, L, D, b)
    BY <1>0, <1>1 DEF RbtInv, Sweeping
  <1>5. n \in Nodes /\ n \in Slots /\ Patch(t, L, D, n)
    <2>1. Len(b) \in Nat /\ Len(b) > 0 /\ n = b[1] /\ b[1] \in Nodes
      BY <1>1, <1>3
    <2>2. 1 \in 1 .. Len(b)
      BY <2>1
    <2> QED  BY <1>4, <2>1, <2>2 DEF Swept, Slots
  <1>6. n \in L /\ \A s \in Sides : t[s][n] \in Slots
    BY <1>5 DEF Patch
  <1>7. /\ u \in Tree /\ u.root = t.root /\ u.color = t.color
        /\ \A z \in Slots \ {n} : u.parent[z] = t.parent[z] /\ \A s \in Sides : u[s][z] = t[s][z]
    BY <1>2, <1>3, <1>5, FreedFacts
  <1>8. PICK kept : Queued(n, kept) /\ busy' = Tail(b) \o Kids(n, kept)
    BY <1>1 DEF CleanNode
  <1>9. PICK q : q = Kids(n, kept)
    OBVIOUS
  <1>10. Picked(t, n, q)
    <2>1. rbt.left[n] \in Slots /\ rbt.right[n] \in Slots
      BY <1>1, <1>6 DEF Sides
    <2> QED  BY <1>1, <1>8, <1>9, <2>1, QueuedPicked
  <1>11. Tail(b) \o q \in Seq(Nodes) /\ Swept(u, L \ {n}, D, Tail(b) \o q)
    <2>1. \A z \in L \ {n}, e \in Sides : u[e][z] = t[e][z]
      BY <1>3, <1>7 DEF Slots
    <2>2. Onward(u, L, D, b, q)
      BY <1>1, <1>3, <1>4, <1>10, <2>1, SweptStep
    <2> QED  BY <1>1, <2>2 DEF Onward
  <1>12. rbt' = u /\ key' = [key EXCEPT ![n] = NULL] /\ heap' = heap \ {n}
    BY <1>1, <1>2 DEF CleanNode, Freed
  <1>13. Linked' = L \ {n}
    <2>1. Linked' = (heap \ {n}) \ (held \union lost \union {NIL})
      BY <1>0, <1>12 DEF Linked, removing
    <2> QED  BY <1>0, <1>3, <2>1
  <1>14. idle' \in Nat
    <2>1. PICK k : k = Len(Kids(n, Slots))
      OBVIOUS
    <2>2. k \in Nat
      <3>1. rbt.left[n] \in Slots /\ rbt.right[n] \in Slots
        BY <1>1, <1>6 DEF Sides
      <3>2. Chosen(n, Slots, Kids(n, Slots))
        BY <3>1, KidsFacts
      <3>3. Kids(n, Slots) \in Seq(Nodes)
        BY <3>2 DEF Chosen
      <3> QED  BY <2>1, <3>3
    <2>3. idle' = (IF idle > k THEN idle - k ELSE 0) + 1
      BY <1>1, <2>1 DEF CleanNode
    <2> QED  BY <1>0, <2>2, <2>3 DEF Typed
  <1>15. Typed'
    <2>1. held \in SUBSET heap' /\ lost \in SUBSET (heap' \union {NIL}) /\ heap' \in SUBSET Nodes
      BY <1>0, <1>3, <1>6, <1>12 DEF Typed
    <2>2. key' \in [Nodes -> Keys \union {NULL}]
      BY <1>0, <1>12
    <2>3. busy' \in Seq(Nodes)
      BY <1>8, <1>9, <1>11
    <2> QED  BY <1>0, <1>7, <1>12, <1>14, <2>1, <2>2, <2>3 DEF Typed, removing
  <1>16. Owned'
    <2>1. \A z \in heap' : key'[z] \in Keys
      BY <1>0, <1>12 DEF Owned
    <2> QED  BY <1>0, <2>1 DEF Owned, Taken, removing
  <1>17. Phased'
    BY <1>0 DEF Phased
  <1>18. Counted'
    <2>1. Cardinality(L \ {n}) = Cardinality(L) - 1
      BY <1>3, <1>6, FS_RemoveElement
    <2>2. size = Cardinality(L)
      BY <1>0, <1>1, <1>3 DEF Counted, Taken
    <2> QED  BY <1>0, <1>3, <1>13, <2>1, <2>2 DEF Counted, Taken
  <1>19. Standing' /\ Sweeping'
    BY <1>0, <1>8, <1>9, <1>11, <1>12, <1>13 DEF Standing, Sweeping
  <1> QED  BY <1>15, <1>16, <1>17, <1>18, <1>19 DEF RbtInv

LEMMA CleanEndInv == RbtInv /\ CleanEnd => RbtInv'
  <1> USE RbtAssumption
  <1> SUFFICES ASSUME RbtInv, CleanEnd PROVE RbtInv'
    OBVIOUS
  <1>0. /\ Typed /\ Owned /\ Phased /\ pc = "clean" /\ pc' = "idle" /\ live' = FALSE /\ rbt' = NoTree
        /\ size' = 0 /\ idle' = 0 /\ lost' \in SUBSET (heap \union {NIL}) /\ heap \ held \subseteq lost'
        /\ lost' \intersect held = {}
        /\ UNCHANGED <<key, nd, removing, busy, heap, held>>
    <2>1. NIL \notin heap
      BY RbtAssumption DEF RbtInv, Typed
    <2> QED  BY <2>1 DEF RbtInv, CleanEnd, Typed, Owned
  <1>1. Linked' = {} /\ Charge' = NULL /\ Loose' = NULL
    <2>1. Linked' = heap \ (held \union lost' \union {out})
      BY <1>0 DEF Linked, removing
    <2> QED  BY <1>0, <2>1 DEF Charge, Loose
  <1>2. Typed'
    <2>1. NoTree \in Tree
      BY DEF NoTree, Tree, Slots
    <2> QED  BY <1>0, <2>1 DEF Typed, removing
  <1>3. Owned' /\ Phased'
    BY <1>0, <1>1 DEF Owned, Phased, Taken, removing
  <1>4. Counted'
    <2>1. Cardinality({}) = 0
      BY FS_EmptySet
    <2> QED  BY <1>0, <1>1, <2>1 DEF Counted, Taken
  <1>5. \E D, bh : Sound(NoTree, {}, key', D, bh, NULL, NULL)
    BY BareSound
  <1>6. Standing' /\ Sweeping'
    BY <1>0, <1>1, <1>5 DEF Standing, Sweeping
  <1> QED  BY <1>2, <1>3, <1>4, <1>6 DEF RbtInv

LEMMA StutterInv == RbtInv /\ UNCHANGED vars => RbtInv'
  <1> SUFFICES ASSUME RbtInv, UNCHANGED vars PROVE RbtInv'
    OBVIOUS
  <1> USE DEF vars, cleaning, removing
  <1>1. Linked' = Linked /\ Charge' = Charge /\ Loose' = Loose /\ (Taken' <=> Taken)
    BY DEF Linked, Charge, Loose, Taken
  <1>2. Typed' /\ Owned' /\ Phased' /\ Counted'
    BY <1>1 DEF RbtInv, Typed, Owned, Phased, Counted
  <1>3. Standing' /\ Sweeping'
    BY <1>1 DEF RbtInv, Standing, Sweeping
  <1> QED  BY <1>2, <1>3 DEF RbtInv

(* The inductive invariant of smp_rbt.c, in the middle of a call too: the  *)
(* tree, its order, colors and black heights, and smp_rbt_destory's queues.*)
THEOREM RbtInvariant == Spec => []RbtInv
  <1>1. RbtInv /\ [Next]_vars => RbtInv'
    <2> SUFFICES ASSUME RbtInv, [Next]_vars PROVE RbtInv'
      OBVIOUS
    <2>1. CASE RbtCreate
      BY <2>1, CreateInv
    <2>2. ASSUME NEW n \in Nodes, NEW k \in Keys, RnodeCreate(n, k) PROVE RbtInv'
      BY <2>2, NodeCreateInv
    <2>3. ASSUME NEW n \in Nodes, RnodeDestory(n) PROVE RbtInv'
      BY <2>3, NodeDestoryInv
    <2>4. ASSUME NEW n \in Nodes, RnodeInsert(n) PROVE RbtInv'
      BY <2>4, InsertInv
    <2>5. ASSUME NEW n \in Nodes, NEW d \in BOOLEAN, RnodeRemove(n, d) PROVE RbtInv'
      BY <2>5, RemoveInv
    <2>6. ASSUME NEW k \in Keys, NEW d \in BOOLEAN, FindRemove(k, d) PROVE RbtInv'
      BY <2>6, FindRemoveInv
    <2>7. CASE CleanBegin
      BY <2>7, CleanBeginInv
    <2>8. CASE Step
      <3>1. CASE InsertRecolour
        BY <3>1, RecolourInv
      <3>2. CASE InsertRotate
        BY <3>2, RotateInv
      <3>3. CASE InsertEnd
        BY <3>3, InsertEndInv
      <3>4. CASE DeleteRecolour
        BY <3>4, DeleteRecolourInv
      <3>5. CASE DeleteRotate
        BY <3>5, DeleteRotateInv
      <3>6. CASE DeleteEnd
        BY <3>6, DeleteEndInv
      <3>7. CASE Unlink
        BY <3>7, UnlinkInv
      <3>8. CASE CleanNode
        BY <3>8, CleanNodeInv
      <3>9. CASE CleanEnd
        BY <3>9, CleanEndInv
      <3> QED  BY <2>8, <3>1, <3>2, <3>3, <3>4, <3>5, <3>6, <3>7, <3>8, <3>9 DEF Step
    <2>9. CASE UNCHANGED vars
      BY <2>9, StutterInv
    <2> QED  BY <2>1, <2>2, <2>3, <2>4, <2>5, <2>6, <2>7, <2>8, <2>9 DEF Next
  <1> QED  BY InitInv, <1>1, PTL DEF Spec
(***************************************************************************)
(* What the invariant says of the tree.                                    *)
(***************************************************************************)

(* Every variable has its type; in the middle of a call, too, the size is  *)
(* neither below 0 nor above the number of the nodes.                      *)
THEOREM RbtTyping == Spec => []TypeOK
  <1> USE RbtAssumption
  <1>1. RbtInv => TypeOK
    <2> SUFFICES ASSUME RbtInv PROVE TypeOK
      OBVIOUS
    <2>1. Typed /\ Owned /\ Phased /\ Counted
      BY DEF RbtInv
    <2>2. Linked \in SUBSET Nodes /\ IsFiniteSet(Linked) /\ Cardinality(Linked) \in Nat
      BY <2>1, LinkedFacts
    <2>3. Cardinality(Nodes) \in Nat /\ Cardinality(Linked) <= Cardinality(Nodes)
      BY <2>2, FS_CardinalityType, FS_Subset
    <2>4. size \in 0 .. Cardinality(Nodes)
      <3>1. CASE pc = "insert"
        <4>1. nd \in Linked
          BY <2>1, <3>1 DEF Phased
        <4>2. Cardinality(Linked) /= 0
          BY <2>2, <4>1, FS_EmptySet
        <4>3. size = Cardinality(Linked) - 1
          BY <2>1, <2>2, <3>1 DEF Counted
        <4> QED  BY <2>2, <2>3, <4>2, <4>3
      <3>2. CASE Taken
        <4>1. out \in heap /\ heap \in SUBSET Nodes /\ out \notin Linked
          BY <2>1, <3>2 DEF Owned, Typed, Linked
        <4>2. Cardinality(Linked \union {out}) = Cardinality(Linked) + 1
          BY <2>2, <4>1, FS_AddElement
        <4>3. Cardinality(Linked \union {out}) <= Cardinality(Nodes)
          <5>1. Linked \union {out} \in SUBSET Nodes
            BY <2>2, <4>1
          <5> QED  BY <5>1, FS_Subset
        <4>4. size = Cardinality(Linked) + 1
          BY <2>1, <2>2, <3>2 DEF Counted, Taken
        <4> QED  BY <2>2, <2>3, <4>2, <4>3, <4>4
      <3>3. CASE pc /= "insert" /\ ~Taken
        <4>1. size = Cardinality(Linked)
          BY <2>1, <2>2, <3>3 DEF Counted
        <4> QED  BY <2>2, <2>3, <4>1
      <3> QED  BY <3>1, <3>2, <3>3
    <2>5. saved \in Keys \union {NULL}
      BY <2>1 DEF Owned
    <2>6. /\ rbt.root \in Slots
          /\ \A f \in {rbt.parent, rbt.left, rbt.right} : f \in [Slots -> Slots \union {NULL}]
          /\ rbt.color \in [Slots -> {RED, BLACK}]
      BY <2>1 DEF Typed, Tree
    <2> QED  BY <2>1, <2>4, <2>5, <2>6 DEF TypeOK, Typed
  <1> QED  BY <1>1, RbtInvariant, PTL

(* The tree, in the middle of a fix-up too.                                *)
LEMMA TreeStands ==
  ASSUME RbtInv, pc /= "clean"
  PROVE  /\ Linked \in SUBSET Nodes /\ IsFiniteSet(Linked) /\ Cardinality(Linked) \in Nat
         /\ NIL \notin Linked /\ NULL \notin Linked
         /\ \A z \in Linked : key[z] \in Int
         /\ \E D, bh : Sound(rbt, Linked, key, D, bh, Charge, Loose)
  <1>1. Typed /\ Owned /\ \E D, bh : Sound(rbt, Linked, key, D, bh, Charge, Loose)
    BY DEF RbtInv, Standing
  <1> QED  BY <1>1, LinkedFacts

LEMMA TreeListed ==
  ASSUME RbtInv, pc /= "clean"
  PROVE  Listed(Linked, InTree)
  <1>1. Linked \in SUBSET Nodes /\ \A z \in Linked : key[z] \in Int
    BY TreeStands
  <1>2. PICK D, bh : Sound(rbt, Linked, key, D, bh, Charge, Loose)
    BY TreeStands
  <1>3. Shape(rbt, Linked, D) /\ Sorted(rbt, Linked, D, key)
    BY <1>2 DEF Sound
  <1> QED  BY <1>1, <1>3, InorderFacts DEF InTree

(* smp_rbt_inorder prints the keys in order, in the middle of a fix-up too.*)
THEOREM KeysOrdered == Spec => []Ordered
  <1>1. RbtInv => Ordered
    <2> SUFFICES ASSUME RbtInv, pc /= "clean", NEW i \in 1 .. Len(InTree) - 1
                 PROVE  key[InTree[i]] <= key[InTree[i + 1]]
      BY DEF Ordered
    <2>1. Listed(Linked, InTree)
      BY TreeListed
    <2>2. Len(InTree) \in Nat
      BY <2>1 DEF Listed
    <2>3. i \in 1 .. Len(InTree) /\ i + 1 \in 1 .. Len(InTree) /\ i < i + 1
      BY <2>2
    <2> QED  BY <2>1, <2>3 DEF Listed
  <1> QED  BY <1>1, RbtInvariant, PTL

(* No rotation and no removal loses a node or leaves a pointer behind, and *)
(* smp_rbt_size counts the nodes of the tree.                              *)
THEOREM NodesAccounted == Spec => []Accounted
  <1> USE RbtAssumption
  <1>1. RbtInv => Accounted
    <2> SUFFICES ASSUME RbtInv, pc /= "clean" PROVE Accounted
      BY DEF Accounted
    <2>1. Listed(Linked, InTree)
      BY TreeListed
    <2>2. /\ Linked \in SUBSET Nodes /\ Cardinality(Linked) \in Nat
          /\ Typed /\ Owned /\ Counted
      BY TreeStands DEF RbtInv
    <2>3. PICK D, bh : Sound(rbt, Linked, key, D, bh, Charge, Loose)
      BY TreeStands
    <2>4. Shape(rbt, Linked, D)
      BY <2>3 DEF Sound
    <2>5. Len(InTree) = Cardinality(Linked) /\ DOMAIN InTree = 1 .. Len(InTree)
      BY <2>1 DEF Listed
    <2>6. {InTree[i] : i \in DOMAIN InTree} = Linked
      <3>1. \A i \in 1 .. Len(InTree) : InTree[i] \in Linked
        BY <2>1 DEF Listed
      <3>2. \A a \in Linked : \E i \in 1 .. Len(InTree) : InTree[i] = a
        BY <2>1 DEF Listed
      <3> QED  BY <2>5, <3>1, <3>2
    <2>7. size = Len(InTree) + (IF pc = "insert" THEN -1 ELSE IF out /= NIL THEN 1 ELSE 0)
      <3>1. Taken <=> out /= NIL
        BY <2>2 DEF Owned, Typed
      <3>2. size = Len(InTree) + (IF pc = "insert" THEN -1 ELSE IF Taken THEN 1 ELSE 0)
        BY <2>2, <2>5 DEF Counted
      <3> QED  BY <2>2, <2>5, <3>1, <3>2
    <2>8. \A n \in Linked : IF n = rbt.root THEN rbt.parent[n] = NIL
                            ELSE n \in {rbt.left[rbt.parent[n]], rbt.right[rbt.parent[n]]}
      <3> SUFFICES ASSUME NEW n \in Linked
                   PROVE  IF n = rbt.root THEN rbt.parent[n] = NIL
                          ELSE n \in {rbt.left[rbt.parent[n]], rbt.right[rbt.parent[n]]}
        OBVIOUS
      <3>1. n /= NIL /\ Hung(rbt, Linked, n)
        BY <2>2, <2>4 DEF Shape
      <3>2. CASE n = rbt.root
        BY <2>4, <3>1, <3>2 DEF Shape
      <3>3. CASE n /= rbt.root
        BY <3>1, <3>3 DEF Hung, Sides
      <3> QED  BY <3>2, <3>3
    <2>9. rbt.left[NIL] = NIL /\ rbt.right[NIL] = NIL /\ rbt.color[NIL] = BLACK
      BY <2>4 DEF Shape, Sides
    <2> QED  BY <2>5, <2>6, <2>7, <2>8, <2>9 DEF Accounted
  <1> QED  BY <1>1, RbtInvariant, PTL

(* Both loops keep the black nodes of every path equal in number, but for  *)
(* the one that a removal owes at nd.                                      *)
THEOREM PathsBalanced == Spec => []BlackBalanced
  <1>1. RbtInv => BlackBalanced
    <2> SUFFICES ASSUME RbtInv, pc /= "clean" PROVE Cardinality(Weights(rbt.root)) = 1
      BY DEF BlackBalanced
    <2>1. Linked \in SUBSET Nodes
      BY TreeStands
    <2>2. PICK D, bh : Sound(rbt, Linked, key, D, bh, Charge, Loose)
      BY TreeStands
    <2>3. Shape(rbt, Linked, D) /\ Level(rbt, Linked, Charge, bh)
      BY <2>2 DEF Sound
    <2>4. Weights(rbt.root) = {bh[rbt.root]}
      BY <2>1, <2>3, WeightsFacts
    <2> QED  BY <2>4, FS_Singleton
  <1> QED  BY <1>1, RbtInvariant, PTL

(* No red node is the root or below a red one, but for nd.                 *)
THEOREM RedNodesApart == Spec => []RedsApart
  <1> USE RbtAssumption
  <1>1. RbtInv => RedsApart
    <2> SUFFICES ASSUME RbtInv, pc /= "clean", NEW n \in Linked, Red(n), pc = "insert" => n /= nd
                 PROVE  n /= rbt.root /\ ~Red(rbt.parent[n])
      BY DEF RedsApart
    <2>1. Linked \in SUBSET Nodes /\ NULL \notin Linked
      BY TreeStands
    <2>2. PICK D, bh : Sound(rbt, Linked, key, D, bh, Charge, Loose)
      BY TreeStands
    <2>3. Hung(rbt, Linked, n) /\ Apart(rbt, Linked, Charge, Loose)
      BY <2>2 DEF Sound, Shape
    <2>4. \A z \in Linked : Red(z) <=> Scarlet(rbt, Charge, z)
      BY <2>1 DEF Red, Scarlet, Charge
    <2>5. n /= Loose
      BY <2>1 DEF Loose
    <2>6. n /= rbt.root /\ ~Scarlet(rbt, Charge, rbt.parent[n])
      BY <2>3, <2>4, <2>5 DEF Apart
    <2>7. rbt.parent[n] \in Linked
      BY <2>3, <2>6 DEF Hung
    <2> QED  BY <2>4, <2>6, <2>7
  <1> QED  BY <1>1, RbtInvariant, PTL

(* smp_rnode_find misses no key, and smp_rnode_min and smp_rnode_max find  *)
(* the extreme ones.                                                       *)
THEOREM FindMissesNone == Spec => []FindsAll
  <1> USE RbtAssumption
  <1>1. RbtInv => FindsAll
    <2> SUFFICES ASSUME RbtInv, pc = "idle" PROVE FindsAll
      BY DEF FindsAll
    <2>1. /\ Linked \in SUBSET Nodes /\ NIL \notin Linked /\ NULL \notin Linked
          /\ \A z \in Linked : key[z] \in Int
      BY TreeStands
    <2>2. PICK D, bh : Sound(rbt, Linked, key, D, bh, Charge, Loose)
      BY TreeStands
    <2>3. Shape(rbt, Linked, D) /\ Sorted(rbt, Linked, D, key)
      BY <2>2 DEF Sound
    <2>4. D[rbt.root] = Linked /\ (rbt.root = NIL => Linked = {}) /\ (rbt.root /= NIL => rbt.root \in Linked)
      BY <2>3 DEF Shape
    <2>5. \A k \in Keys : IF \E n \in Linked : key[n] = k
                          THEN RnodeFind(k) \in Linked /\ key[RnodeFind(k)] = k
                          ELSE RnodeFind(k) = NULL
      <3> SUFFICES ASSUME NEW k \in Keys
                   PROVE  IF \E n \in Linked : key[n] = k
                          THEN RnodeFind(k) \in Linked /\ key[RnodeFind(k)] = k
                          ELSE RnodeFind(k) = NULL
        OBVIOUS
      <3>1. k \in Int
        OBVIOUS
      <3>2. Found(D, k, rbt.root, RnodeFind(k))
        BY <2>1, <2>3, <3>1, FindFacts
      <3> QED  BY <2>4, <3>2 DEF Found
    <2>6. Linked = {} => RnodeMin = NULL /\ RnodeMax = NULL
      BY <2>4 DEF RnodeMin, RnodeMax
    <2>7. Linked /= {} => /\ RnodeMin \in Linked /\ RnodeMax \in Linked
                          /\ \A n \in Linked : key[RnodeMin] <= key[n] /\ key[n] <= key[RnodeMax]
      <3> SUFFICES ASSUME Linked /= {}
                   PROVE  /\ RnodeMin \in Linked /\ RnodeMax \in Linked
                          /\ \A n \in Linked : key[RnodeMin] <= key[n] /\ key[n] <= key[RnodeMax]
        OBVIOUS
      <3>1. PICK r, lo, hi : r = rbt.root /\ lo = Edge(rbt.root, "left") /\ hi = Edge(rbt.root, "right")
        OBVIOUS
      <3>2. r \in Linked /\ r /= NIL /\ D[r] = Linked
        BY <2>4, <3>1
      <3>3. RnodeMin = lo /\ RnodeMax = hi
        BY <3>1, <3>2 DEF RnodeMin, RnodeMax
      <3>4. "left" \in Sides /\ "right" \in Sides
        BY DEF Sides
      <3>5. Extreme(D, r, "left", lo)
        BY <2>1, <2>3, <3>1, <3>2, <3>4, EdgeFacts
      <3>6. Extreme(D, r, "right", hi)
        BY <2>1, <2>3, <3>1, <3>2, <3>4, EdgeFacts
      <3> QED  BY <3>2, <3>3, <3>5, <3>6 DEF Extreme, Before
    <2> QED  BY <2>5, <2>6, <2>7 DEF FindsAll
  <1> QED  BY <1>1, RbtInvariant, PTL

(* If no allocation fails, smp_rbt_destory leaves no node allocated, and   *)
(* the size it has counted down to is 0, so that the tree is freed too.    *)
THEOREM DestoryComplete ==
  ASSUME QnodeFails = FALSE
  PROVE  Spec => []DestoryFreesAll
  <1>1. Init => DestoryFreesAll
    BY DEF Init, DestoryFreesAll
  <1>2. RbtInv /\ DestoryFreesAll /\ [Next]_vars => DestoryFreesAll'
    <2> SUFFICES ASSUME RbtInv, lost = {}, [Next]_vars PROVE lost' = {}
      BY DEF DestoryFreesAll
    <2>1. CASE CleanEnd
      <3>1. /\ pc = "clean" /\ busy = <<>> /\ Typed /\ Owned /\ Counted
            /\ lost' = (heap \ held) \union (IF size /= 0 THEN {NIL} ELSE {})
        BY <2>1 DEF RbtInv, CleanEnd
      <3>2. PICK b, D : b = busy /\ Swept(rbt, Linked, D, b)
        BY <3>1 DEF RbtInv, Sweeping
      <3>3. Len(b) = 0
        BY <3>1, <3>2
      <3>4. Linked = {}
        BY <3>2, <3>3 DEF Swept
      <3>5. Linked = heap \ held
        <4>1. out = NIL /\ NIL \notin heap
          BY <3>1, RbtAssumption DEF Owned, Taken, Typed
        <4> QED  BY <4>1 DEF Linked
      <3>6. size = 0
        <4>1. Cardinality({}) = 0
          BY FS_EmptySet
        <4> QED  BY <3>1, <3>4, <4>1 DEF Counted, Taken
      <3> QED  BY <3>1, <3>4, <3>5, <3>6
    <2>2. CASE ~CleanEnd
      <3>1. lost' = lost
        BY <2>2 DEF Next, Step, vars, cleaning, RbtCreate, RnodeCreate, RnodeDestory, RnodeInsert, FindRemove,
                    RnodeRemove, CleanBegin, InsertRecolour, InsertRotate, InsertEnd, DeleteRecolour,
                    DeleteRotate, DeleteEnd, Unlink, CleanNode
      <3> QED  BY <3>1
    <2> QED  BY <2>1, <2>2
  <1> QED  BY <1>1, <1>2, RbtInvariant, PTL DEF Spec
(***************************************************************************)
(* The bag of keys that the client sees.                                   *)
(***************************************************************************)

(* The nodes of ns that have key k in f.                                   *)
At(ns, f, k) == {n \in ns : f[n] = k}

(* How many have each key, with v counted as well.                         *)
Tally(ns, f, v) == [k \in Keys |-> Cardinality(At(ns, f, k)) + (IF v = k THEN 1 ELSE 0)]

Bumped(b, k, d) == [b EXCEPT ![k] = @ + d]

LEMMA AtFacts ==
  ASSUME NEW ns, IsFiniteSet(ns), NEW f, NEW k
  PROVE  IsFiniteSet(At(ns, f, k)) /\ Cardinality(At(ns, f, k)) \in Nat
  <1>1. At(ns, f, k) \in SUBSET ns
    BY DEF At
  <1>2. IsFiniteSet(At(ns, f, k))
    BY <1>1, FS_Subset
  <1> QED  BY <1>2, FS_CardinalityType

LEMMA TallyType ==
  ASSUME NEW ns, IsFiniteSet(ns), NEW f, NEW v
  PROVE  Tally(ns, f, v) \in [Keys -> Nat]
  <1>1. \A k \in Keys : Cardinality(At(ns, f, k)) \in Nat
    BY AtFacts
  <1>2. \A k \in Keys : Cardinality(At(ns, f, k)) + (IF v = k THEN 1 ELSE 0) \in Nat
    BY <1>1
  <1> QED  BY <1>2 DEF Tally

LEMMA TallySame ==
  ASSUME NEW ns, NEW f, NEW g, \A n \in ns : f[n] = g[n], NEW v
  PROVE  Tally(ns, f, v) = Tally(ns, g, v)
  <1>1. \A k \in Keys : At(ns, f, k) = At(ns, g, k)
    BY DEF At
  <1> QED  BY <1>1 DEF Tally

LEMMA TallyAdd ==
  ASSUME NEW ns, IsFiniteSet(ns), NEW n, n \notin ns, NEW f, f[n] \in Keys, NEW v
  PROVE  Tally(ns \union {n}, f, v) = Bumped(Tally(ns, f, v), f[n], 1)
  <1>1. \A k \in Keys : IsFiniteSet(At(ns, f, k)) /\ Cardinality(At(ns, f, k)) \in Nat
    BY AtFacts
  <1>2. \A k \in Keys : At(ns \union {n}, f, k) = IF k = f[n] THEN At(ns, f, k) \union {n} ELSE At(ns, f, k)
    BY DEF At
  <1>3. \A k \in Keys : n \notin At(ns, f, k)
    BY DEF At
  <1>4. \A k \in Keys : Cardinality(At(ns, f, k) \union {n}) = Cardinality(At(ns, f, k)) + 1
    BY <1>1, <1>3, FS_AddElement
  <1>5. ASSUME NEW k \in Keys
        PROVE  Tally(ns \union {n}, f, v)[k] = Bumped(Tally(ns, f, v), f[n], 1)[k]
    <2>1. Tally(ns \union {n}, f, v)[k] = Cardinality(At(ns \union {n}, f, k)) + (IF v = k THEN 1 ELSE 0)
      BY DEF Tally
    <2>2. Tally(ns, f, v)[k] = Cardinality(At(ns, f, k)) + (IF v = k THEN 1 ELSE 0)
      BY DEF Tally
    <2>3. Bumped(Tally(ns, f, v), f[n], 1)[k] = IF k = f[n] THEN Tally(ns, f, v)[k] + 1 ELSE Tally(ns, f, v)[k]
      BY DEF Tally, Bumped
    <2>4. Cardinality(At(ns \union {n}, f, k))
            = IF k = f[n] THEN Cardinality(At(ns, f, k)) + 1 ELSE Cardinality(At(ns, f, k))
      BY <1>2, <1>4
    <2>5. Cardinality(At(ns, f, k)) \in Nat
      BY <1>1
    <2> QED  BY <2>1, <2>2, <2>3, <2>4, <2>5
  <1> QED  BY <1>5 DEF Tally, Bumped

(* What a bag has lost has come back when it is given again.               *)
LEMMA BumpedBack ==
  ASSUME NEW b \in [Keys -> Nat], NEW k \in Keys, NEW c, c = Bumped(b, k, 1)
  PROVE  b = Bumped(c, k, -1) /\ c[k] > 0
  <1>1. c = [j \in Keys |-> IF j = k THEN b[j] + 1 ELSE b[j]]
    BY DEF Bumped
  <1>2. Bumped(c, k, -1) = [j \in Keys |-> IF j = k THEN c[j] + -1 ELSE c[j]]
    BY <1>1 DEF Bumped
  <1>3. \A j \in Keys : b[j] = Bumped(c, k, -1)[j]
    BY <1>1, <1>2
  <1> QED  BY <1>1, <1>2, <1>3

LEMMA TallyDrop ==
  ASSUME NEW ns, IsFiniteSet(ns), NEW n \in ns, NEW f, f[n] \in Keys, NEW v
  PROVE  Tally(ns \ {n}, f, v) = Bumped(Tally(ns, f, v), f[n], -1) /\ Tally(ns, f, v)[f[n]] > 0
  <1>1. PICK l : l = ns \ {n}
    OBVIOUS
  <1>2. IsFiniteSet(l) /\ n \notin l /\ l \union {n} = ns
    BY <1>1, FS_RemoveElement
  <1>3. Tally(ns, f, v) = Bumped(Tally(l, f, v), f[n], 1)
    BY <1>2, TallyAdd
  <1>4. Tally(l, f, v) \in [Keys -> Nat]
    BY <1>2, TallyType
  <1> QED  BY <1>1, <1>3, <1>4, BumpedBack

LEMMA TallySaved ==
  ASSUME NEW ns, IsFiniteSet(ns), NEW f, NEW v \in Keys
  PROVE  Tally(ns, f, v) = Bumped(Tally(ns, f, NULL), v, 1)
  <1>1. \A k \in Keys : Cardinality(At(ns, f, k)) \in Nat
    BY AtFacts
  <1>2. \A k \in Keys : Tally(ns, f, v)[k] = Bumped(Tally(ns, f, NULL), v, 1)[k]
    BY <1>1, RbtAssumption DEF Tally, Bumped
  <1> QED  BY <1>1, <1>2 DEF Tally, Bumped

Moved(ns, n, m, f, g, v) ==
  Tally(ns \ {m}, g, v) = Bumped(Tally(ns, f, v), f[n], -1) /\ Tally(ns, f, v)[f[n]] > 0

(* m is taken out for n, and leaves its key in n.                          *)
LEMMA TallyMoved ==
  ASSUME NEW ns, IsFiniteSet(ns), NEW n \in ns, NEW m \in ns, NEW f, \A z \in ns : f[z] \in Keys,
         NEW g, \A z \in ns : g[z] = IF z = n THEN f[m] ELSE f[z], NEW v
  PROVE  Moved(ns, n, m, f, g, v)
  <1>1. Tally(ns \ {n}, f, v) = Bumped(Tally(ns, f, v), f[n], -1) /\ Tally(ns, f, v)[f[n]] > 0
    BY TallyDrop
  <1>2. CASE m = n
    <2>1. \A z \in ns \ {m} : g[z] = f[z]
      BY <1>2
    <2>2. Tally(ns \ {m}, g, v) = Tally(ns \ {m}, f, v)
      BY <2>1, TallySame
    <2> QED  BY <1>1, <1>2, <2>2 DEF Moved
  <1>3. CASE m /= n
    <2>1. PICK l : l = ns \ {m, n}
      OBVIOUS
    <2>2. IsFiniteSet(l) /\ m \notin l /\ n \notin l /\ l \union {m} = ns \ {n} /\ l \union {n} = ns \ {m}
      BY <1>3, <2>1, FS_Subset
    <2>3. Tally(l \union {m}, f, v) = Bumped(Tally(l, f, v), f[m], 1)
      BY <2>2, TallyAdd
    <2>4. Tally(l \union {n}, g, v) = Bumped(Tally(l, g, v), g[n], 1)
      <3>1. g[n] \in Keys
        OBVIOUS
      <3> QED  BY <2>2, <3>1, TallyAdd
    <2>5. Tally(l, g, v) = Tally(l, f, v)
      <3>1. \A z \in l : g[z] = f[z]
        BY <2>1
      <3> QED  BY <3>1, TallySame
    <2>6. g[n] = f[m]
      OBVIOUS
    <2> QED  BY <1>1, <2>2, <2>3, <2>4, <2>5, <2>6 DEF Moved
  <1> QED  BY <1>2, <1>3
Stored == [k \in Keys |-> IF pc = "clean" THEN 0
                          ELSE Count({InTree[i] : i \in DOMAIN InTree}, k)]
Kept   == [k \in Keys |-> Count(held, k) + (IF saved = k THEN 1 ELSE 0)]

(* The bags are tallies of the nodes linked and of those held.             *)
Bagged == /\ Stored = IF pc = "clean" THEN [k \in Keys |-> 0] ELSE Tally(Linked, key, NULL)
          /\ Kept = Tally(held, key, saved)

LEMMA BagsAre == RbtInv => Bagged
  <1> SUFFICES ASSUME RbtInv PROVE Bagged
    OBVIOUS
  <1>1. Kept = Tally(held, key, saved)
    BY DEF Kept, Tally, Count, At
  <1>2. CASE pc = "clean"
    BY <1>1, <1>2 DEF Bagged, Stored
  <1>3. CASE pc /= "clean"
    <2>1. Listed(Linked, InTree)
      BY <1>3, TreeListed
    <2>2. /\ DOMAIN InTree = 1 .. Len(InTree)
          /\ \A i \in 1 .. Len(InTree) : InTree[i] \in Linked
          /\ \A a \in Linked : \E i \in 1 .. Len(InTree) : InTree[i] = a
      BY <2>1 DEF Listed
    <2>3. {InTree[i] : i \in DOMAIN InTree} = Linked
      BY <2>2
    <2>4. Stored = [k \in Keys |-> Count(Linked, k)]
      BY <1>3, <2>3 DEF Stored
    <2>5. \A k \in Keys : Count(Linked, k) = Cardinality(At(Linked, key, k)) + (IF NULL = k THEN 1 ELSE 0)
      <3> SUFFICES ASSUME NEW k \in Keys
                   PROVE  Count(Linked, k) = Cardinality(At(Linked, key, k)) + (IF NULL = k THEN 1 ELSE 0)
        OBVIOUS
      <3>1. IsFiniteSet(Linked)
        BY <1>3, TreeStands
      <3>2. Cardinality(At(Linked, key, k)) \in Nat
        BY <3>1, AtFacts
      <3>3. Count(Linked, k) = Cardinality(At(Linked, key, k))
        BY DEF Count, At
      <3> QED  BY <3>2, <3>3, RbtAssumption
    <2> QED  BY <1>1, <1>3, <2>4, <2>5 DEF Bagged, Tally
  <1> QED  BY <1>2, <1>3

(* What a step of the tree is to its client.                               *)
Make(k)    == Kept' = Bumped(Kept, k, 1) /\ Stored' = Stored
PutIn(k)   == Kept[k] > 0 /\ Kept' = Bumped(Kept, k, -1) /\ Stored' = Bumped(Stored, k, 1)
TakeOut(k) == Stored[k] > 0 /\ Stored' = Bumped(Stored, k, -1) /\ Kept' = Bumped(Kept, k, 1)
Scrap(k)   == Kept[k] > 0 /\ Kept' = Bumped(Kept, k, -1) /\ Stored' = Stored
Emptied    == Stored' = [k \in Keys |-> 0] /\ Kept' = Kept
Same       == Stored' = Stored /\ Kept' = Kept

(* All that a step keeps of the heap when it only moves links.             *)
LEMMA HeldFacts ==
  ASSUME RbtInv
  PROVE  /\ IsFiniteSet(held) /\ held \in SUBSET heap /\ heap \in SUBSET Nodes /\ IsFiniteSet(Linked)
         /\ lost \in SUBSET (heap \union {NIL}) /\ lost \intersect held = {} /\ Linked \intersect held = {}
         /\ out \notin held /\ out \notin Linked /\ \A n \in heap : key[n] \in Keys
         /\ key \in [Nodes -> Keys \union {NULL}]
         /\ NIL \notin heap /\ IF Taken THEN out \in heap /\ saved \in Keys ELSE out = NIL /\ saved = NULL
  <1>1. Typed /\ Owned
    BY DEF RbtInv
  <1>2. IsFiniteSet(held) /\ IsFiniteSet(Linked)
    BY <1>1, LinkedFacts, RbtAssumption, FS_Subset DEF Typed
  <1> QED  BY <1>1, <1>2, RbtAssumption DEF Typed, Owned, Linked

LEMMA StillBags ==
  ASSUME Bagged, Bagged', pc /= "clean", pc' /= "clean", Linked' = Linked,
         UNCHANGED <<key, held, saved>>
  PROVE  Same
  BY DEF Bagged, Same

LEMMA MakeBags ==
  ASSUME RbtInv, Bagged, Bagged', NEW n \in Nodes, NEW k \in Keys, RnodeCreate(n, k)
  PROVE  Make(k)
  <1>1. PICK L, H, f, g : L = Linked /\ H = held /\ f = key /\ g = key'
    OBVIOUS
  <1>2. /\ n \notin heap /\ g = [f EXCEPT ![n] = k] /\ heap' = heap \union {n} /\ held' = H \union {n}
        /\ pc = "idle" /\ pc' = pc /\ lost' = lost /\ out' = out /\ saved' = saved
    BY <1>1 DEF RnodeCreate, removing, cleaning
  <1>3. IsFiniteSet(H) /\ n \notin H /\ n \notin L /\ Linked' = L /\ f \in [Nodes -> Keys \union {NULL}]
        /\ H \in SUBSET Nodes /\ L \in SUBSET Nodes
    BY <1>1, <1>2, HeldFacts DEF Linked
  <1>4. g[n] = k /\ \A z \in H \union L : f[z] = g[z]
    BY <1>2, <1>3
  <1>5. Tally(H \union {n}, g, saved) = Bumped(Tally(H, g, saved), k, 1)
    BY <1>3, <1>4, TallyAdd
  <1>6. Tally(H, f, saved) = Tally(H, g, saved) /\ Tally(L, f, NULL) = Tally(L, g, NULL)
    BY <1>4, TallySame
  <1> QED  BY <1>1, <1>2, <1>3, <1>5, <1>6 DEF Bagged, Make

LEMMA ScrapBags ==
  ASSUME RbtInv, Bagged, Bagged', NEW n \in Nodes, RnodeDestory(n)
  PROVE  \E k \in Keys : Scrap(k)
  <1>1. PICK L, H, f, g, k : L = Linked /\ H = held /\ f = key /\ g = key' /\ k = key[n]
    OBVIOUS
  <1>2. /\ n \in H /\ g = [f EXCEPT ![n] = NULL] /\ heap' = heap \ {n} /\ held' = H \ {n}
        /\ pc = "idle" /\ pc' = pc /\ lost' = lost /\ out' = out /\ saved' = saved
    BY <1>1 DEF RnodeDestory, removing, cleaning
  <1>3. IsFiniteSet(H) /\ n \notin L /\ Linked' = L /\ f \in [Nodes -> Keys \union {NULL}]
        /\ H \in SUBSET Nodes /\ L \in SUBSET Nodes /\ k \in Keys /\ f[n] = k
    BY <1>1, <1>2, HeldFacts DEF Linked
  <1>4. \A z \in (H \ {n}) \union L : f[z] = g[z]
    BY <1>2, <1>3
  <1>5. Tally(H \ {n}, f, saved) = Bumped(Tally(H, f, saved), k, -1) /\ Tally(H, f, saved)[k] > 0
    BY <1>2, <1>3, TallyDrop
  <1>6. Tally(H \ {n}, f, saved) = Tally(H \ {n}, g, saved) /\ Tally(L, f, NULL) = Tally(L, g, NULL)
    BY <1>4, TallySame
  <1> QED  BY <1>1, <1>2, <1>3, <1>5, <1>6 DEF Bagged, Scrap

LEMMA PutInBags ==
  ASSUME RbtInv, Bagged, Bagged', NEW n \in Nodes, RnodeInsert(n)
  PROVE  \E k \in Keys : PutIn(k)
  <1>1. PICK L, H, f, k : L = Linked /\ H = held /\ f = key /\ k = key[n]
    OBVIOUS
  <1>2. /\ n \in H /\ key' = f /\ heap' = heap /\ held' = H \ {n}
        /\ pc = "idle" /\ pc' = "insert" /\ lost' = lost /\ out' = out /\ saved' = saved
    BY <1>1 DEF RnodeInsert, removing, cleaning
  <1>3. IsFiniteSet(H) /\ IsFiniteSet(L) /\ n \notin L /\ Linked' = L \union {n} /\ k \in Keys /\ f[n] = k
    <2>1. n \in heap /\ n \notin lost /\ out = NIL /\ n /= NIL
      BY <1>1, <1>2, HeldFacts DEF Taken
    <2> QED  BY <1>1, <1>2, <2>1, HeldFacts DEF Linked
  <1>4. Tally(H \ {n}, f, saved) = Bumped(Tally(H, f, saved), k, -1) /\ Tally(H, f, saved)[k] > 0
    BY <1>2, <1>3, TallyDrop
  <1>5. Tally(L \union {n}, f, NULL) = Bumped(Tally(L, f, NULL), k, 1)
    BY <1>3, TallyAdd
  <1> QED  BY <1>1, <1>2, <1>3, <1>4, <1>5 DEF Bagged, PutIn

LEMMA TakeOutBags ==
  ASSUME RbtInv, RbtInv', Bagged, Bagged', NEW n \in Nodes, NEW d \in BOOLEAN, RnodeRemove(n, d)
  PROVE  TakeOut(key[n])
  <1>1. PICK L, H, f, g, m : L = Linked /\ H = held /\ f = key /\ g = key' /\ m = out'
    OBVIOUS
  <1>2. /\ n \in L /\ g = [f EXCEPT ![n] = f[m]] /\ heap' = heap /\ held' = H
        /\ pc = "idle" /\ pc' \in {"delete", "unlink"} /\ lost' = lost /\ saved' = f[n]
    BY <1>1 DEF RnodeRemove, MoveKey, cleaning
  <1>3. /\ IsFiniteSet(H) /\ IsFiniteSet(L) /\ L \in SUBSET Nodes /\ f \in [Nodes -> Keys \union {NULL}]
        /\ \A z \in L : f[z] \in Keys
        /\ L \intersect H = {} /\ saved = NULL /\ out = NIL /\ NIL \notin heap /\ L = heap \ (H \union lost)
        /\ H \in SUBSET Nodes
    BY <1>1, <1>2, HeldFacts DEF Linked, Taken
  <1>4. m \in L /\ Linked' = L \ {m}
    <2>1. m \in heap' \ (held' \union lost')
      BY <1>1, <1>2 DEF RbtInv, Owned, Taken
    <2> QED  BY <1>1, <1>2, <1>3, <2>1 DEF Linked
  <1>5. (\A z \in L : g[z] = IF z = n THEN f[m] ELSE f[z]) /\ \A z \in H : f[z] = g[z]
    BY <1>2, <1>3
  <1>9. Moved(L, n, m, f, g, NULL)
    BY <1>2, <1>3, <1>4, <1>5, TallyMoved
  <1>6. Tally(L \ {m}, g, NULL) = Bumped(Tally(L, f, NULL), f[n], -1) /\ Tally(L, f, NULL)[f[n]] > 0
    BY <1>9 DEF Moved
  <1>7. Tally(H, f, f[n]) = Tally(H, g, f[n])
    BY <1>5, TallySame
  <1>8. Tally(H, f, f[n]) = Bumped(Tally(H, f, NULL), f[n], 1)
    BY <1>2, <1>3, TallySaved
  <1> QED  BY <1>1, <1>2, <1>3, <1>4, <1>6, <1>7, <1>8 DEF Bagged, TakeOut

LEMMA UnlinkBags ==
  ASSUME RbtInv, Bagged, Bagged', Unlink
  PROVE  Same \/ \E k \in Keys : Scrap(k)
  <1>1. PICK L, H, f, g, n, k : L = Linked /\ H = held /\ f = key /\ g = key' /\ n = out /\ k = saved
    OBVIOUS
  <1>2. /\ g = [f EXCEPT ![n] = IF drop THEN NULL ELSE k]
        /\ heap' = (IF drop THEN heap \ {n} ELSE heap) /\ held' = (IF drop THEN H ELSE H \union {n})
        /\ pc = "unlink" /\ pc' = "idle" /\ lost' = lost /\ out' = NIL /\ saved' = NULL
    BY <1>1 DEF Unlink, cleaning
  <1>3. /\ IsFiniteSet(H) /\ n \notin H /\ n \notin L /\ n \in heap /\ k \in Keys /\ NIL \notin heap
        /\ f \in [Nodes -> Keys \union {NULL}] /\ L \in SUBSET Nodes /\ H \in SUBSET Nodes /\ n \in Nodes
        /\ drop \in BOOLEAN /\ L = heap \ (H \union lost \union {n})
    BY <1>1, <1>2, HeldFacts DEF Linked, Taken, RbtInv, Typed
  <1>4. \A z \in H \union L : f[z] = g[z]
    BY <1>2, <1>3
  <1>5. Tally(H, f, NULL) = Tally(H, g, NULL) /\ Tally(L, f, NULL) = Tally(L, g, NULL)
    BY <1>4, TallySame
  <1>6. Tally(H, f, k) = Bumped(Tally(H, f, NULL), k, 1)
    BY <1>3, TallySaved
  <1>7. Linked' = L
    <2>1. n \notin L /\ Linked' = heap' \ (held' \union lost \union {NIL})
      BY <1>2, <1>3 DEF Linked
    <2> QED  BY <1>2, <1>3, <2>1
  <1>8. CASE drop
    <2>1. Tally(H, f, NULL) \in [Keys -> Nat]
      BY <1>3, TallyType
    <2>2. Tally(H, f, NULL) = Bumped(Tally(H, f, k), k, -1) /\ Tally(H, f, k)[k] > 0
      BY <1>3, <1>6, <2>1, BumpedBack
    <2> QED  BY <1>1, <1>2, <1>3, <1>5, <1>7, <1>8, <2>2 DEF Bagged, Scrap
  <1>9. CASE ~drop
    <2>1. g[n] = k
      BY <1>2, <1>3, <1>9
    <2>2. Tally(H \union {n}, g, NULL) = Bumped(Tally(H, g, NULL), k, 1)
      BY <1>3, <2>1, TallyAdd
    <2> QED  BY <1>1, <1>2, <1>3, <1>5, <1>6, <1>7, <1>9, <2>2 DEF Bagged, Same
  <1> QED  BY <1>8, <1>9

LEMMA CleanBags ==
  ASSUME RbtInv, RbtInv', Bagged, Bagged', CleanBegin \/ CleanNode \/ CleanEnd
  PROVE  Emptied \/ Same
  <1>1. PICK H, f, g : H = held /\ f = key /\ g = key'
    OBVIOUS
  <1>2. CASE CleanBegin
    <2>1. pc' = "clean" /\ held' = H /\ g = f /\ saved' = saved
      BY <1>1, <1>2 DEF CleanBegin, removing
    <2> QED  BY <1>1, <2>1 DEF Bagged, Emptied
  <1>3. CASE CleanNode
    <2>1. /\ pc = "clean" /\ pc' = "clean" /\ held' = H /\ g = [f EXCEPT ![Head(busy)] = NULL]
          /\ saved' = saved /\ heap' = heap \ {Head(busy)}
      BY <1>1, <1>3 DEF CleanNode, removing
    <2>2. H \in SUBSET heap' /\ H \in SUBSET Nodes /\ f \in [Nodes -> Keys \union {NULL}]
      BY <1>1, <2>1, HeldFacts DEF RbtInv, Typed
    <2>3. \A z \in H : f[z] = g[z]
      BY <2>1, <2>2
    <2>4. Tally(H, f, saved) = Tally(H, g, saved)
      BY <2>3, TallySame
    <2> QED  BY <1>1, <2>1, <2>4 DEF Bagged, Same
  <1>4. CASE CleanEnd
    <2>1. pc = "clean" /\ pc' = "idle" /\ held' = H /\ g = f /\ saved' = saved /\ heap \ H \subseteq lost' /\ heap' = heap
      BY <1>1, <1>4 DEF CleanEnd, removing
    <2>2. Linked' = {}
      BY <2>1 DEF Linked
    <2>3. Tally({}, g, NULL) = [k \in Keys |-> 0]
      <3>1. \A k \in Keys : At({}, g, k) = {}
        BY DEF At
      <3>2. Cardinality({}) = 0
        BY FS_EmptySet
      <3>3. \A k \in Keys : Cardinality(At({}, g, k)) + (IF NULL = k THEN 1 ELSE 0) = 0
        BY <3>1, <3>2, RbtAssumption
      <3> QED  BY <3>3 DEF Tally
    <2> QED  BY <1>1, <2>1, <2>2, <2>3 DEF Bagged, Same
  <1> QED  BY <1>2, <1>3, <1>4

LEMMA StepBags ==
  ASSUME RbtInv, RbtInv', Bagged, Bagged', [Next]_vars
  PROVE  (\E k \in Keys : Make(k) \/ PutIn(k) \/ TakeOut(k) \/ Scrap(k)) \/ Emptied \/ Same
  <1>1. CASE RbtCreate
    <2>1. pc /= "clean" /\ pc' /= "clean" /\ Linked' = Linked /\ UNCHANGED <<key, held, saved>>
      BY <1>1 DEF RbtCreate, Linked, removing, cleaning
    <2> QED  BY <2>1, StillBags
  <1>2. ASSUME NEW n \in Nodes, NEW k \in Keys, RnodeCreate(n, k) PROVE Make(k)
    BY <1>2, MakeBags
  <1>3. ASSUME NEW n \in Nodes, RnodeDestory(n) PROVE \E k \in Keys : Scrap(k)
    BY <1>3, ScrapBags
  <1>4. ASSUME NEW n \in Nodes, RnodeInsert(n) PROVE \E k \in Keys : PutIn(k)
    BY <1>4, PutInBags
  <1>5. ASSUME NEW n \in Nodes, NEW d \in BOOLEAN, RnodeRemove(n, d) PROVE \E k \in Keys : TakeOut(k)
    <2>1. n \in Linked /\ Linked \in SUBSET heap
      BY <1>5 DEF RnodeRemove, Linked
    <2>2. key[n] \in Keys
      BY <2>1, HeldFacts
    <2> QED  BY <1>5, <2>2, TakeOutBags
  <1>6. ASSUME NEW k \in Keys, NEW d \in BOOLEAN, FindRemove(k, d) PROVE \E j \in Keys : TakeOut(j)
    <2>1. RnodeRemove(RnodeFind(k), d)
      BY <1>6 DEF FindRemove
    <2>2. RnodeFind(k) \in Linked /\ Linked \in SUBSET heap /\ heap \in SUBSET Nodes
      BY <2>1, HeldFacts DEF RnodeRemove, Linked
    <2> QED  BY <1>5, <2>1, <2>2
  <1>7. CASE CleanBegin \/ CleanNode \/ CleanEnd
    BY <1>7, CleanBags
  <1>8. CASE Unlink
    BY <1>8, UnlinkBags
  <1>9. CASE InsertRecolour \/ InsertRotate \/ InsertEnd \/ DeleteRecolour \/ DeleteRotate \/ DeleteEnd
    <2>1. pc /= "clean" /\ pc' /= "clean" /\ Linked' = Linked /\ UNCHANGED <<key, held, saved>>
      BY <1>9 DEF InsertRecolour, InsertRotate, InsertEnd, DeleteRecolour, DeleteRotate, DeleteEnd, DeleteTurn,
                  Linked, removing, cleaning
    <2> QED  BY <2>1, StillBags
  <1>10. CASE UNCHANGED vars
    <2>1. Linked' = Linked /\ UNCHANGED <<key, held, saved, pc>>
      BY <1>10 DEF vars, Linked, removing, cleaning
    <2> QED  BY <2>1 DEF Bagged, Same
  <1>11. CASE Next
    <2>1. CASE Step
      BY <1>7, <1>8, <1>9, <2>1 DEF Step
    <2>2. CASE \E n \in Nodes, k \in Keys : RnodeCreate(n, k)
      BY <1>2, <2>2
    <2>3. CASE \E n \in Nodes : RnodeDestory(n) \/ RnodeInsert(n)
      BY <1>3, <1>4, <2>3
    <2>4. CASE \E d \in BOOLEAN : \/ \E n \in Nodes : RnodeRemove(n, d)
                                  \/ \E k \in Keys : FindRemove(k, d)
      BY <1>5, <1>6, <2>4
    <2> QED  BY <1>1, <1>7, <1>11, <2>1, <2>2, <2>3, <2>4 DEF Next
  <1> QED  BY <1>10, <1>11

(* To its client the tree is a bag of keys: what is taken out is the key   *)
(* asked for, and no call changes or loses a key it was not asked about.   *)
THEOREM OrderImplemented == Spec => OrderKept
  <1>1. Init => Order!OInit
    <2> SUFFICES ASSUME Init PROVE Order!OInit
      OBVIOUS
    <2>1. RbtInv /\ Bagged
      BY InitInv, BagsAre
    <2>2. pc = "idle" /\ Linked = {} /\ held = {} /\ saved = NULL
      BY DEF Init, Linked
    <2>3. Tally({}, key, NULL) = [k \in Keys |-> 0]
      <3>1. \A k \in Keys : At({}, key, k) = {}
        BY DEF At
      <3>2. Cardinality({}) = 0
        BY FS_EmptySet
      <3>3. \A k \in Keys : Cardinality(At({}, key, k)) + (IF NULL = k THEN 1 ELSE 0) = 0
        BY <3>1, <3>2, RbtAssumption
      <3> QED  BY <3>3 DEF Tally
    <2>4. Stored = [k \in Keys |-> 0] /\ Kept = [k \in Keys |-> 0]
      BY <2>1, <2>2, <2>3 DEF Bagged
    <2> QED  BY <2>4 DEF Order!OInit, Stored, Kept
  <1>2. RbtInv /\ RbtInv' /\ Bagged /\ Bagged' /\ [Next]_vars => [Order!ONext]_<<Stored, Kept>>
    <2> SUFFICES ASSUME RbtInv, RbtInv', Bagged, Bagged', [Next]_vars
                 PROVE  [Order!ONext]_<<Stored, Kept>>
      OBVIOUS
    <2>1. ASSUME NEW k \in Keys, Make(k) PROVE Order!Make(k)
      BY <2>1 DEF Make, Bumped, Order!Make, Order!One, Stored, Kept
    <2>2. ASSUME NEW k \in Keys, PutIn(k) PROVE Order!PutIn(k)
      BY <2>2 DEF PutIn, Bumped, Order!PutIn, Order!One, Stored, Kept
    <2>3. ASSUME NEW k \in Keys, TakeOut(k) PROVE Order!TakeOut(k)
      BY <2>3 DEF TakeOut, Bumped, Order!TakeOut, Order!One, Stored, Kept
    <2>4. ASSUME NEW k \in Keys, Scrap(k) PROVE Order!Scrap(k)
      BY <2>4 DEF Scrap, Bumped, Order!Scrap, Order!One, Stored, Kept
    <2>5. ASSUME Emptied PROVE Order!Empty
      BY <2>5 DEF Emptied, Order!Empty, Stored, Kept
    <2>6. (\E k \in Keys : Make(k) \/ PutIn(k) \/ TakeOut(k) \/ Scrap(k)) \/ Emptied \/ Same
      BY StepBags
    <2>7. CASE \E k \in Keys : Make(k) \/ PutIn(k) \/ TakeOut(k) \/ Scrap(k)
      BY <2>1, <2>2, <2>3, <2>4, <2>7 DEF Order!ONext
    <2>8. CASE Emptied
      BY <2>5, <2>8 DEF Order!ONext
    <2>9. CASE Same
      BY <2>9 DEF Same
    <2> QED  BY <2>6, <2>7, <2>8, <2>9
  <1> QED  BY <1>1, <1>2, BagsAre, RbtInvariant, PTL DEF Spec, OrderKept, Order!OSpec, Stored, Kept
(***************************************************************************)
(* The way up.                                                             *)
(***************************************************************************)

(* The lengths of the ways up in t, that have been gone up d times.        *)
Ascent(t, h, N) ==
  /\ h = [d \in 0 .. N |-> h[d]]
  /\ \A d \in 0 .. N : h[d] = [m \in Slots |-> IF m = t.root \/ d = 0 THEN 0
                                               ELSE 1 + h[d - 1][t.parent[m]]]

LEMMA AscentExists ==
  ASSUME NEW t, NEW N \in Nat
  PROVE  \E h : Ascent(t, h, N)
  <1> DEFINE Done == {n \in Nat : \E h : Ascent(t, h, n)}
  <1>1. 0 \in Done
    <2> DEFINE h == [d \in 0 .. 0 |-> [m \in Slots |-> 0]]
    <2>1. Ascent(t, h, 0)
      BY DEF Ascent
    <2> QED  BY <2>1
  <1>2. ASSUME NEW n \in Nat, n \in Done PROVE n + 1 \in Done
    <2>1. PICK h : Ascent(t, h, n)
      BY <1>2
    <2> DEFINE top == [m \in Slots |-> IF m = t.root THEN 0 ELSE 1 + h[n][t.parent[m]]]
               g == [d \in 0 .. n + 1 |-> IF d = n + 1 THEN top ELSE h[d]]
    <2> HIDE DEF top
    <2>2. g = [d \in 0 .. n + 1 |-> g[d]]
      OBVIOUS
    <2>5. \A d \in 0 .. n : g[d] = h[d]
      OBVIOUS
    <2>6. g[n + 1] = top
      OBVIOUS
    <2> HIDE DEF g
    <2>3. ASSUME NEW d \in 0 .. n + 1
          PROVE  g[d] = [m \in Slots |-> IF m = t.root \/ d = 0 THEN 0 ELSE 1 + g[d - 1][t.parent[m]]]
      <3>1. CASE d = n + 1
        <4>1. d - 1 = n /\ d /= 0 /\ g[d - 1] = h[n] /\ g[d] = top
          BY <2>5, <2>6, <3>1
        <4> QED  BY <4>1 DEF top
      <3>2. CASE d = 0
        <4>1. g[d] = h[d] /\ d \in 0 .. n
          BY <2>5, <3>2
        <4>2. h[d] = [m \in Slots |-> IF m = t.root \/ d = 0 THEN 0 ELSE 1 + h[d - 1][t.parent[m]]]
          BY <2>1, <4>1 DEF Ascent
        <4> QED  BY <3>2, <4>1, <4>2
      <3>3. CASE d /= n + 1 /\ d /= 0
        <4>1. g[d] = h[d] /\ d \in 0 .. n /\ g[d - 1] = h[d - 1]
          BY <2>5, <3>3
        <4>2. h[d] = [m \in Slots |-> IF m = t.root \/ d = 0 THEN 0 ELSE 1 + h[d - 1][t.parent[m]]]
          BY <2>1, <4>1 DEF Ascent
        <4> QED  BY <4>1, <4>2
      <3> QED  BY <3>1, <3>2, <3>3
    <2>4. Ascent(t, g, n + 1)
      BY <2>2, <2>3 DEF Ascent
    <2> QED  BY <2>4
  <1> HIDE DEF Done
  <1>3. N \in Done
    BY <1>1, <1>2, NatInSet
  <1> QED  BY <1>3 DEF Done

(* Above, of any tree.                                                     *)
AboveIn(t, n) ==
  LET of[d \in 0 .. Depth] == [m \in Slots |->
        IF m = t.root \/ d = 0 THEN 0 ELSE 1 + of[d - 1][t.parent[m]]]
  IN of[Depth][n]

LEMMA AscentWalks ==
  ASSUME NEW t, Depth \in Nat
  PROVE  \E h : Ascent(t, h, Depth) /\ \A n : AboveIn(t, n) = h[Depth][n]
  <1> DEFINE of[d \in 0 .. Depth] == [m \in Slots |->
        IF m = t.root \/ d = 0 THEN 0 ELSE 1 + of[d - 1][t.parent[m]]]
  <1>1. \A n : AboveIn(t, n) = of[Depth][n]
    BY DEF AboveIn
  <1>2. PICK h : Ascent(t, h, Depth)
    BY AscentExists
  <1>3. h = [d \in 0 .. Depth |-> [m \in Slots |->
               IF m = t.root \/ d = 0 THEN 0 ELSE 1 + h[d - 1][t.parent[m]]]]
    BY <1>2 DEF Ascent
  <1>4. of = [d \in 0 .. Depth |-> [m \in Slots |->
               IF m = t.root \/ d = 0 THEN 0 ELSE 1 + of[d - 1][t.parent[m]]]]
    BY <1>3
  <1> HIDE DEF of
  <1>5. \A d \in 0 .. Depth : of[d] = [m \in Slots |->
               IF m = t.root \/ d = 0 THEN 0 ELSE 1 + of[d - 1][t.parent[m]]]
    BY <1>4
  <1>6. Ascent(t, of, Depth)
    BY <1>4, <1>5 DEF Ascent
  <1> QED  BY <1>1, <1>6

(* The nodes that n is below, and itself.                                  *)
Over(L, D, n) == {a \in L : n \in D[a]}

LEMMA OverFacts ==
  ASSUME NEW L \in SUBSET Nodes, NEW t, NEW D, Shape(t, L, D)
  PROVE  /\ \A n \in L : /\ IsFiniteSet(Over(L, D, n)) /\ Cardinality(Over(L, D, n)) \in Nat
                         /\ 0 < Cardinality(Over(L, D, n)) /\ Cardinality(Over(L, D, n)) < Depth
         /\ t.root /= NIL => Cardinality(Over(L, D, t.root)) = 1
         /\ \A n \in L \ {t.root} :
              /\ t.parent[n] \in L
              /\ Cardinality(Over(L, D, n)) = Cardinality(Over(L, D, t.parent[n])) + 1
         /\ Depth \in Nat
  <1> USE RbtAssumption
  <1>1. /\ IsFiniteSet(L) /\ Cardinality(L) \in Nat /\ Cardinality(L) < Depth /\ Depth \in Nat
    BY ShapeSized, FS_Subset DEF Sized
  <1>2. ASSUME NEW n \in L
        PROVE  /\ IsFiniteSet(Over(L, D, n)) /\ Cardinality(Over(L, D, n)) \in Nat
               /\ Cardinality(Over(L, D, n)) < Depth
    <2>1. Over(L, D, n) \subseteq L
      BY DEF Over
    <2>2. IsFiniteSet(Over(L, D, n)) /\ Cardinality(Over(L, D, n)) <= Cardinality(L)
      BY <1>1, <2>1, FS_Subset
    <2> QED  BY <1>1, <2>2, FS_CardinalityType
  <1>3. \A n \in L : n \in D[n]
    <2>1. "left" \in Sides
      BY DEF Sides
    <2> QED  BY <2>1 DEF Shape, Fork
  <1>6. ASSUME NEW n \in L PROVE 0 < Cardinality(Over(L, D, n))
    <2>1. n \in Over(L, D, n)
      BY <1>3 DEF Over
    <2>2. Cardinality(Over(L, D, n)) /= 0
      BY <1>2, <2>1, FS_EmptySet
    <2> QED  BY <1>2, <2>2
  <1>4. t.root /= NIL => Cardinality(Over(L, D, t.root)) = 1
    <2> SUFFICES ASSUME t.root /= NIL PROVE Cardinality(Over(L, D, t.root)) = 1
      OBVIOUS
    <2>1. t.root \in L /\ t.parent[t.root] = NIL /\ NIL \notin L
      BY DEF Shape
    <2>2. \A a \in L : t.root \in D[a] => a = t.root
      <3> SUFFICES ASSUME NEW a \in L, t.root \in D[a], a /= t.root PROVE FALSE
        OBVIOUS
      <3>1. NIL \in D[a]
        BY <2>1 DEF Shape, Nested
      <3>2. D[a] \subseteq L
        BY DEF Shape, Slots
      <3> QED  BY <2>1, <3>1, <3>2
    <2>3. Over(L, D, t.root) = {t.root}
      BY <1>3, <2>1, <2>2 DEF Over
    <2> QED  BY <2>3, FS_Singleton
  <1>5. ASSUME NEW n \in L \ {t.root}
        PROVE  /\ t.parent[n] \in L
               /\ Cardinality(Over(L, D, n)) = Cardinality(Over(L, D, t.parent[n])) + 1
    <2>1. PICK p : p = t.parent[n]
      OBVIOUS
    <2>2. p \in L /\ \E s \in Sides : t[s][p] = n
      BY <2>1 DEF Shape, Hung
    <2>3. n \in D[p] /\ D[n] \subseteq D[p] /\ p \notin D[n]
      BY <1>3, <2>2 DEF Shape, Fork
    <2>4. \A a \in L : n \in D[a] => a = n \/ p \in D[a]
      BY <2>1 DEF Shape, Nested
    <2>5. \A a \in L : p \in D[a] => n \in D[a]
      BY <2>3 DEF Shape, Nested
    <2>6. Over(L, D, n) = Over(L, D, p) \union {n} /\ n \notin Over(L, D, p)
      BY <1>3, <2>3, <2>4, <2>5 DEF Over
    <2>7. IsFiniteSet(Over(L, D, p))
      BY <1>2, <2>2
    <2>8. Cardinality(Over(L, D, p) \union {n}) = Cardinality(Over(L, D, p)) + 1
      BY <2>6, <2>7, FS_AddElement
    <2> QED  BY <2>1, <2>2, <2>6, <2>8
  <1> QED  BY <1>1, <1>2, <1>4, <1>5, <1>6

(* A node is further from the root than its parent, and so is the sentinel *)
(* in the place of a child.                                                *)
LEMMA AboveParent ==
  ASSUME NEW L \in SUBSET Nodes, NEW t, NEW D, Shape(t, L, D),
         NEW n \in Slots, n /= t.root, t.parent[n] \in L
  PROVE  AboveIn(t, n) \in Nat /\ AboveIn(t, t.parent[n]) \in Nat /\ AboveIn(t, t.parent[n]) < AboveIn(t, n)
  <1> USE RbtAssumption
  <1>1. Depth \in Nat /\ t.root \in L \union {NIL} /\ L \subseteq Slots
    BY OverFacts DEF Shape, Slots
  <1>2. PICK h : Ascent(t, h, Depth) /\ \A m : AboveIn(t, m) = h[Depth][m]
    BY <1>1, AscentWalks
  <1>3. \A d \in 0 .. Depth : h[d] = [m \in Slots |-> IF m = t.root \/ d = 0 THEN 0
                                                      ELSE 1 + h[d - 1][t.parent[m]]]
    BY <1>2 DEF Ascent
  <1>4. ASSUME NEW d \in 0 .. Depth, NEW m \in Slots
        PROVE  h[d][m] = IF m = t.root \/ d = 0 THEN 0 ELSE 1 + h[d - 1][t.parent[m]]
    <2>1. h[d] = [z \in Slots |-> IF z = t.root \/ d = 0 THEN 0 ELSE 1 + h[d - 1][t.parent[z]]]
      BY <1>3
    <2> QED  BY <2>1
  <1> DEFINE Far == {d \in Nat : d <= Depth =>
               \A m \in L : Cardinality(Over(L, D, m)) <= d + 1
                              => h[d][m] = Cardinality(Over(L, D, m)) - 1}
  <1>5. 0 \in Far
    <2> SUFFICES ASSUME NEW m \in L, Cardinality(Over(L, D, m)) <= 1
                 PROVE  h[0][m] = Cardinality(Over(L, D, m)) - 1
      OBVIOUS
    <2>1. Cardinality(Over(L, D, m)) \in Nat /\ 0 < Cardinality(Over(L, D, m))
      BY OverFacts
    <2>2. 0 \in 0 .. Depth /\ m \in Slots
      BY <1>1
    <2>3. h[0][m] = 0
      BY <1>4, <2>2
    <2> QED  BY <2>1, <2>3
  <1>6. ASSUME NEW d \in Nat, d \in Far PROVE d + 1 \in Far
    <2> SUFFICES ASSUME d + 1 <= Depth, NEW m \in L, Cardinality(Over(L, D, m)) <= (d + 1) + 1
                 PROVE  h[d + 1][m] = Cardinality(Over(L, D, m)) - 1
      OBVIOUS
    <2>1. d + 1 \in 0 .. Depth /\ (d + 1) - 1 = d /\ m \in Slots /\ d + 1 /= 0 /\ d <= Depth
      BY <1>1
    <2>2. h[d + 1][m] = IF m = t.root THEN 0 ELSE 1 + h[d][t.parent[m]]
      BY <1>4, <2>1
    <2>3. CASE m = t.root
      <3>1. m /= NIL
        BY DEF Shape
      <3> QED  BY <2>2, <2>3, <3>1, OverFacts
    <2>4. CASE m /= t.root
      <3>1. PICK p : p = t.parent[m]
        OBVIOUS
      <3>2. p \in L /\ Cardinality(Over(L, D, m)) = Cardinality(Over(L, D, p)) + 1
            /\ Cardinality(Over(L, D, p)) \in Nat
        BY <2>4, <3>1, OverFacts
      <3>3. h[d][p] = Cardinality(Over(L, D, p)) - 1
        BY <1>6, <2>1, <3>2
      <3> QED  BY <2>2, <2>4, <3>1, <3>2, <3>3
    <2> QED  BY <2>3, <2>4
  <1>7. \A d \in Nat : d \in Far
    <2> HIDE DEF Far
    <2> QED  BY <1>5, <1>6, NatInSet
  <1>8. PICK p : p = t.parent[n]
    OBVIOUS
  <1>9. p \in L /\ Cardinality(Over(L, D, p)) \in Nat /\ 0 < Cardinality(Over(L, D, p))
        /\ Cardinality(Over(L, D, p)) < Depth
    BY <1>8, OverFacts
  <1>10. Depth - 1 \in Nat /\ Depth - 1 <= Depth /\ Depth \in 0 .. Depth /\ Depth /= 0
    BY <1>1, <1>9
  <1>11. h[Depth][p] = Cardinality(Over(L, D, p)) - 1 /\ h[Depth - 1][p] = Cardinality(Over(L, D, p)) - 1
    BY <1>1, <1>7, <1>9, <1>10
  <1>12. h[Depth][n] = 1 + h[Depth - 1][p]
    BY <1>4, <1>8, <1>10
  <1> QED  BY <1>2, <1>8, <1>9, <1>11, <1>12

LEMMA RecolourClimbs ==
  ASSUME RbtInv, InsertRecolour
  PROVE  AboveIn(rbt', nd') < AboveIn(rbt, nd)
  <1> USE RbtAssumption
  <1>0. /\ Typed /\ Owned /\ Phased /\ pc = "insert" /\ rbt.color[Par] = RED
        /\ rbt \in Tree /\ nd' = Grand
        /\ rbt' = Paint(Paint(rbt, {Par, Uncle}, BLACK), {Grand}, RED)
    BY DEF RbtInv, InsertRecolour, Typed
  <1>1. PICK L, t, u, y, p, g, s : /\ L = Linked /\ t = rbt /\ u = rbt' /\ y = nd /\ p = Par /\ g = Grand
                                   /\ s = ParSide
    OBVIOUS
  <1>2. L \in SUBSET Nodes /\ NIL \notin L /\ L \subseteq Slots
    BY <1>0, <1>1, LinkedFacts DEF Slots
  <1>3. PICK D, bh : Sound(t, L, key, D, bh, NULL, y)
    BY <1>0, <1>1 DEF RbtInv, Standing, Charge, Loose
  <1>4. Shape(t, L, D)
    BY <1>3 DEF Sound
  <1>5. Climbing(L, y, p, g, s)
    BY <1>0, <1>1, <1>3, InsertClimbs
  <1>6. y \in L /\ p \in L /\ g \in L /\ t.parent[y] = p /\ t.parent[p] = g
    BY <1>1, <1>5 DEF Climbing
  <1>7. p /= t.root /\ y /= t.root
    BY <1>2, <1>4, <1>6 DEF Shape
  <1>8. AboveIn(t, p) < AboveIn(t, y) /\ AboveIn(t, g) < AboveIn(t, p)
        /\ AboveIn(t, y) \in Nat /\ AboveIn(t, p) \in Nat /\ AboveIn(t, g) \in Nat
    BY <1>2, <1>4, <1>6, <1>7, AboveParent
  <1>9. u.root = t.root /\ u.parent = t.parent
    BY <1>0, <1>1, PaintFacts DEF SameLinks
  <1>10. AboveIn(u, g) = AboveIn(t, g)
    BY <1>9 DEF AboveIn
  <1> QED  BY <1>0, <1>1, <1>8, <1>10

LEMMA RotateColor ==
  ASSUME NEW t \in Tree, NEW n, NEW s \in Sides
  PROVE  Rotate(t, n, s).color = t.color
  <1> DEFINE Colored(v) == DOMAIN v = {"root", "parent", "left", "right", "color"} /\ v.color = t.color
  <1>1. PICK m, c : m = t[Other(s)][n] /\ c = t[s][m]
    BY Zenon
  <1>2. PICK u : u = IF c = NIL THEN t ELSE [t EXCEPT !.parent[c] = n]
    BY Zenon
  <1>3. Colored(u)
    BY <1>2 DEF Tree
  <1>4. PICK v : v = Replace(u, n, m)
    OBVIOUS
  <1>5. Colored(v)
    BY <1>3, <1>4 DEF Replace
  <1>6. Rotate(t, n, s) = Lower(v, n, m, c, s, t.parent[n])
    BY <1>1, <1>2, <1>4, Zenon DEF Rotate
  <1>7. Other(s) /= "color" /\ s /= "color"
    BY DEF Sides, Other
  <1> QED  BY <1>5, <1>6, <1>7 DEF Lower

(* A red sibling turned above p, which is red, ends the loop: p is painted *)
(* black; a black one leaves the tree as it is, and p is where the loop is.*)
LEMMA DebtClimbs ==
  ASSUME RbtInv, DeleteRecolour
  PROVE  rbt'.color[nd'] = RED \/ AboveIn(rbt', nd') < AboveIn(rbt, nd)
  <1> USE RbtAssumption
  <1>0. /\ Typed /\ Owned /\ Phased /\ DeleteTurn /\ pc = "delete" /\ pc' = "delete"
        /\ rbt' = Paint(BlackSibling, {Sibling(BlackSibling)}, RED)
        /\ nd' = BlackSibling.parent[nd]
    BY DEF RbtInv, DeleteRecolour, DeleteTurn
  <1>1. PICK L, t, q, x, p, s, w, v, k : /\ L = Linked /\ t = rbt /\ q = BlackSibling /\ x = nd /\ p = Par
                                         /\ s = NdSide /\ w = Sibling(rbt) /\ v = Sibling(BlackSibling)
                                         /\ k = key
    OBVIOUS
  <1>2. L \in SUBSET Nodes /\ NIL \notin L /\ L \subseteq Slots /\ t \in Tree
    BY <1>0, <1>1, LinkedFacts DEF Slots, Typed
  <1>3. PICK D, bh : Sound(rbt, L, k, D, bh, x, NULL)
    BY <1>0, <1>1 DEF RbtInv, Standing, Charge, Loose
  <1>4. Relieved(q, L, k, bh, x, p, s, v)
    BY <1>0, <1>1, <1>3, SiblingRelieved
  <1>5. /\ q \in Tree /\ p \in L /\ s \in Sides /\ q.parent[x] = p /\ x \in Slots /\ v \in L /\ v /= p
    BY <1>4 DEF Relieved, Debtor
  <1>6. PICK u : u = Paint(q, {v}, RED)
    OBVIOUS
  <1>7. u.color[p] = q.color[p] /\ u.root = q.root /\ u.parent = q.parent
    <2>1. SameLinks(q, u) /\ \A z \in Slots : u.color[z] = IF z \in {v} THEN RED ELSE q.color[z]
      BY <1>5, <1>6, PaintFacts
    <2> QED  BY <1>2, <1>5, <2>1 DEF SameLinks
  <1>8. rbt' = u /\ nd' = p
    BY <1>0, <1>1, <1>5, <1>6
  <1>9. CASE t.color[w] = BLACK
    <2>1. q = t
      BY <1>1, <1>9 DEF BlackSibling
    <2>2. Shape(t, L, D) /\ x /= t.root
      BY <1>0, <1>1, <1>3 DEF Sound, DeleteTurn
    <2>3. AboveIn(t, p) < AboveIn(t, x)
      BY <1>2, <1>5, <2>1, <2>2, AboveParent
    <2>4. AboveIn(u, p) = AboveIn(t, p)
      BY <1>7, <2>1 DEF AboveIn
    <2> QED  BY <1>1, <1>8, <2>3, <2>4
  <1>10. CASE t.color[w] /= BLACK
    <2>1. PICK m, z : m = Paint(t, {w}, BLACK) /\ z = Paint(m, {p}, RED)
      OBVIOUS
    <2>2. q = Rotate(z, p, s)
      BY <1>1, <1>10, <2>1 DEF BlackSibling
    <2>3. m \in Tree
      BY <1>2, <2>1, PaintFacts
    <2>4. z \in Tree /\ z.color[p] = RED
      BY <1>2, <1>5, <2>1, <2>3, PaintFacts
    <2>5. q.color[p] = RED
      BY <1>5, <2>2, <2>4, RotateColor
    <2> QED  BY <1>7, <1>8, <2>5
  <1> QED  BY <1>9, <1>10

(* The fix-up loops end: a turn after which the loop of smp_insert_fixup   *)
(* or of smp_delete_fixup goes on has brought its node nearer to the root. *)
THEOREM TurnsClimb == Spec => FixupsClimb
  <1>1. RbtInv /\ [Next]_vars => [(pc \in {"insert", "delete"} /\ pc' = pc)
                                  => (Stops' \/ Above(nd)' < Above(nd))]_vars
    <2> SUFFICES ASSUME RbtInv, Next, pc \in {"insert", "delete"}, pc' = pc
                 PROVE  Stops' \/ Above(nd)' < Above(nd)
      OBVIOUS
    <2>1. Above(nd) = AboveIn(rbt, nd) /\ Above(nd)' = AboveIn(rbt', nd')
      BY DEF Above, AboveIn
    <2>2. CASE InsertRecolour
      BY <2>1, <2>2, RecolourClimbs
    <2>3. CASE InsertRotate
      <3>1. \E z : Climbed(Linked, key, z)
        BY <2>3, RotateClimbs
      <3>2. rbt'.color[rbt'.parent[nd']] = BLACK /\ pc' = "insert"
        BY <2>3, <3>1 DEF Climbed, InsertRotate
      <3> QED  BY <3>2 DEF Stops, Par
    <2>4. CASE DeleteRecolour
      <3>1. pc' = "delete"
        BY <2>4 DEF DeleteRecolour, DeleteTurn
      <3>2. CASE rbt'.color[nd'] = RED
        BY <3>1, <3>2 DEF Stops, DeleteTurn, RED, BLACK
      <3> QED  BY <2>1, <2>4, <3>2, DebtClimbs
    <2>5. CASE DeleteRotate
      <3>1. pc' = "delete" /\ nd' = rbt'.root
        BY <2>5 DEF DeleteRotate, DeleteTurn
      <3> QED  BY <3>1 DEF Stops, DeleteTurn
    <2> QED
      BY <2>2, <2>3, <2>4, <2>5
      DEF Next, Step, RbtCreate, RnodeCreate, RnodeDestory, RnodeInsert, RnodeRemove, FindRemove,
          CleanBegin, InsertEnd, DeleteEnd, Unlink, CleanNode, CleanEnd
  <1> QED  BY <1>1, RbtInvariant, PTL DEF Spec, FixupsClimb
=============================================================================
