--------------------------- MODULE SmpPartsProofs ---------------------------
(***************************************************************************)
(* What is proved of SmpStack, SmpArray and SmpList, the containers that   *)
(* use no other one, for any of their constants.                           *)
(***************************************************************************)
EXTENDS SmpArray, SmpList, SmpStack, SmpWalks, FiniteSetTheorems, SequenceTheorems, TLAPS

-----------------------------------------------------------------------------
(***************************************************************************)
(* The stack.                                                              *)
(***************************************************************************)

(* The pointers nx lead from first through the len nodes of pile, the last *)
(* of them first, and through none of them twice.                          *)
Pile(first, nx, pile, len) ==
  /\ len \in Nat /\ pile \in [1 .. len -> StackNodes]
  /\ first = IF len = 0 THEN NULL ELSE pile[len]
  /\ \A i \in 1 .. len : nx[pile[i]] = IF i = 1 THEN NULL ELSE pile[i - 1]
  /\ \A i, j \in 1 .. len : pile[i] = pile[j] => i = j

In(pile, len) == {pile[i] : i \in 1 .. len}

(* How many nodes are idle.                                                *)
Spare == carved - currSize - Cardinality(popped)

(* The nodes given, shared out: the stack's, the idle ones, the client's.  *)
Shared(st, id) ==
  /\ Pile(top, below, st, currSize)
  /\ Pile(idel, below, id, Spare)
  /\ In(st, currSize) \intersect In(id, Spare) = {}
  /\ In(st, currSize) \intersect popped = {}
  /\ In(id, Spare) \intersect popped = {}
  /\ In(st, currSize) \union In(id, Spare) \union popped = 1 .. carved

(* What has been given has been written.                                   *)
Written == \A n \in 1 .. carved : datum[n] \in Data

StackInv ==
  /\ StackTypeOK
  /\ carved = most /\ carved <= MaxStackNodes
  /\ Written
  /\ \E st \in [1 .. currSize -> StackNodes], id \in [1 .. Spare -> StackNodes] : Shared(st, id)

-----------------------------------------------------------------------------
(* A node put on top of a pile.                                            *)
Grown(pile, len, n) == [i \in 1 .. len + 1 |-> IF i = len + 1 THEN n ELSE pile[i]]

LEMMA GrownHas ==
  ASSUME NEW pile, NEW len \in Nat, NEW n
  PROVE  In(Grown(pile, len, n), len + 1) = In(pile, len) \union {n}
  <1>1. /\ \A i \in 1 .. len + 1 : i \in 1 .. len \/ i = len + 1
        /\ \A i \in 1 .. len : i \in 1 .. len + 1 /\ i /= len + 1
        /\ len + 1 \in 1 .. len + 1
    OBVIOUS
  <1> QED  BY <1>1 DEF In, Grown

LEMMA PileGrows ==
  ASSUME NEW first, NEW nx \in [StackNodes -> StackNodes \union {NULL}], NEW pile, NEW len,
         Pile(first, nx, pile, len), NEW n \in StackNodes, n \notin In(pile, len)
  PROVE  Pile(n, [nx EXCEPT ![n] = first], Grown(pile, len, n), len + 1)
  <1> DEFINE g == Grown(pile, len, n)
             nn == [nx EXCEPT ![n] = first]
  <1>1. /\ len \in Nat /\ pile \in [1 .. len -> StackNodes]
        /\ \A i \in 1 .. len : pile[i] /= n /\ pile[i] \in StackNodes
        /\ \A i \in 1 .. len + 1 : i \in 1 .. len \/ i = len + 1
        /\ \A i \in 1 .. len : i \in 1 .. len + 1 /\ i /= len + 1
        /\ len + 1 \in 1 .. len + 1
    BY DEF Pile, In
  <1>2. \A i \in 1 .. len : g[i] = pile[i]
    BY <1>1 DEF Grown
  <1>3. g[len + 1] = n
    BY <1>1 DEF Grown
  <1>4. g \in [1 .. len + 1 -> StackNodes]
    BY <1>1 DEF Grown
  <1>5. ASSUME NEW i \in 1 .. len + 1
        PROVE  nn[g[i]] = IF i = 1 THEN NULL ELSE g[i - 1]
    <2>1. CASE i \in 1 .. len
      <3>1. nn[g[i]] = nx[pile[i]]
        BY <1>1, <1>2, <2>1
      <3>2. i /= 1 => i - 1 \in 1 .. len
        BY <2>1, <1>1
      <3> QED  BY <1>2, <2>1, <3>1, <3>2 DEF Pile
    <2>2. CASE i = len + 1
      <3>1. nn[g[i]] = first
        BY <1>3, <2>2
      <3>2. len /= 0 => len \in 1 .. len /\ i - 1 = len /\ i /= 1
        BY <1>1, <2>2
      <3>3. len = 0 => i = 1
        BY <2>2
      <3> HIDE DEF nn, g
      <3> QED  BY <1>2, <3>1, <3>2, <3>3 DEF Pile
    <2> QED  BY <1>1, <2>1, <2>2
  <1>6. ASSUME NEW i \in 1 .. len + 1, NEW j \in 1 .. len + 1, g[i] = g[j] PROVE i = j
    <2> HIDE DEF g
    <2> QED  BY <1>1, <1>2, <1>3, <1>6, SMTT(60) DEF Pile
  <1>7. n = (IF len + 1 = 0 THEN NULL ELSE g[len + 1]) /\ len + 1 \in Nat
    BY <1>1, <1>3
  <1> QED
    <2> HIDE DEF g, nn
    <2>1. Pile(n, nn, g, len + 1)
      BY <1>4, <1>5, <1>6, <1>7 DEF Pile
    <2> QED  BY <2>1 DEF g, nn

(* The top node of a pile taken away.                                      *)
Shrunk(pile, len) == [i \in 1 .. len - 1 |-> pile[i]]

LEMMA PileShrinks ==
  ASSUME NEW first, NEW nx, NEW pile, NEW len, Pile(first, nx, pile, len), len > 0
  PROVE  /\ first = pile[len] /\ first \in StackNodes /\ first \in In(pile, len)
         /\ len - 1 \in Nat
         /\ Pile(nx[first], nx, Shrunk(pile, len), len - 1)
         /\ In(Shrunk(pile, len), len - 1) = In(pile, len) \ {first}
  <1>1. /\ len \in Nat /\ len - 1 \in Nat /\ len \in 1 .. len /\ len /= 0
        /\ \A i \in 1 .. len - 1 : i \in 1 .. len /\ i /= len
        /\ \A i \in 1 .. len : i = len \/ i \in 1 .. len - 1
        /\ pile \in [1 .. len -> StackNodes]
    BY DEF Pile
  <1>2. first = pile[len] /\ first \in StackNodes /\ first \in In(pile, len)
    BY <1>1 DEF Pile, In
  <1>3. \A i \in 1 .. len - 1 : Shrunk(pile, len)[i] = pile[i]
    BY DEF Shrunk
  <1>4. Shrunk(pile, len) \in [1 .. len - 1 -> StackNodes]
    BY <1>1 DEF Shrunk
  <1>5. nx[first] = IF len - 1 = 0 THEN NULL ELSE Shrunk(pile, len)[len - 1]
    <2>1. nx[first] = IF len = 1 THEN NULL ELSE pile[len - 1]
      BY <1>1, <1>2 DEF Pile
    <2>2. len /= 1 => len - 1 \in 1 .. len - 1 /\ len - 1 /= 0
      BY <1>1
    <2> QED  BY <1>3, <2>1, <2>2
  <1>6. ASSUME NEW i \in 1 .. len - 1
        PROVE  nx[Shrunk(pile, len)[i]] = IF i = 1 THEN NULL ELSE Shrunk(pile, len)[i - 1]
    <2>1. i /= 1 => i - 1 \in 1 .. len - 1
      BY <1>1
    <2> QED  BY <1>1, <1>3, <2>1 DEF Pile
  <1>7. \A i, j \in 1 .. len - 1 : Shrunk(pile, len)[i] = Shrunk(pile, len)[j] => i = j
    BY <1>1, <1>3 DEF Pile
  <1>8. In(Shrunk(pile, len), len - 1) = In(pile, len) \ {first}
    <2>1. \A i \in 1 .. len - 1 : pile[i] /= pile[len]
      BY <1>1 DEF Pile
    <2> QED  BY <1>1, <1>2, <1>3, <2>1 DEF In
  <1> QED  BY <1>1, <1>2, <1>4, <1>5, <1>6, <1>7, <1>8 DEF Pile

(* A pointer of another node written.                                      *)
LEMMA PileStays ==
  ASSUME NEW first, NEW nx \in [StackNodes -> StackNodes \union {NULL}], NEW pile, NEW len,
         Pile(first, nx, pile, len), NEW n, n \notin In(pile, len), NEW m
  PROVE  Pile(first, [nx EXCEPT ![n] = m], pile, len)
  <1>1. \A i \in 1 .. len : pile[i] /= n /\ pile[i] \in StackNodes
    BY DEF Pile, In
  <1>2. \A i \in 1 .. len : [nx EXCEPT ![n] = m][pile[i]] = nx[pile[i]]
    BY <1>1
  <1> QED  BY <1>2 DEF Pile

-----------------------------------------------------------------------------
LEMMA StackFacts ==
  ASSUME StackInv
  PROVE  /\ NULL \notin StackNodes
         /\ currSize \in Nat /\ carved \in Nat /\ most = carved
         /\ IsFiniteSet(popped) /\ Cardinality(popped) \in Nat
         /\ below \in [StackNodes -> StackNodes \union {NULL}]
         /\ datum \in [StackNodes -> Data \union {BLANK}]
         /\ popped \subseteq StackNodes
  <1>1. popped \subseteq StackNodes /\ IsFiniteSet(StackNodes)
    BY StackAssumption, FS_Interval DEF StackInv, StackTypeOK, StackNodes
  <1>2. IsFiniteSet(popped) /\ Cardinality(popped) \in Nat
    BY <1>1, FS_Subset, FS_CardinalityType
  <1> QED  BY <1>1, <1>2 DEF StackInv, StackTypeOK, StackNodes, NULL

(* What the shares of the nodes say of each.                               *)
LEMMA SharedFacts ==
  ASSUME StackInv, NEW st, NEW id, Shared(st, id)
  PROVE  /\ Spare \in Nat
         /\ st \in [1 .. currSize -> StackNodes] /\ id \in [1 .. Spare -> StackNodes]
         /\ In(st, currSize) \subseteq StackNodes /\ In(id, Spare) \subseteq StackNodes
         /\ currSize = 0 <=> top = NULL
         /\ Spare = 0 <=> idel = NULL
  <1>1. /\ Spare \in Nat
        /\ st \in [1 .. currSize -> StackNodes] /\ id \in [1 .. Spare -> StackNodes]
    BY DEF Shared, Pile
  <1>2. In(st, currSize) \subseteq StackNodes /\ In(id, Spare) \subseteq StackNodes
    BY <1>1 DEF In
  <1>3. currSize = 0 => top = NULL
    BY DEF Shared, Pile
  <1>4. Spare = 0 => idel = NULL
    BY DEF Shared, Pile
  <1>5. currSize > 0 => top \in StackNodes
    BY PileShrinks DEF Shared
  <1>6. Spare > 0 => idel \in StackNodes
    <2> SUFFICES ASSUME Spare > 0 PROVE idel \in StackNodes
      OBVIOUS
    <2>1. Pile(idel, below, id, Spare)
      BY DEF Shared
    <2> HIDE DEF Spare
    <2> QED  BY <2>1, PileShrinks
  <1>7. currSize \in Nat /\ NULL \notin StackNodes
    BY StackFacts
  <1> QED
    <2> HIDE DEF Spare
    <2> QED  BY <1>1, <1>2, <1>3, <1>4, <1>5, <1>6, <1>7

(* A push puts its node, which was nobody's, on top of the stack's.        *)
LEMMA PushShares ==
  ASSUME StackInv, NEW st, NEW id, Shared(st, id),
         NEW n \in StackNodes, NEW x \in Data, StackPush(n, x)
  PROVE  /\ n \notin In(st, currSize) /\ n \notin popped
         /\ carved' = most' /\ carved' <= MaxStackNodes /\ carved' \in Nat
         /\ idel' \in StackNodes \union {NULL}
         /\ \E st1, id1 : st1 = Grown(st, currSize, n) /\ Shared(st1, id1)'
  <1>1. /\ Pile(top, below, st, currSize) /\ Pile(idel, below, id, Spare)
        /\ In(st, currSize) \intersect In(id, Spare) = {}
        /\ In(st, currSize) \intersect popped = {}
        /\ In(id, Spare) \intersect popped = {}
        /\ In(st, currSize) \union In(id, Spare) \union popped = 1 .. carved
    BY DEF Shared
  <1>2. /\ currSize \in Nat /\ carved \in Nat /\ most = carved /\ Cardinality(popped) \in Nat
        /\ below \in [StackNodes -> StackNodes \union {NULL}] /\ NULL \notin StackNodes
    BY StackFacts
  <1>3. /\ Spare \in Nat /\ Spare = carved - currSize - Cardinality(popped)
        /\ Spare = 0 <=> idel = NULL
    <2>1. Spare = carved - currSize - Cardinality(popped)
      BY DEF Spare
    <2> QED  BY <2>1, SharedFacts
  <1>4. /\ below' = [below EXCEPT ![n] = top] /\ top' = n /\ currSize' = currSize + 1
        /\ popped' = popped
        /\ most' = LET out == currSize + 1 + Cardinality(popped) IN IF out > most THEN out ELSE most
    BY DEF StackPush
  <1>0. PICK s1 : s1 = Grown(st, currSize, n)
    OBVIOUS
  <1>5. ASSUME n \notin In(st, currSize)
        PROVE  /\ Pile(n, below', s1, currSize')
               /\ In(s1, currSize') = In(st, currSize) \union {n}
    <2>1. Pile(n, [below EXCEPT ![n] = top], Grown(st, currSize, n), currSize + 1)
      BY <1>1, <1>2, <1>5, PileGrows
    <2>2. In(Grown(st, currSize, n), currSize + 1) = In(st, currSize) \union {n}
      BY <1>2, GrownHas
    <2> QED  BY <1>0, <1>4, <2>1, <2>2
  <1>6. CASE idel /= NULL /\ n = idel /\ idel' = below[n] /\ UNCHANGED carved
    <2>1. Spare > 0
      BY <1>3, <1>6
    <2>2. /\ n \in In(id, Spare)
          /\ Pile(idel', below, Shrunk(id, Spare), Spare - 1)
          /\ In(Shrunk(id, Spare), Spare - 1) = In(id, Spare) \ {n}
      <3> HIDE DEF Spare
      <3> QED  BY <1>1, <1>6, <2>1, PileShrinks
    <2>3. n \notin In(st, currSize) /\ n \notin popped
      BY <1>1, <2>2
    <2>4. Spare' = Spare - 1
      BY <1>2, <1>3, <1>4, <1>6 DEF Spare
    <2>10. PICK d1 : d1 = Shrunk(id, Spare)
      OBVIOUS
    <2>5. Pile(idel', below', d1, Spare') /\ In(d1, Spare') = In(id, Spare) \ {n}
      <3>1. Pile(idel', below, d1, Spare') /\ In(d1, Spare') = In(id, Spare) \ {n}
        BY <2>2, <2>4, <2>10
      <3>2. n \notin In(d1, Spare')
        BY <3>1
      <3>3. Pile(idel', [below EXCEPT ![n] = top], d1, Spare')
        BY <1>2, <3>1, <3>2, PileStays
      <3> QED  BY <1>4, <3>1, <3>3
    <2>6. carved' = most' /\ carved' = carved
      BY <1>2, <1>3, <1>4, <1>6, <2>1
    <2>7. Shared(s1, d1)'
      <3>1. /\ In(s1, currSize') \intersect In(d1, Spare') = {}
            /\ In(s1, currSize') \intersect popped' = {}
            /\ In(d1, Spare') \intersect popped' = {}
            /\ In(s1, currSize') \union In(d1, Spare')
                 \union popped' = 1 .. carved'
        BY <1>1, <1>4, <1>5, <2>2, <2>3, <2>5, <2>6
      <3> QED  BY <1>4, <1>5, <2>3, <2>5, <3>1 DEF Shared
    <2>8. carved' <= MaxStackNodes /\ idel' \in StackNodes \union {NULL}
      BY <1>2, <1>6, <2>6 DEF StackInv
    <2> QED  BY <1>0, <1>2, <2>3, <2>6, <2>7, <2>8
  <1>7. CASE idel = NULL /\ n = carved + 1 /\ carved' = n /\ UNCHANGED idel
    <2>1. Spare = 0
      BY <1>3, <1>7
    <2>2. n \notin In(st, currSize) /\ n \notin popped /\ n \notin In(id, Spare)
      BY <1>1, <1>2, <1>7
    <2>3. Spare' = Spare
      BY <1>2, <1>3, <1>4, <1>7 DEF Spare
    <2>4. Pile(idel', below', id, Spare')
      BY <1>1, <1>2, <1>4, <1>7, <2>2, <2>3, PileStays
    <2>5. carved' = most' /\ carved' = carved + 1 /\ carved' \in Nat /\ carved' <= MaxStackNodes
      BY <1>2, <1>3, <1>4, <1>7, <2>1, StackAssumption DEF StackNodes
    <2>6. 1 .. carved' = (1 .. carved) \union {n}
      BY <1>2, <1>7, <2>5
    <2>7. Shared(s1, id)'
      <3>1. /\ In(s1, currSize') \intersect In(id, Spare') = {}
            /\ In(s1, currSize') \intersect popped' = {}
            /\ In(id, Spare') \intersect popped' = {}
            /\ In(s1, currSize') \union In(id, Spare') \union popped'
                 = 1 .. carved'
        BY <1>1, <1>4, <1>5, <2>2, <2>3, <2>6
      <3> QED  BY <1>4, <1>5, <2>2, <2>4, <3>1 DEF Shared
    <2> QED  BY <1>0, <1>7, <2>2, <2>5, <2>7
  <1> QED  BY <1>6, <1>7 DEF StackPush, StackNode

(* A pop takes the topmost node, which is nobody's but the client's then.  *)
LEMMA PopShares ==
  ASSUME StackInv, NEW st, NEW id, Shared(st, id), StackPop
  PROVE  /\ currSize > 0 /\ top = st[currSize] /\ top \in StackNodes /\ top \notin popped
         /\ top' \in StackNodes \union {NULL} /\ currSize' \in Nat
         /\ \E st1 : st1 = Shrunk(st, currSize) /\ Shared(st1, id)'
  <1>1. /\ Pile(top, below, st, currSize) /\ Pile(idel, below, id, Spare)
        /\ In(st, currSize) \intersect In(id, Spare) = {}
        /\ In(st, currSize) \intersect popped = {}
        /\ In(id, Spare) \intersect popped = {}
        /\ In(st, currSize) \union In(id, Spare) \union popped = 1 .. carved
    BY DEF Shared
  <1>2. /\ currSize \in Nat /\ carved \in Nat /\ Cardinality(popped) \in Nat
        /\ below \in [StackNodes -> StackNodes \union {NULL}] /\ IsFiniteSet(popped)
    BY StackFacts
  <1>3. currSize > 0
    BY <1>2 DEF StackPop, StackEmpty
  <1>4. /\ below' = [below EXCEPT ![top] = NULL] /\ top' = below[top]
        /\ currSize' = currSize - 1 /\ popped' = popped \union {top}
        /\ idel' = idel /\ carved' = carved
    BY DEF StackPop
  <1>5. PICK s1 : s1 = Shrunk(st, currSize)
    OBVIOUS
  <1>6. /\ top = st[currSize] /\ top \in StackNodes /\ top \in In(st, currSize)
        /\ currSize' \in Nat
        /\ Pile(top', below, s1, currSize') /\ In(s1, currSize') = In(st, currSize) \ {top}
    BY <1>1, <1>3, <1>4, <1>5, PileShrinks
  <1>7. top \notin popped /\ top \notin In(id, Spare)
    BY <1>1, <1>6
  <1>8. Cardinality(popped') = Cardinality(popped) + 1
    BY <1>2, <1>4, <1>7, FS_AddElement
  <1>9. Spare' = Spare
    BY <1>2, <1>4, <1>8 DEF Spare
  <1>10. Pile(top', below', s1, currSize')
    BY <1>2, <1>4, <1>6, PileStays
  <1>11. Pile(idel', below', id, Spare')
    BY <1>1, <1>2, <1>4, <1>7, <1>9, PileStays
  <1>12. Shared(s1, id)'
    <2>1. /\ In(s1, currSize') \intersect In(id, Spare') = {}
          /\ In(s1, currSize') \intersect popped' = {}
          /\ In(id, Spare') \intersect popped' = {}
          /\ In(s1, currSize') \union In(id, Spare') \union popped' = 1 .. carved'
      BY <1>1, <1>4, <1>6, <1>7, <1>9
    <2> QED  BY <1>10, <1>11, <2>1 DEF Shared
  <1> QED  BY <1>2, <1>3, <1>4, <1>5, <1>6, <1>7, <1>12

(* A node given back is the first one idle.                                *)
LEMMA RecoverShares ==
  ASSUME StackInv, NEW st, NEW id, Shared(st, id), NEW n \in StackNodes, StackRecover(n)
  PROVE  \E id1 : Shared(st, id1)'
  <1>1. /\ Pile(top, below, st, currSize) /\ Pile(idel, below, id, Spare)
        /\ In(st, currSize) \intersect In(id, Spare) = {}
        /\ In(st, currSize) \intersect popped = {}
        /\ In(id, Spare) \intersect popped = {}
        /\ In(st, currSize) \union In(id, Spare) \union popped = 1 .. carved
    BY DEF Shared
  <1>2. /\ currSize \in Nat /\ carved \in Nat /\ Cardinality(popped) \in Nat
        /\ below \in [StackNodes -> StackNodes \union {NULL}] /\ IsFiniteSet(popped)
    BY StackFacts
  <1>3. /\ below' = [below EXCEPT ![n] = idel] /\ idel' = n /\ n \in popped
        /\ popped' = popped \ {n} /\ top' = top /\ currSize' = currSize /\ carved' = carved
    BY DEF StackRecover
  <1>4. n \notin In(st, currSize) /\ n \notin In(id, Spare)
    BY <1>1, <1>3
  <1>5. Cardinality(popped') = Cardinality(popped) - 1
    BY <1>2, <1>3, FS_RemoveElement
  <1>6. Spare' = Spare + 1 /\ Spare \in Nat
    <2>1. Spare' = Spare + 1
      BY <1>2, <1>3, <1>5 DEF Spare
    <2> QED  BY <2>1, SharedFacts
  <1>7. PICK d1 : d1 = Grown(id, Spare, n)
    OBVIOUS
  <1>8. In(d1, Spare') = In(id, Spare) \union {n}
    <2>1. In(Grown(id, Spare, n), Spare + 1) = In(id, Spare) \union {n}
      BY <1>6, GrownHas
    <2> QED  BY <1>6, <1>7, <2>1
  <1>9. Pile(idel', below', d1, Spare')
    <2>1. Pile(n, [below EXCEPT ![n] = idel], Grown(id, Spare, n), Spare + 1)
      <3> HIDE DEF Spare
      <3> QED  BY <1>1, <1>2, <1>4, PileGrows
    <2> QED  BY <1>3, <1>6, <1>7, <2>1
  <1>10. Pile(top', below', st, currSize')
    BY <1>1, <1>2, <1>3, <1>4, PileStays
  <1>11. /\ In(st, currSize') \intersect In(d1, Spare') = {}
         /\ In(st, currSize') \intersect popped' = {}
         /\ In(d1, Spare') \intersect popped' = {}
         /\ In(st, currSize') \union In(d1, Spare') \union popped' = 1 .. carved'
    BY <1>1, <1>3, <1>4, <1>8
  <1>12. Shared(st, d1)'
    BY <1>9, <1>10, <1>11 DEF Shared
  <1> QED  BY <1>12

(* Where there are no nodes, there is nothing to share.                    *)
LEMMA NothingShared ==
  ASSUME currSize = 0, top = NULL, idel = NULL, carved = 0, popped = {}
  PROVE  Shared(<<>>, <<>>)
  <1>1. Spare = 0
    BY FS_EmptySet DEF Spare
  <1>2. In(<<>>, 0) = {}
    BY DEF In
  <1>3. Pile(NULL, below, <<>>, 0)
    BY DEF Pile
  <1> QED  BY <1>1, <1>2, <1>3 DEF Shared

LEMMA NoNodesShared ==
  ASSUME NoNodes
  PROVE  Shared(<<>>, <<>>)'
  <1>1. (currSize = 0 /\ top = NULL /\ idel = NULL /\ carved = 0 /\ popped = {}
           => Shared(<<>>, <<>>))'
    BY NothingShared, PTL
  <1> QED  BY <1>1 DEF NoNodes

(* A step that leaves nodes and pointers alone leaves their shares alone.  *)
LEMMA SharesStay ==
  ASSUME NEW st, NEW id, Shared(st, id), UNCHANGED <<currSize, top, idel, below, carved, popped>>
  PROVE  Shared(st, id)'
  BY DEF Shared, Spare

(* The invariant, from the shares.                                         *)
LEMMA InvFromShares ==
  \A st, id : /\ StackTypeOK /\ carved = most /\ carved <= MaxStackNodes /\ Written
              /\ Shared(st, id)
              => StackInv
  <1> SUFFICES ASSUME StackTypeOK, carved = most, carved <= MaxStackNodes, Written,
                      NEW st, NEW id, Shared(st, id)
               PROVE  StackInv
    OBVIOUS
  <1>1. st \in [1 .. currSize -> StackNodes] /\ id \in [1 .. Spare -> StackNodes]
    BY DEF Shared, Pile
  <1> QED  BY <1>1 DEF StackInv

LEMMA InvFromSharesNext ==
  ASSUME StackTypeOK', (carved = most)', (carved <= MaxStackNodes)', Written',
         NEW s1, NEW d1, Shared(s1, d1)'
  PROVE  StackInv'
  <1>1. (\A st, id : /\ StackTypeOK /\ carved = most /\ carved <= MaxStackNodes /\ Written
                     /\ Shared(st, id)
                     => StackInv)'
    BY InvFromShares, PTL
  <1> QED  BY <1>1

-----------------------------------------------------------------------------
(* The invariant holds from the start and in every step.                   *)
LEMMA StackStarts == StackInit => StackInv
  <1> SUFFICES ASSUME StackInit PROVE StackInv
    OBVIOUS
  <1>1. 0 \in Nat /\ \A n \in StackNodes : n \in Nat
    BY DEF StackNodes
  <1>2. StackTypeOK
    BY <1>1 DEF StackInit, StackTypeOK, NULL, UNLIMITED
  <1>3. Shared(<<>>, <<>>)
    BY NothingShared DEF StackInit
  <1>4. carved = most /\ carved <= MaxStackNodes /\ Written
    BY StackAssumption DEF StackInit, Written
  <1> QED  BY <1>2, <1>3, <1>4, InvFromShares

LEMMA StackTyped == ASSUME StackInv, StackNext PROVE StackTypeOK'
  <1> USE DEF StackInv, StackTypeOK
  <1>0. /\ 0 \in Nat /\ UNLIMITED \in Nat /\ NULL \in StackNodes \union {NULL}
        /\ \A l \in 0 .. MaxStackSize : l \in Nat
        /\ BLANK \in Data \union {BLANK}
    BY StackAssumption DEF UNLIMITED
  <1>1. CASE \E limit \in 0 .. MaxStackSize : StackCreate(limit)
    BY <1>0, <1>1 DEF StackCreate, NoNodes
  <1>2. CASE \E n \in StackNodes, x \in Data : StackPush(n, x)
    <2>1. PICK n \in StackNodes, x \in Data : StackPush(n, x)
      BY <1>2
    <2>2. PICK st, id : Shared(st, id)
      OBVIOUS
    <2>3. carved' = most' /\ carved' \in Nat /\ idel' \in StackNodes \union {NULL}
      BY <2>1, <2>2, PushShares
    <2> QED  BY <2>1, <2>3 DEF StackPush
  <1>3. CASE StackRefuse
    BY <1>3 DEF StackRefuse
  <1>4. CASE StackPop
    <2>1. PICK st, id : Shared(st, id)
      OBVIOUS
    <2>2. top \in StackNodes /\ top' \in StackNodes \union {NULL} /\ currSize' \in Nat /\ currSize > 0
      BY <1>4, <2>1, PopShares
    <2>3. datum[top] \in Data
      <3>1. top \in In(st, currSize)
        BY <2>1, <2>2, PileShrinks DEF Shared
      <3> QED  BY <2>1, <3>1 DEF Shared, Written
    <2> QED  BY <1>0, <1>4, <2>2, <2>3 DEF StackPop
  <1>5. CASE StackPopNone
    BY <1>5 DEF StackPopNone
  <1>6. CASE \E n \in StackNodes : StackRecover(n)
    BY <1>6 DEF StackRecover
  <1>7. CASE StackDestory
    BY <1>0, <1>7 DEF StackDestory, NoNodes
  <1> QED  BY <1>1, <1>2, <1>3, <1>4, <1>5, <1>6, <1>7 DEF StackNext

(* Every step shares the nodes out anew.                                   *)
LEMMA StackStep == ASSUME StackInv, [StackNext]_stackVars PROVE StackInv'
  <1>1. CASE UNCHANGED stackVars
    BY <1>1 DEF stackVars, StackInv, StackTypeOK, Written, Shared, Spare
  <1> SUFFICES ASSUME StackNext PROVE StackInv'
    BY <1>1
  <1>2. StackTypeOK'
    BY StackTyped
  <1>3. PICK st, id : Shared(st, id)
    BY DEF StackInv
  <1>4. SUFFICES /\ (carved = most)' /\ (carved <= MaxStackNodes)' /\ Written'
                 /\ \E s1, d1 : Shared(s1, d1)'
    BY <1>2, InvFromSharesNext
  <1>5. CASE NoNodes
    BY <1>5, NoNodesShared, StackAssumption DEF NoNodes, Written
  <1>6. CASE \E n \in StackNodes, x \in Data : StackPush(n, x)
    <2>1. PICK n \in StackNodes, x \in Data : StackPush(n, x)
      BY <1>6
    <2>2. /\ carved' = most' /\ carved' <= MaxStackNodes
          /\ \E s1, d1 : Shared(s1, d1)'
      BY <1>3, <2>1, PushShares
    <2>3. \A m \in 1 .. carved' : m \in StackNodes /\ (m = n \/ m \in 1 .. carved)
      <3>1. carved \in Nat /\ carved' <= MaxStackNodes /\ MaxStackNodes \in Nat
        BY <2>2, StackFacts, StackAssumption
      <3>2. carved' = carved \/ (n = carved + 1 /\ carved' = n)
        BY <2>1 DEF StackPush, StackNode
      <3> QED  BY <3>1, <3>2 DEF StackNodes
    <2>4. datum' = [datum EXCEPT ![n] = x] /\ datum \in [StackNodes -> Data \union {BLANK}]
      BY <2>1, StackFacts DEF StackPush
    <2>5. Written'
      BY <2>3, <2>4 DEF Written, StackInv
    <2> QED  BY <2>2, <2>5
  <1>7. CASE StackRefuse \/ StackPopNone
    <2>1. UNCHANGED <<currSize, top, idel, below, carved, popped>>
          /\ UNCHANGED <<carved, most, datum>>
      BY <1>7 DEF StackRefuse, StackPopNone
    <2> QED  BY <1>3, <2>1, SharesStay DEF StackInv, Written
  <1>8. CASE StackPop
    <2>1. UNCHANGED <<carved, most, datum>>
      BY <1>8 DEF StackPop
    <2> QED  BY <1>3, <1>8, <2>1, PopShares DEF StackInv, Written
  <1>9. CASE \E n \in StackNodes : StackRecover(n)
    <2>1. PICK n \in StackNodes : StackRecover(n)
      BY <1>9
    <2>2. UNCHANGED <<carved, most, datum>>
      BY <2>1 DEF StackRecover
    <2> QED  BY <1>3, <2>1, <2>2, RecoverShares DEF StackInv, Written
  <1> QED  BY <1>5, <1>6, <1>7, <1>8, <1>9 DEF StackNext, StackCreate, StackDestory

(* StackInv is an invariant, for every limit and every number of nodes.    *)
THEOREM StackInvariant == StackSpec => []StackInv
  <1>1. StackInv /\ [StackNext]_stackVars => StackInv'
    BY StackStep
  <1> QED  BY <1>1, StackStarts, PTL DEF StackSpec

(* Every variable of the stack has its type.                               *)
THEOREM StackTyping == StackSpec => []StackTypeOK
  <1>1. StackInv => StackTypeOK
    BY DEF StackInv
  <1> QED  BY <1>1, StackInvariant, PTL

-----------------------------------------------------------------------------
(* A chain, followed from its first node, is the pile from its top.        *)
LEMMA ChainMeets ==
  ASSUME NEW first, NEW pile, NEW len, Pile(first, below, pile, len), len <= MaxStackNodes
  PROVE  /\ \A k \in 1 .. MaxStackNodes + 1 :
              Chain(first)[k] = IF k <= len THEN pile[len + 1 - k] ELSE NULL
         /\ InChain(first) = In(pile, len)
         /\ IsFiniteSet(In(pile, len)) /\ Cardinality(In(pile, len)) = len
  <1> DEFINE upto == 1 .. MaxStackNodes + 1
             down == [i \in 1 .. len |-> pile[len + 1 - i]]
  <1>1. /\ len \in Nat /\ pile \in [1 .. len -> StackNodes]
        /\ \A i \in 1 .. len : pile[i] \in StackNodes /\ pile[i] /= NULL
        /\ \A i \in 1 .. len : len + 1 - i \in 1 .. len /\ len + 1 - (len + 1 - i) = i
        /\ MaxStackNodes \in Nat
    BY StackAssumption DEF Pile, StackNodes, NULL
  <1>2. Chained(first, below, NULL, down, len)
    <2>1. \A i \in 1 .. len : down[i] = pile[len + 1 - i] /\ down[i] /= NULL
      BY <1>1
    <2>2. first = IF len = 0 THEN NULL ELSE down[1]
      BY <1>1, <2>1 DEF Pile
    <2>3. ASSUME NEW i \in 1 .. len
          PROVE  below[down[i]] = IF i = len THEN NULL ELSE down[i + 1]
      <3>1. below[down[i]] = IF len + 1 - i = 1 THEN NULL ELSE pile[(len + 1 - i) - 1]
        BY <1>1, <2>1 DEF Pile
      <3>2. len + 1 - i = 1 <=> i = len
        BY <1>1
      <3>3. i /= len => i + 1 \in 1 .. len /\ len + 1 - (i + 1) = (len + 1 - i) - 1
        BY <1>1
      <3> HIDE DEF down
      <3> QED  BY <2>1, <3>1, <3>2, <3>3
    <2> HIDE DEF down
    <2> QED  BY <1>1, <2>1, <2>2, <2>3 DEF Chained
  <1>3. Stepwise(upto)
    BY <1>1, StepsIn
  <1>4. Chain(first) = CHOOSE f : f = Walking(f, upto, first, below, NULL)
    <2>1. \A f : [k \in upto |-> IF k = 1 THEN first
                                 ELSE IF f[k - 1] = NULL THEN NULL ELSE below[f[k - 1]]]
                 = Walking(f, upto, first, below, NULL)
      <3>1. \A k \in upto : k = 1 <=> k <= 1
        BY <1>1
      <3> QED  BY <3>1 DEF Walking, Onto
    <2> QED  BY <2>1 DEF Chain
  <1>5. Chain(first) = Walking(Chain(first), upto, first, below, NULL)
    <2> HIDE DEF down, upto
    <2>1. \E f : f = Walking(f, upto, first, below, NULL)
      BY <1>2, <1>3, WalkExists
    <2> QED  BY <1>4, <2>1
  <1>6. \A k \in upto \ {0} : Chain(first)[k] = IF k <= len THEN down[k] ELSE NULL
    <2> HIDE DEF down, upto
    <2> QED  BY <1>2, <1>3, <1>5, WalkMeets
  <1>7. \A k \in upto : Chain(first)[k] = IF k <= len THEN pile[len + 1 - k] ELSE NULL
    <2>1. \A k \in upto : k \in upto \ {0} /\ (k <= len => k \in 1 .. len)
      BY <1>1
    <2> QED  BY <1>6, <2>1
  <1>8. InChain(first) = In(pile, len)
    <2>1. \A k \in 1 .. len : k \in upto
      BY <1>1
    <2>2. \A k \in 1 .. len : Chain(first)[len + 1 - k] = pile[k] /\ len + 1 - k \in upto
      BY <1>1, <1>7, <2>1
    <2>3. \A k \in upto : k <= len => len + 1 - k \in 1 .. len
      BY <1>1
    <2>4. ASSUME NEW n \in InChain(first) PROVE n \in In(pile, len)
      <3>1. PICK k \in upto : n = Chain(first)[k] /\ n /= NULL
        BY DEF InChain
      <3>2. k <= len /\ n = pile[len + 1 - k]
        BY <1>7, <3>1
      <3> QED  BY <2>3, <3>2 DEF In
    <2>5. ASSUME NEW n \in In(pile, len) PROVE n \in InChain(first)
      <3>1. PICK k \in 1 .. len : n = pile[k]
        BY DEF In
      <3>2. len + 1 - k \in upto /\ n = Chain(first)[len + 1 - k] /\ n /= NULL
        BY <1>1, <2>2, <3>1
      <3> QED  BY <3>2 DEF InChain
    <2> QED  BY <2>4, <2>5
  <1>9. IsFiniteSet(In(pile, len)) /\ Cardinality(In(pile, len)) = len
    <2>1. pile \in Bijection(1 .. len, In(pile, len))
      BY <1>1 DEF Pile, In, Bijection, Injection, Surjection, IsInjective
    <2>2. ExistsBijection(1 .. len, In(pile, len))
      BY <2>1 DEF ExistsBijection
    <2> QED  BY <1>1, <2>2, FS_CountingElements, FS_NatBijection
  <1> QED  BY <1>7, <1>8, <1>9

(* Both chains of the stack.                                               *)
LEMMA BothChains ==
  ASSUME StackInv, NEW st, NEW id, Shared(st, id)
  PROVE  /\ \A k \in 1 .. MaxStackNodes + 1 :
              /\ Chain(top)[k] = IF k <= currSize THEN st[currSize + 1 - k] ELSE NULL
              /\ Chain(idel)[k] = IF k <= Spare THEN id[Spare + 1 - k] ELSE NULL
         /\ InChain(top) = In(st, currSize) /\ Cardinality(InChain(top)) = currSize
         /\ InChain(idel) = In(id, Spare) /\ Cardinality(InChain(idel)) = Spare
         /\ currSize <= MaxStackNodes /\ Spare <= MaxStackNodes
  <1>1. /\ Spare \in Nat /\ currSize \in Nat /\ Cardinality(popped) \in Nat /\ carved \in Nat
        /\ carved <= MaxStackNodes /\ MaxStackNodes \in Nat
        /\ Spare = carved - currSize - Cardinality(popped)
    <2>1. Spare = carved - currSize - Cardinality(popped)
      BY DEF Spare
    <2> QED  BY <2>1, StackFacts, SharedFacts, StackAssumption DEF StackInv
  <1>2. currSize <= MaxStackNodes /\ Spare <= MaxStackNodes
    BY <1>1
  <1>3. Pile(top, below, st, currSize) /\ Pile(idel, below, id, Spare)
    BY DEF Shared
  <1>4. /\ \A k \in 1 .. MaxStackNodes + 1 :
             Chain(top)[k] = IF k <= currSize THEN st[currSize + 1 - k] ELSE NULL
        /\ InChain(top) = In(st, currSize) /\ Cardinality(In(st, currSize)) = currSize
    BY <1>2, <1>3, ChainMeets
  <1>5. /\ \A k \in 1 .. MaxStackNodes + 1 :
             Chain(idel)[k] = IF k <= Spare THEN id[Spare + 1 - k] ELSE NULL
        /\ InChain(idel) = In(id, Spare) /\ Cardinality(In(id, Spare)) = Spare
    BY <1>2, <1>3, ChainMeets
  <1> QED  BY <1>2, <1>4, <1>5

(* No node of the stack is lost or in two places, both chains end, and the *)
(* pool is asked for no more nodes than were in use at a time.             *)
THEOREM NodesApart == StackSpec => []StackApart
  <1>1. ASSUME StackInv PROVE StackApart
    <2>1. PICK st, id : Shared(st, id)
      BY <1>1 DEF StackInv
    <2>2. /\ Spare \in Nat /\ currSize \in Nat /\ Cardinality(popped) \in Nat /\ carved \in Nat
          /\ Spare = carved - currSize - Cardinality(popped) /\ MaxStackNodes \in Nat
      <3>1. Spare = carved - currSize - Cardinality(popped)
        BY DEF Spare
      <3> QED  BY <1>1, <2>1, <3>1, StackFacts, SharedFacts, StackAssumption
    <2>3. /\ Chain(top)[MaxStackNodes + 1] = NULL /\ Chain(idel)[MaxStackNodes + 1] = NULL
          /\ InChain(top) = In(st, currSize) /\ Cardinality(InChain(top)) = currSize
          /\ InChain(idel) = In(id, Spare) /\ Cardinality(InChain(idel)) = Spare
      <3>1. MaxStackNodes + 1 \in 1 .. MaxStackNodes + 1
        BY <2>2
      <3> QED  BY <1>1, <2>1, <2>2, <3>1, BothChains
    <2>4. currSize + Cardinality(InChain(idel)) + Cardinality(popped) = carved
      BY <2>2, <2>3
    <2>5. InChain(top) \union InChain(idel) \union popped = 1 .. carved
      BY <2>1, <2>3 DEF Shared
    <2>6. carved = most
      BY <1>1 DEF StackInv
    <2> QED  BY <2>3, <2>4, <2>5, <2>6 DEF StackApart
  <1> QED  BY <1>1, StackInvariant, PTL

-----------------------------------------------------------------------------
(* The stack implements SmpLifo.                                           *)
Stacked == [k \in 1 .. currSize |-> datum[Chain(top)[currSize + 1 - k]]]
Taken   == {<<n, datum[n]>> : n \in popped}

LEMMA StackedIs ==
  \A st, id : StackInv /\ Shared(st, id) => Stacked = [k \in 1 .. currSize |-> datum[st[k]]]
  <1> SUFFICES ASSUME StackInv, NEW st, NEW id, Shared(st, id)
               PROVE  Stacked = [k \in 1 .. currSize |-> datum[st[k]]]
    OBVIOUS
  <1>1. currSize \in Nat /\ currSize <= MaxStackNodes /\ MaxStackNodes \in Nat
    BY StackFacts, BothChains, StackAssumption
  <1>2. \A k \in 1 .. currSize : /\ currSize + 1 - k \in 1 .. MaxStackNodes + 1
                                 /\ currSize + 1 - k <= currSize
                                 /\ currSize + 1 - (currSize + 1 - k) = k
    BY <1>1
  <1>3. \A k \in 1 .. currSize : Chain(top)[currSize + 1 - k] = st[k]
    BY <1>2, BothChains
  <1> QED  BY <1>3 DEF Stacked

LEMMA StackedNext ==
  ASSUME StackInv', NEW s1, NEW d1, Shared(s1, d1)'
  PROVE  Stacked' = [k \in 1 .. currSize' |-> datum'[s1[k]]]
  <1>1. (\A st, id : StackInv /\ Shared(st, id)
                       => Stacked = [k \in 1 .. currSize |-> datum[st[k]]])'
    BY StackedIs, PTL
  <1> QED  BY <1>1

LEMMA LifoStep ==
  ASSUME StackInv, StackInv', [StackNext]_stackVars
  PROVE  [Lifo!LNext]_(Lifo!lvars)
  <1>1. PICK st, id : Shared(st, id)
    BY DEF StackInv
  <1>2. /\ Stacked = [k \in 1 .. currSize |-> datum[st[k]]]
        /\ st \in [1 .. currSize -> StackNodes]
        /\ In(st, currSize) \subseteq StackNodes
    BY <1>1, StackedIs, SharedFacts
  <1>3. /\ currSize \in Nat /\ datum \in [StackNodes -> Data \union {BLANK}]
        /\ popped \subseteq StackNodes
        /\ In(st, currSize) \intersect popped = {}
        /\ \A i \in 1 .. currSize : st[i] \in In(st, currSize)
    BY <1>1, StackFacts DEF Shared, In
  <1>4. /\ DOMAIN Stacked = 1 .. currSize /\ Len(Stacked) = currSize
        /\ Stacked \in Seq(Data \union {BLANK})
    <2>1. Stacked \in [1 .. currSize -> Data \union {BLANK}]
      BY <1>2, <1>3
    <2> QED  BY <1>3, <2>1
  <1>5. Lifo!Filled <=> StackFilled
    BY <1>4 DEF Lifo!Filled, StackFilled, Stacked
  <1>6. CASE (\E limit \in 0 .. MaxStackSize : StackCreate(limit)) \/ StackDestory
    <2>1. NoNodes /\ answer' = "ok" /\ size' >= 0
      BY <1>6, StackAssumption DEF StackCreate, StackDestory, UNLIMITED
    <2>2. Stacked' = <<>> /\ Taken' = {}
      BY <2>1 DEF Stacked, Taken, NoNodes
    <2>3. Lifo!Make
      BY <2>1, <2>2 DEF Lifo!Make, Stacked, Taken
    <2> QED  BY <2>3 DEF Lifo!LNext
  <1>7. CASE \E n \in StackNodes, x \in Data : StackPush(n, x)
    <2>1. PICK n \in StackNodes, x \in Data : StackPush(n, x)
      BY <1>7
    <2>2. /\ ~StackFilled /\ answer' = "ok" /\ size' = size /\ popped' = popped
          /\ datum' = [datum EXCEPT ![n] = x] /\ currSize' = currSize + 1
      BY <2>1 DEF StackPush
    <2>3. PICK s1, d1 : s1 = Grown(st, currSize, n) /\ Shared(s1, d1)'
      BY <1>1, <2>1, PushShares
    <2>4. n \notin In(st, currSize) /\ n \notin popped
      BY <1>1, <2>1, PushShares
    <2>5. Stacked' = Append(Stacked, x)
      <3>1. Stacked' = [k \in 1 .. currSize + 1 |-> datum'[s1[k]]]
        BY <2>2, <2>3, StackedNext
      <3>2. \A k \in 1 .. currSize : k \in 1 .. currSize + 1 /\ datum'[s1[k]] = datum[st[k]]
        BY <1>2, <1>3, <2>2, <2>3, <2>4 DEF Grown
      <3>3. datum'[s1[currSize + 1]] = x
        BY <1>3, <2>2, <2>3 DEF Grown
      <3>4. \A k \in 1 .. currSize + 1 : k \in 1 .. currSize \/ k = currSize + 1
        BY <1>3
      <3>5. \A k \in 1 .. currSize : k /= currSize + 1 /\ Stacked[k] = datum[st[k]]
        BY <1>2, <1>3
      <3>6. /\ Append(Stacked, x) \in Seq(Data \union {BLANK})
            /\ Len(Append(Stacked, x)) = currSize + 1
            /\ \A k \in 1 .. currSize : Append(Stacked, x)[k] = Stacked[k]
            /\ Append(Stacked, x)[currSize + 1] = x
        BY <1>4, AppendProperties
      <3>7. \A k \in 1 .. currSize + 1 : datum'[s1[k]] = Append(Stacked, x)[k]
        BY <3>2, <3>3, <3>4, <3>5, <3>6
      <3>8. \A k \in 1 .. currSize + 1 : Append(Stacked, x)[k] \in Data \union {BLANK}
        BY <1>4, <3>4, <3>5, <3>6
      <3>9. /\ Stacked' \in Seq(Data \union {BLANK}) /\ Len(Stacked') = currSize + 1
            /\ \A k \in 1 .. currSize + 1 : Stacked'[k] = Append(Stacked, x)[k]
        <4>1. Stacked' \in [1 .. currSize + 1 -> Data \union {BLANK}]
          BY <3>1, <3>7, <3>8
        <4>2. DOMAIN Stacked' = 1 .. currSize + 1 /\ currSize + 1 \in Nat
          BY <1>3, <3>1
        <4>3. \A k \in 1 .. currSize + 1 : Stacked'[k] = Append(Stacked, x)[k]
          BY <3>1, <3>7
        <4>4. Stacked' \in Seq(Data \union {BLANK})
          BY <4>1, <4>2
        <4>5. Len(Stacked') = currSize + 1
          BY <4>2, <4>4
        <4> QED  BY <4>3, <4>4, <4>5
      <3> QED  BY <3>6, <3>9, SeqEqual
    <2>6. Taken' = Taken
      BY <1>3, <2>2, <2>4 DEF Taken
    <2>7. Lifo!Push
      BY <1>5, <2>2, <2>5, <2>6 DEF Lifo!Push, Stacked, Taken
    <2> QED  BY <2>7 DEF Lifo!LNext
  <1>8. CASE StackRefuse
    <2>1. Stacked' = Stacked /\ Taken' = Taken
      BY <1>8 DEF StackRefuse, Stacked, Taken, Chain
    <2>2. Lifo!Refuse
      BY <1>5, <1>8, <2>1 DEF StackRefuse, Lifo!Refuse, Stacked, Taken
    <2> QED  BY <2>2 DEF Lifo!LNext
  <1>9. CASE StackPop
    <2>1. /\ currSize > 0 /\ top = st[currSize] /\ top \in StackNodes /\ top \notin popped
          /\ answer' = datum[top] /\ size' = size /\ datum' = datum
          /\ currSize' = currSize - 1 /\ popped' = popped \union {top}
      BY <1>1, <1>9, PopShares DEF StackPop
    <2>2. PICK s1 : s1 = Shrunk(st, currSize) /\ Shared(s1, id)'
      BY <1>1, <1>9, PopShares
    <2>3. Stacked' = SubSeq(Stacked, 1, Len(Stacked) - 1)
      <3>1. Stacked' = [k \in 1 .. currSize - 1 |-> datum[s1[k]]]
        BY <2>1, <2>2, StackedNext
      <3>2. \A k \in 1 .. currSize - 1 : k \in 1 .. currSize /\ s1[k] = st[k]
        BY <1>3, <2>2 DEF Shrunk
      <3>3. \A k \in 1 .. currSize - 1 : datum[s1[k]] = Stacked[k]
        BY <1>2, <3>2
      <3>4. SubSeq(Stacked, 1, currSize - 1) = [k \in 1 .. currSize - 1 |-> Stacked[k]]
        BY <1>3, <1>4, <2>1, SubSeqProperties
      <3> QED  BY <1>4, <3>1, <3>3, <3>4
    <2>4. Stacked /= <<>> /\ answer' = Stacked[Len(Stacked)]
      BY <1>2, <1>3, <1>4, <2>1
    <2>5. /\ Taken' = Taken \union {<<top, datum[top]>>}
          /\ <<top, datum[top]>> \notin Taken
      BY <2>1 DEF Taken
    <2>6. Lifo!Pop
      <3>1. \E t \in Taken' : t[2] = answer' /\ t \notin Taken /\ Taken' = Taken \union {t}
        BY <2>1, <2>5
      <3> QED  BY <2>1, <2>3, <2>4, <3>1 DEF Lifo!Pop, Stacked, Taken
    <2> QED  BY <2>6 DEF Lifo!LNext
  <1>10. CASE StackPopNone
    <2>1. Stacked' = Stacked /\ Taken' = Taken
      BY <1>10 DEF StackPopNone, Stacked, Taken, Chain
    <2>2. currSize = 0
      BY <1>1, <1>10, SharedFacts DEF StackPopNone, StackEmpty
    <2>3. Stacked = <<>>
      BY <1>4, <2>2
    <2>4. Lifo!PopNone
      BY <1>10, <2>1, <2>3 DEF StackPopNone, Lifo!PopNone, Stacked, Taken
    <2> QED  BY <2>4 DEF Lifo!LNext
  <1>11. CASE \E n \in StackNodes : StackRecover(n)
    <2>1. PICK n \in StackNodes : StackRecover(n)
      BY <1>11
    <2>2. /\ n \in popped /\ popped' = popped \ {n} /\ datum' = datum
          /\ currSize' = currSize /\ size' = size /\ answer' = answer
      BY <2>1 DEF StackRecover
    <2>3. PICK d1 : Shared(st, d1)'
      BY <1>1, <2>1, RecoverShares
    <2>4. Stacked' = Stacked
      BY <1>2, <2>2, <2>3, StackedNext
    <2>5. <<n, datum[n]>> \in Taken /\ Taken' = Taken \ {<<n, datum[n]>>}
      BY <2>2 DEF Taken
    <2>6. Lifo!GiveUp
      BY <2>2, <2>4, <2>5 DEF Lifo!GiveUp, Stacked, Taken
    <2> QED  BY <2>6 DEF Lifo!LNext
  <1>12. CASE UNCHANGED stackVars
    <2>1. Stacked' = Stacked /\ Taken' = Taken /\ answer' = answer /\ size' = size
      BY <1>12 DEF stackVars, Stacked, Taken, Chain
    <2> QED  BY <2>1 DEF Lifo!lvars, Stacked, Taken
  <1> QED  BY <1>6, <1>7, <1>8, <1>9, <1>10, <1>11, <1>12 DEF StackNext

(* To its client the stack is last in, first out within its limit, and     *)
(* what the client has popped is not touched until its node is given back. *)
THEOREM LifoImplemented == StackSpec => StackRefined
  <1>1. StackInit => Lifo!LInit
    <2> SUFFICES ASSUME StackInit PROVE Lifo!LInit
      OBVIOUS
    <2>1. Stacked = <<>> /\ Taken = {}
      BY DEF StackInit, Stacked, Taken
    <2> QED  BY <2>1 DEF StackInit, Lifo!LInit, Stacked, Taken
  <1>2. StackInv /\ StackInv' /\ [StackNext]_stackVars => [Lifo!LNext]_(Lifo!lvars)
    BY LifoStep
  <1> QED  BY <1>1, <1>2, StackInvariant, PTL DEF StackSpec, StackRefined, Lifo!LSpec

-----------------------------------------------------------------------------
(***************************************************************************)
(* Places, in units of e.                                                  *)
(***************************************************************************)

(* The number of the first place of unit u.                                *)
Base(e, u) == u * e

LEMMA BaseFacts ==
  ASSUME NEW e \in Nat \ {0}
  PROVE  /\ Base(e, 0) = 0
         /\ \A u \in Nat : Base(e, u) \in Nat /\ Base(e, u + 1) = Base(e, u) + e
         /\ \A u, v \in Nat : u < v => Base(e, u) + e <= Base(e, v)
  BY DEF Base

(* Every number is that of a place of some unit.                           *)
LEMMA PlaceExists ==
  ASSUME NEW e \in Nat \ {0}
  PROVE  \A k \in Nat : \E q \in Nat, r \in 0 .. e - 1 : k = Base(e, q) + r
  <1> DEFINE Placed == {k \in Nat : \E q \in Nat, r \in 0 .. e - 1 : k = Base(e, q) + r}
  <1>1. 0 \in Placed
    <2>1. 0 \in 0 .. e - 1 /\ 0 = Base(e, 0) + 0
      BY BaseFacts
    <2> QED  BY <2>1
  <1>2. ASSUME NEW k \in Nat, k \in Placed PROVE k + 1 \in Placed
    <2>1. PICK q \in Nat, r \in 0 .. e - 1 : k = Base(e, q) + r
      BY <1>2
    <2>2. Base(e, q) \in Nat /\ Base(e, q + 1) = Base(e, q) + e /\ q + 1 \in Nat
      BY BaseFacts
    <2>3. CASE r + 1 < e
      <3>1. r + 1 \in 0 .. e - 1 /\ k + 1 = Base(e, q) + (r + 1)
        BY <2>1, <2>2, <2>3
      <3> QED  BY <3>1
    <2>4. CASE r + 1 >= e
      <3>1. k + 1 = Base(e, q + 1) + 0 /\ 0 \in 0 .. e - 1
        BY <2>1, <2>2, <2>4
      <3> QED  BY <2>2, <3>1
    <2> QED  BY <2>3, <2>4
  <1> HIDE DEF Placed
  <1>3. \A k \in Nat : k \in Placed
    BY <1>1, <1>2, NatInSet
  <1> QED  BY <1>3 DEF Placed

(* The unit of the place with number k, and where in the unit it is.       *)
UnitOf(e, k) == k \div e
InUnit(e, k) == k % e

LEMMA PlaceAt ==
  ASSUME NEW e \in Nat \ {0}, NEW q \in Nat, NEW r \in 0 .. e - 1
  PROVE  UnitOf(e, Base(e, q) + r) = q /\ InUnit(e, Base(e, q) + r) = r
  BY DEF Base, UnitOf, InUnit

LEMMA PlaceFacts ==
  ASSUME NEW e \in Nat \ {0}, NEW k \in Nat
  PROVE  /\ UnitOf(e, k) \in Nat /\ InUnit(e, k) \in 0 .. e - 1
         /\ k = Base(e, UnitOf(e, k)) + InUnit(e, k)
  <1>1. PICK q \in Nat, r \in 0 .. e - 1 : k = Base(e, q) + r
    BY PlaceExists
  <1>2. UnitOf(e, k) = q /\ InUnit(e, k) = r
    BY <1>1, PlaceAt
  <1> QED  BY <1>1, <1>2

(* The k-th element pushed is at a place of its own.                       *)
LEMMA PlacesApart ==
  ASSUME NEW e \in Nat \ {0}, NEW k \in Nat, NEW l \in Nat,
         UnitOf(e, k) = UnitOf(e, l), InUnit(e, k) = InUnit(e, l)
  PROVE  k = l
  BY PlaceFacts

-----------------------------------------------------------------------------
(***************************************************************************)
(* The array.                                                              *)
(***************************************************************************)

(* The element that is at the place with number k, from 0.                 *)
Spot(k) == <<UnitOf(UnitElemAmt, k) + 1, InUnit(UnitElemAmt, k)>>

Start(u) == Base(UnitElemAmt, u)

LEMMA SpotFacts ==
  /\ Start(0) = 0
  /\ \A u \in Nat : Start(u) \in Nat /\ Start(u + 1) = Start(u) + UnitElemAmt
  /\ \A u, v \in Nat : u < v => Start(u) + UnitElemAmt <= Start(v)
  /\ \A u \in Nat, n \in 0 .. UnitElemAmt - 1 : Spot(Start(u) + n) = <<u + 1, n>>
  /\ \A k, l \in Nat : Spot(k) = Spot(l) => k = l
  /\ \A k \in Nat : Spot(k) \in Nat \X Nat
  <1> USE ArrayAssumption
  <1>1. Start(0) = 0
    BY BaseFacts DEF Start
  <1>2. \A u \in Nat : Start(u) \in Nat /\ Start(u + 1) = Start(u) + UnitElemAmt
    BY BaseFacts DEF Start
  <1>3. \A u, v \in Nat : u < v => Start(u) + UnitElemAmt <= Start(v)
    BY BaseFacts DEF Start
  <1>4. \A u \in Nat, n \in 0 .. UnitElemAmt - 1 : Spot(Start(u) + n) = <<u + 1, n>>
    BY PlaceAt DEF Spot, Start
  <1>5. ASSUME NEW k \in Nat, NEW l \in Nat, Spot(k) = Spot(l) PROVE k = l
    <2>1. UnitOf(UnitElemAmt, k) \in Nat /\ UnitOf(UnitElemAmt, l) \in Nat
      BY PlaceFacts
    <2>2. UnitOf(UnitElemAmt, k) = UnitOf(UnitElemAmt, l) /\ InUnit(UnitElemAmt, k) = InUnit(UnitElemAmt, l)
      BY <1>5, <2>1 DEF Spot
    <2> QED  BY <2>2, PlacesApart
  <1>6. ASSUME NEW k \in Nat PROVE Spot(k) \in Nat \X Nat
    <2>1. UnitOf(UnitElemAmt, k) \in Nat /\ InUnit(UnitElemAmt, k) \in Nat
      BY PlaceFacts
    <2> QED  BY <2>1 DEF Spot
  <1> QED  BY <1>1, <1>2, <1>3, <1>4, <1>5, <1>6

(* Every variable has its type.                                            *)
ArrayTyped ==
  /\ arrayPhase \in {"none", "live", "visit", "destory"}
  /\ indexAmt \in Nat /\ indexUsed \in Nat /\ currPoint \in Nat
  /\ idx \in Nat /\ elemI \in Nat /\ tmp \in Nat /\ began \in Nat
  /\ inUnit \in BOOLEAN
  /\ pushed \in Seq((1 .. MaxUnits) \X Nat) /\ visited \in Seq((1 .. MaxUnits) \X Nat)

(* The used entries of the index point to the units, in order.             *)
Indexed ==
  /\ index \in [0 .. indexAmt - 1 -> 1 .. MaxUnits \union {NULL, WILD}]
  /\ Live => /\ indexUsed \in 1 .. indexAmt /\ indexUsed <= MaxUnits
             /\ \A u \in 0 .. indexUsed - 1 : index[u] = u + 1

(* The elements pushed fill the places from the first one on.              *)
Filled ==
  Live => /\ currPoint <= UnitElemAmt
          /\ Len(pushed) = Start(indexUsed - 1) + currPoint
          /\ \A k \in 1 .. Len(pushed) : pushed[k] = Spot(k - 1)

(* The number of the place the traversal is at.                            *)
Reached == Start(idx) + (IF inUnit THEN elemI ELSE 0)

(* The unit under the traversal, of which it is to visit tmp elements: all *)
(* there are room for, or all there were when it began.                    *)
Within ==
  inUnit => /\ idx < indexUsed /\ tmp <= UnitElemAmt /\ elemI <= tmp
            /\ Start(idx) + tmp <= Len(pushed)
            /\ tmp = UnitElemAmt \/ began <= Start(idx) + tmp

(* What the traversal has visited: the first elements, as far as those go  *)
(* that there were when it began, then some of the others.                 *)
Seen ==
  /\ Len(visited) <= Reached
  /\ Reached <= began => Len(visited) = Reached
  /\ Reached > began => Len(visited) >= began
  /\ \A k \in 1 .. Len(visited) : k <= began => visited[k] = Spot(k - 1)
  /\ \A k \in 1 .. Len(visited) : \E m \in 1 .. Len(pushed) : m <= Reached /\ visited[k] = Spot(m - 1)
  /\ \A k, l \in 1 .. Len(visited) : visited[k] = visited[l] => k = l
  /\ arrayPhase = "destory" => Len(visited) <= began /\ began = Len(pushed)

Visiting ==
  /\ inUnit => arrayPhase \in {"visit", "destory"}
  /\ arrayPhase \in {"visit", "destory"} => /\ idx <= indexUsed /\ began <= Len(pushed)
                                            /\ Within /\ Seen

ArrayInv == ArrayTyped /\ Indexed /\ Filled /\ Visiting

LEMMA ArrayInitInv == ArrayInit => ArrayInv
  <1> SUFFICES ASSUME ArrayInit PROVE ArrayInv
    OBVIOUS
  <1>1. ArrayTyped
    <2>1. <<>> \in Seq((1 .. MaxUnits) \X Nat)
      OBVIOUS
    <2> QED  BY <2>1 DEF ArrayInit, ArrayTyped
  <1>2. Indexed
    BY DEF ArrayInit, Indexed, Live
  <1>3. Filled /\ Visiting
    BY DEF ArrayInit, Filled, Live, Visiting
  <1> QED  BY <1>1, <1>2, <1>3 DEF ArrayInv

LEMMA ArrayCreateInv == ArrayInv /\ ArrayCreate => ArrayInv'
  <1> USE ArrayAssumption
  <1> SUFFICES ASSUME ArrayInv, ArrayCreate PROVE ArrayInv'
    OBVIOUS
  <1>1. ArrayTyped'
    BY DEF ArrayInv, ArrayTyped, ArrayCreate, arrayVisit
  <1>2. Indexed'
    BY DEF ArrayCreate, Indexed, Live
  <1>3. Filled'
    <2>1. PICK e : e = <<>>
      OBVIOUS
    <2>2. Len(e) = 0 /\ Start(1 - 1) = 0
      BY <2>1, SpotFacts
    <2> QED  BY <2>1, <2>2 DEF ArrayCreate, Filled
  <1>4. Visiting'
    BY DEF ArrayInv, ArrayCreate, arrayVisit, Visiting
  <1> QED  BY <1>1, <1>2, <1>3, <1>4 DEF ArrayInv

(* A step that neither frees the array nor ends a traversal, nor moves it, *)
(* and takes no element away.                                              *)
LEMMA VisitingStays ==
  ASSUME ArrayInv, UNCHANGED <<arrayPhase, arrayVisit>>,
         Len(pushed') \in Nat, Len(pushed') >= Len(pushed), indexUsed' >= indexUsed, indexUsed' \in Nat,
         arrayPhase = "destory" => Len(pushed') = Len(pushed)
  PROVE  Visiting'
  <1> SUFFICES ASSUME arrayPhase \in {"visit", "destory"} PROVE Visiting'
    BY DEF ArrayInv, Visiting, arrayVisit
  <1>1. /\ arrayPhase' = arrayPhase /\ idx' = idx /\ elemI' = elemI /\ tmp' = tmp /\ inUnit' = inUnit
        /\ visited' = visited /\ began' = began
    BY DEF arrayVisit
  <1>2. /\ idx \in Nat /\ tmp \in Nat /\ began \in Nat /\ indexUsed \in Nat
        /\ idx <= indexUsed /\ began <= Len(pushed) /\ Within /\ Seen /\ Start(idx) \in Nat
    BY SpotFacts DEF ArrayInv, ArrayTyped, Visiting
  <1>3. PICK m, n \in Nat : m = Len(pushed) /\ n = Len(pushed') /\ m <= n
    <2>1. Len(pushed) \in Nat
      BY DEF ArrayInv, ArrayTyped
    <2> QED  BY <2>1
  <1>4. Within'
    BY <1>1, <1>2, <1>3 DEF Within
  <1>5. Seen'
    <2>1. Reached' = Reached
      BY <1>1 DEF Reached
    <2>2. \A k \in 1 .. Len(visited) : \E i \in 1 .. n : i <= Reached /\ visited[k] = Spot(i - 1)
      BY <1>2, <1>3 DEF Seen
    <2> QED  BY <1>1, <1>2, <1>3, <2>1, <2>2 DEF Seen
  <1> QED  BY <1>1, <1>2, <1>3, <1>4, <1>5 DEF Visiting, ArrayInv

(* The element pushed last is at the next place.                           *)
LEMMA FilledOn ==
  ASSUME ArrayInv, Live, arrayPhase' = arrayPhase,
         NEW u \in Nat, NEW n \in 0 .. UnitElemAmt - 1,
         Start(indexUsed - 1) + currPoint = Start(u) + n, u + 1 <= MaxUnits,
         pushed' = Append(pushed, <<u + 1, n>>), indexUsed' = u + 1, currPoint' = n + 1
  PROVE  Filled' /\ Len(pushed') = Len(pushed) + 1 /\ pushed' \in Seq((1 .. MaxUnits) \X Nat)
  <1> USE ArrayAssumption
  <1>1. PICK len \in Nat : len = Len(pushed)
    BY DEF ArrayInv, ArrayTyped
  <1>2. /\ pushed \in Seq((1 .. MaxUnits) \X Nat)
        /\ len = Start(u) + n /\ \A k \in 1 .. len : pushed[k] = Spot(k - 1)
    BY <1>1 DEF ArrayInv, ArrayTyped, Filled
  <1>3. <<u + 1, n>> \in (1 .. MaxUnits) \X Nat
    OBVIOUS
  <1>4. /\ pushed' \in Seq((1 .. MaxUnits) \X Nat) /\ Len(pushed') = len + 1
        /\ pushed'[len + 1] = <<u + 1, n>> /\ \A k \in 1 .. len : pushed'[k] = pushed[k]
    <2>1. PICK T, e, p, q : T = (1 .. MaxUnits) \X Nat /\ e = <<u + 1, n>> /\ p = pushed /\ q = pushed'
      OBVIOUS
    <2>2. p \in Seq(T) /\ e \in T /\ q = Append(p, e) /\ len = Len(p)
      BY <1>1, <1>2, <1>3, <2>1
    <2>3. q \in Seq(T) /\ Len(q) = len + 1 /\ q[len + 1] = e /\ \A k \in 1 .. len : q[k] = p[k]
      BY <2>2
    <2> QED  BY <2>1, <2>3
  <1>5. Spot(len) = <<u + 1, n>>
    BY <1>2, SpotFacts
  <1>6. \A k \in 1 .. len + 1 : pushed'[k] = Spot(k - 1)
    <2> SUFFICES ASSUME NEW k \in 1 .. len + 1 PROVE pushed'[k] = Spot(k - 1)
      OBVIOUS
    <2>1. CASE k = len + 1
      <3>1. k - 1 = len
        BY <2>1
      <3> QED  BY <1>4, <1>5, <2>1, <3>1
    <2>2. CASE k \in 1 .. len
      BY <1>2, <1>4, <2>2
    <2>3. k = len + 1 \/ k \in 1 .. len
      OBVIOUS
    <2> QED  BY <2>1, <2>2, <2>3
  <1>7. Len(pushed') = Start(indexUsed' - 1) + currPoint' /\ currPoint' <= UnitElemAmt
    <2>1. indexUsed' - 1 = u /\ Start(u) \in Nat
      BY SpotFacts
    <2> QED  BY <1>2, <1>4, <2>1
  <1> QED  BY <1>1, <1>4, <1>6, <1>7 DEF Filled

LEMMA PushInUnitInv == ArrayInv /\ PushInUnit => ArrayInv'
  <1> USE ArrayAssumption
  <1> SUFFICES ASSUME ArrayInv, PushInUnit PROVE ArrayInv'
    OBVIOUS
  <1>1. Live /\ arrayPhase \in {"live", "visit"}
    BY DEF PushInUnit, MayPush, Live
  <1>2. /\ ArrayTyped /\ Indexed /\ Filled /\ indexUsed \in Nat \ {0} /\ indexUsed <= MaxUnits
        /\ currPoint \in 0 .. UnitElemAmt - 1 /\ index[indexUsed - 1] = indexUsed
    <2>1. ArrayTyped /\ Indexed /\ Filled
      BY DEF ArrayInv
    <2>2. indexUsed \in 1 .. indexAmt /\ indexAmt \in Nat /\ indexUsed <= MaxUnits
      BY <1>1, <2>1 DEF Indexed, ArrayTyped
    <2>3. index[indexUsed - 1] = (indexUsed - 1) + 1
      BY <1>1, <2>1, <2>2 DEF Indexed
    <2>4. currPoint \in 0 .. UnitElemAmt - 1
      BY <2>1 DEF ArrayTyped, PushInUnit
    <2> QED  BY <2>1, <2>2, <2>3, <2>4
  <1>3. PICK u \in Nat : u = indexUsed - 1
    BY <1>2
  <1>4. Filled' /\ Len(pushed') = Len(pushed) + 1 /\ pushed' \in Seq((1 .. MaxUnits) \X Nat)
    <2>1. pushed' = Append(pushed, <<u + 1, currPoint>>) /\ indexUsed' = u + 1 /\ currPoint' = currPoint + 1
          /\ arrayPhase' = arrayPhase /\ u + 1 <= MaxUnits
          /\ Start(indexUsed - 1) + currPoint = Start(u) + currPoint
      BY <1>2, <1>3 DEF PushInUnit
    <2> QED  BY <1>1, <1>2, <2>1, FilledOn
  <1>5. ArrayTyped'
    BY <1>2, <1>4 DEF ArrayTyped, PushInUnit, arrayVisit
  <1>6. Indexed'
    BY <1>2 DEF Indexed, PushInUnit, Live
  <1>7. Visiting'
    <2>1. Len(pushed) \in Nat
      BY <1>2 DEF ArrayTyped
    <2> QED  BY <1>1, <1>2, <1>4, <2>1, VisitingStays DEF PushInUnit
  <1> QED  BY <1>4, <1>5, <1>6, <1>7 DEF ArrayInv

(* The index that smp_array_index_realloc leaves has the used entries, and *)
(* as many as index_amt says.                                              *)
LEMMA ReallocFacts ==
  ASSUME ArrayTyped, Indexed, Live
  PROVE  /\ ReallocAmt \in Nat /\ ReallocAmt >= indexAmt /\ indexUsed \in 0 .. ReallocAmt - 1
         /\ IndexRealloc \in [0 .. ReallocAmt - 1 -> 1 .. MaxUnits \union {NULL, WILD}]
         /\ \A u \in 0 .. indexUsed - 1 : IndexRealloc[u] = u + 1
  <1> USE ArrayAssumption
  <1>1. /\ indexAmt \in Nat /\ indexUsed \in 1 .. indexAmt
        /\ index \in [0 .. indexAmt - 1 -> 1 .. MaxUnits \union {NULL, WILD}]
        /\ \A u \in 0 .. indexUsed - 1 : index[u] = u + 1
    BY DEF ArrayTyped, Indexed
  <1>2. CASE indexUsed < indexAmt
    BY <1>1, <1>2 DEF IndexRealloc, ReallocAmt
  <1>3. CASE indexUsed = indexAmt
    <2>1. ReallocAmt = indexAmt + IndexInc /\ ReallocAmt \in Nat /\ indexUsed \in 0 .. ReallocAmt - 1
      BY <1>1, <1>3 DEF ReallocAmt
    <2>2. IndexRealloc = [k \in 0 .. ReallocAmt - 1 |-> IF k < indexUsed THEN index[k] ELSE WILD]
      BY <1>1, <1>3, <2>1 DEF IndexRealloc
    <2>3. \A k \in 0 .. ReallocAmt - 1 :
            (IF k < indexUsed THEN index[k] ELSE WILD) \in 1 .. MaxUnits \union {NULL, WILD}
      BY <1>1, <1>3
    <2> QED  BY <1>1, <1>3, <2>1, <2>2, <2>3
  <1> QED  BY <1>1, <1>2, <1>3

LEMMA PushExpandInv == ArrayInv /\ PushExpand => ArrayInv'
  <1> USE ArrayAssumption
  <1> SUFFICES ASSUME ArrayInv, PushExpand PROVE ArrayInv'
    OBVIOUS
  <1>1. Live /\ arrayPhase \in {"live", "visit"}
    BY DEF PushExpand, MayPush, Live
  <1>2. /\ ArrayTyped /\ Indexed /\ Filled /\ indexUsed \in Nat \ {0} /\ indexUsed < MaxUnits
        /\ currPoint = UnitElemAmt
    BY <1>1 DEF ArrayInv, ArrayTyped, Indexed, Filled, PushExpand
  <1>3. PICK f, a : f = IndexRealloc /\ a = ReallocAmt
    OBVIOUS
  <1>4. /\ a \in Nat /\ indexUsed \in 0 .. a - 1
        /\ f \in [0 .. a - 1 -> 1 .. MaxUnits \union {NULL, WILD}]
        /\ \A u \in 0 .. indexUsed - 1 : f[u] = u + 1
    BY <1>1, <1>2, <1>3, ReallocFacts
  <1>5. index' = [f EXCEPT ![indexUsed] = indexUsed + 1] /\ indexAmt' = a
    BY <1>3 DEF PushExpand
  <1>6. /\ index' \in [0 .. a - 1 -> 1 .. MaxUnits \union {NULL, WILD}]
        /\ index'[indexUsed] = indexUsed + 1
        /\ \A u \in 0 .. indexUsed - 1 : index'[u] = u + 1
    BY <1>2, <1>4, <1>5
  <1>7. Filled' /\ Len(pushed') = Len(pushed) + 1 /\ pushed' \in Seq((1 .. MaxUnits) \X Nat)
    <2>1. pushed' = Append(pushed, <<indexUsed + 1, 0>>) /\ indexUsed' = indexUsed + 1 /\ currPoint' = 0 + 1
          /\ arrayPhase' = arrayPhase /\ indexUsed + 1 <= MaxUnits
      BY <1>2, <1>6 DEF PushExpand
    <2>2. Start(indexUsed - 1) + currPoint = Start(indexUsed) + 0 /\ 0 \in 0 .. UnitElemAmt - 1
      <3>1. indexUsed - 1 \in Nat /\ (indexUsed - 1) + 1 = indexUsed
        BY <1>2
      <3> QED  BY <1>2, <3>1, SpotFacts
    <2> QED  BY <1>1, <1>2, <2>1, <2>2, FilledOn
  <1>8. ArrayTyped'
    BY <1>2, <1>4, <1>5, <1>7 DEF ArrayTyped, PushExpand, arrayVisit
  <1>9. Indexed'
    <2>1. indexUsed' = indexUsed + 1 /\ indexUsed' \in 1 .. indexAmt' /\ indexUsed' <= MaxUnits
      BY <1>2, <1>4, <1>5 DEF PushExpand
    <2>2. \A u \in 0 .. indexUsed' - 1 : index'[u] = u + 1
      BY <1>2, <1>6, <2>1
    <2> QED  BY <1>5, <1>6, <2>1, <2>2 DEF Indexed
  <1>10. Visiting'
    <2>1. Len(pushed) \in Nat /\ indexUsed' = indexUsed + 1
      BY <1>2 DEF ArrayTyped, PushExpand
    <2> QED  BY <1>1, <1>2, <1>7, <2>1, VisitingStays DEF PushExpand
  <1> QED  BY <1>7, <1>8, <1>9, <1>10 DEF ArrayInv

LEMMA PushFailsInv == ArrayInv /\ PushFails => ArrayInv'
  <1> SUFFICES ASSUME ArrayInv, PushFails PROVE ArrayInv'
    OBVIOUS
  <1>1. Live /\ Live' /\ UNCHANGED <<arrayPhase, indexUsed, currPoint, pushed, arrayVisit>>
    BY DEF PushFails, MayPush, Live
  <1>2. ArrayTyped /\ Indexed /\ Filled
    BY DEF ArrayInv
  <1>3. PICK f, a : f = IndexRealloc /\ a = ReallocAmt
    OBVIOUS
  <1>4. /\ a \in Nat /\ a >= indexAmt
        /\ f \in [0 .. a - 1 -> 1 .. MaxUnits \union {NULL, WILD}]
        /\ \A u \in 0 .. indexUsed - 1 : f[u] = u + 1
    BY <1>1, <1>2, <1>3, ReallocFacts
  <1>5. index' = f /\ indexAmt' = a
    BY <1>3 DEF PushFails
  <1>6. ArrayTyped'
    BY <1>1, <1>2, <1>4, <1>5 DEF ArrayTyped, arrayVisit
  <1>7. Indexed'
    <2>1. indexUsed \in 1 .. a /\ indexUsed <= MaxUnits
      BY <1>1, <1>2, <1>4 DEF Indexed, ArrayTyped
    <2> QED  BY <1>1, <1>4, <1>5, <2>1 DEF Indexed
  <1>8. Filled'
    BY <1>1, <1>2 DEF Filled
  <1>9. Visiting'
    <2>1. Len(pushed) \in Nat /\ indexUsed \in Nat
      BY <1>2 DEF ArrayTyped
    <2> QED  BY <1>1, <2>1, VisitingStays
  <1> QED  BY <1>6, <1>7, <1>8, <1>9 DEF ArrayInv

(* A traversal that begins has visited nothing.                            *)
LEMMA VisitBeginInv == ArrayInv /\ (TraversalBegin \/ DestoryBegin) => ArrayInv'
  <1> SUFFICES ASSUME ArrayInv, TraversalBegin \/ DestoryBegin PROVE ArrayInv'
    OBVIOUS
  <1>1. /\ ArrayTyped /\ Indexed /\ Filled /\ Live /\ Live' /\ arrayPhase' \in {"visit", "destory"}
        /\ idx' = 0 /\ elemI' = 0 /\ tmp' = 0 /\ inUnit' = FALSE /\ visited' = <<>>
        /\ began' = Len(pushed) /\ UNCHANGED arrayElems
    BY DEF ArrayInv, TraversalBegin, DestoryBegin, VisitBegin, Live
  <1>2. index' = index /\ indexAmt' = indexAmt /\ indexUsed' = indexUsed /\ currPoint' = currPoint
        /\ pushed' = pushed /\ Len(pushed) \in Nat /\ indexUsed \in Nat
    BY <1>1 DEF arrayElems, ArrayTyped
  <1>3. PICK e : e = <<>>
    OBVIOUS
  <1>4. Len(e) = 0 /\ e \in Seq((1 .. MaxUnits) \X Nat)
    BY <1>3
  <1>5. visited' = e
    BY <1>1, <1>3
  <1>6. ArrayTyped'
    BY <1>1, <1>2, <1>4, <1>5 DEF ArrayTyped
  <1>7. Indexed' /\ Filled'
    BY <1>1, <1>2 DEF Indexed, Filled
  <1>8. Reached' = 0
    BY <1>1, SpotFacts DEF Reached
  <1>9. Within' /\ Seen'
    BY <1>1, <1>2, <1>4, <1>5, <1>8 DEF Within, Seen
  <1> QED  BY <1>1, <1>2, <1>6, <1>7, <1>9 DEF ArrayInv, Visiting

(* The rest of the array while a traversal goes on.                        *)
LEMMA TraversalStays ==
  ASSUME ArrayInv, UNCHANGED <<arrayPhase, arrayElems>>,
         idx' \in Nat, elemI' \in Nat, tmp' \in Nat, began' = began, inUnit' \in BOOLEAN,
         visited' \in Seq((1 .. MaxUnits) \X Nat)
  PROVE  ArrayTyped' /\ Indexed' /\ Filled'
  BY DEF ArrayInv, ArrayTyped, Indexed, Filled, Live, arrayElems

LEMMA UnitInv == ArrayInv /\ TraversalUnit => ArrayInv'
  <1> USE ArrayAssumption
  <1> SUFFICES ASSUME ArrayInv, TraversalUnit PROVE ArrayInv'
    OBVIOUS
  <1>1. /\ ArrayTyped /\ Indexed /\ Filled /\ Live /\ Within /\ Seen /\ idx <= indexUsed /\ began <= Len(pushed)
        /\ arrayPhase \in {"visit", "destory"} /\ ~inUnit /\ idx < indexUsed
        /\ inUnit' = TRUE /\ elemI' = 0 /\ tmp' = (IF idx = indexUsed - 1 THEN currPoint ELSE UnitElemAmt)
        /\ UNCHANGED <<arrayPhase, arrayElems, idx, visited, began>>
    BY DEF ArrayInv, Visiting, TraversalUnit, Live
  <1>2. /\ idx \in Nat /\ began \in Nat /\ indexUsed \in Nat /\ currPoint \in 0 .. UnitElemAmt
        /\ Len(pushed) = Start(indexUsed - 1) + currPoint /\ Start(idx) \in Nat /\ Len(pushed) \in Nat
        /\ visited \in Seq((1 .. MaxUnits) \X Nat)
    <2>1. idx \in Nat /\ began \in Nat /\ indexUsed \in Nat /\ visited \in Seq((1 .. MaxUnits) \X Nat)
      BY <1>1 DEF ArrayTyped
    <2>2. currPoint \in 0 .. UnitElemAmt /\ Len(pushed) = Start(indexUsed - 1) + currPoint
      BY <1>1 DEF ArrayTyped, Filled
    <2>3. Len(pushed) \in Nat
      BY <1>1 DEF ArrayTyped
    <2>4. Start(idx) \in Nat
      BY <2>1, SpotFacts
    <2> QED  BY <2>1, <2>2, <2>3, <2>4
  <1>3. ArrayTyped' /\ Indexed' /\ Filled'
    BY <1>1, <1>2, TraversalStays
  <1>4. UNCHANGED <<idx, visited, began, pushed, indexUsed, arrayPhase>>
    BY <1>1 DEF arrayElems
  <1>5. Within'
    <2>1. CASE idx = indexUsed - 1
      BY <1>1, <1>2, <1>4, <2>1 DEF Within
    <2>2. CASE idx /= indexUsed - 1
      <3>1. idx < indexUsed - 1 /\ indexUsed - 1 \in Nat
        BY <1>1, <1>2, <2>2
      <3>2. Start(idx) + UnitElemAmt <= Start(indexUsed - 1) /\ Start(indexUsed - 1) \in Nat
        BY <1>2, <3>1, SpotFacts
      <3> QED  BY <1>1, <1>2, <1>4, <2>2, <3>2 DEF Within
    <2> QED  BY <2>1, <2>2
  <1>6. Seen'
    <2>1. Reached' = Reached
      BY <1>1, <1>2, <1>4 DEF Reached
    <2> QED  BY <1>1, <1>4, <2>1 DEF Seen
  <1> QED  BY <1>1, <1>3, <1>4, <1>5, <1>6 DEF ArrayInv, Visiting

LEMMA ElemInv == ArrayInv /\ TraversalElem => ArrayInv'
  <1> USE ArrayAssumption
  <1> SUFFICES ASSUME ArrayInv, TraversalElem PROVE ArrayInv'
    OBVIOUS
  <1>1. /\ ArrayTyped /\ Indexed /\ Filled /\ Live /\ Within /\ Seen /\ idx <= indexUsed /\ began <= Len(pushed)
        /\ arrayPhase \in {"visit", "destory"} /\ inUnit /\ elemI < tmp
        /\ elemI' = elemI + 1 /\ visited' = Append(visited, <<index[idx], elemI>>)
        /\ UNCHANGED <<arrayPhase, arrayElems, idx, tmp, inUnit, began>>
    BY DEF ArrayInv, Visiting, TraversalElem, Live
  <1>2. /\ idx \in Nat /\ began \in Nat /\ elemI \in Nat /\ tmp \in Nat /\ indexUsed \in Nat /\ indexUsed <= MaxUnits
        /\ Start(idx) \in Nat /\ Len(pushed) \in Nat
        /\ idx < indexUsed /\ tmp <= UnitElemAmt /\ Start(idx) + tmp <= Len(pushed)
        /\ tmp = UnitElemAmt \/ began <= Start(idx) + tmp
        /\ index[idx] = idx + 1
    BY <1>1, SpotFacts DEF ArrayTyped, Indexed, Within
  <1>3. PICK at \in Nat : at = Start(idx) + elemI
    BY <1>2
  <1>4. Reached = at /\ Reached' = at + 1 /\ at + 1 <= Len(pushed)
    BY <1>1, <1>2, <1>3 DEF Reached
  <1>19. PICK len \in Nat : len = Len(visited)
    BY <1>1 DEF ArrayTyped
  <1>5. PICK e, v, w : e = Spot(at) /\ v = visited /\ w = visited' /\ len = Len(visited)
    BY <1>19
  <1>6. e = <<index[idx], elemI>> /\ e \in (1 .. MaxUnits) \X Nat
    <2>1. Spot(at) = <<idx + 1, elemI>>
      <3>1. elemI \in 0 .. UnitElemAmt - 1
        BY <1>1, <1>2
      <3> QED  BY <1>2, <1>3, <3>1, SpotFacts
    <2>2. <<idx + 1, elemI>> \in (1 .. MaxUnits) \X Nat
      BY <1>2
    <2> QED  BY <1>2, <1>5, <2>1, <2>2
  <1>7. /\ w \in Seq((1 .. MaxUnits) \X Nat) /\ Len(w) = len + 1 /\ w[len + 1] = e
        /\ \A k \in 1 .. len : w[k] = v[k]
    <2>1. PICK T : T = (1 .. MaxUnits) \X Nat
      OBVIOUS
    <2>2. v \in Seq(T) /\ e \in T /\ w = Append(v, e) /\ len = Len(v)
      BY <1>1, <1>5, <1>6, <2>1 DEF ArrayTyped
    <2>3. w \in Seq(T) /\ Len(w) = len + 1 /\ w[len + 1] = e /\ \A k \in 1 .. len : w[k] = v[k]
      BY <2>2
    <2> QED  BY <2>1, <2>3
  <1>8. ArrayTyped' /\ Indexed' /\ Filled'
    <2>1. inUnit' \in BOOLEAN
      BY <1>1 DEF ArrayTyped
    <2>2. visited' \in Seq((1 .. MaxUnits) \X Nat)
      BY <1>5, <1>7
    <2>3. idx' \in Nat /\ elemI' \in Nat /\ tmp' \in Nat /\ began' = began
      BY <1>1, <1>2
    <2> QED  BY <1>1, <2>1, <2>2, <2>3, TraversalStays
  <1>9. UNCHANGED <<idx, tmp, inUnit, began, pushed, indexUsed, arrayPhase>>
    BY <1>1 DEF arrayElems
  <1>10. Within'
    BY <1>1, <1>2, <1>9 DEF Within
  <1>11. /\ len <= at /\ (at <= began => len = at) /\ (at > began => len >= began)
         /\ \A k \in 1 .. len : k <= began => v[k] = Spot(k - 1)
         /\ \A k \in 1 .. len : \E m \in 1 .. Len(pushed) : m <= at /\ v[k] = Spot(m - 1)
         /\ \A k, l \in 1 .. len : v[k] = v[l] => k = l
         /\ arrayPhase = "destory" => len <= began /\ began = Len(pushed)
    BY <1>1, <1>4, <1>5 DEF Seen
  <1>12. \A k \in 1 .. len + 1 : k = len + 1 \/ k \in 1 .. len
    OBVIOUS
  <1>13. \A k \in 1 .. len + 1 : k <= began => w[k] = Spot(k - 1)
    <2> SUFFICES ASSUME NEW k \in 1 .. len + 1, k <= began PROVE w[k] = Spot(k - 1)
      OBVIOUS
    <2>1. CASE k = len + 1
      <3>1. k - 1 = at
        BY <1>2, <1>11, <2>1
      <3> QED  BY <1>5, <1>7, <2>1, <3>1
    <2>2. CASE k \in 1 .. len
      BY <1>7, <1>11, <2>2
    <2> QED  BY <1>12, <2>1, <2>2
  <1>14. \A k \in 1 .. len + 1 : \E m \in 1 .. Len(pushed) : m <= at + 1 /\ w[k] = Spot(m - 1)
    <2> SUFFICES ASSUME NEW k \in 1 .. len + 1
                 PROVE  \E m \in 1 .. Len(pushed) : m <= at + 1 /\ w[k] = Spot(m - 1)
      OBVIOUS
    <2>1. CASE k = len + 1
      <3>1. at + 1 \in 1 .. Len(pushed) /\ (at + 1) - 1 = at
        BY <1>2, <1>4
      <3> QED  BY <1>5, <1>7, <2>1, <3>1
    <2>2. CASE k \in 1 .. len
      <3>1. PICK m \in 1 .. Len(pushed) : m <= at /\ v[k] = Spot(m - 1)
        BY <1>11, <2>2
      <3> QED  BY <1>2, <1>7, <2>2, <3>1
    <2> QED  BY <1>12, <2>1, <2>2
  <1>15. \A k \in 1 .. len : v[k] /= e
    <2> SUFFICES ASSUME NEW k \in 1 .. len, v[k] = e PROVE FALSE
      OBVIOUS
    <2>1. PICK m \in 1 .. Len(pushed) : m <= at /\ v[k] = Spot(m - 1)
      BY <1>11
    <2>2. m - 1 \in Nat /\ m - 1 /= at
      BY <1>2, <2>1
    <2> QED  BY <1>5, <2>1, <2>2, SpotFacts
  <1>16. \A k, l \in 1 .. len + 1 : w[k] = w[l] => k = l
    BY <1>7, <1>11, <1>12, <1>15
  <1>17. /\ len + 1 <= at + 1 /\ (at + 1 <= began => len + 1 = at + 1) /\ (at + 1 > began => len + 1 >= began)
         /\ arrayPhase = "destory" => len + 1 <= began
    BY <1>2, <1>4, <1>11
  <1>18. Seen'
    BY <1>4, <1>5, <1>7, <1>9, <1>11, <1>13, <1>14, <1>16, <1>17 DEF Seen
  <1> QED  BY <1>1, <1>8, <1>9, <1>10, <1>18 DEF ArrayInv, Visiting

LEMMA UnitEndInv == ArrayInv /\ TraversalUnitEnd => ArrayInv'
  <1> USE ArrayAssumption
  <1> SUFFICES ASSUME ArrayInv, TraversalUnitEnd PROVE ArrayInv'
    OBVIOUS
  <1>1. /\ ArrayTyped /\ Indexed /\ Filled /\ Live /\ Within /\ Seen /\ idx <= indexUsed /\ began <= Len(pushed)
        /\ arrayPhase \in {"visit", "destory"} /\ inUnit /\ elemI >= tmp
        /\ inUnit' = FALSE /\ idx' = idx + 1
        /\ UNCHANGED <<arrayPhase, arrayElems, elemI, tmp, visited, began>>
    BY DEF ArrayInv, Visiting, TraversalUnitEnd, Live
  <1>2. /\ idx \in Nat /\ began \in Nat /\ elemI \in Nat /\ tmp \in Nat /\ indexUsed \in Nat
        /\ Start(idx) \in Nat /\ Len(pushed) \in Nat /\ Len(visited) \in Nat
        /\ idx < indexUsed /\ tmp <= UnitElemAmt /\ Start(idx) + tmp <= Len(pushed) /\ elemI = tmp
        /\ tmp = UnitElemAmt \/ began <= Start(idx) + tmp
        /\ Start(idx + 1) = Start(idx) + UnitElemAmt
    <2>1. /\ idx \in Nat /\ began \in Nat /\ elemI \in Nat /\ tmp \in Nat /\ indexUsed \in Nat
          /\ Len(pushed) \in Nat /\ Len(visited) \in Nat
      BY <1>1 DEF ArrayTyped
    <2>2. Start(idx) \in Nat /\ Start(idx + 1) = Start(idx) + UnitElemAmt
      BY <2>1, SpotFacts
    <2> QED  BY <1>1, <2>1, <2>2 DEF Within
  <1>3. Reached = Start(idx) + tmp /\ Reached' = Start(idx) + UnitElemAmt
    BY <1>1, <1>2 DEF Reached
  <1>4. ArrayTyped' /\ Indexed' /\ Filled'
    <2>1. visited \in Seq((1 .. MaxUnits) \X Nat) /\ inUnit' \in BOOLEAN /\ idx' \in Nat
      <3>1. inUnit' \in BOOLEAN
        BY <1>1
      <3>2. visited \in Seq((1 .. MaxUnits) \X Nat)
        BY <1>1 DEF ArrayTyped
      <3> QED  BY <1>1, <1>2, <3>1, <3>2
    <2> QED  BY <1>1, <1>2, <2>1, TraversalStays
  <1>5. UNCHANGED <<visited, began, pushed, indexUsed, arrayPhase>>
    BY <1>1 DEF arrayElems
  <1>6. Seen'
    <2>1. PICK r, q \in Nat : r = Reached /\ q = Reached' /\ r <= q
      BY <1>2, <1>3
    <2>2. /\ Len(visited) <= q /\ (q <= began => Len(visited) = q) /\ (q > began => Len(visited) >= began)
      BY <1>1, <1>2, <1>3, <2>1 DEF Seen
    <2>3. \A k \in 1 .. Len(visited) : \E m \in 1 .. Len(pushed) : m <= q /\ visited[k] = Spot(m - 1)
      <3> SUFFICES ASSUME NEW k \in 1 .. Len(visited)
                   PROVE  \E m \in 1 .. Len(pushed) : m <= q /\ visited[k] = Spot(m - 1)
        OBVIOUS
      <3>1. PICK m \in 1 .. Len(pushed) : m <= r /\ visited[k] = Spot(m - 1)
        BY <1>1, <2>1 DEF Seen
      <3> QED  BY <1>2, <2>1, <3>1
    <2> QED  BY <1>1, <1>5, <2>1, <2>2, <2>3 DEF Seen
  <1>7. Within'
    BY <1>1 DEF Within
  <1> QED  BY <1>1, <1>2, <1>4, <1>5, <1>6, <1>7 DEF ArrayInv, Visiting

LEMMA EndInv == ArrayInv /\ (TraversalEnd \/ DestoryEnd \/ UNCHANGED arrayVars) => ArrayInv'
  <1> SUFFICES ASSUME ArrayInv, TraversalEnd \/ DestoryEnd \/ UNCHANGED arrayVars PROVE ArrayInv'
    OBVIOUS
  <1>1. CASE TraversalEnd
    BY <1>1 DEF TraversalEnd, Visited, ArrayInv, ArrayTyped, Indexed, Filled, Live, Visiting, arrayElems, arrayVisit
  <1>2. CASE DestoryEnd
    <2>1. <<>> \in Seq((1 .. MaxUnits) \X Nat)
      OBVIOUS
    <2>2. ArrayTyped'
      BY <1>2, <2>1 DEF DestoryEnd, ArrayInv, ArrayTyped, arrayVisit
    <2>3. Indexed' /\ Filled'
      BY <1>2 DEF DestoryEnd, Indexed, Filled, Live
    <2>4. ~inUnit'
      BY <1>2 DEF DestoryEnd, Visited, ArrayInv, Visiting, arrayVisit
    <2>5. Visiting'
      BY <1>2, <2>4 DEF DestoryEnd, Visiting
    <2> QED  BY <2>2, <2>3, <2>5 DEF ArrayInv
  <1>3. CASE UNCHANGED arrayVars
    BY <1>3 DEF arrayVars, ArrayInv, ArrayTyped, Indexed, Filled, Live, Visiting, Within, Seen, Reached,
                arrayElems, arrayVisit
  <1> QED  BY <1>1, <1>2, <1>3

(* The invariant of smp_array.c: the index and the elements it leads to,   *)
(* and how far a traversal has come, whatever its visitor pushes.          *)
THEOREM ArrayInvariant == ArraySpec => []ArrayInv
  <1>1. ArrayInv /\ [ArrayNext]_arrayVars => ArrayInv'
    BY ArrayCreateInv, PushInUnitInv, PushExpandInv, PushFailsInv, VisitBeginInv, UnitInv, ElemInv,
       UnitEndInv, EndInv DEF ArrayNext
  <1> QED  BY ArrayInitInv, <1>1, PTL DEF ArraySpec

(* Every variable of the array has its type.                               *)
THEOREM ArrayTyping == ArraySpec => []ArrayTypeOK
  <1>1. ArrayInv => ArrayTypeOK
    BY DEF ArrayInv, ArrayTyped, Indexed, ArrayTypeOK
  <1> QED  BY <1>1, ArrayInvariant, PTL

LEMMA SpotIs ==
  ASSUME NEW k \in Nat
  PROVE  Spot(k) = <<(k \div UnitElemAmt) + 1, k % UnitElemAmt>>
  BY DEF Spot, UnitOf, InUnit

(* The elements pushed stay in places of their own, where their numbers    *)
(* say, however the index is copied and whatever calls fail.               *)
THEOREM ArrayPlaced == ArraySpec => []ArrayKept
  <1> USE ArrayAssumption
  <1>1. ArrayInv => ArrayKept
    <2> SUFFICES ASSUME ArrayInv, Live PROVE ArrayKept
      BY DEF ArrayKept
    <2>1. /\ indexAmt \in Nat /\ indexUsed \in 1 .. indexAmt /\ currPoint \in Nat
          /\ index \in [0 .. indexAmt - 1 -> 1 .. MaxUnits \union {NULL, WILD}]
          /\ \A u \in 0 .. indexUsed - 1 : index[u] = u + 1
          /\ currPoint <= UnitElemAmt /\ Len(pushed) = Start(indexUsed - 1) + currPoint
          /\ \A k \in 1 .. Len(pushed) : pushed[k] = Spot(k - 1)
      BY DEF ArrayInv, ArrayTyped, Indexed, Filled
    <2>2. Len(pushed) \in Nat /\ DOMAIN pushed = 1 .. Len(pushed)
      BY DEF ArrayInv, ArrayTyped
    <2>3. ArraySize = Len(pushed)
      BY <2>1 DEF ArraySize, Start, Base
    <2>4. ASSUME NEW k \in 1 .. Len(pushed)
          PROVE  /\ pushed[k] = <<index[(k - 1) \div UnitElemAmt], (k - 1) % UnitElemAmt>>
                 /\ \A l \in 1 .. Len(pushed) : pushed[k] = pushed[l] => k = l
      <3>1. k - 1 \in Nat
        BY <2>2
      <3>2. PICK u, n : u = UnitOf(UnitElemAmt, k - 1) /\ n = InUnit(UnitElemAmt, k - 1)
        OBVIOUS
      <3>3. u \in Nat /\ n \in 0 .. UnitElemAmt - 1 /\ k - 1 = Start(u) + n
        BY <3>1, <3>2, PlaceFacts DEF Start
      <3>4. u <= indexUsed - 1
        <4> SUFFICES ASSUME indexUsed - 1 < u PROVE FALSE
          BY <2>1, <3>3
        <4>1. indexUsed - 1 \in Nat
          BY <2>1
        <4>2. Start(indexUsed - 1) + UnitElemAmt <= Start(u) /\ Start(u) \in Nat /\ Start(indexUsed - 1) \in Nat
          BY <3>3, <4>1, SpotFacts
        <4> QED  BY <2>1, <2>2, <3>3, <4>2
      <3>5. index[u] = u + 1
        BY <2>1, <3>3, <3>4
      <3>6. pushed[k] = <<index[u], n>>
        BY <2>1, <3>2, <3>5 DEF Spot
      <3>7. u = (k - 1) \div UnitElemAmt /\ n = (k - 1) % UnitElemAmt
        BY <3>2 DEF UnitOf, InUnit
      <3>8. ASSUME NEW l \in 1 .. Len(pushed), pushed[k] = pushed[l] PROVE k = l
        <4>1. Spot(k - 1) = Spot(l - 1) /\ l - 1 \in Nat
          BY <2>1, <2>2, <3>8
        <4>2. k - 1 = l - 1
          BY <3>1, <4>1, SpotFacts
        <4> QED  BY <2>2, <4>2
      <3> QED  BY <3>6, <3>7, <3>8, Zenon
    <2>5. DOMAIN index = 0 .. indexAmt - 1
      BY <2>1
    <2> QED  BY <2>1, <2>2, <2>3, <2>4, <2>5 DEF ArrayKept
  <1> QED  BY <1>1, ArrayInvariant, PTL

(* smp_array_elem_n(k) gives nothing but the element pushed k-th: the last *)
(* of each unit, which it takes for number -1 of the next, it never finds. *)
THEOREM ElemNSound == ArraySpec => []ElemSound
  <1> USE ArrayAssumption
  <1>1. ArrayInv => ElemSound
    <2> SUFFICES ASSUME ArrayInv, Live, NEW k \in 0 .. UIntMod - 1, ArrayElemN(k) /= NoElem
                 PROVE  k < Len(pushed) /\ ArrayElemN(k) = pushed[k + 1]
      BY DEF ElemSound
    <2>1. /\ indexAmt \in Nat /\ indexUsed \in 1 .. indexAmt /\ indexUsed <= MaxUnits /\ currPoint \in Nat
          /\ \A u \in 0 .. indexUsed - 1 : index[u] = u + 1
          /\ currPoint <= UnitElemAmt /\ Len(pushed) = Start(indexUsed - 1) + currPoint
          /\ \A i \in 1 .. Len(pushed) : pushed[i] = Spot(i - 1)
          /\ Len(pushed) \in Nat
      BY DEF ArrayInv, ArrayTyped, Indexed, Filled
    <2>2. UnitElemAmt < UIntMod
      <3>1. UnitElemAmt <= MaxUnits * UnitElemAmt
        OBVIOUS
      <3>2. MaxUnits * UnitElemAmt \in Nat
        OBVIOUS
      <3> QED  BY <3>1, <3>2
    <2>3. PICK j, u, m : /\ j = (k + 1) % UIntMod /\ u = UnitOf(UnitElemAmt, j) /\ m = InUnit(UnitElemAmt, j)
      OBVIOUS
    <2>4. PICK n : n = (m - 1) % UIntMod
      OBVIOUS
    <2>5. ArrayElemN(k) = IF u < indexUsed /\ n < currPoint THEN <<index[u], n>> ELSE NoElem
      BY <2>3, <2>4 DEF ArrayElemN, UnitOf, InUnit
    <2>6. u < indexUsed /\ n < currPoint /\ ArrayElemN(k) = <<index[u], n>>
      BY <2>5
    <2>7. j \in Nat /\ (k + 1 < UIntMod => j = k + 1) /\ (k + 1 = UIntMod => j = 0)
      BY <2>3
    <2>8. u \in Nat /\ m \in 0 .. UnitElemAmt - 1 /\ j = Start(u) + m /\ Start(u) \in Nat
      <3>1. u \in Nat /\ m \in 0 .. UnitElemAmt - 1 /\ j = Start(u) + m
        BY <2>3, <2>7, PlaceFacts DEF Start
      <3> QED  BY <3>1, SpotFacts
    <2>9. m /= 0
      <3> SUFFICES ASSUME m = 0 PROVE FALSE
        OBVIOUS
      <3>1. n = UIntMod - 1
        BY <2>4
      <3> QED  BY <2>1, <2>2, <2>6, <3>1
    <2>10. n = m - 1 /\ n \in 0 .. UnitElemAmt - 1
      BY <2>2, <2>4, <2>8, <2>9
    <2>11. j = k + 1 /\ k = Start(u) + n
      BY <2>7, <2>8, <2>9, <2>10
    <2>12. Spot(k) = <<index[u], n>>
      <3>1. u \in 0 .. indexUsed - 1
        BY <2>1, <2>6, <2>8
      <3>2. index[u] = u + 1
        BY <2>1, <3>1
      <3>3. Spot(Start(u) + n) = <<u + 1, n>>
        BY <2>8, <2>10, SpotFacts
      <3> QED  BY <2>11, <3>2, <3>3
    <2>13. Start(u) <= Start(indexUsed - 1)
      <3>1. indexUsed - 1 \in Nat /\ (u = indexUsed - 1 \/ u < indexUsed - 1)
        BY <2>1, <2>6, <2>8
      <3>2. u < indexUsed - 1 => Start(u) + UnitElemAmt <= Start(indexUsed - 1)
        BY <2>8, <3>1, SpotFacts
      <3>3. Start(indexUsed - 1) \in Nat
        BY <3>1, SpotFacts
      <3> QED  BY <2>8, <3>1, <3>2, <3>3
    <2>14. k < Len(pushed)
      <3>1. Start(indexUsed - 1) \in Nat
        <4>1. indexUsed - 1 \in Nat
          BY <2>1
        <4> QED  BY <4>1, SpotFacts
      <3> QED  BY <2>1, <2>6, <2>8, <2>10, <2>11, <2>13, <3>1, SMTT(60)
    <2>15. k + 1 \in 1 .. Len(pushed) /\ (k + 1) - 1 = k
      BY <2>1, <2>14
    <2> QED  BY <2>1, <2>6, <2>12, <2>14, <2>15
  <1> QED  BY <1>1, ArrayInvariant, PTL

(* A traversal that ends has visited all there was when it began, in order,*)
(* and nothing twice, whatever its visitor pushed.                         *)
THEOREM ArrayTraversed == ArraySpec => ArrayVisits
  <1> USE ArrayAssumption
  <1>1. ArrayInv /\ [ArrayNext]_arrayVars =>
          [(arrayPhase \in {"visit", "destory"} /\ arrayPhase' /= arrayPhase) =>
             /\ Len(visited) >= began
             /\ SubSeq(visited, 1, began) = SubSeq(pushed, 1, began)
             /\ \A k, l \in DOMAIN visited : visited[k] = visited[l] => k = l
             /\ \A k \in DOMAIN visited : \E l \in DOMAIN pushed : visited[k] = pushed[l]
             /\ arrayPhase = "destory" => visited = pushed]_arrayVars
    <2> SUFFICES ASSUME ArrayInv, ArrayNext, arrayPhase \in {"visit", "destory"}, arrayPhase' /= arrayPhase
                 PROVE  /\ Len(visited) >= began
                        /\ SubSeq(visited, 1, began) = SubSeq(pushed, 1, began)
                        /\ \A k, l \in DOMAIN visited : visited[k] = visited[l] => k = l
                        /\ \A k \in DOMAIN visited : \E l \in DOMAIN pushed : visited[k] = pushed[l]
                        /\ arrayPhase = "destory" => visited = pushed
      OBVIOUS
    <2>1. Visited
      BY DEF ArrayNext, ArrayCreate, PushInUnit, PushExpand, PushFails, TraversalBegin, TraversalUnit,
             TraversalElem, TraversalUnitEnd, TraversalEnd, DestoryBegin, DestoryEnd
    <2>2. /\ ArrayTyped /\ Filled /\ Live /\ Seen /\ idx <= indexUsed /\ began <= Len(pushed)
          /\ ~inUnit /\ idx >= indexUsed
      BY <2>1 DEF ArrayInv, Visiting, Visited, Live
    <2>3. /\ idx = indexUsed /\ indexUsed \in Nat \ {0} /\ began \in Nat /\ Len(pushed) \in Nat
          /\ Len(visited) \in Nat /\ currPoint \in 0 .. UnitElemAmt
          /\ DOMAIN visited = 1 .. Len(visited) /\ DOMAIN pushed = 1 .. Len(pushed)
      BY <2>2 DEF ArrayInv, ArrayTyped, Indexed, Filled
    <2>4. Reached >= Len(pushed) /\ Reached \in Nat
      <3>1. indexUsed - 1 \in Nat /\ (indexUsed - 1) + 1 = indexUsed
        BY <2>3
      <3>2. Start(indexUsed) = Start(indexUsed - 1) + UnitElemAmt /\ Start(indexUsed - 1) \in Nat
        BY <3>1, SpotFacts
      <3>3. Reached = Start(indexUsed)
        BY <2>2, <2>3, <3>2 DEF Reached
      <3> QED  BY <2>2, <2>3, <3>2, <3>3 DEF Filled
    <2>5. Len(visited) >= began
      <3>1. (Reached <= began => Len(visited) = Reached) /\ (Reached > began => Len(visited) >= began)
        BY <2>2 DEF Seen
      <3>2. PICK p, v, b \in Nat : p = Len(pushed) /\ v = Len(visited) /\ b = began /\ b <= p
        BY <2>2, <2>3
      <3>3. PICK q \in Nat : q = Reached /\ q >= p
        BY <2>4, <3>2
      <3>4. (q <= b => v = q) /\ (q > b => v >= b)
        BY <3>1, <3>2, <3>3
      <3>5. v >= b
        BY <3>2, <3>3, <3>4
      <3> QED  BY <3>2, <3>5
    <2>6. \A k \in 1 .. began : visited[k] = pushed[k]
      BY <2>2, <2>3, <2>5 DEF Seen, Filled
    <2>7. SubSeq(visited, 1, began) = SubSeq(pushed, 1, began)
      BY <2>2, <2>3, <2>5, <2>6 DEF ArrayTyped
    <2>8. \A k, l \in 1 .. Len(visited) : visited[k] = visited[l] => k = l
      BY <2>2 DEF Seen
    <2>9. \A k \in 1 .. Len(visited) : \E l \in 1 .. Len(pushed) : visited[k] = pushed[l]
      BY <2>2 DEF Seen, Filled
    <2>10. ASSUME arrayPhase = "destory" PROVE visited = pushed
      <3>1. Len(visited) = Len(pushed) /\ began = Len(pushed)
        <4>1. Len(visited) <= began /\ began = Len(pushed)
          BY <2>2, <2>10 DEF Seen
        <4>2. PICK v, b \in Nat : v = Len(visited) /\ b = began
          BY <2>3
        <4>3. v <= b /\ v >= b
          BY <2>5, <4>1, <4>2
        <4>4. v = b
          BY <4>3
        <4> QED  BY <4>1, <4>2, <4>4
      <3> QED  BY <2>2, <2>3, <2>6, <3>1 DEF ArrayTyped
    <2> QED  BY <2>3, <2>5, <2>7, <2>8, <2>9, <2>10
  <1> QED  BY <1>1, ArrayInvariant, PTL DEF ArraySpec, ArrayVisits
-----------------------------------------------------------------------------
(***************************************************************************)
(* The list.                                                               *)
(***************************************************************************)

(* The element with number k, from 0, of a list whose elements are ints.   *)
Slot(k) == <<UnitOf(PartElemMaxmnt, k) + 1, ElemInts * InUnit(PartElemMaxmnt, k)>>

(* How many elements come before those of part p.                          *)
Before(p) == Base(PartElemMaxmnt, p - 1)

LEMMA SlotFacts ==
  /\ Before(1) = 0
  /\ \A p \in Nat \ {0} : Before(p) \in Nat /\ Before(p + 1) = Before(p) + PartElemMaxmnt
  /\ \A p \in Nat \ {0}, n \in 0 .. PartElemMaxmnt - 1 : Slot(Before(p) + n) = <<p, ElemInts * n>>
  <1> USE ListAssumption
  <1>1. Before(1) = 0
    <2>1. 1 - 1 = 0
      OBVIOUS
    <2> QED  BY <2>1, BaseFacts DEF Before
  <1>2. ASSUME NEW p \in Nat \ {0}
        PROVE  /\ Before(p) \in Nat /\ Before(p + 1) = Before(p) + PartElemMaxmnt
               /\ \A n \in 0 .. PartElemMaxmnt - 1 : Slot(Before(p) + n) = <<p, ElemInts * n>>
    <2>1. PICK u \in Nat : u = p - 1 /\ u + 1 = p /\ (p + 1) - 1 = u + 1
      OBVIOUS
    <2>2. Before(p) = Base(PartElemMaxmnt, u) /\ Before(p + 1) = Base(PartElemMaxmnt, u + 1)
      BY <2>1 DEF Before
    <2>3. ASSUME NEW n \in 0 .. PartElemMaxmnt - 1 PROVE Slot(Before(p) + n) = <<p, ElemInts * n>>
      <3>1. UnitOf(PartElemMaxmnt, Before(p) + n) = u /\ InUnit(PartElemMaxmnt, Before(p) + n) = n
        BY <2>2, PlaceAt
      <3> QED  BY <2>1, <3>1 DEF Slot
    <2>4. Base(PartElemMaxmnt, u) \in Nat
          /\ Base(PartElemMaxmnt, u + 1) = Base(PartElemMaxmnt, u) + PartElemMaxmnt
      BY BaseFacts
    <2>5. Before(p) \in Nat /\ Before(p + 1) = Before(p) + PartElemMaxmnt
      BY <2>2, <2>4, Zenon
    <2> QED  BY <2>3, <2>5, Zenon
  <1> QED  BY <1>1, <1>2

(* Two elements have not the same place.                                   *)
LEMMA SlotsApart ==
  ASSUME NEW k \in Nat, NEW l \in Nat, Slot(k) = Slot(l)
  PROVE  k = l
  <1> USE ListAssumption
  <1>1. PICK a \in Nat, b \in Nat : a = InUnit(PartElemMaxmnt, k) /\ b = InUnit(PartElemMaxmnt, l)
    BY PlaceFacts
  <1>2. UnitOf(PartElemMaxmnt, k) \in Nat /\ UnitOf(PartElemMaxmnt, l) \in Nat
    BY PlaceFacts
  <1>3. UnitOf(PartElemMaxmnt, k) = UnitOf(PartElemMaxmnt, l) /\ ElemInts * a = ElemInts * b
    BY <1>1, <1>2 DEF Slot
  <1>4. PICK c \in Nat \ {0} : c = ElemInts /\ c * a = c * b
    BY <1>3
  <1>5. a = b
    <2>1. a < b => c * a < c * b
      OBVIOUS
    <2>2. b < a => c * b < c * a
      OBVIOUS
    <2>3. c * a \in Nat /\ c * b \in Nat
      OBVIOUS
    <2> QED  BY <1>4, <2>1, <2>2, <2>3
  <1> QED  BY <1>1, <1>3, <1>5, PlacesApart

(* The parts in use are a chain from the first to the tail, all full but   *)
(* perhaps the tail; those not in use are empty and lead nowhere.          *)
PartsChained ==
  /\ listPhase \in {"none", "live"}
  /\ elemMnt \in [Parts -> 0 .. PartElemMaxmnt]
  /\ partNext \in [Parts -> Parts \union {NULL}]
  /\ parts \in 0 .. MaxParts
  /\ listPhase = "none" => parts = 0 /\ listTail = NULL
  /\ listPhase = "live" => parts >= 1 /\ listTail = parts
  /\ \A p \in Parts : /\ p < parts => elemMnt[p] = PartElemMaxmnt /\ partNext[p] = p + 1
                      /\ p >= parts => partNext[p] = NULL
                      /\ p > parts => elemMnt[p] = 0

(* The elements pushed fill the parts from the first place on.             *)
ListFilled ==
  /\ listPushed \in Seq(Parts \X Nat)
  /\ listPhase = "live" => Len(listPushed) = Before(parts) + elemMnt[parts]
  /\ \A k \in 1 .. Len(listPushed) : listPushed[k] = Slot(k - 1)

(* The traversal has come partI elements far into its part, and has        *)
(* visited all the places up to there.                                     *)
ListSeen ==
  /\ listVisited \in Seq(Parts \X Nat)
  /\ part \in Parts \union {NULL}
  /\ partI \in Nat
  /\ part /= NULL => /\ listPhase = "live" /\ part <= parts /\ partI <= elemMnt[part]
                     /\ Len(listVisited) = Before(part) + partI
                     /\ \A k \in 1 .. Len(listVisited) :
                          listVisited[k] = <<UnitOf(PartElemMaxmnt, k - 1) + 1, InUnit(PartElemMaxmnt, k - 1)>>

ListInv == PartsChained /\ ListFilled /\ ListSeen

LEMMA ListInitInv == ListInit => ListInv
  <1> SUFFICES ASSUME ListInit PROVE ListInv
    OBVIOUS
  <1> USE ListAssumption
  <1>1. <<>> \in Seq(Parts \X Nat) /\ 1 .. Len(<<>>) = {}
    OBVIOUS
  <1>2. PartsChained
    BY DEF ListInit, PartsChained, Parts
  <1>3. ListFilled
    BY <1>1 DEF ListInit, ListFilled
  <1>4. ListSeen
    BY <1>1 DEF ListInit, ListSeen
  <1> QED  BY <1>2, <1>3, <1>4 DEF ListInv

LEMMA ListCreateInv == ListInv /\ ListCreate => ListInv'
  <1> SUFFICES ASSUME ListInv, ListCreate PROVE ListInv'
    OBVIOUS
  <1> USE ListAssumption
  <1>1. <<>> \in Seq(Parts \X Nat) /\ 1 .. Len(<<>>) = {} /\ Len(<<>>) = 0
    OBVIOUS
  <1>2. PartsChained'
    BY DEF ListCreate, PartsChained, Parts, HeadPart
  <1>3. ListFilled'
    <2>1. Before(1) = 0 /\ elemMnt'[1] = 0
      BY SlotFacts DEF ListCreate, Parts
    <2> QED  BY <1>1, <2>1 DEF ListCreate, ListFilled
  <1>4. ListSeen'
    BY DEF ListCreate, ListInv, ListSeen
  <1> QED  BY <1>2, <1>3, <1>4 DEF ListInv

(* The element pushed last is at the next place.                           *)
LEMMA ListFilledOn ==
  ASSUME ListInv, listPhase = "live", listPhase' = "live",
         NEW p \in Parts, NEW n \in 0 .. PartElemMaxmnt - 1,
         Before(parts) + elemMnt[parts] = Before(p) + n,
         listPushed' = Append(listPushed, <<p, ElemInts * n>>),
         parts' = p, elemMnt'[p] = n + 1
  PROVE  ListFilled'
  <1> USE ListAssumption
  <1>1. PICK len \in Nat : len = Len(listPushed)
    BY DEF ListInv, ListFilled
  <1>2. /\ listPushed \in Seq(Parts \X Nat)
        /\ len = Before(p) + n /\ \A k \in 1 .. len : listPushed[k] = Slot(k - 1)
    BY <1>1 DEF ListInv, ListFilled
  <1>3. ElemInts * n \in Nat
    OBVIOUS
  <1>4. /\ listPushed' \in Seq(Parts \X Nat) /\ Len(listPushed') = len + 1
        /\ listPushed'[len + 1] = <<p, ElemInts * n>> /\ \A k \in 1 .. len : listPushed'[k] = listPushed[k]
    <2>1. PICK T, e, a, b : T = Parts \X Nat /\ e = <<p, ElemInts * n>> /\ a = listPushed /\ b = listPushed'
      OBVIOUS
    <2>2. a \in Seq(T) /\ e \in T /\ b = Append(a, e) /\ len = Len(a)
      BY <1>1, <1>2, <1>3, <2>1
    <2>3. b \in Seq(T) /\ Len(b) = len + 1 /\ b[len + 1] = e /\ \A k \in 1 .. len : b[k] = a[k]
      BY <2>2
    <2> QED  BY <2>1, <2>3
  <1>5. p \in Nat \ {0}
    BY DEF Parts
  <1>6. Slot(len) = <<p, ElemInts * n>> /\ Before(p) \in Nat
    BY <1>2, <1>5, SlotFacts
  <1>7. Len(listPushed') = Before(p) + (n + 1)
    BY <1>2, <1>4, <1>6
  <1>8. \A k \in 1 .. Len(listPushed') : listPushed'[k] = Slot(k - 1)
    <2> SUFFICES ASSUME NEW k \in 1 .. Len(listPushed') PROVE listPushed'[k] = Slot(k - 1)
      OBVIOUS
    <2>1. k \in 1 .. len \/ (k = len + 1 /\ k - 1 = len)
      BY <1>4
    <2> QED  BY <1>2, <1>4, <1>6, <2>1
  <1> QED  BY <1>4, <1>7, <1>8 DEF ListFilled

LEMMA PushInPartInv == ListInv /\ PushInPart => ListInv'
  <1> SUFFICES ASSUME ListInv, PushInPart PROVE ListInv'
    OBVIOUS
  <1> USE ListAssumption
  <1>1. /\ listPhase = "live" /\ listTail = parts /\ parts \in Parts /\ elemMnt \in [Parts -> 0 .. PartElemMaxmnt]
        /\ elemMnt[parts] /= PartElemMaxmnt
        /\ elemMnt' = [elemMnt EXCEPT ![parts] = @ + 1]
        /\ listPushed' = Append(listPushed, <<parts, ElemInts * elemMnt[parts]>>)
        /\ UNCHANGED <<listPhase, listTail, partNext, parts, part, partI, listVisited>>
    BY DEF ListInv, PartsChained, PushInPart, MayPushList, Parts
  <1>2. elemMnt[parts] \in 0 .. PartElemMaxmnt - 1 /\ elemMnt'[parts] = elemMnt[parts] + 1
    BY <1>1
  <1>3. elemMnt' \in [Parts -> 0 .. PartElemMaxmnt] /\ \A p \in Parts : p /= parts => elemMnt'[p] = elemMnt[p]
    BY <1>1, <1>2
  <1>4. PartsChained'
    BY <1>1, <1>3 DEF ListInv, PartsChained, Parts
  <1>5. ListFilled'
    BY <1>1, <1>2, ListFilledOn
  <1>6. ListSeen'
    <2>1. part /= NULL => elemMnt'[part] >= elemMnt[part] /\ elemMnt[part] \in Nat /\ elemMnt'[part] \in Nat
      BY <1>1, <1>2, <1>3 DEF ListInv, ListSeen
    <2>2. ListSeen /\ (part /= NULL => partI \in Nat /\ partI <= elemMnt[part])
      BY DEF ListInv, ListSeen
    <2>3. part /= NULL => partI <= elemMnt'[part]
      BY <2>1, <2>2
    <2> QED  BY <1>1, <2>2, <2>3 DEF ListSeen
  <1> QED  BY <1>4, <1>5, <1>6 DEF ListInv

LEMMA PushNewPartInv == ListInv /\ PushNewPart => ListInv'
  <1> SUFFICES ASSUME ListInv, PushNewPart PROVE ListInv'
    OBVIOUS
  <1> USE ListAssumption
  <1>1. PICK last : last = parts + 1
    OBVIOUS
  <1>2. /\ listPhase = "live" /\ listTail = parts /\ parts \in Parts /\ last \in Parts /\ parts < last
        /\ elemMnt \in [Parts -> 0 .. PartElemMaxmnt] /\ partNext \in [Parts -> Parts \union {NULL}]
        /\ elemMnt[parts] = PartElemMaxmnt
    BY <1>1 DEF ListInv, PartsChained, PushNewPart, MayPushList, Parts
  <1>3. /\ partNext' = [partNext EXCEPT ![last] = NULL, ![parts] = last]
        /\ elemMnt' = [elemMnt EXCEPT ![last] = 1]
        /\ listPushed' = Append(listPushed, <<last, 0>>)
        /\ listTail' = last /\ parts' = last
        /\ UNCHANGED <<listPhase, part, partI, listVisited>>
    BY <1>1, <1>2 DEF PushNewPart
  <1>4. /\ partNext' \in [Parts -> Parts \union {NULL}] /\ partNext'[last] = NULL /\ partNext'[parts] = last
        /\ \A p \in Parts : p /= last /\ p /= parts => partNext'[p] = partNext[p]
    BY <1>2, <1>3 DEF Parts
  <1>5. /\ elemMnt' \in [Parts -> 0 .. PartElemMaxmnt] /\ elemMnt'[last] = 1
        /\ \A p \in Parts : p /= last => elemMnt'[p] = elemMnt[p]
    BY <1>2, <1>3
  <1>6. PartsChained'
    <2>1. \A p \in Parts : /\ p < last => elemMnt'[p] = PartElemMaxmnt /\ partNext'[p] = p + 1
                           /\ p >= last => partNext'[p] = NULL
                           /\ p > last => elemMnt'[p] = 0
      <3> SUFFICES ASSUME NEW p \in Parts
                   PROVE  /\ p < last => elemMnt'[p] = PartElemMaxmnt /\ partNext'[p] = p + 1
                          /\ p >= last => partNext'[p] = NULL
                          /\ p > last => elemMnt'[p] = 0
        OBVIOUS
      <3>1. p \in Nat /\ parts \in Nat /\ (p < parts \/ p = parts \/ p = last \/ p > last)
        BY <1>1, <1>2 DEF Parts
      <3>2. /\ p < parts => elemMnt[p] = PartElemMaxmnt /\ partNext[p] = p + 1
            /\ p >= parts => partNext[p] = NULL
            /\ p > parts => elemMnt[p] = 0
        BY DEF ListInv, PartsChained
      <3> QED  BY <1>1, <1>2, <1>4, <1>5, <3>1, <3>2
    <2>2. last \in 0 .. MaxParts /\ last >= 1
      BY <1>2 DEF Parts
    <2> QED  BY <1>2, <1>3, <1>4, <1>5, <2>1, <2>2 DEF PartsChained
  <1>7. ListFilled'
    <2>1. 0 \in 0 .. PartElemMaxmnt - 1 /\ ElemInts * 0 = 0 /\ 0 + 1 = 1
      OBVIOUS
    <2>2. parts \in Nat \ {0}
      BY <1>2 DEF Parts
    <2>3. Before(parts) + elemMnt[parts] = Before(last) + 0
      BY <1>1, <1>2, <2>2, SlotFacts
    <2> QED  BY <1>2, <1>3, <1>5, <2>1, <2>3, ListFilledOn
  <1>8. ListSeen'
    <2>1. part /= NULL => part \in Parts /\ part <= parts /\ part /= last
      BY <1>1, <1>2 DEF ListInv, ListSeen, Parts
    <2>2. part /= NULL => elemMnt'[part] = elemMnt[part] /\ part <= last
      BY <1>1, <1>2, <1>5, <2>1 DEF Parts
    <2> QED  BY <1>2, <1>3, <2>2 DEF ListInv, ListSeen
  <1> QED  BY <1>6, <1>7, <1>8 DEF ListInv

LEMMA ListBeginInv == ListInv /\ ListTraversalBegin => ListInv'
  <1> SUFFICES ASSUME ListInv, ListTraversalBegin PROVE ListInv'
    OBVIOUS
  <1> USE ListAssumption
  <1>1. /\ listPhase = "live" /\ part' = 1 /\ partI' = 0 /\ listVisited' = <<>>
        /\ UNCHANGED <<listPhase, listTail, elemMnt, partNext, parts, listPushed>>
    BY DEF ListTraversalBegin, listElems, HeadPart
  <1>2. <<>> \in Seq(Parts \X Nat) /\ 1 .. Len(<<>>) = {} /\ Len(<<>>) = 0
    OBVIOUS
  <1>3. 1 \in Parts /\ 1 <= parts /\ elemMnt[1] \in Nat /\ Before(1) = 0
    <2>1. 1 \in Parts
      BY DEF Parts
    <2>2. elemMnt \in [Parts -> 0 .. PartElemMaxmnt] /\ parts \in Nat /\ parts >= 1
      BY <1>1 DEF ListInv, PartsChained
    <2> QED  BY <2>1, <2>2, SlotFacts
  <1>4. PartsChained' /\ ListFilled'
    BY <1>1 DEF ListInv, PartsChained, ListFilled
  <1>5. ListSeen'
    BY <1>1, <1>2, <1>3 DEF ListSeen
  <1> QED  BY <1>4, <1>5 DEF ListInv

LEMMA VisitElemInv == ListInv /\ VisitElem => ListInv'
  <1> SUFFICES ASSUME ListInv, VisitElem PROVE ListInv'
    OBVIOUS
  <1> USE ListAssumption
  <1>1. /\ part /= NULL /\ partI < elemMnt[part] /\ partI' = partI + 1
        /\ listVisited' = Append(listVisited, <<part, partI>>)
        /\ UNCHANGED <<listPhase, listTail, elemMnt, partNext, parts, listPushed, part>>
    BY DEF VisitElem, listElems
  <1>2. PICK len \in Nat : len = Len(listVisited)
    BY DEF ListInv, ListSeen
  <1>3. /\ listPhase = "live" /\ part \in Parts /\ part <= parts /\ partI \in Nat
        /\ len = Before(part) + partI /\ listVisited \in Seq(Parts \X Nat)
        /\ \A k \in 1 .. len :
             listVisited[k] = <<UnitOf(PartElemMaxmnt, k - 1) + 1, InUnit(PartElemMaxmnt, k - 1)>>
    BY <1>1, <1>2 DEF ListInv, ListSeen
  <1>4. elemMnt[part] \in 0 .. PartElemMaxmnt
    BY <1>3 DEF ListInv, PartsChained
  <1>5. partI \in 0 .. PartElemMaxmnt - 1 /\ partI + 1 <= elemMnt[part]
    BY <1>1, <1>3, <1>4
  <1>6. /\ listVisited' \in Seq(Parts \X Nat) /\ Len(listVisited') = len + 1
        /\ listVisited'[len + 1] = <<part, partI>> /\ \A k \in 1 .. len : listVisited'[k] = listVisited[k]
    <2>1. PICK T, e, a, b : T = Parts \X Nat /\ e = <<part, partI>> /\ a = listVisited /\ b = listVisited'
      OBVIOUS
    <2>2. a \in Seq(T) /\ e \in T /\ b = Append(a, e) /\ len = Len(a)
      BY <1>1, <1>2, <1>3, <2>1
    <2>3. b \in Seq(T) /\ Len(b) = len + 1 /\ b[len + 1] = e /\ \A k \in 1 .. len : b[k] = a[k]
      BY <2>2
    <2> QED  BY <2>1, <2>3
  <1>7. PICK u \in Nat : u = part - 1 /\ u + 1 = part
    BY <1>3 DEF Parts
  <1>8. UnitOf(PartElemMaxmnt, len) = u /\ InUnit(PartElemMaxmnt, len) = partI
    BY <1>3, <1>5, <1>7, PlaceAt DEF Before
  <1>9. Before(part) \in Nat
    <2>1. part \in Nat \ {0}
      BY <1>3 DEF Parts
    <2> QED  BY <2>1, SlotFacts
  <1>10. \A k \in 1 .. Len(listVisited') :
           listVisited'[k] = <<UnitOf(PartElemMaxmnt, k - 1) + 1, InUnit(PartElemMaxmnt, k - 1)>>
    <2> SUFFICES ASSUME NEW k \in 1 .. Len(listVisited')
                 PROVE  listVisited'[k] = <<UnitOf(PartElemMaxmnt, k - 1) + 1, InUnit(PartElemMaxmnt, k - 1)>>
      OBVIOUS
    <2>1. k \in 1 .. len \/ (k = len + 1 /\ k - 1 = len)
      BY <1>2, <1>6
    <2> QED  BY <1>3, <1>6, <1>7, <1>8, <2>1
  <1>11. Len(listVisited') = Before(part) + (partI + 1)
    BY <1>3, <1>6, <1>9
  <1>12. PartsChained' /\ ListFilled'
    BY <1>1 DEF ListInv, PartsChained, ListFilled
  <1>13. ListSeen'
    BY <1>1, <1>3, <1>5, <1>6, <1>10, <1>11 DEF ListSeen
  <1> QED  BY <1>12, <1>13 DEF ListInv

LEMMA VisitNextInv == ListInv /\ VisitNext => ListInv'
  <1> SUFFICES ASSUME ListInv, VisitNext PROVE ListInv'
    OBVIOUS
  <1> USE ListAssumption
  <1>1. /\ part /= NULL /\ partI >= elemMnt[part] /\ part' = partNext[part] /\ partI' = 0
        /\ UNCHANGED <<listPhase, listTail, elemMnt, partNext, parts, listPushed, listVisited>>
    BY DEF VisitNext, listElems
  <1>2. /\ listPhase = "live" /\ part \in Parts /\ part <= parts /\ partI = elemMnt[part]
        /\ Len(listVisited) = Before(part) + elemMnt[part]
        /\ parts \in Parts /\ elemMnt[part] \in Nat
    <2>1. /\ listPhase = "live" /\ part \in Parts /\ part <= parts /\ partI <= elemMnt[part] /\ partI \in Nat
          /\ Len(listVisited) = Before(part) + partI
      BY <1>1 DEF ListInv, ListSeen
    <2>2. parts \in Parts /\ elemMnt[part] \in Nat
      BY <2>1 DEF ListInv, PartsChained, Parts
    <2>3. partI = elemMnt[part]
      BY <1>1, <2>1, <2>2
    <2> QED  BY <2>1, <2>2, <2>3
  <1>3. PartsChained' /\ ListFilled'
    BY <1>1 DEF ListInv, PartsChained, ListFilled
  <1>4. CASE part = parts
    <2>1. part' = NULL
      BY <1>1, <1>2, <1>4 DEF ListInv, PartsChained, Parts
    <2>2. ListSeen'
      BY <1>1, <2>1 DEF ListInv, ListSeen
    <2> QED  BY <1>3, <2>2 DEF ListInv
  <1>5. CASE part /= parts
    <2>1. part \in Nat \ {0} /\ part < parts /\ part + 1 \in Parts /\ part + 1 <= parts
      BY <1>2, <1>5 DEF Parts
    <2>2. part' = part + 1 /\ elemMnt[part] = PartElemMaxmnt
      BY <1>1, <1>2, <2>1 DEF ListInv, PartsChained
    <2>3. elemMnt[part + 1] \in Nat
      BY <2>1 DEF ListInv, PartsChained
    <2>4. Len(listVisited) = Before(part + 1) + 0
      BY <1>2, <2>1, <2>2, SlotFacts
    <2>5. ListSeen'
      BY <1>1, <1>2, <2>1, <2>2, <2>3, <2>4 DEF ListInv, ListSeen
    <2> QED  BY <1>3, <2>5 DEF ListInv
  <1> QED  BY <1>4, <1>5

LEMMA ListDestoryInv == ListInv /\ ListDestory => ListInv'
  <1> SUFFICES ASSUME ListInv, ListDestory PROVE ListInv'
    OBVIOUS
  <1> USE ListAssumption
  <1>1. <<>> \in Seq(Parts \X Nat) /\ 1 .. Len(<<>>) = {}
    OBVIOUS
  <1>2. PartsChained'
    BY DEF ListDestory, PartsChained, Parts
  <1>3. ListFilled'
    BY <1>1 DEF ListDestory, ListFilled
  <1>4. ListSeen'
    BY DEF ListDestory, ListInv, ListSeen
  <1> QED  BY <1>2, <1>3, <1>4 DEF ListInv

(* The invariant of smp_list.c: the chain of parts, the places of the      *)
(* elements in it, and how far a traversal has come.                       *)
THEOREM ListInvariant == ListSpec => []ListInv
  <1>1. ListInv /\ UNCHANGED listVars => ListInv'
    BY DEF ListInv, PartsChained, ListFilled, ListSeen, listVars, listElems
  <1>2. ListInv /\ [ListNext]_listVars => ListInv'
    BY <1>1, ListCreateInv, PushInPartInv, PushNewPartInv, ListBeginInv, VisitElemInv, VisitNextInv,
       ListDestoryInv DEF ListNext
  <1> QED  BY ListInitInv, <1>2, PTL DEF ListSpec

(* Every variable of the list has its type.                                *)
THEOREM ListTyping == ListSpec => []ListTypeOK
  <1>1. ListInv => ListTypeOK
    <2> SUFFICES ASSUME ListInv PROVE ListTypeOK
      OBVIOUS
    <2>1. listTail \in Parts \union {NULL}
      BY ListAssumption DEF ListInv, PartsChained, Parts
    <2> QED  BY <2>1 DEF ListInv, PartsChained, ListFilled, ListSeen, ListTypeOK
  <1> QED  BY <1>1, ListInvariant, PTL

(* A traversal of a list of ints that ends has visited what was pushed,    *)
(* the elements its visitor has pushed included, in order and each once.   *)
(* smp_list_visit_part_elems steps by ints, whatever the elements' size.   *)
THEOREM ListTraversed == ASSUME ElemInts = 1 PROVE ListSpec => ListVisits
  <1> USE ListAssumption
  <1>1. ListInv /\ [ListNext]_listVars =>
          [(part /= NULL /\ part' = NULL) => /\ listVisited = listPushed
                                             /\ \A k, l \in DOMAIN listPushed :
                                                  listPushed[k] = listPushed[l] => k = l]_listVars
    <2> SUFFICES ASSUME ListInv, ListNext, part /= NULL, part' = NULL
                 PROVE  /\ listVisited = listPushed
                        /\ \A k, l \in DOMAIN listPushed : listPushed[k] = listPushed[l] => k = l
      OBVIOUS
    <2>1. partI >= elemMnt[part] /\ partNext[part] = NULL
      BY DEF ListNext, ListCreate, PushInPart, PushNewPart, ListTraversalBegin, VisitElem, VisitNext, ListDestory,
             listElems
    <2>2. /\ listPhase = "live" /\ part \in Parts /\ part <= parts /\ partI <= elemMnt[part] /\ partI \in Nat
          /\ Len(listVisited) = Before(part) + partI
          /\ listVisited \in Seq(Parts \X Nat) /\ listPushed \in Seq(Parts \X Nat)
          /\ Len(listPushed) = Before(parts) + elemMnt[parts]
      BY DEF ListInv, ListSeen, ListFilled
    <2>3. parts \in Parts /\ elemMnt[part] \in Nat
      <3>1. elemMnt \in [Parts -> 0 .. PartElemMaxmnt] /\ parts \in 1 .. MaxParts
        BY <2>2 DEF ListInv, PartsChained
      <3> QED  BY <2>2, <3>1 DEF Parts
    <2>4. part = parts
      <3> SUFFICES ASSUME part /= parts PROVE FALSE
        OBVIOUS
      <3>1. part < parts /\ part + 1 \in Nat
        BY <2>2, <2>3 DEF Parts
      <3>2. partNext[part] = part + 1
        BY <2>2, <3>1 DEF ListInv, PartsChained
      <3> QED  BY <2>1, <2>2, <3>1, <3>2 DEF NULL, Parts
    <2>5. Len(listVisited) = Len(listPushed) /\ Len(listPushed) \in Nat
      BY <2>1, <2>2, <2>3, <2>4
    <2>6. ASSUME NEW k \in 1 .. Len(listPushed) PROVE listVisited[k] = Slot(k - 1) /\ listPushed[k] = Slot(k - 1)
      <3>1. InUnit(PartElemMaxmnt, k - 1) \in Nat
        <4>1. PICK m \in Nat : m = k - 1
          BY <2>5
        <4>2. PartElemMaxmnt \in Nat \ {0}
          OBVIOUS
        <4>3. InUnit(PartElemMaxmnt, m) \in 0 .. PartElemMaxmnt - 1
          BY <4>2, PlaceFacts
        <4> QED  BY <4>1, <4>2, <4>3
      <3>2. ElemInts * InUnit(PartElemMaxmnt, k - 1) = InUnit(PartElemMaxmnt, k - 1)
        BY <3>1
      <3>3. listVisited[k] = <<UnitOf(PartElemMaxmnt, k - 1) + 1, InUnit(PartElemMaxmnt, k - 1)>>
        BY <2>5 DEF ListInv, ListSeen
      <3>4. listPushed[k] = Slot(k - 1)
        BY DEF ListInv, ListFilled
      <3>5. listVisited[k] = Slot(k - 1)
        BY <3>2, <3>3 DEF Slot
      <3> QED  BY <3>4, <3>5
    <2>7. /\ DOMAIN listVisited = 1 .. Len(listVisited) /\ DOMAIN listPushed = 1 .. Len(listPushed)
          /\ listVisited = [k \in DOMAIN listVisited |-> listVisited[k]]
          /\ listPushed = [k \in DOMAIN listPushed |-> listPushed[k]]
      BY <2>2
    <2>8. listVisited = listPushed
      BY <2>5, <2>6, <2>7
    <2>9. ASSUME NEW k \in 1 .. Len(listPushed), NEW l \in 1 .. Len(listPushed), listPushed[k] = listPushed[l]
          PROVE  k = l
      <3>1. k - 1 \in Nat /\ l - 1 \in Nat /\ Slot(k - 1) = Slot(l - 1)
        BY <2>5, <2>6, <2>9
      <3>2. k - 1 = l - 1
        BY <3>1, SlotsApart
      <3> QED  BY <2>5, <3>2
    <2> QED  BY <2>7, <2>8, <2>9
  <1> QED  BY <1>1, ListInvariant, PTL DEF ListSpec, ListVisits
=============================================================================
