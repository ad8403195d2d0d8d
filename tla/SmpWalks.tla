------------------------------ MODULE SmpWalks ------------------------------
(***************************************************************************)
(* Lemmas the proofs about linked structures share: induction over the     *)
(* natural numbers for a set of them, and what a walk along a chain of     *)
(* pointers meets.                                                         *)
(***************************************************************************)
EXTENDS Integers, WellFoundedInduction, TLAPS

(* A set with 0 and the successor of each number in it has every number:   *)
(* the least one it has not would have a predecessor it has.               *)
LEMMA NatInSet ==
  ASSUME NEW S, 0 \in S, \A n \in Nat : n \in S => n + 1 \in S
  PROVE  \A n \in Nat : n \in S
  <1> DEFINE Missing == Nat \ S
             Less == {p \in Nat \X Nat : p[1] < p[2]}
  <1> SUFFICES ASSUME Missing /= {} PROVE FALSE
    OBVIOUS
  <1>1. IsWellFoundedOn(Less, Nat)
    BY NatLessThanWellFounded DEF OpToRel
  <1>2. Missing \subseteq Nat
    OBVIOUS
  <1>3. PICK m \in Missing : \A k \in Missing : ~(<<k, m>> \in Less)
    <2> HIDE DEF Missing, Less
    <2> QED  BY <1>1, <1>2, WFMin
  <1>4. m - 1 \in Nat /\ (m - 1) + 1 = m
    OBVIOUS
  <1>5. m - 1 \in Missing /\ <<m - 1, m>> \in Less
    BY <1>4
  <1> QED  BY <1>3, <1>5

(* What a walk along the pointers nx has met when it has taken k steps     *)
(* from first: a function of the numbers k in D that solves the equation   *)
(* f = Walking(f, ...).                                                    *)
Onto(f, k, first, nx, nil) ==
  IF k <= 1 THEN first ELSE IF f[k - 1] = nil THEN nil ELSE nx[f[k - 1]]

Walking(f, D, first, nx, nil) == [k \in D |-> Onto(f, k, first, nx, nil)]

(* D has the number before each of its own, but for the first step.        *)
Stepwise(D) == D \subseteq Nat /\ \A k \in D : k > 1 => k - 1 \in D

(* The pointers nx lead from first along the len nodes of chain.           *)
Chained(first, nx, nil, chain, len) ==
  /\ len \in Nat
  /\ \A i \in 1 .. len : chain[i] /= nil
  /\ first = IF len = 0 THEN nil ELSE chain[1]
  /\ \A i \in 1 .. len : nx[chain[i]] = IF i = len THEN nil ELSE chain[i + 1]

LEMMA StepsIn == Stepwise(Nat) /\ \A n \in Nat : Stepwise(1 .. n)
  BY DEF Stepwise

(* There is a walk along a chain.                                          *)
LEMMA WalkExists ==
  ASSUME NEW D, Stepwise(D),
         NEW first, NEW nx, NEW nil, NEW chain, NEW len, Chained(first, nx, nil, chain, len)
  PROVE  \E f : f = Walking(f, D, first, nx, nil)
  <1> USE DEF Chained
  <1> DEFINE met == [k \in D |-> IF k <= 1 THEN first
                                 ELSE IF k <= len THEN chain[k] ELSE nil]
  <1>1. \A k \in D : met[k] = Onto(met, k, first, nx, nil)
    <2>0. D \subseteq Nat
      BY DEF Stepwise
    <2> SUFFICES ASSUME NEW k \in D, k > 1
                 PROVE  met[k] = IF met[k - 1] = nil THEN nil ELSE nx[met[k - 1]]
      BY <2>0 DEF Onto
    <2>1. k \in Nat /\ k - 1 \in Nat /\ (k - 1) + 1 = k /\ k - 1 \in D
      BY DEF Stepwise
    <2>2. met[k - 1] = IF k - 1 <= len THEN chain[k - 1] ELSE nil
      BY <2>1
    <2>3. CASE k <= len
      <3>1. k - 1 \in 1 .. len /\ k - 1 /= len
        BY <2>1, <2>3
      <3>2. nx[chain[k - 1]] = chain[k] /\ chain[k - 1] /= nil
        BY <2>1, <3>1
      <3> QED  BY <2>1, <2>2, <2>3, <3>1, <3>2
    <2>4. CASE k - 1 = len
      <3>1. k - 1 \in 1 .. len
        BY <2>1, <2>4
      <3>2. nx[chain[k - 1]] = nil
        BY <2>4, <3>1
      <3> QED  BY <2>1, <2>2, <2>4, <3>1, <3>2
    <2>5. CASE k - 1 > len
      BY <2>1, <2>2, <2>5
    <2> QED  BY <2>1, <2>3, <2>4, <2>5
  <1>2. met = Walking(met, D, first, nx, nil)
    BY <1>1 DEF Walking
  <1> QED
    <2> HIDE DEF met
    <2> QED  BY <1>2

(* It meets each of them in turn, and then nothing.                        *)
LEMMA WalkMeets ==
  ASSUME NEW D, Stepwise(D),
         NEW first, NEW nx, NEW nil, NEW chain, NEW len, Chained(first, nx, nil, chain, len),
         NEW W, W = Walking(W, D, first, nx, nil)
  PROVE  \A k \in D \ {0} : W[k] = IF k <= len THEN chain[k] ELSE nil
  <1> USE DEF Chained
  <1> DEFINE Met == {k \in Nat : k + 1 \in D =>
                                   W[k + 1] = IF k + 1 <= len THEN chain[k + 1] ELSE nil}
  <1>1. \A k \in D : W[k] = Onto(W, k, first, nx, nil)
    BY DEF Walking
  <1>2. 0 \in Met
    BY <1>1 DEF Onto
  <1>3. ASSUME NEW n \in Nat, n \in Met PROVE n + 1 \in Met
    <2> SUFFICES ASSUME (n + 1) + 1 \in D
                 PROVE  W[(n + 1) + 1] = IF (n + 1) + 1 <= len THEN chain[(n + 1) + 1] ELSE nil
      OBVIOUS
    <2>1. ((n + 1) + 1) - 1 = n + 1 /\ ~((n + 1) + 1 <= 1) /\ n + 1 \in Nat
      OBVIOUS
    <2>2. n + 1 \in D
      BY <2>1 DEF Stepwise
    <2>3. W[(n + 1) + 1] = IF W[n + 1] = nil THEN nil ELSE nx[W[n + 1]]
      <3> HIDE DEF Met
      <3> QED  BY <1>1, <2>1 DEF Onto
    <2>4. W[n + 1] = IF n + 1 <= len THEN chain[n + 1] ELSE nil
      BY <1>3, <2>2
    <2>5. CASE n + 1 <= len
      <3>1. n + 1 \in 1 .. len
        BY <2>5
      <3> QED  BY <2>1, <2>3, <2>4, <2>5, <3>1
    <2>6. CASE n + 1 > len
      BY <2>1, <2>3, <2>4, <2>6
    <2> QED  BY <2>1, <2>5, <2>6
  <1>4. \A n \in Nat : n \in Met
    <2> HIDE DEF Met
    <2> QED  BY <1>2, <1>3, NatInSet
  <1>5. ASSUME NEW k \in D \ {0} PROVE W[k] = IF k <= len THEN chain[k] ELSE nil
    <2>1. k \in Nat
      BY DEF Stepwise
    <2>2. k - 1 \in Nat /\ (k - 1) + 1 = k
      BY <2>1
    <2>3. k - 1 \in Met
      BY <1>4, <2>2
    <2> QED  BY <2>2, <2>3
  <1> QED  BY <1>5

(* N steps of the function G, from w.                                      *)
Iterates(h, N, w, G) == /\ h[0] = w
                        /\ \A d \in 1 .. N : h[d] = G[h[d - 1]]

LEMMA IteratesExist ==
  ASSUME NEW N \in Nat, NEW W, NEW w \in W, NEW G \in [W -> W]
  PROVE  \E h \in [0 .. N -> W] : Iterates(h, N, w, G)
  <1> DEFINE Done == {d \in Nat : \E h \in [0 .. d -> W] : Iterates(h, d, w, G)}
  <1>1. 0 \in Done
    <2> DEFINE h == [i \in 0 .. 0 |-> w]
    <2>1. h \in [0 .. 0 -> W] /\ Iterates(h, 0, w, G)
      BY DEF Iterates
    <2> HIDE DEF h
    <2> QED  BY <2>1
  <1>2. ASSUME NEW d \in Nat, d \in Done PROVE d + 1 \in Done
    <2>1. PICK h \in [0 .. d -> W] : Iterates(h, d, w, G)
      BY <1>2
    <2> DEFINE g == [i \in 0 .. d + 1 |-> IF i <= d THEN h[i] ELSE G[h[d]]]
    <2>2. h[d] \in W /\ G[h[d]] \in W
      <3>1. d \in 0 .. d
        OBVIOUS
      <3> QED  BY <3>1
    <2>3. g \in [0 .. d + 1 -> W]
      <3>1. \A i \in 0 .. d + 1 : i <= d => i \in 0 .. d
        OBVIOUS
      <3> QED  BY <2>2, <3>1
    <2>4. g[0] = w
      <3>1. 0 \in 0 .. d + 1 /\ 0 <= d
        OBVIOUS
      <3> QED  BY <2>1, <3>1 DEF Iterates
    <2>5. ASSUME NEW i \in 1 .. d + 1 PROVE g[i] = G[g[i - 1]]
      <3>1. i \in 0 .. d + 1 /\ i - 1 \in 0 .. d + 1 /\ i - 1 <= d
        OBVIOUS
      <3>2. g[i - 1] = h[i - 1]
        BY <3>1
      <3>3. CASE i <= d
        <4>1. i \in 1 .. d /\ g[i] = h[i]
          BY <3>1, <3>3
        <4> QED  BY <2>1, <3>2, <4>1 DEF Iterates
      <3>4. CASE i = d + 1
        <4>1. i - 1 = d /\ ~(i <= d)
          BY <3>4
        <4>2. g[i] = G[h[d]]
          BY <3>1, <4>1
        <4> QED  BY <3>2, <4>1, <4>2
      <3> QED  BY <3>3, <3>4
    <2>6. Iterates(g, d + 1, w, G)
      BY <2>4, <2>5 DEF Iterates
    <2> HIDE DEF g
    <2> QED  BY <2>3, <2>6
  <1>3. \A d \in Nat : d \in Done
    <2> HIDE DEF Done
    <2> QED  BY <1>1, <1>2, NatInSet
  <1> QED  BY <1>3
=============================================================================
