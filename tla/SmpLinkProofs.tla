--------------------------- MODULE SmpLinkProofs ---------------------------
(***************************************************************************)
(* What is proved of SmpLink for any number of nodes and any data.         *)
(***************************************************************************)
EXTENDS SmpLink, SmpWalks, FiniteSetTheorems, SequenceTheorems

(* Linked, read node by node, and no node twice in the link.               *)
ListShape ==
  /\ order \in Seq(Nodes) /\ size \in Nat /\ Len(order) = size
  /\ node = IF size = 0 THEN NIL ELSE order[1]
  /\ tail = IF size = 0 THEN NIL ELSE order[size]
  /\ \A i \in 1 .. size :
       /\ next[order[i]] = IF i = size THEN NIL ELSE order[i + 1]
       /\ prev[order[i]] = IF i = 1 THEN NIL ELSE order[i - 1]
       /\ data[order[i]] \in Data
  /\ \A i, j \in 1 .. size : order[i] = order[j] => i = j

InSpares == {spares[i] : i \in 1 .. Len(spares)}

(* SparesApart node by node.  In dirty memory recover may hold a stray     *)
(* pointer: then no node can be made, and the link stays empty.            *)
SpareShape ==
  /\ spares \in Seq(Nodes)
  /\ recover = WILD => Dirty /\ size = 0 /\ spares = <<>>
  /\ recover /= WILD => recover = IF Len(spares) = 0 THEN NIL ELSE spares[1]
  /\ \A i \in 1 .. Len(spares) :
       /\ next[spares[i]] = IF i = Len(spares) THEN NIL ELSE spares[i + 1]
       /\ prev[spares[i]] = NIL /\ data[spares[i]] = NIL
       /\ spares[i] \notin InLink
  /\ \A i, j \in 1 .. Len(spares) : spares[i] = spares[j] => i = j

(* The nodes carved from the pool are those two, as many as at the peak.   *)
UsedShape ==
  /\ used = InLink \union InSpares
  /\ IsFiniteSet(used) /\ Cardinality(used) = size + Len(spares)
  /\ peak = Cardinality(used)

(* A traversal stands at a node of the link and has visited those before.  *)
VisitShape ==
  at /= NIL => /\ phase /= "none"
               /\ \E i \in 1 .. size : /\ order[i] = at
                                       /\ seen = {order[j] : j \in 1 .. i - 1}

LinkInv == TypeOK /\ ListShape /\ SpareShape /\ UsedShape /\ VisitShape

-----------------------------------------------------------------------------
(* The list read through its size.                                         *)
LEMMA ListFacts ==
  ASSUME LinkInv
  PROVE  /\ size \in Nat /\ order \in Seq(Nodes) /\ Len(order) = size
         /\ DOMAIN order = 1 .. size
         /\ \A i \in 1 .. size : order[i] \in Nodes /\ order[i] \in InLink
         /\ InLink = {order[i] : i \in 1 .. size} /\ InLink \subseteq Nodes
         /\ \A i, j \in 1 .. size : order[i] = order[j] => i = j
         /\ size = 0 => node = NIL /\ tail = NIL
         /\ size > 0 => /\ 1 \in 1 .. size /\ node = order[1] /\ node \in Nodes /\ node /= NIL
                        /\ size \in 1 .. size /\ tail = order[size]
                        /\ tail \in Nodes /\ tail /= NIL
  <1>1. size \in Nat /\ order \in Seq(Nodes) /\ Len(order) = size /\ DOMAIN order = 1 .. size
    BY DEF LinkInv, ListShape
  <1>2. \A i \in 1 .. size : order[i] \in Nodes /\ order[i] \in InLink
    BY <1>1 DEF InLink
  <1>3. InLink = {order[i] : i \in 1 .. size} /\ InLink \subseteq Nodes
    BY <1>1, <1>2 DEF InLink
  <1>4. \A i, j \in 1 .. size : order[i] = order[j] => i = j
    BY DEF LinkInv, ListShape
  <1>5. size = 0 => node = NIL /\ tail = NIL
    BY DEF LinkInv, ListShape
  <1>6. size > 0 => /\ 1 \in 1 .. size /\ node = order[1]
                    /\ size \in 1 .. size /\ tail = order[size]
    BY <1>1 DEF LinkInv, ListShape
  <1>7. size > 0 => node \in Nodes /\ node /= NIL /\ tail \in Nodes /\ tail /= NIL
    BY <1>2, <1>6, LinkAssumption
  <1> QED  BY <1>1, <1>2, <1>3, <1>4, <1>5, <1>6, <1>7

LEMMA SpareFacts ==
  ASSUME LinkInv
  PROVE  /\ spares \in Seq(Nodes) /\ Len(spares) \in Nat
         /\ \A i \in 1 .. Len(spares) : /\ spares[i] \in Nodes /\ spares[i] \in InSpares
                                         /\ spares[i] \notin InLink
         /\ \A m \in InSpares : m \in Nodes /\ m \notin InLink /\ m \in used
         /\ \A m \in InLink : m \in used
  <1>1. spares \in Seq(Nodes) /\ Len(spares) \in Nat
    BY DEF LinkInv, SpareShape
  <1>2. \A i \in 1 .. Len(spares) : /\ spares[i] \in Nodes /\ spares[i] \in InSpares
                                    /\ spares[i] \notin InLink
    BY <1>1 DEF LinkInv, SpareShape, InSpares
  <1>3. \A m \in InSpares : m \in Nodes /\ m \notin InLink
    BY <1>2 DEF InSpares
  <1>4. used = InLink \union InSpares
    BY DEF LinkInv, UsedShape
  <1> QED  BY <1>1, <1>2, <1>3, <1>4

-----------------------------------------------------------------------------
(* Where the node of an insertion comes from: the first spare, or the      *)
(* pool.                                                                   *)
LEMMA CreatedFrom ==
  ASSUME LinkInv, NEW n \in Nodes, LnodeCreate(n)
  PROVE  /\ n \notin InLink /\ recover /= WILD
         /\ \/ /\ Len(spares) > 0 /\ 1 \in 1 .. Len(spares) /\ n = spares[1] /\ n \in used
               /\ prev[n] = NIL /\ recover' = next[n] /\ spares' = Tail(spares)
            \/ /\ spares = <<>> /\ n \notin used /\ UNCHANGED <<recover, spares>>
               /\ recover = NIL
  <1>1. recover /= WILD
    BY LinkAssumption DEF LnodeCreate
  <1>2. recover = IF Len(spares) = 0 THEN NIL ELSE spares[1]
    BY <1>1 DEF LinkInv, SpareShape
  <1>3. CASE recover = n /\ recover' = next[n] /\ spares' = Tail(spares)
    <2>1. Len(spares) > 0 /\ 1 \in 1 .. Len(spares) /\ n = spares[1]
      BY <1>2, <1>3, SpareFacts, LinkAssumption
    <2> QED  BY <1>1, <1>3, <2>1, SpareFacts DEF LinkInv, SpareShape
  <1>4. CASE recover = NIL /\ n \notin used /\ UNCHANGED <<recover, spares>>
    <2>1. Len(spares) = 0
      <3>1. Len(spares) > 0 => 1 \in 1 .. Len(spares) /\ spares[1] \in Nodes
        BY SpareFacts
      <3> QED  BY <1>2, <1>4, <3>1, SpareFacts, LinkAssumption
    <2>2. spares = <<>>
      BY <2>1, SpareFacts, EmptySeq
    <2> QED  BY <1>1, <1>4, <2>2, SpareFacts
  <1> QED  BY <1>3, <1>4 DEF LnodeCreate

(* What an insertion writes.                                               *)
LEMMA InsertWrites ==
  ASSUME LinkInv, NEW n \in Nodes, NEW x \in Data, LinkInsert(n, x)
  PROVE  /\ prev' \in [Nodes -> Nodes \union {NIL}]
         /\ next' \in [Nodes -> Nodes \union {NIL}]
         /\ data' \in [Nodes -> Data \union {NIL}]
         /\ node' = (IF size = 0 THEN n ELSE node) /\ tail' = n
         /\ next'[n] = NIL /\ prev'[n] = tail /\ data'[n] = x
         /\ \A m \in Nodes : m /= n => /\ prev'[m] = prev[m] /\ data'[m] = data[m]
                                       /\ m /= tail => next'[m] = next[m]
         /\ size > 0 => next'[tail] = n
  <1>1. n \notin InLink /\ (n \in used => prev[n] = NIL)
    BY CreatedFrom DEF LinkInsert
  <1>2. /\ prev \in [Nodes -> Nodes \union {NIL}] /\ next \in [Nodes -> Nodes \union {NIL}]
        /\ data \in [Nodes -> Data \union {NIL}] /\ data' = [data EXCEPT ![n] = x]
    BY DEF LinkInv, TypeOK, LinkInsert
  <1>3. CASE size = 0
    <2>1. node = NIL /\ tail = NIL
      BY <1>3, ListFacts
    <2>2. /\ node' = n /\ tail' = n
          /\ prev' = [prev EXCEPT ![n] = IF n \in used THEN @ ELSE NIL]
          /\ next' = [next EXCEPT ![n] = NIL]
      BY <2>1 DEF LinkInsert, LinkLast
    <2> QED  BY <1>1, <1>2, <1>3, <2>1, <2>2
  <1>4. CASE size > 0
    <2>1. node /= NIL /\ tail \in Nodes /\ tail \in InLink /\ tail /= n
      BY <1>1, <1>4, ListFacts
    <2>2. /\ node' = node /\ tail' = n
          /\ prev' = [prev EXCEPT ![n] = tail]
          /\ next' = [next EXCEPT ![n] = NIL, ![tail] = n]
      BY <2>1 DEF LinkInsert, LinkLast
    <2> QED  BY <1>2, <1>4, <2>1, <2>2
  <1> QED  BY <1>3, <1>4, ListFacts

LEMMA InsertOrder ==
  ASSUME LinkInv, NEW n \in Nodes, NEW x \in Data, LinkInsert(n, x)
  PROVE  /\ size' = size + 1 /\ order' \in Seq(Nodes) /\ Len(order') = size + 1
         /\ DOMAIN order' = 1 .. size + 1
         /\ order'[size + 1] = n /\ \A i \in 1 .. size : order'[i] = order[i]
         /\ InLink' = InLink \union {n}
  <1>1. order' = Append(order, n) /\ size' = size + 1
    BY DEF LinkInsert
  <1>2. /\ size \in Nat /\ order' \in Seq(Nodes) /\ Len(order') = size + 1
        /\ DOMAIN order' = 1 .. size + 1
        /\ order'[size + 1] = n /\ \A i \in 1 .. size : order'[i] = order[i]
    BY <1>1, ListFacts
  <1>3. InLink' = {order'[i] : i \in 1 .. size + 1}
    BY <1>2 DEF InLink
  <1>4. InLink = {order[i] : i \in 1 .. size}
    BY ListFacts
  <1> QED  BY <1>1, <1>2, <1>3, <1>4

LEMMA InsertKeeps ==
  ASSUME LinkInv, NEW n \in Nodes, NEW x \in Data, LinkInsert(n, x)
  PROVE  LinkInv'
  <1>1. /\ size' = size + 1 /\ order' \in Seq(Nodes) /\ Len(order') = size + 1
        /\ order'[size + 1] = n /\ \A i \in 1 .. size : order'[i] = order[i]
        /\ InLink' = InLink \union {n}
    BY InsertOrder
  <1>2. /\ prev' \in [Nodes -> Nodes \union {NIL}]
        /\ next' \in [Nodes -> Nodes \union {NIL}]
        /\ data' \in [Nodes -> Data \union {NIL}]
        /\ node' = (IF size = 0 THEN n ELSE node) /\ tail' = n
        /\ next'[n] = NIL /\ prev'[n] = tail /\ data'[n] = x
        /\ \A m \in Nodes : m /= n => /\ prev'[m] = prev[m] /\ data'[m] = data[m]
                                      /\ m /= tail => next'[m] = next[m]
        /\ size > 0 => next'[tail] = n
    BY InsertWrites
  <1>3. /\ size \in Nat /\ \A i \in 1 .. size : order[i] \in Nodes /\ order[i] /= n
        /\ \A i, j \in 1 .. size : order[i] = order[j] => i = j
        /\ n \notin InLink /\ recover /= WILD
    BY ListFacts, CreatedFrom DEF LinkInsert
  <1>4. ListShape'
    <2>1. ASSUME NEW i \in 1 .. size + 1
          PROVE  /\ next'[order'[i]] = IF i = size + 1 THEN NIL ELSE order'[i + 1]
                 /\ prev'[order'[i]] = IF i = 1 THEN NIL ELSE order'[i - 1]
                 /\ data'[order'[i]] \in Data
      <3>1. CASE i = size + 1
        <4>1. prev'[n] = IF size = 0 THEN NIL ELSE order[size]
          BY <1>2 DEF LinkInv, ListShape
        <4>2. size > 0 => order'[(size + 1) - 1] = order[size]
          BY <1>1, <1>3
        <4> QED  BY <1>1, <1>2, <1>3, <3>1, <4>1, <4>2
      <3>2. CASE i \in 1 .. size
        <4>1. /\ next[order[i]] = IF i = size THEN NIL ELSE order[i + 1]
              /\ prev[order[i]] = IF i = 1 THEN NIL ELSE order[i - 1]
              /\ data[order[i]] \in Data
              /\ tail = order[size] /\ size > 0
          BY <3>2, ListFacts DEF LinkInv, ListShape
        <4>2. order'[i] = order[i] /\ order[i] \in Nodes /\ order[i] /= n
          BY <1>1, <1>3, <3>2
        <4>3. prev'[order'[i]] = prev[order[i]] /\ data'[order'[i]] = data[order[i]]
          BY <1>2, <4>2
        <4>4. i = 1 \/ order'[i - 1] = order[i - 1]
          BY <1>1, <1>3, <3>2
        <4>5. CASE i = size
          BY <1>1, <1>2, <3>2, <4>1, <4>2, <4>3, <4>4, <4>5
        <4>6. CASE i /= size
          <5>1. i + 1 \in 1 .. size /\ order[i] /= tail
            BY <1>3, <3>2, <4>1, <4>6
          <5>2. next'[order[i]] = next[order[i]] /\ order'[i + 1] = order[i + 1]
            BY <1>1, <1>2, <4>2, <5>1
          <5> QED  BY <1>3, <3>2, <4>1, <4>2, <4>3, <4>4, <4>6, <5>2
        <4> QED  BY <4>5, <4>6
      <3> QED  BY <1>3, <3>1, <3>2
    <2>2. node' = order'[1] /\ tail' = order'[size + 1]
      BY <1>1, <1>2, <1>3, ListFacts
    <2>3. \A i, j \in 1 .. size + 1 : order'[i] = order'[j] => i = j
      BY <1>1, <1>3
    <2> QED  BY <1>1, <1>3, <2>1, <2>2, <2>3 DEF ListShape
  <1>5. SpareShape' /\ UsedShape'
    <2>1. /\ used = InLink \union InSpares /\ used' = used \union {n}
          /\ IsFiniteSet(used) /\ Cardinality(used) = size + Len(spares)
          /\ peak = Cardinality(used)
          /\ peak' = IF size + 1 > peak THEN size + 1 ELSE peak
      BY DEF LinkInv, UsedShape, LinkInsert
    <2>2. CASE /\ Len(spares) > 0 /\ 1 \in 1 .. Len(spares) /\ n = spares[1] /\ n \in used
               /\ prev[n] = NIL /\ recover' = next[n] /\ spares' = Tail(spares)
      <3>1. spares \in Seq(Nodes) /\ Len(spares) \in Nat
        BY SpareFacts
      <3>2. /\ spares' \in Seq(Nodes) /\ Len(spares') = Len(spares) - 1
            /\ \A i \in 1 .. Len(spares) - 1 : spares'[i] = spares[i + 1]
        BY <2>2, <3>1
      <3>3. /\ \A i \in 1 .. Len(spares) : spares[i] \in Nodes /\ spares[i] \notin InLink
            /\ \A i \in 1 .. Len(spares) :
                 /\ next[spares[i]] = IF i = Len(spares) THEN NIL ELSE spares[i + 1]
                 /\ prev[spares[i]] = NIL /\ data[spares[i]] = NIL
            /\ \A i, j \in 1 .. Len(spares) : spares[i] = spares[j] => i = j
        BY SpareFacts DEF LinkInv, SpareShape
      <3>4. ASSUME NEW i \in 1 .. Len(spares')
            PROVE  /\ next'[spares'[i]] = IF i = Len(spares') THEN NIL ELSE spares'[i + 1]
                   /\ prev'[spares'[i]] = NIL /\ data'[spares'[i]] = NIL
                   /\ spares'[i] \notin InLink'
        <4>1. i + 1 \in 1 .. Len(spares) /\ i \in 1 .. Len(spares) - 1 /\ i + 1 /= 1
          BY <3>1, <3>2
        <4>2. spares'[i] = spares[i + 1] /\ spares[i + 1] /= n /\ spares[i + 1] \in Nodes
              /\ spares[i + 1] \notin InLink
          BY <2>2, <3>2, <3>3, <4>1
        <4>3. spares[i + 1] /= tail
          <5>1. size > 0 => tail \in InLink
            BY ListFacts
          <5> QED  BY <4>2, <5>1, ListFacts, LinkAssumption
        <4>4. /\ next'[spares[i + 1]] = next[spares[i + 1]]
              /\ prev'[spares[i + 1]] = prev[spares[i + 1]]
              /\ data'[spares[i + 1]] = data[spares[i + 1]]
          BY <1>2, <4>2, <4>3
        <4>5. next[spares[i + 1]] = IF i = Len(spares') THEN NIL ELSE spares'[i + 1]
          <5>1. CASE i = Len(spares')
            BY <3>1, <3>2, <3>3, <4>1, <5>1
          <5>2. CASE i /= Len(spares')
            <6>1. i + 1 \in 1 .. Len(spares) - 1 /\ i + 1 /= Len(spares)
              BY <3>1, <3>2, <5>2
            <6>2. spares'[i + 1] = spares[(i + 1) + 1]
              BY <3>2, <6>1
            <6> QED  BY <3>3, <4>1, <5>2, <6>1, <6>2
          <5> QED  BY <5>1, <5>2
        <4> QED  BY <1>1, <3>3, <4>1, <4>2, <4>4, <4>5
      <3>5. \A i, j \in 1 .. Len(spares') : spares'[i] = spares'[j] => i = j
        <4> SUFFICES ASSUME NEW i \in 1 .. Len(spares'), NEW j \in 1 .. Len(spares'),
                            spares'[i] = spares'[j]
                     PROVE  i = j
          OBVIOUS
        <4>1. /\ i \in 1 .. Len(spares) - 1 /\ j \in 1 .. Len(spares) - 1
              /\ i + 1 \in 1 .. Len(spares) /\ j + 1 \in 1 .. Len(spares)
          BY <3>1, <3>2
        <4>2. spares[i + 1] = spares[j + 1]
          BY <3>2, <4>1
        <4> QED  BY <3>3, <4>1, <4>2
      <3>6. recover' = IF Len(spares') = 0 THEN NIL ELSE spares'[1]
        <4>1. CASE Len(spares) = 1
          BY <2>2, <3>2, <3>3, <4>1
        <4>2. CASE Len(spares) > 1
          <5>1. 1 \in 1 .. Len(spares) - 1 /\ 1 /= Len(spares) /\ 1 + 1 = 2
            BY <3>1, <4>2
          <5> QED  BY <2>2, <3>1, <3>2, <3>3, <4>2, <5>1
        <4>3. Len(spares) > 0
          BY <2>2
        <4>4. \A k \in Nat : k > 0 => k = 1 \/ k > 1
          OBVIOUS
        <4> QED  BY <3>1, <4>1, <4>2, <4>3, <4>4
      <3>7. recover' /= WILD
        <4>1. Len(spares') > 0 => 1 \in 1 .. Len(spares') /\ spares'[1] \in Nodes
          BY <3>1, <3>2
        <4> QED  BY <3>1, <3>2, <3>6, <4>1, LinkAssumption
      <3>8. SpareShape'
        BY <3>2, <3>4, <3>5, <3>6, <3>7 DEF SpareShape
      <3>9. used' = InLink' \union InSpares'
        <4>1. InSpares' = InSpares \ {n}
          <5>1. ASSUME NEW m \in InSpares' PROVE m \in InSpares /\ m /= n
            <6>1. PICK i \in 1 .. Len(spares) - 1 : m = spares[i + 1]
              BY <3>2 DEF InSpares
            <6>2. i + 1 \in 1 .. Len(spares) /\ i + 1 /= 1
              BY <3>1
            <6> QED  BY <2>2, <3>3, <6>1, <6>2 DEF InSpares
          <5>2. ASSUME NEW m \in InSpares, m /= n PROVE m \in InSpares'
            <6>1. PICK i \in 1 .. Len(spares) : m = spares[i]
              BY DEF InSpares
            <6>2. i - 1 \in 1 .. Len(spares) - 1 /\ (i - 1) + 1 = i
              BY <2>2, <3>1, <5>2, <6>1
            <6>3. m = spares'[i - 1]
              BY <3>2, <6>1, <6>2
            <6> QED  BY <3>2, <6>2, <6>3 DEF InSpares
          <5> QED  BY <5>1, <5>2
        <4> QED  BY <1>1, <2>1, <2>2, <4>1
      <3>10. used' = used
        BY <2>1, <2>2
      <3>11. Cardinality(used) = (size + 1) + (Len(spares) - 1) /\ ~(size + 1 > peak)
        BY <1>3, <2>1, <2>2, <3>1
      <3> QED  BY <1>1, <2>1, <3>2, <3>8, <3>9, <3>10, <3>11 DEF UsedShape
    <2>3. CASE /\ spares = <<>> /\ n \notin used /\ UNCHANGED <<recover, spares>>
               /\ recover = NIL
      <3>1. Len(spares) = 0 /\ spares' = <<>> /\ InSpares = {} /\ InSpares' = {}
        BY <2>3 DEF InSpares
      <3>2. SpareShape'
        BY <1>3, <2>3, <3>1 DEF LinkInv, SpareShape
      <3>3. IsFiniteSet(used') /\ Cardinality(used') = Cardinality(used) + 1
        BY <2>1, <2>3, FS_AddElement
      <3>4. Cardinality(used') = size + 1 /\ peak' = size + 1
        BY <1>3, <2>1, <3>1, <3>3
      <3> QED  BY <1>1, <1>3, <2>1, <2>3, <3>1, <3>2, <3>3, <3>4 DEF UsedShape
    <2> QED  BY <2>2, <2>3, CreatedFrom DEF LinkInsert
  <1>6. VisitShape'
    <2> SUFFICES ASSUME at /= NIL
                 PROVE  \E i \in 1 .. size + 1 : /\ order'[i] = at
                                                 /\ seen = {order'[j] : j \in 1 .. i - 1}
      BY <1>1 DEF VisitShape, LinkInsert
    <2>1. PICK i \in 1 .. size : order[i] = at /\ seen = {order[j] : j \in 1 .. i - 1}
      BY DEF LinkInv, VisitShape
    <2>2. i \in 1 .. size + 1 /\ order'[i] = at /\ \A j \in 1 .. i - 1 : order'[j] = order[j]
      BY <1>1, <1>3, <2>1
    <2>3. {order'[j] : j \in 1 .. i - 1} = {order[j] : j \in 1 .. i - 1}
      BY <2>2
    <2> QED  BY <2>1, <2>2, <2>3
  <1>7. TypeOK'
    <2>1. recover' \in Nodes \union {NIL, WILD} /\ spares' \in Seq(Nodes)
      <3>1. next[n] \in Nodes \union {NIL}
        BY DEF LinkInv, TypeOK
      <3>2. spares' \in Seq(Nodes)
        BY <1>5 DEF SpareShape
      <3> QED  BY <3>1, <3>2, CreatedFrom DEF LinkInsert
    <2>2. node' \in Nodes \union {NIL} /\ tail' \in Nodes
      BY <1>2 DEF LinkInv, TypeOK
    <2>3. size' \in Nat /\ peak' \in Nat
      BY <1>1, <1>3 DEF LinkInv, TypeOK, LinkInsert
    <2>4. used' \subseteq Nodes
      BY DEF LinkInv, TypeOK, LinkInsert
    <2> QED  BY <1>1, <1>2, <2>1, <2>2, <2>3, <2>4 DEF LinkInv, TypeOK, LinkInsert
  <1> QED  BY <1>4, <1>5, <1>6, <1>7 DEF LinkInv

-----------------------------------------------------------------------------
(* What taking the k-th node out writes, whichever of the three ways.      *)
LEMMA RmWrites ==
  ASSUME LinkInv, NEW k \in 1 .. size, RmNode(order[k])
  PROVE  /\ prev' \in [Nodes -> Nodes \union {NIL}]
         /\ next' \in [Nodes -> Nodes \union {NIL}]
         /\ node' = (IF k = 1 THEN next[order[k]] ELSE node)
         /\ tail' = (IF k = size THEN prev[order[k]] ELSE tail)
         /\ next'[order[k]] = recover /\ prev'[order[k]] = NIL
         /\ \A m \in Nodes : m /= order[k] =>
              /\ next'[m] = IF k > 1 /\ m = order[k - 1] THEN next[order[k]] ELSE next[m]
              /\ prev'[m] = IF k < size /\ m = order[k + 1] THEN prev[order[k]] ELSE prev[m]
  <1> DEFINE n == order[k]
  <1>1. /\ size \in Nat /\ \A i \in 1 .. size : order[i] \in Nodes /\ order[i] /= NIL
        /\ \A i, j \in 1 .. size : order[i] = order[j] => i = j
        /\ n \in Nodes /\ size > 0 /\ node = order[1] /\ tail = order[size]
        /\ 1 \in 1 .. size /\ size \in 1 .. size
    BY ListFacts, LinkAssumption
  <1>2. /\ next[n] = IF k = size THEN NIL ELSE order[k + 1]
        /\ prev[n] = IF k = 1 THEN NIL ELSE order[k - 1]
    BY DEF LinkInv, ListShape
  <1>3. /\ k < size => k + 1 \in 1 .. size /\ order[k + 1] \in Nodes /\ order[k + 1] /= n
        /\ k > 1 => k - 1 \in 1 .. size /\ order[k - 1] \in Nodes /\ order[k - 1] /= n
    BY <1>1
  <1>4. /\ prev \in [Nodes -> Nodes \union {NIL}] /\ next \in [Nodes -> Nodes \union {NIL}]
        /\ recover \in Nodes \union {NIL}
    BY <1>1 DEF LinkInv, TypeOK, SpareShape
  <1>5. n = node <=> k = 1
    BY <1>1
  <1>6. n = tail <=> k = size
    BY <1>1
  <1>7. CASE RmFirst(n)
    <2>1. /\ k = 1 /\ node' = next[n] /\ tail' = IF next[n] = NIL THEN NIL ELSE tail
          /\ next' = [next EXCEPT ![n] = recover]
          /\ prev' = [m \in Nodes |-> IF m \in {n, next[n]} THEN NIL ELSE prev[m]]
      BY <1>5, <1>7 DEF RmFirst
    <2>2. CASE k = size
      <3>1. next[n] = NIL /\ prev[n] = NIL /\ tail' = NIL /\ node' = NIL
        BY <1>2, <2>1, <2>2
      <3>2. \A m \in Nodes : m /= n => next'[m] = next[m] /\ prev'[m] = prev[m]
        BY <1>1, <1>4, <2>1, <3>1, LinkAssumption
      <3> QED  BY <1>1, <1>4, <2>1, <2>2, <3>1, <3>2
    <2>3. CASE k < size
      BY <1>1, <1>2, <1>3, <1>4, <2>1, <2>3
    <2> QED  BY <1>1, <2>2, <2>3
  <1>8. CASE RmLast(n)
    <2>1. /\ k > 1 /\ k = size /\ tail' = prev[n] /\ node' = node
          /\ next' = [next EXCEPT ![prev[n]] = NIL, ![n] = recover]
          /\ prev' = [prev EXCEPT ![n] = NIL]
      BY <1>1, <1>5, <1>6, <1>8 DEF RmLast
    <2> QED  BY <1>1, <1>2, <1>3, <1>4, <2>1
  <1>9. CASE RmMiddle(n)
    <2>1. /\ k > 1 /\ k < size /\ tail' = tail /\ node' = node
          /\ next' = [next EXCEPT ![prev[n]] = next[n], ![n] = recover]
          /\ prev' = [prev EXCEPT ![next[n]] = prev[n], ![n] = NIL]
      BY <1>1, <1>5, <1>6, <1>9 DEF RmMiddle
    <2> QED  BY <1>1, <1>2, <1>3, <1>4, <2>1
  <1> QED  BY <1>7, <1>8, <1>9 DEF RmNode

(* And what it leaves of the order.                                        *)
LEMMA RmOrder ==
  ASSUME LinkInv, NEW k \in 1 .. size, RmNode(order[k])
  PROVE  /\ size' = size - 1 /\ order' \in Seq(Nodes) /\ Len(order') = size - 1
         /\ DOMAIN order' = 1 .. size - 1
         /\ \A i \in 1 .. size - 1 : order'[i] = IF i < k THEN order[i] ELSE order[i + 1]
         /\ InLink' = InLink \ {order[k]}
  <1>1. /\ size \in Nat /\ Len(order) = size /\ \A i \in 1 .. size : order[i] \in Nodes
        /\ \A i, j \in 1 .. size : order[i] = order[j] => i = j
        /\ InLink = {order[i] : i \in 1 .. size}
    BY ListFacts
  <1>2. order' = [i \in 1 .. size - 1 |->
                    IF \E j \in 1 .. i : order[j] = order[k] THEN order[i + 1] ELSE order[i]]
    BY <1>1 DEF RmNode, Without
  <1>3. \A i \in 1 .. size - 1 : (\E j \in 1 .. i : order[j] = order[k]) <=> k <= i
    BY <1>1
  <1>4. \A i \in 1 .. size - 1 : /\ order'[i] = IF i < k THEN order[i] ELSE order[i + 1]
                                 /\ i \in 1 .. size /\ i + 1 \in 1 .. size
    BY <1>1, <1>2, <1>3
  <1>5. size - 1 \in Nat /\ order' \in [1 .. size - 1 -> Nodes]
    BY <1>1, <1>2, <1>4
  <1>6. order' \in Seq(Nodes) /\ Len(order') = size - 1 /\ DOMAIN order' = 1 .. size - 1
    BY <1>5
  <1>7. InLink' = {order'[i] : i \in 1 .. size - 1}
    BY <1>6 DEF InLink
  <1>8. ASSUME NEW m \in InLink' PROVE m \in InLink /\ m /= order[k]
    <2>1. PICK i \in 1 .. size - 1 : m = order'[i]
      BY <1>7
    <2> QED  BY <1>1, <1>4, <2>1
  <1>9. ASSUME NEW m \in InLink, m /= order[k] PROVE m \in InLink'
    <2>1. PICK i \in 1 .. size : m = order[i]
      BY <1>1
    <2>2. CASE i < k
      <3>1. i \in 1 .. size - 1 /\ order'[i] = m
        BY <1>1, <1>4, <2>1, <2>2
      <3> QED  BY <1>7, <3>1
    <2>3. CASE i > k
      <3>1. i - 1 \in 1 .. size - 1 /\ (i - 1) + 1 = i /\ ~(i - 1 < k)
        BY <1>1, <2>3
      <3>2. order'[i - 1] = m
        BY <1>4, <2>1, <3>1
      <3> QED  BY <1>7, <3>1, <3>2
    <2> QED  BY <1>1, <1>9, <2>1, <2>2, <2>3
  <1>10. size' = size - 1
    BY DEF RmNode
  <1> QED  BY <1>4, <1>6, <1>8, <1>9, <1>10

LEMMA RmKeeps ==
  ASSUME LinkInv, NEW k \in 1 .. size, RmNode(order[k]), NotVisited(order[k])
  PROVE  LinkInv'
  <1> DEFINE n == order[k]
  <1>1. /\ size' = size - 1 /\ order' \in Seq(Nodes) /\ Len(order') = size - 1
        /\ \A i \in 1 .. size - 1 : order'[i] = IF i < k THEN order[i] ELSE order[i + 1]
        /\ InLink' = InLink \ {n}
    BY RmOrder
  <1>2. /\ prev' \in [Nodes -> Nodes \union {NIL}]
        /\ next' \in [Nodes -> Nodes \union {NIL}]
        /\ node' = (IF k = 1 THEN next[n] ELSE node)
        /\ tail' = (IF k = size THEN prev[n] ELSE tail)
        /\ next'[n] = recover /\ prev'[n] = NIL
        /\ \A m \in Nodes : m /= n =>
             /\ next'[m] = IF k > 1 /\ m = order[k - 1] THEN next[n] ELSE next[m]
             /\ prev'[m] = IF k < size /\ m = order[k + 1] THEN prev[n] ELSE prev[m]
    BY RmWrites
  <1>3. /\ size \in Nat /\ \A i \in 1 .. size : order[i] \in Nodes /\ order[i] \in InLink
        /\ \A i, j \in 1 .. size : order[i] = order[j] => i = j
        /\ n \in Nodes /\ n \in InLink /\ size > 0
    BY ListFacts
  <1>4. \A i \in 1 .. size : /\ next[order[i]] = IF i = size THEN NIL ELSE order[i + 1]
                             /\ prev[order[i]] = IF i = 1 THEN NIL ELSE order[i - 1]
                             /\ data[order[i]] \in Data
    BY DEF LinkInv, ListShape
  <1>5. /\ data' \in [Nodes -> Data \union {NIL}] /\ data'[n] = NIL
        /\ \A m \in Nodes : m /= n => data'[m] = data[m]
        /\ recover' = n /\ spares' = <<n>> \o spares /\ seen' = seen \ {n}
        /\ taken' \in Data \union {NIL}
        /\ UNCHANGED <<phase, dataFree, used, peak, at>>
    BY <1>3 DEF RmNode, LinkInv, TypeOK
  <1>6. recover \in Nodes \union {NIL}
    BY <1>3 DEF LinkInv, SpareShape, TypeOK
  <1>7. ListShape'
    <2>1. ASSUME NEW i \in 1 .. size - 1
          PROVE  /\ next'[order'[i]] = IF i = size - 1 THEN NIL ELSE order'[i + 1]
                 /\ prev'[order'[i]] = IF i = 1 THEN NIL ELSE order'[i - 1]
                 /\ data'[order'[i]] \in Data
      <3>1. CASE i < k
        <4>1. /\ i \in 1 .. size /\ i /= size /\ i + 1 \in 1 .. size /\ order'[i] = order[i]
              /\ order[i] \in Nodes /\ order[i] /= n
          BY <1>1, <1>3, <3>1
        <4>2. data'[order'[i]] \in Data
          BY <1>4, <1>5, <4>1
        <4>3. prev'[order'[i]] = IF i = 1 THEN NIL ELSE order'[i - 1]
          <5>1. k < size => k + 1 \in 1 .. size /\ order[k + 1] /= order[i]
            BY <1>3, <3>1, <4>1
          <5>2. prev'[order'[i]] = prev[order[i]]
            BY <1>2, <4>1, <5>1
          <5>3. i /= 1 => order'[i - 1] = order[i - 1]
            BY <1>1, <1>3, <3>1
          <5> QED  BY <1>4, <4>1, <5>2, <5>3
        <4>4. next'[order'[i]] = IF i = size - 1 THEN NIL ELSE order'[i + 1]
          <5>1. CASE i = k - 1
            <6>1. next'[order'[i]] = next[n] /\ i + 1 = k
              BY <1>2, <1>3, <3>1, <4>1, <5>1
            <6>2. i = size - 1 <=> k = size
              BY <1>3, <5>1
            <6>3. i /= size - 1 => order'[i + 1] = order[(i + 1) + 1]
              BY <1>1, <1>3, <5>1
            <6> QED  BY <1>4, <6>1, <6>2, <6>3
          <5>2. CASE i /= k - 1
            <6>1. i + 1 < k /\ i + 1 \in 1 .. size - 1 /\ i /= size - 1 /\ k - 1 \in 1 .. size
              BY <1>3, <3>1, <5>2
            <6>2. order[i] /= order[k - 1]
              BY <1>3, <4>1, <5>2, <6>1
            <6>3. next'[order'[i]] = next[order[i]]
              BY <1>2, <4>1, <6>2
            <6>4. order'[i + 1] = order[i + 1]
              BY <1>1, <6>1
            <6> QED  BY <1>4, <4>1, <6>1, <6>3, <6>4
          <5> QED  BY <5>1, <5>2
        <4> QED  BY <4>2, <4>3, <4>4
      <3>2. CASE i >= k
        <4>1. /\ i + 1 \in 1 .. size /\ i + 1 /= 1 /\ (i + 1) - 1 = i /\ order'[i] = order[i + 1]
              /\ order[i + 1] \in Nodes /\ order[i + 1] /= n /\ i \in 1 .. size
          BY <1>1, <1>3, <3>2
        <4>2. data'[order'[i]] \in Data
          BY <1>4, <1>5, <4>1
        <4>3. next'[order'[i]] = IF i = size - 1 THEN NIL ELSE order'[i + 1]
          <5>1. k > 1 => k - 1 \in 1 .. size /\ order[k - 1] /= order[i + 1]
            BY <1>3, <3>2, <4>1
          <5>2. next'[order'[i]] = next[order[i + 1]]
            BY <1>2, <4>1, <5>1
          <5>3. i = size - 1 <=> i + 1 = size
            BY <1>3
          <5>4. i /= size - 1 => order'[i + 1] = order[(i + 1) + 1]
            BY <1>1, <1>3, <3>2
          <5> QED  BY <1>4, <4>1, <5>2, <5>3, <5>4
        <4>4. prev'[order'[i]] = IF i = 1 THEN NIL ELSE order'[i - 1]
          <5>1. CASE i = k
            <6>1. prev'[order'[i]] = prev[n] /\ k < size
              BY <1>2, <1>3, <4>1, <5>1
            <6>2. i /= 1 => order'[i - 1] = order[i - 1]
              BY <1>1, <1>3, <5>1
            <6> QED  BY <1>4, <5>1, <6>1, <6>2
          <5>2. CASE i /= k
            <6>1. i - 1 \in 1 .. size - 1 /\ ~(i - 1 < k) /\ (i - 1) + 1 = i /\ i /= 1
              BY <1>3, <3>2, <5>2
            <6>2. k < size => k + 1 \in 1 .. size /\ order[k + 1] /= order[i + 1]
              BY <1>3, <4>1, <5>2
            <6>3. prev'[order'[i]] = prev[order[i + 1]]
              BY <1>2, <4>1, <6>2
            <6>4. order'[i - 1] = order[i]
              BY <1>1, <6>1
            <6> QED  BY <1>4, <4>1, <6>1, <6>3, <6>4
          <5> QED  BY <5>1, <5>2
        <4> QED  BY <4>2, <4>3, <4>4
      <3> QED  BY <1>3, <3>1, <3>2
    <2>2. ASSUME NEW i \in 1 .. size - 1, NEW j \in 1 .. size - 1, order'[i] = order'[j]
          PROVE  i = j
      BY <1>1, <1>3, <2>2
    <2>3. node' = IF size - 1 = 0 THEN NIL ELSE order'[1]
      <3>1. k = 1 /\ 1 /= size => order'[1] = order[1 + 1]
        BY <1>1, <1>3
      <3>2. k /= 1 => 1 /= size /\ order'[1] = order[1] /\ node = order[1]
        BY <1>1, <1>3, ListFacts
      <3> QED  BY <1>2, <1>3, <1>4, <3>1, <3>2
    <2>4. tail' = IF size - 1 = 0 THEN NIL ELSE order'[size - 1]
      <3>1. k = size /\ size /= 1 => order'[size - 1] = order[size - 1]
        BY <1>1, <1>3
      <3>2. k /= size => size /= 1 /\ order'[size - 1] = order[size] /\ tail = order[size]
        <4>1. k /= size => size - 1 \in 1 .. size - 1 /\ ~(size - 1 < k) /\ (size - 1) + 1 = size
          BY <1>3
        <4> QED  BY <1>1, <1>3, <4>1, ListFacts
      <3> QED  BY <1>2, <1>3, <1>4, <3>1, <3>2
    <2> QED  BY <1>1, <1>3, <2>1, <2>2, <2>3, <2>4 DEF ListShape
  <1>8. /\ spares' \in Seq(Nodes) /\ Len(spares') = Len(spares) + 1
        /\ spares'[1] = n /\ \A i \in 1 .. Len(spares) : spares'[i + 1] = spares[i]
        /\ spares \in Seq(Nodes) /\ Len(spares) \in Nat
    <2>1. spares \in Seq(Nodes) /\ Len(spares) \in Nat
      BY SpareFacts
    <2> QED  BY <1>3, <1>5, <2>1
  <1>9. SpareShape'
    <2>1. /\ \A i \in 1 .. Len(spares) : /\ spares[i] \in Nodes /\ spares[i] \notin InLink
                                         /\ spares[i] /= n
          /\ \A i \in 1 .. Len(spares) :
               /\ next[spares[i]] = IF i = Len(spares) THEN NIL ELSE spares[i + 1]
               /\ prev[spares[i]] = NIL /\ data[spares[i]] = NIL
          /\ \A i, j \in 1 .. Len(spares) : spares[i] = spares[j] => i = j
          /\ recover = IF Len(spares) = 0 THEN NIL ELSE spares[1]
      BY <1>3, <1>6, SpareFacts, LinkAssumption DEF LinkInv, SpareShape
    <2>2. ASSUME NEW i \in 1 .. Len(spares) + 1
          PROVE  /\ next'[spares'[i]] = IF i = Len(spares) + 1 THEN NIL ELSE spares'[i + 1]
                 /\ prev'[spares'[i]] = NIL /\ data'[spares'[i]] = NIL
                 /\ spares'[i] \notin InLink'
      <3>1. CASE i = 1
        <4>1. Len(spares) /= 0 => 1 \in 1 .. Len(spares) /\ spares'[1 + 1] = spares[1]
          BY <1>8
        <4>2. Len(spares) = 0 <=> i = Len(spares) + 1
          BY <1>8, <3>1
        <4> QED  BY <1>1, <1>2, <1>5, <1>8, <2>1, <3>1, <4>1, <4>2
      <3>2. CASE i > 1
        <4>1. i - 1 \in 1 .. Len(spares) /\ (i - 1) + 1 = i
          BY <1>8, <3>2
        <4> DEFINE m == spares[i - 1]
        <4>2. m \in Nodes /\ m \notin InLink /\ m /= n /\ spares'[i] = m
          BY <1>8, <2>1, <4>1
        <4>3. (k > 1 => m /= order[k - 1]) /\ (k < size => m /= order[k + 1])
          BY <1>3, <4>2
        <4>4. next'[m] = next[m] /\ prev'[m] = prev[m] /\ data'[m] = data[m]
          BY <1>2, <1>5, <4>2, <4>3
        <4>5. i - 1 = Len(spares) <=> i = Len(spares) + 1
          BY <1>8
        <4>6. i - 1 /= Len(spares) => spares'[i + 1] = spares[i]
          BY <1>8, <4>1
        <4> QED  BY <1>1, <2>1, <4>1, <4>2, <4>4, <4>5, <4>6
      <3> QED  BY <1>8, <3>1, <3>2
    <2>3. ASSUME NEW i \in 1 .. Len(spares) + 1, NEW j \in 1 .. Len(spares) + 1,
                 spares'[i] = spares'[j]
          PROVE  i = j
      <3>1. \A h \in 1 .. Len(spares) + 1 :
              h /= 1 => /\ h - 1 \in 1 .. Len(spares) /\ (h - 1) + 1 = h
                        /\ spares'[h] = spares[h - 1] /\ spares'[h] /= n
        <4> SUFFICES ASSUME NEW h \in 1 .. Len(spares) + 1, h /= 1
                     PROVE  /\ h - 1 \in 1 .. Len(spares) /\ (h - 1) + 1 = h
                            /\ spares'[h] = spares[h - 1] /\ spares'[h] /= n
          OBVIOUS
        <4>1. h - 1 \in 1 .. Len(spares) /\ (h - 1) + 1 = h
          BY <1>8
        <4>2. spares'[(h - 1) + 1] = spares[h - 1] /\ spares[h - 1] /= n
          BY <1>8, <2>1, <4>1
        <4> QED  BY <4>1, <4>2
      <3>2. CASE i = 1 \/ j = 1
        BY <1>8, <2>3, <3>1, <3>2
      <3>3. CASE i /= 1 /\ j /= 1
        <4>1. spares[i - 1] = spares[j - 1]
          BY <2>3, <3>1, <3>3
        <4>2. i - 1 = j - 1
          BY <2>1, <3>1, <3>3, <4>1
        <4> QED  BY <1>8, <4>2
      <3> QED  BY <3>2, <3>3
    <2>4. recover' = n /\ n /= WILD /\ Len(spares') /= 0
      BY <1>3, <1>5, <1>8, LinkAssumption
    <2> QED  BY <1>8, <2>2, <2>3, <2>4 DEF SpareShape
  <1>10. UsedShape'
    <2>1. InSpares' = InSpares \union {n}
      <3>1. ASSUME NEW m \in InSpares' PROVE m \in InSpares \union {n}
        <4>1. PICK i \in 1 .. Len(spares) + 1 : m = spares'[i]
          BY <1>8 DEF InSpares
        <4>2. CASE i = 1
          BY <1>8, <4>1, <4>2
        <4>3. CASE i /= 1
          <5>1. i - 1 \in 1 .. Len(spares) /\ (i - 1) + 1 = i
            BY <1>8, <4>3
          <5>2. m = spares[i - 1]
            BY <1>8, <4>1, <5>1
          <5> QED  BY <5>1, <5>2 DEF InSpares
        <4> QED  BY <4>2, <4>3
      <3>2. ASSUME NEW m \in InSpares PROVE m \in InSpares'
        <4>1. PICK i \in 1 .. Len(spares) : m = spares[i]
          BY DEF InSpares
        <4>2. i + 1 \in 1 .. Len(spares') /\ m = spares'[i + 1]
          BY <1>8, <4>1
        <4> QED  BY <4>2 DEF InSpares
      <3>3. n \in InSpares'
        <4>1. 1 \in 1 .. Len(spares')
          BY <1>8
        <4> QED  BY <1>8, <4>1 DEF InSpares
      <3> QED  BY <3>1, <3>2, <3>3
    <2>2. /\ used = InLink \union InSpares
          /\ IsFiniteSet(used) /\ Cardinality(used) = size + Len(spares)
          /\ peak = Cardinality(used)
      BY DEF LinkInv, UsedShape
    <2>3. used' = InLink' \union InSpares'
      BY <1>1, <1>3, <1>5, <2>1, <2>2
    <2>4. size + Len(spares) = (size - 1) + (Len(spares) + 1)
      BY <1>3, <1>8
    <2> QED  BY <1>1, <1>5, <1>8, <2>2, <2>3, <2>4 DEF UsedShape
  <1>11. VisitShape'
    <2> SUFFICES ASSUME at /= NIL
                 PROVE  \E i \in 1 .. size - 1 :
                          /\ order'[i] = at
                          /\ seen' = {order'[j] : j \in 1 .. i - 1}
      BY <1>1, <1>5 DEF VisitShape, LinkInv
    <2>1. PICK i \in 1 .. size : order[i] = at /\ seen = {order[j] : j \in 1 .. i - 1}
      BY DEF LinkInv, VisitShape
    <2>2. i /= k
      BY <2>1 DEF NotVisited
    <2>3. CASE i < k
      <3>1. i \in 1 .. size - 1 /\ order'[i] = at
        BY <1>1, <1>3, <2>1, <2>3
      <3>2. \A j \in 1 .. i - 1 : order'[j] = order[j] /\ order[j] /= n
        BY <1>1, <1>3, <2>3
      <3>3. seen' = seen
        BY <1>5, <2>1, <3>2
      <3>4. {order'[j] : j \in 1 .. i - 1} = {order[j] : j \in 1 .. i - 1}
        BY <3>2
      <3> QED  BY <2>1, <3>1, <3>3, <3>4
    <2>4. CASE i > k
      <3>1. i - 1 \in 1 .. size - 1 /\ (i - 1) + 1 = i /\ ~(i - 1 < k)
        BY <1>3, <2>4
      <3>2. order'[i - 1] = at
        BY <1>1, <2>1, <3>1
      <3>3. ASSUME NEW m \in seen' PROVE \E j \in 1 .. (i - 1) - 1 : m = order'[j]
        <4>1. PICK j \in 1 .. i - 1 : m = order[j]
          BY <1>5, <2>1
        <4>2. j /= k
          BY <1>5, <4>1
        <4>3. CASE j < k
          <5>1. j \in 1 .. (i - 1) - 1 /\ j \in 1 .. size - 1
            BY <1>3, <2>4, <4>3
          <5> QED  BY <1>1, <4>1, <4>3, <5>1
        <4>4. CASE j > k
          <5>1. /\ j - 1 \in 1 .. (i - 1) - 1 /\ j - 1 \in 1 .. size - 1
                /\ (j - 1) + 1 = j /\ ~(j - 1 < k)
            BY <1>3, <2>4, <4>4
          <5>2. order'[j - 1] = m
            BY <1>1, <4>1, <5>1
          <5> QED  BY <5>1, <5>2
        <4> QED  BY <4>2, <4>3, <4>4
      <3>4. ASSUME NEW j \in 1 .. (i - 1) - 1 PROVE order'[j] \in seen'
        <4>1. PICK h \in {j, j + 1} : order'[j] = order[h] /\ h /= k
          BY <1>1, <1>3
        <4>2. h \in 1 .. i - 1 /\ h \in 1 .. size
          BY <1>3
        <4>3. order[h] \in seen /\ order[h] /= n
          BY <1>3, <2>1, <4>1, <4>2
        <4> QED  BY <1>5, <4>1, <4>3
      <3>5. seen' = {order'[j] : j \in 1 .. (i - 1) - 1}
        BY <3>3, <3>4
      <3> QED  BY <3>1, <3>2, <3>5
    <2> QED  BY <2>2, <2>3, <2>4
  <1>12. TypeOK'
    <2>2. node' \in Nodes \union {NIL} /\ tail' \in Nodes \union {NIL}
      BY <1>2, <1>3 DEF LinkInv, TypeOK
    <2>3. size' \in Nat /\ recover' \in Nodes
      BY <1>1, <1>3, <1>5
    <2>4. seen' \subseteq Nodes
      BY <1>5 DEF LinkInv, TypeOK
    <2> QED  BY <1>1, <1>2, <1>5, <1>8, <2>2, <2>3, <2>4 DEF LinkInv, TypeOK
  <1> QED  BY <1>7, <1>9, <1>10, <1>11, <1>12 DEF LinkInv

-----------------------------------------------------------------------------
(* The search of smp_link_node_rm meets the nodes of the link in order,    *)
(* and then the end.                                                       *)
LEMMA WalkOrder ==
  LinkInv => \A k \in Nat \ {0} : Walk[k] = IF k <= size THEN order[k] ELSE NIL
  <1> SUFFICES ASSUME LinkInv
               PROVE  \A k \in Nat \ {0} : Walk[k] = IF k <= size THEN order[k] ELSE NIL
    OBVIOUS
  <1>1. Chained(node, next, NIL, order, size)
    BY ListFacts, LinkAssumption DEF LinkInv, ListShape, Chained
  <1>2. Walk = CHOOSE f : f = Walking(f, Nat, node, next, NIL)
    BY DEF Walk, Walking, Onto
  <1>3. Walk = Walking(Walk, Nat, node, next, NIL)
    BY <1>1, <1>2, WalkExists, StepsIn
  <1> QED  BY <1>1, <1>3, WalkMeets, StepsIn

LEMMA StepsAre ==
  ASSUME LinkInv
  PROVE  /\ Steps = 1 .. size
         /\ \A k \in 1 .. size : Walk[k] = order[k]
  <1>1. \A k \in Nat \ {0} : Walk[k] = IF k <= size THEN order[k] ELSE NIL
    BY WalkOrder
  <1>2. /\ size \in Nat /\ \A k \in 1 .. size : order[k] /= NIL
    BY ListFacts, LinkAssumption
  <1>3. size <= Cardinality(Nodes) /\ Cardinality(Nodes) \in Nat
    <2>1. /\ Cardinality(used) <= Cardinality(Nodes)
          /\ Cardinality(Nodes) \in Nat
      BY LinkAssumption, FS_Subset, FS_CardinalityType DEF LinkInv, TypeOK
    <2>2. Cardinality(used) = size + Len(spares) /\ Len(spares) \in Nat
      BY SpareFacts DEF LinkInv, UsedShape
    <2> QED  BY <1>2, <2>1, <2>2
  <1>4. \A k \in 1 .. size : Walk[k] = order[k]
    BY <1>1, <1>2
  <1>5. ASSUME NEW k \in Steps PROVE k \in 1 .. size
    BY <1>1, <1>2, <1>3, <1>5 DEF Steps
  <1>6. ASSUME NEW k \in 1 .. size PROVE k \in Steps
    BY <1>2, <1>3, <1>4, <1>6 DEF Steps
  <1> QED  BY <1>4, <1>5, <1>6

(* The node that each call takes out, if it finds one.                     *)
LEMMA TakesOne ==
  ASSUME LinkInv
  PROVE  /\ RmAthead => (size = 0 /\ TakeNothing) \/ (size > 0 /\ RmNode(order[1]) /\ NotVisited(order[1]))
         /\ RmAttail => (size = 0 /\ TakeNothing) \/ (size > 0 /\ RmNode(order[size]) /\ NotVisited(order[size]))
         /\ \A x \in Data : NodeRm(x) =>
              \/ (\A k \in 1 .. size : data[order[k]] /= x) /\ TakeNothing
              \/ \E k \in 1 .. size : /\ data[order[k]] = x
                                      /\ \A j \in 1 .. k - 1 : data[order[j]] /= x
                                      /\ RmNode(order[k]) /\ NotVisited(order[k])
  <1>1. /\ size \in Nat
        /\ size > 0 => node = order[1] /\ tail = order[size] /\ node /= NIL /\ tail /= NIL
        /\ size = 0 => node = NIL /\ tail = NIL
    BY ListFacts, LinkAssumption
  <1>2. ASSUME NEW x \in Data, NodeRm(x), ~(\A k \in Steps : data[Walk[k]] /= x)
        PROVE  \E k \in 1 .. size : /\ data[order[k]] = x
                                    /\ \A j \in 1 .. k - 1 : data[order[j]] /= x
                                    /\ RmNode(order[k]) /\ NotVisited(order[k])
    <2>1. PICK k \in Steps : Found(k, x) /\ NotVisited(Walk[k]) /\ RmNode(Walk[k])
      BY <1>2 DEF NodeRm
    <2>2. k \in 1 .. size /\ Walk[k] = order[k]
      BY StepsAre
    <2>3. \A j \in 1 .. k - 1 : j \in 1 .. size
      BY <1>1, <2>2
    <2>4. \A j \in 1 .. k - 1 : Walk[j] = order[j]
      BY <2>3, StepsAre
    <2> QED  BY <2>1, <2>2, <2>4 DEF Found
  <1>3. ASSUME NEW x \in Data, NodeRm(x), \A k \in Steps : data[Walk[k]] /= x
        PROVE  (\A k \in 1 .. size : data[order[k]] /= x) /\ TakeNothing
    <2>1. TakeNothing
      BY <1>3 DEF NodeRm, Found
    <2> QED  BY <1>3, <2>1, StepsAre
  <1> QED  BY <1>1, <1>2, <1>3 DEF RmAthead, RmAttail

-----------------------------------------------------------------------------
(* An empty link in an empty pool.                                         *)
LEMMA EmptiedShape ==
  ASSUME Emptied, at' = NIL,
         recover' \in IF Dirty THEN {NIL, WILD} ELSE {NIL},
         phase' \in {"none", "live", "destory"}, dataFree' \in BOOLEAN,
         taken' \in Data \union {NIL}
  PROVE  LinkInv'
  <1>1. /\ order' = <<>> /\ spares' = <<>> /\ size' = 0 /\ used' = {} /\ peak' = 0
        /\ Len(<<>>) = 0 /\ <<>> \in Seq(Nodes) /\ DOMAIN <<>> = {} /\ 1 .. 0 = {}
    BY DEF Emptied
  <1>2. InLink' = {} /\ InSpares' = {}
    BY <1>1 DEF InLink, InSpares
  <1>3. ListShape'
    BY <1>1 DEF Emptied, ListShape
  <1>4. SpareShape'
    BY <1>1, LinkAssumption DEF SpareShape
  <1>5. UsedShape'
    <2>1. IsFiniteSet({}) /\ Cardinality({}) = 0
      BY FS_EmptySet
    <2> QED  BY <1>1, <1>2, <2>1 DEF UsedShape
  <1>6. TypeOK'
    BY <1>1 DEF Emptied, TypeOK
  <1>7. VisitShape'
    BY DEF VisitShape
  <1> QED  BY <1>3, <1>4, <1>5, <1>6, <1>7 DEF LinkInv

LEMMA LinkInitial == Init => LinkInv
  <1> SUFFICES ASSUME Init PROVE LinkInv
    OBVIOUS
  <1>1. /\ order = <<>> /\ spares = <<>> /\ size = 0 /\ used = {} /\ peak = 0
        /\ Len(<<>>) = 0 /\ <<>> \in Seq(Nodes) /\ DOMAIN <<>> = {} /\ 1 .. 0 = {}
    BY DEF Init
  <1>2. InLink = {} /\ InSpares = {}
    BY <1>1 DEF InLink, InSpares
  <1>3. ListShape /\ SpareShape /\ VisitShape
    BY <1>1, LinkAssumption DEF Init, ListShape, SpareShape, VisitShape
  <1>4. UsedShape
    <2>1. IsFiniteSet({}) /\ Cardinality({}) = 0
      BY FS_EmptySet
    <2> QED  BY <1>1, <1>2, <2>1 DEF UsedShape
  <1>5. TypeOK
    <2>1. 0 \in Nat
      OBVIOUS
    <2> QED  BY <1>1, <2>1 DEF Init, TypeOK
  <1> QED  BY <1>3, <1>4, <1>5 DEF LinkInv

(* A step of the traversal, that of smp_link_destory included.             *)
LEMMA NextVisited ==
  ASSUME LinkInv, TraversalNext
  PROVE  /\ VisitShape' /\ at' \in Nodes \union {NIL} /\ seen' \subseteq Nodes
         /\ at' = NIL => seen' = InLink
         /\ at' /= NIL => \E i \in 1 .. size : /\ order[i] = at'
                                               /\ seen' = {order[j] : j \in 1 .. i - 1}
  <1>1. /\ size \in Nat /\ InLink = {order[i] : i \in 1 .. size}
        /\ \A i \in 1 .. size : order[i] \in Nodes /\ order[i] /= NIL
        /\ \A i \in 1 .. size : next[order[i]] = IF i = size THEN NIL ELSE order[i + 1]
    BY ListFacts, LinkAssumption DEF LinkInv, ListShape
  <1>2. PICK i \in 1 .. size : order[i] = at /\ seen = {order[j] : j \in 1 .. i - 1}
    BY DEF LinkInv, VisitShape, TraversalNext
  <1>3. seen' = {order[j] : j \in 1 .. i}
    <2>1. \A j \in 1 .. i : j \in 1 .. i - 1 \/ j = i
      BY <1>1
    <2>2. i \in 1 .. i /\ \A j \in 1 .. i - 1 : j \in 1 .. i
      BY <1>1
    <2>3. seen' = seen \union {order[i]}
      BY <1>2 DEF TraversalNext
    <2> QED  BY <1>2, <2>1, <2>2, <2>3
  <1>4. at' = next[order[i]] /\ order' = order /\ size' = size /\ phase' = phase
    BY <1>2 DEF TraversalNext, linkVars
  <1>5. seen' \subseteq Nodes
    <2>1. \A j \in 1 .. i : j \in 1 .. size
      BY <1>1
    <2> QED  BY <1>1, <1>3, <2>1
  <1>6. phase /= "none"
    BY DEF LinkInv, VisitShape, TraversalNext
  <1>7. CASE i = size
    BY <1>1, <1>3, <1>4, <1>5, <1>7 DEF VisitShape
  <1>8. CASE i < size
    <2>1. i + 1 \in 1 .. size /\ (i + 1) - 1 = i /\ at' = order[i + 1]
      BY <1>1, <1>4, <1>8
    <2>2. /\ i + 1 \in 1 .. size' /\ order'[i + 1] = at'
          /\ seen' = {order'[j] : j \in 1 .. (i + 1) - 1}
      BY <1>3, <1>4, <2>1
    <2>3. VisitShape'
      BY <1>4, <1>6, <2>2 DEF VisitShape
    <2>4. at' \in Nodes /\ at' /= NIL
      BY <1>1, <2>1
    <2> QED  BY <1>3, <1>5, <2>1, <2>3, <2>4
  <1> QED  BY <1>1, <1>7, <1>8

(* What leaves the link itself alone.                                      *)
LEMMA LinkUnchanged ==
  ASSUME LinkInv, UNCHANGED linkVars
  PROVE  ListShape' /\ SpareShape' /\ UsedShape' /\ InLink' = InLink
  BY DEF LinkInv, ListShape, SpareShape, UsedShape, InLink, InSpares, linkVars

LEMMA LinkNext == ASSUME LinkInv, [Next]_vars PROVE LinkInv'
  <1>1. ASSUME NEW f \in BOOLEAN, LinkInit(f) PROVE LinkInv'
    <2>1. at = NIL
      BY <1>1 DEF LinkInit, LinkInv, VisitShape
    <2> QED  BY <1>1, <2>1, EmptiedShape DEF LinkInit, LinkInv, TypeOK
  <1>2. ASSUME NEW n \in Nodes, NEW x \in Data, LinkInsert(n, x) PROVE LinkInv'
    BY <1>2, InsertKeeps
  <1>3. CASE TakeNothing
    <2>1. VisitShape'
      BY <1>3 DEF TakeNothing, linkVars, LinkInv, VisitShape
    <2> QED  BY <1>3, <2>1, LinkUnchanged DEF TakeNothing, LinkInv, TypeOK, linkVars
  <1>4. CASE RmAthead \/ RmAttail \/ \E x \in Data : NodeRm(x)
    <2>1. TakeNothing \/ \E k \in 1 .. size : RmNode(order[k]) /\ NotVisited(order[k])
      <3>1. size > 0 => 1 \in 1 .. size /\ size \in 1 .. size
        BY ListFacts
      <3> QED  BY <1>4, <3>1, TakesOne
    <2> QED  BY <1>3, <2>1, RmKeeps
  <1>5. CASE TraversalBegin \/ DestoryBegin
    <2>1. /\ UNCHANGED <<dataFree, linkVars, taken>> /\ seen' = {} /\ at' \in {node, NIL}
          /\ phase' \in {"live", "destory"}
      BY <1>5 DEF TraversalBegin, DestoryBegin
    <2>2. VisitShape'
      <3> SUFFICES ASSUME at' /= NIL
                   PROVE  \E i \in 1 .. size : /\ order[i] = at'
                                               /\ seen' = {order[j] : j \in 1 .. i - 1}
        BY <2>1 DEF VisitShape, linkVars
      <3>1. 1 \in 1 .. size /\ node = order[1]
        BY <2>1, ListFacts
      <3>2. {order[j] : j \in 1 .. 1 - 1} = {}
        OBVIOUS
      <3> QED  BY <2>1, <3>1, <3>2
    <2>3. at' \in Nodes \union {NIL}
      BY <2>1 DEF LinkInv, TypeOK
    <2> QED  BY <2>1, <2>2, <2>3, LinkUnchanged DEF LinkInv, TypeOK, linkVars
  <1>6. CASE TraversalNext
    BY <1>6, NextVisited, LinkUnchanged DEF TraversalNext, LinkInv, TypeOK, linkVars
  <1>7. CASE DestoryEnd
    BY <1>7, EmptiedShape DEF DestoryEnd, LinkInv, TypeOK
  <1>8. CASE UNCHANGED vars
    <2>1. VisitShape'
      BY <1>8 DEF vars, linkVars, LinkInv, VisitShape
    <2> QED  BY <1>8, <2>1, LinkUnchanged DEF vars, LinkInv, TypeOK, linkVars
  <1> QED  BY <1>1, <1>2, <1>4, <1>5, <1>6, <1>7, <1>8 DEF Next

(* The inductive invariant of smp_link.c: the link and the spare nodes as  *)
(* chains, and what a traversal under way has seen.                        *)
THEOREM LinkInvariant == Spec => []LinkInv
  BY LinkInitial, LinkNext, PTL DEF Spec

(* Type correctness.                                                       *)
THEOREM LinkTyping == Spec => []TypeOK
  <1>1. LinkInv => TypeOK
    BY DEF LinkInv
  <1> QED  BY <1>1, LinkInvariant, PTL

(* The links in both directions, both ends and the size always agree with  *)
(* what was inserted and not taken out.                                    *)
THEOREM LinksAgree == Spec => []Linked
  <1>1. LinkInv => Linked
    <2> SUFFICES ASSUME LinkInv PROVE Linked
      OBVIOUS
    <2>1. /\ size \in Nat /\ Len(order) = size /\ order \in Seq(Nodes)
          /\ InLink = {order[i] : i \in 1 .. size}
      BY ListFacts
    <2>2. \A i \in 1 .. size : /\ next[order[i]] = IF i = size THEN NIL ELSE order[i + 1]
                               /\ prev[order[i]] = IF i = 1 THEN NIL ELSE order[i - 1]
                               /\ data[order[i]] \in Data
      BY DEF LinkInv, ListShape
    <2>3. order = <<>> => node = NIL /\ tail = NIL
      BY <2>1, ListFacts
    <2>4. order /= <<>> => /\ node = order[1] /\ prev[node] = NIL
                           /\ tail = order[Len(order)] /\ next[tail] = NIL
      <3>1. order /= <<>> => size > 0
        BY <2>1, EmptySeq
      <3> QED  BY <2>1, <2>2, <3>1, ListFacts
    <2>5. ASSUME NEW i \in 1 .. Len(order) - 1
          PROVE  next[order[i]] = order[i + 1] /\ prev[order[i + 1]] = order[i]
      <3>1. i \in 1 .. size /\ i /= size /\ i + 1 \in 1 .. size /\ i + 1 /= 1 /\ (i + 1) - 1 = i
        BY <2>1
      <3> QED  BY <2>2, <3>1
    <2> QED  BY <2>1, <2>2, <2>3, <2>4, <2>5 DEF Linked
  <1> QED  BY <1>1, LinkInvariant, PTL

(* In memory that is zero to begin with, link->recover is always the chain *)
(* of the nodes taken out, and no node is in two places or nowhere.        *)
THEOREM SparesKept == ASSUME ~Dirty PROVE Spec => []SparesApart
  <1>1. LinkInv => SparesApart
    <2> SUFFICES ASSUME LinkInv PROVE SparesApart
      OBVIOUS
    <2>1. spares \in Seq(Nodes) /\ DOMAIN spares = 1 .. Len(spares) /\ Len(spares) \in Nat
      BY SpareFacts
    <2>2. recover = IF spares = <<>> THEN NIL ELSE spares[1]
      <3>1. spares = <<>> <=> Len(spares) = 0
        BY <2>1, EmptySeq
      <3> QED  BY <3>1 DEF LinkInv, SpareShape
    <2>3. used = InLink \union {spares[i] : i \in DOMAIN spares}
      BY <2>1 DEF LinkInv, UsedShape, InSpares
    <2> QED  BY <2>1, <2>2, <2>3 DEF LinkInv, SpareShape, SparesApart
  <1> QED  BY <1>1, LinkInvariant, PTL

(* A link never takes more memory than at its peak.                        *)
THEOREM PeakBounds == Spec => []UsesPeak
  <1>1. LinkInv => UsesPeak
    BY DEF LinkInv, UsedShape, UsesPeak
  <1> QED  BY <1>1, LinkInvariant, PTL

(* No node is missed or visited twice, whatever the visitors do.           *)
THEOREM TraversalComplete == Spec => VisitsAll
  <1>1. ASSUME LinkInv, LinkInv', [Next]_vars, at /= NIL
        PROVE  IF at' = NIL THEN seen' = InLink
               ELSE \E i \in DOMAIN order' : /\ order'[i] = at'
                                             /\ seen' = {order'[j] : j \in 1 .. i - 1}
    <2>1. at' = NIL => TraversalNext
      <3>1. CASE RmAthead \/ RmAttail \/ \E x \in Data : NodeRm(x)
        BY <1>1, <3>1, TakesOne DEF RmNode, TakeNothing
      <3>2. CASE \/ \E f \in BOOLEAN : LinkInit(f)
                 \/ \E n \in Nodes, x \in Data : LinkInsert(n, x)
                 \/ TraversalBegin \/ DestoryBegin \/ DestoryEnd
        BY <1>1, <3>2 DEF LinkInit, LinkInsert, TraversalBegin, DestoryBegin, DestoryEnd
      <3>3. CASE UNCHANGED vars
        BY <1>1, <3>3 DEF vars
      <3> QED  BY <1>1, <3>1, <3>2, <3>3 DEF Next
    <2>2. at' = NIL => seen' = InLink
      BY <1>1, <2>1, NextVisited
    <2>3. DOMAIN order' = 1 .. size'
      BY <1>1 DEF LinkInv, ListShape
    <2>4. at' /= NIL => \E i \in DOMAIN order' : /\ order'[i] = at'
                                                 /\ seen' = {order'[j] : j \in 1 .. i - 1}
      BY <1>1, <2>3 DEF LinkInv, VisitShape
    <2> QED  BY <2>2, <2>4
  <1>2. LinkInv /\ LinkInv' /\ [Next]_vars =>
          [at /= NIL => IF at' = NIL THEN seen' = InLink
                        ELSE \E i \in DOMAIN order' :
                               /\ order'[i] = at'
                               /\ seen' = {order'[j] : j \in 1 .. i - 1}]_vars
    BY <1>1
  <1> QED  BY <1>2, LinkInvariant, PTL DEF Spec, VisitsAll

-----------------------------------------------------------------------------
(* The link implements SmpDeque: the data a walk meets are the sequence.   *)
Stored == [k \in 1 .. size |-> data[Walk[k]]]

LEMMA StoredIs ==
  LinkInv => /\ Stored = [k \in 1 .. size |-> data[order[k]]]
             /\ Stored \in Seq(Data) /\ Len(Stored) = size /\ DOMAIN Stored = 1 .. size
             /\ \A k \in 1 .. size : Stored[k] = data[order[k]]
  <1> SUFFICES ASSUME LinkInv
               PROVE  /\ Stored = [k \in 1 .. size |-> data[order[k]]]
                      /\ Stored \in Seq(Data) /\ Len(Stored) = size /\ DOMAIN Stored = 1 .. size
                      /\ \A k \in 1 .. size : Stored[k] = data[order[k]]
    OBVIOUS
  <1>1. Stored = [k \in 1 .. size |-> data[order[k]]]
    BY StepsAre DEF Stored
  <1>2. size \in Nat /\ \A k \in 1 .. size : data[order[k]] \in Data
    BY DEF LinkInv, ListShape
  <1>3. Stored \in [1 .. size -> Data]
    BY <1>1, <1>2
  <1> QED  BY <1>1, <1>2, <1>3

LEMMA StoredNext ==
  ASSUME LinkInv'
  PROVE  /\ Stored' = [k \in 1 .. size' |-> data'[order'[k]]]
         /\ Stored' \in Seq(Data) /\ Len(Stored') = size' /\ DOMAIN Stored' = 1 .. size'
         /\ \A k \in 1 .. size' : Stored'[k] = data'[order'[k]]
  <1>1. (LinkInv => /\ Stored = [k \in 1 .. size |-> data[order[k]]]
                    /\ Stored \in Seq(Data) /\ Len(Stored) = size /\ DOMAIN Stored = 1 .. size
                    /\ \A k \in 1 .. size : Stored[k] = data[order[k]])'
    BY StoredIs, PTL
  <1> QED  BY <1>1

(* Taking out the k-th node takes the k-th datum, and gives it back.       *)
LEMMA RmTakes ==
  ASSUME LinkInv, LinkInv', NEW k \in 1 .. size, RmNode(order[k])
  PROVE  /\ Stored' = [i \in 1 .. Len(Stored) - 1 |->
                         IF i < k THEN Stored[i] ELSE Stored[i + 1]]
         /\ taken' = Stored[k]
  <1>1. /\ size' = size - 1
        /\ \A i \in 1 .. size - 1 : order'[i] = IF i < k THEN order[i] ELSE order[i + 1]
    BY RmOrder
  <1>2. /\ size \in Nat /\ \A i \in 1 .. size : order[i] \in Nodes
        /\ \A i, j \in 1 .. size : order[i] = order[j] => i = j
    BY ListFacts
  <1>3. /\ Len(Stored) = size /\ \A i \in 1 .. size : Stored[i] = data[order[i]]
    BY StoredIs
  <1>4. Stored' = [i \in 1 .. size - 1 |-> data'[order'[i]]]
    BY <1>1, StoredNext
  <1>5. taken' = data[order[k]] /\ data' = [data EXCEPT ![order[k]] = NIL]
    BY DEF RmNode
  <1>6. ASSUME NEW i \in 1 .. size - 1
        PROVE  data'[order'[i]] = IF i < k THEN Stored[i] ELSE Stored[i + 1]
    <2>1. i \in 1 .. size /\ i + 1 \in 1 .. size
      BY <1>2
    <2>2. CASE i < k
      <3>1. order'[i] = order[i] /\ order[i] /= order[k]
        BY <1>1, <1>2, <2>1, <2>2
      <3> QED  BY <1>2, <1>3, <1>5, <2>1, <2>2, <3>1 DEF LinkInv, TypeOK
    <2>3. CASE ~(i < k)
      <3>1. order'[i] = order[i + 1] /\ order[i + 1] /= order[k]
        BY <1>1, <1>2, <2>1, <2>3
      <3> QED  BY <1>2, <1>3, <1>5, <2>1, <2>3, <3>1 DEF LinkInv, TypeOK
    <2> QED  BY <2>2, <2>3
  <1> QED  BY <1>3, <1>4, <1>5, <1>6

LEMMA InsertAppends ==
  ASSUME LinkInv, LinkInv', NEW n \in Nodes, NEW x \in Data, LinkInsert(n, x)
  PROVE  Stored' = Append(Stored, x)
  <1>1. /\ size' = size + 1 /\ order'[size + 1] = n
        /\ \A i \in 1 .. size : order'[i] = order[i]
    BY InsertOrder
  <1>2. /\ size \in Nat /\ \A i \in 1 .. size : order[i] \in Nodes /\ order[i] \in InLink
        /\ n \notin InLink
    BY ListFacts, CreatedFrom DEF LinkInsert
  <1>3. data'[n] = x /\ \A m \in Nodes : m /= n => data'[m] = data[m]
    BY InsertWrites
  <1>4. /\ Stored \in Seq(Data) /\ Len(Stored) = size
        /\ \A i \in 1 .. size : Stored[i] = data[order[i]]
    BY StoredIs
  <1>5. Stored' \in Seq(Data) /\ Len(Stored') = size + 1
    BY <1>1, StoredNext
  <1>6. ASSUME NEW i \in 1 .. size + 1 PROVE Stored'[i] = Append(Stored, x)[i]
    <2>1. Stored'[i] = data'[order'[i]]
      BY <1>1, StoredNext
    <2>2. CASE i = size + 1
      BY <1>1, <1>2, <1>3, <1>4, <2>1, <2>2
    <2>3. CASE i \in 1 .. size
      BY <1>1, <1>2, <1>3, <1>4, <2>1, <2>3
    <2>4. i = size + 1 \/ i \in 1 .. size
      BY <1>2
    <2> QED  BY <2>2, <2>3, <2>4
  <1>7. Append(Stored, x) \in Seq(Data) /\ Len(Append(Stored, x)) = size + 1
    BY <1>2, <1>4
  <1> QED  BY <1>5, <1>6, <1>7, SeqEqual

LEMMA CallsMatch ==
  ASSUME LinkInv, LinkInv'
  PROVE  /\ \A n \in Nodes, x \in Data : LinkInsert(n, x) => Deque!Insert(x)
         /\ RmAthead => Deque!TakeFirst
         /\ RmAttail => Deque!TakeLast
         /\ \A x \in Data : NodeRm(x) => Deque!TakeEqual(x)
  <1>1. ASSUME NEW n \in Nodes, NEW x \in Data, LinkInsert(n, x) PROVE Deque!Insert(x)
    <2>1. Stored' = Append(Stored, x) /\ taken' = taken
      BY <1>1, InsertAppends DEF LinkInsert
    <2> QED  BY <2>1 DEF Deque!Insert, Stored
  <1>2. /\ Len(Stored) = size /\ DOMAIN Stored = 1 .. size /\ size \in Nat
        /\ \A k \in 1 .. size : Stored[k] = data[order[k]]
    BY StoredIs, ListFacts
  <1>3. ASSUME NEW k \in 1 .. size, RmNode(order[k]) PROVE Deque!TakeAt(k)
    BY <1>3, RmTakes DEF Deque!TakeAt, Stored
  <1>4. ASSUME TakeNothing PROVE Deque!TakeNothing
    <2>1. UNCHANGED <<size, data, order>> /\ taken' = NIL
      BY <1>4 DEF TakeNothing, linkVars
    <2>2. Stored' = Stored
      BY <2>1, StoredIs, StoredNext
    <2> QED  BY <2>1, <2>2 DEF Deque!TakeNothing, Stored
  <1>5. Stored = <<>> <=> size = 0
    BY <1>2
  <1>6. ASSUME RmAthead PROVE Deque!TakeFirst
    <2>1. CASE size = 0 /\ TakeNothing
      BY <1>4, <1>5, <2>1 DEF Deque!TakeFirst, Stored
    <2>2. CASE size > 0 /\ RmNode(order[1])
      <3>1. Deque!TakeAt(1)
        BY <1>2, <1>3, <2>2
      <3> QED  BY <1>5, <2>2, <3>1 DEF Deque!TakeFirst, Stored
    <2> QED  BY <1>6, <2>1, <2>2, TakesOne
  <1>7. ASSUME RmAttail PROVE Deque!TakeLast
    <2>1. CASE size = 0 /\ TakeNothing
      BY <1>4, <1>5, <2>1 DEF Deque!TakeLast, Stored
    <2>2. CASE size > 0 /\ RmNode(order[size])
      <3>1. size \in 1 .. size /\ Len(Stored) = size
        BY <1>2, <2>2
      <3>2. /\ Stored' = [i \in 1 .. Len(Stored) - 1 |->
                            IF i < Len(Stored) THEN Stored[i] ELSE Stored[i + 1]]
            /\ taken' = Stored[Len(Stored)]
        BY <2>2, <3>1, RmTakes
      <3>3. Stored /= <<>>
        BY <1>5, <2>2
      <3> QED  BY <3>2, <3>3 DEF Deque!TakeLast, Deque!TakeAt, Stored
    <2> QED  BY <1>7, <2>1, <2>2, TakesOne
  <1>8. ASSUME NEW x \in Data, NodeRm(x) PROVE Deque!TakeEqual(x)
    <2>1. CASE (\A k \in 1 .. size : data[order[k]] /= x) /\ TakeNothing
      <3>1. \A k \in DOMAIN Stored : Stored[k] /= x
        BY <1>2, <2>1
      <3> QED  BY <1>4, <2>1, <3>1 DEF Deque!TakeEqual, Stored
    <2>2. ASSUME NEW k \in 1 .. size, data[order[k]] = x, \A j \in 1 .. k - 1 : data[order[j]] /= x,
                 RmNode(order[k])
          PROVE  Deque!TakeEqual(x)
      <3>1. k \in DOMAIN Stored /\ Stored[k] = x
        BY <1>2, <2>2
      <3>2. \A j \in 1 .. k - 1 : j \in 1 .. size
        BY <1>2
      <3>3. \A j \in 1 .. k - 1 : Stored[j] /= x
        BY <1>2, <2>2, <3>2
      <3>4. Deque!TakeAt(k)
        BY <1>3, <2>2
      <3> QED  BY <3>1, <3>3, <3>4 DEF Deque!TakeEqual, Stored
    <2> QED  BY <1>8, <2>1, <2>2, TakesOne
  <1> QED  BY <1>1, <1>6, <1>7, <1>8

LEMMA DequeStep ==
  ASSUME LinkInv, LinkInv', [Next]_vars
  PROVE  [Deque!DNext]_(Deque!dvars)
  <1>1. CASE \/ \E n \in Nodes, x \in Data : LinkInsert(n, x)
             \/ RmAthead \/ RmAttail \/ \E x \in Data : NodeRm(x)
    BY <1>1, CallsMatch DEF Deque!DNext
  <1>2. CASE DestoryEnd \/ \E f \in BOOLEAN : LinkInit(f)
    <2>1. size' = 0 /\ taken' = taken
      BY <1>2 DEF DestoryEnd, LinkInit, Emptied
    <2>2. Stored' = <<>>
      BY <2>1, StoredNext
    <2> QED  BY <2>1, <2>2 DEF Deque!DNext, Deque!Clear, Stored
  <1>3. CASE TraversalBegin \/ TraversalNext \/ DestoryBegin \/ UNCHANGED vars
    <2>1. UNCHANGED <<size, data, order, taken>>
      BY <1>3 DEF TraversalBegin, TraversalNext, DestoryBegin, vars, linkVars
    <2>2. Stored' = Stored
      BY <2>1, StoredIs, StoredNext
    <2> QED  BY <2>1, <2>2 DEF Deque!dvars, Stored
  <1> QED  BY <1>1, <1>2, <1>3 DEF Next

(* To its client a link is a sequence with two ends: no datum is lost,     *)
(* repeated or moved, whatever the order of the calls.                     *)
THEOREM DequeImplemented == Spec => DequeRefined
  <1>1. Init => Deque!DInit
    <2> SUFFICES ASSUME Init PROVE Deque!DInit
      OBVIOUS
    <2>1. Stored = <<>>
      BY LinkInitial, StoredIs DEF Init
    <2> QED  BY <2>1 DEF Init, Deque!DInit, Stored
  <1>2. LinkInv /\ LinkInv' /\ [Next]_vars => [Deque!DNext]_(Deque!dvars)
    BY DequeStep
  <1> QED  BY <1>1, <1>2, LinkInvariant, PTL DEF Spec, DequeRefined, Deque!DSpec

(* Each call that takes a datum takes the one its name says: the first,    *)
(* the last, or the first that is equal.                                   *)
THEOREM CallsTakeTheirOwn == Spec => CallsTakeTheirs
  <1>1. LinkInv /\ LinkInv' =>
          [/\ \A n \in Nodes, x \in Data : LinkInsert(n, x) => Deque!Insert(x)
           /\ RmAthead => Deque!TakeFirst
           /\ RmAttail => Deque!TakeLast
           /\ \A x \in Data : NodeRm(x) => Deque!TakeEqual(x)]_vars
    BY CallsMatch
  <1> QED  BY <1>1, LinkInvariant, PTL DEF CallsTakeTheirs
=============================================================================
