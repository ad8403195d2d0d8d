--------------------------- MODULE SmpQueueProofs ---------------------------
(***************************************************************************)
(* What is proved of SmpQueue for any number of nodes.                     *)
(***************************************************************************)
EXTENDS SmpQueue, SmpWalks, SequenceTheorems

(* Only a queue in use is traversed.                                       *)
Traversed == at /= NIL => phase = "live"

(* A queue that does not exist yet, or no longer, has no node.             *)
Emptied == phase = "none" => order = <<>>

QueueInv == /\ TypeOK /\ Linked /\ NodesAccounted /\ TraversalInOrder
            /\ Traversed /\ Emptied

-----------------------------------------------------------------------------
(* The list read through its length.                                       *)
LEMMA ListFacts ==
  ASSUME TypeOK, Linked, NodesAccounted
  PROVE  /\ qlen \in Nat /\ Len(order) = qlen /\ DOMAIN order = 1 .. qlen
         /\ order \in Seq(Nodes)
         /\ \A i \in 1 .. qlen : order[i] \in Nodes
         /\ InQueue = {order[i] : i \in 1 .. qlen}
         /\ \A i, j \in 1 .. qlen : order[i] = order[j] => i = j
         /\ \A i \in 1 .. qlen - 1 : /\ next[order[i]] = order[i + 1]
                                     /\ prev[order[i + 1]] = order[i]
         /\ qlen = 0 => elems = NIL /\ tail = NIL
         /\ qlen >= 1 => /\ 1 \in 1 .. qlen /\ elems = order[1] /\ prev[elems] = NIL
                         /\ qlen \in 1 .. qlen /\ tail = order[qlen] /\ next[tail] = NIL
                         /\ elems \in Nodes /\ tail \in Nodes /\ elems /= NIL
  <1>1. qlen \in Nat /\ Len(order) = qlen /\ DOMAIN order = 1 .. qlen /\ order \in Seq(Nodes)
    BY DEF TypeOK, Linked
  <1>2. \A i \in 1 .. qlen : order[i] \in Nodes
    BY <1>1
  <1>3. /\ InQueue = {order[i] : i \in 1 .. qlen}
        /\ \A i, j \in 1 .. qlen : order[i] = order[j] => i = j
    BY <1>1 DEF InQueue, NodesAccounted
  <1>4. \A i \in 1 .. qlen - 1 : /\ next[order[i]] = order[i + 1]
                                 /\ prev[order[i + 1]] = order[i]
    BY <1>1 DEF Linked
  <1>5. qlen = 0 => elems = NIL /\ tail = NIL
    BY <1>1 DEF Linked
  <1>6. qlen >= 1 => /\ 1 \in 1 .. qlen /\ elems = order[1] /\ prev[elems] = NIL
                     /\ qlen \in 1 .. qlen /\ tail = order[qlen] /\ next[tail] = NIL
    BY <1>1 DEF Linked
  <1>7. qlen >= 1 => elems \in Nodes /\ tail \in Nodes /\ elems /= NIL
    BY <1>2, <1>6, NilAssumption
  <1> QED  BY <1>1, <1>2, <1>3, <1>4, <1>5, <1>6, <1>7

(* What entering does to the list.                                         *)
LEMMA EnterList ==
  ASSUME TypeOK, Linked, NodesAccounted, NEW n \in Nodes, n \notin InQueue, LinkLast(n)
  PROVE  /\ Linked'
         /\ elems' \in Nodes /\ tail' \in Nodes /\ qlen' = qlen + 1
         /\ prev' \in [Nodes -> Nodes \union {NIL}]
         /\ next' \in [Nodes -> Nodes \union {NIL}]
         /\ order' \in Seq(Nodes) /\ Len(order') = qlen + 1
         /\ order'[qlen + 1] = n
         /\ \A i \in 1 .. qlen : order'[i] = order[i]
         /\ InQueue' = InQueue \union {n}
         /\ \A i, j \in DOMAIN order' : order'[i] = order'[j] => i = j
         /\ \A m \in InQueue : m /= tail => next'[m] = next[m]
         /\ tail \in InQueue => next'[tail] = n
  <1>1. /\ qlen \in Nat /\ Len(order) = qlen /\ DOMAIN order = 1 .. qlen
        /\ order \in Seq(Nodes)
        /\ \A i \in 1 .. qlen : order[i] \in Nodes /\ order[i] /= n
        /\ InQueue = {order[i] : i \in 1 .. qlen}
        /\ \A i, j \in 1 .. qlen : order[i] = order[j] => i = j
    BY ListFacts
  <1>2. order' = Append(order, n) /\ qlen' = qlen + 1 /\ tail' = n
    BY DEF LinkLast
  <1>3. /\ order' \in Seq(Nodes) /\ Len(order') = qlen + 1
        /\ DOMAIN order' = 1 .. qlen + 1
        /\ order'[qlen + 1] = n
        /\ \A i \in 1 .. qlen : order'[i] = order[i]
    BY <1>1, <1>2
  <1>4. InQueue' = InQueue \union {n}
    <2>1. InQueue' = {order'[i] : i \in 1 .. qlen + 1}
      BY <1>3 DEF InQueue
    <2> QED  BY <1>1, <1>3, <2>1
  <1>5. \A i, j \in DOMAIN order' : order'[i] = order'[j] => i = j
    BY <1>1, <1>3
  <1>6. CASE qlen = 0 /\ elems = NIL
    <2>1. /\ elems' = n
          /\ prev' = [prev EXCEPT ![n] = NIL] /\ next' = [next EXCEPT ![n] = NIL]
      BY <1>6 DEF LinkLast
    <2>2. /\ prev' \in [Nodes -> Nodes \union {NIL}] /\ prev'[n] = NIL
          /\ next' \in [Nodes -> Nodes \union {NIL}] /\ next'[n] = NIL
      BY <2>1 DEF TypeOK
    <2>3. Linked'
      BY <1>2, <1>3, <1>6, <2>1, <2>2 DEF Linked
    <2>4. InQueue = {}
      BY <1>1, <1>6
    <2> QED  BY <1>2, <1>3, <1>4, <1>5, <2>1, <2>2, <2>3, <2>4
  <1>7. CASE ~(qlen = 0 /\ elems = NIL)
    <2>1. /\ elems' = elems
          /\ prev' = [prev EXCEPT ![n] = tail]
          /\ next' = [next EXCEPT ![tail] = n, ![n] = NIL]
      BY <1>7 DEF LinkLast
    <2>2. /\ qlen >= 1 /\ 1 \in 1 .. qlen /\ qlen \in 1 .. qlen
          /\ elems = order[1] /\ prev[elems] = NIL /\ tail = order[qlen]
          /\ elems \in Nodes /\ tail \in Nodes
          /\ \A i \in 1 .. qlen - 1 : /\ next[order[i]] = order[i + 1]
                                      /\ prev[order[i + 1]] = order[i]
      BY <1>7, ListFacts
    <2>3. tail /= n /\ elems /= n
      BY <1>1, <2>2
    <2>4. /\ prev' \in [Nodes -> Nodes \union {NIL}]
          /\ next' \in [Nodes -> Nodes \union {NIL}]
          /\ prev'[n] = tail /\ next'[n] = NIL /\ next'[tail] = n
          /\ \A m \in Nodes : /\ m /= n => prev'[m] = prev[m]
                              /\ m /= n /\ m /= tail => next'[m] = next[m]
      BY <2>1, <2>2, <2>3 DEF TypeOK
    <2>5. ASSUME NEW i \in 1 .. qlen
          PROVE  next'[order'[i]] = order'[i + 1] /\ prev'[order'[i + 1]] = order'[i]
      <3>1. CASE i = qlen
        BY <3>1, <1>3, <2>2, <2>4
      <3>2. CASE i < qlen
        <4>1. i \in 1 .. qlen - 1 /\ i + 1 \in 1 .. qlen
          BY <3>2, <1>1
        <4>2. order[i] /= tail
          BY <3>2, <1>1, <2>2
        <4>3. order'[i] = order[i] /\ order'[i + 1] = order[i + 1]
          BY <4>1, <1>3
        <4>4. /\ order[i] \in Nodes /\ order[i] /= n
              /\ order[i + 1] \in Nodes /\ order[i + 1] /= n
          BY <4>1, <1>1
        <4>5. next[order[i]] = order[i + 1] /\ prev[order[i + 1]] = order[i]
          BY <4>1, <2>2
        <4> QED  BY <4>2, <4>3, <4>4, <4>5, <2>4
      <3> QED  BY <3>1, <3>2, <1>1
    <2>6. Len(order') - 1 = qlen /\ order' /= <<>> /\ order'[1] = elems
      BY <1>1, <1>3, <2>2
    <2>7. Linked'
      BY <1>2, <1>3, <2>1, <2>2, <2>3, <2>4, <2>5, <2>6 DEF Linked
    <2>8. /\ \A m \in InQueue : m /= tail => next'[m] = next[m]
          /\ tail \in InQueue => next'[tail] = n
      BY <1>1, <2>4
    <2> QED  BY <1>2, <1>3, <1>4, <1>5, <2>1, <2>2, <2>4, <2>7, <2>8
  <1> QED  BY <1>6, <1>7

(* What removing does to the list.                                         *)
LEMMA RemoveList ==
  ASSUME TypeOK, Linked, NodesAccounted, CanRemove, UnlinkFirst
  PROVE  /\ Linked'
         /\ elems' \in Nodes \union {NIL} /\ tail' \in Nodes \union {NIL}
         /\ qlen' = qlen - 1 /\ qlen >= 1
         /\ prev' \in [Nodes -> Nodes \union {NIL}]
         /\ next' \in [Nodes -> Nodes \union {NIL}]
         /\ order' \in Seq(Nodes) /\ Len(order') = qlen - 1
         /\ \A i \in 1 .. qlen - 1 : order'[i] = order[i + 1]
         /\ elems \in InQueue /\ elems = order[1] /\ elems \in Nodes
         /\ InQueue' = InQueue \ {elems}
         /\ \A i, j \in DOMAIN order' : order'[i] = order'[j] => i = j
  <1>1. /\ qlen \in Nat /\ Len(order) = qlen /\ DOMAIN order = 1 .. qlen
        /\ order \in Seq(Nodes)
        /\ \A i \in 1 .. qlen : order[i] \in Nodes
        /\ InQueue = {order[i] : i \in 1 .. qlen}
        /\ \A i, j \in 1 .. qlen : order[i] = order[j] => i = j
        /\ \A i \in 1 .. qlen - 1 : /\ next[order[i]] = order[i + 1]
                                    /\ prev[order[i + 1]] = order[i]
    BY ListFacts
  <1>2. qlen >= 1
    BY <1>1 DEF CanRemove
  <1>3. /\ 1 \in 1 .. qlen /\ elems = order[1] /\ prev[elems] = NIL
        /\ qlen \in 1 .. qlen /\ tail = order[qlen] /\ next[tail] = NIL
        /\ elems \in Nodes /\ tail \in Nodes /\ elems /= NIL
    BY <1>2, ListFacts
  <1>4. /\ order' = Tail(order) /\ qlen' = qlen - 1 /\ order /= <<>>
    BY <1>1, <1>2 DEF UnlinkFirst
  <1>5. /\ order' \in Seq(Nodes) /\ Len(order') = qlen - 1
        /\ DOMAIN order' = 1 .. qlen - 1
        /\ \A i \in 1 .. qlen - 1 : order'[i] = order[i + 1]
    BY <1>1, <1>4
  <1>6. \A i \in 1 .. qlen - 1 : i + 1 \in 1 .. qlen /\ order[i + 1] /= elems
    BY <1>1, <1>3
  <1>7. InQueue' = InQueue \ {elems}
    <2>1. InQueue' = {order'[i] : i \in 1 .. qlen - 1}
      BY <1>5 DEF InQueue
    <2>2. ASSUME NEW m \in InQueue, m /= elems PROVE m \in InQueue'
      <3>1. PICK i \in 1 .. qlen : m = order[i]
        BY <1>1
      <3>2. i /= 1
        BY <3>1, <2>2, <1>3
      <3>3. i - 1 \in 1 .. qlen - 1 /\ (i - 1) + 1 = i
        BY <3>2, <1>1
      <3>4. order'[i - 1] = m
        BY <3>1, <3>3, <1>5
      <3> QED  BY <2>1, <3>3, <3>4
    <2>3. ASSUME NEW m \in InQueue' PROVE m \in InQueue /\ m /= elems
      <3>1. PICK i \in 1 .. qlen - 1 : m = order'[i]
        BY <2>1
      <3>2. m = order[i + 1]
        BY <3>1, <1>5
      <3> QED  BY <3>1, <3>2, <1>1, <1>6
    <2> QED  BY <2>2, <2>3
  <1>8. \A i, j \in DOMAIN order' : order'[i] = order'[j] => i = j
    <2> SUFFICES ASSUME NEW i \in 1 .. qlen - 1, NEW j \in 1 .. qlen - 1,
                        order'[i] = order'[j]
                 PROVE  i = j
      BY <1>5
    <2>1. order[i + 1] = order[j + 1] /\ i + 1 \in 1 .. qlen /\ j + 1 \in 1 .. qlen
      BY <1>5, <1>6
    <2> QED  BY <2>1, <1>1
  <1>9. CASE tail = elems
    <2>1. qlen = 1
      BY <1>1, <1>3, <1>9
    <2>2. elems' = NIL /\ tail' = NIL /\ order' = <<>>
      BY <1>9, <2>1, <1>5 DEF UnlinkFirst
    <2>3. /\ prev' \in [Nodes -> Nodes \union {NIL}]
          /\ next' \in [Nodes -> Nodes \union {NIL}]
      BY <1>9 DEF UnlinkFirst, FirstUnlinked, TypeOK
    <2>4. Linked'
      <3>1. qlen' = 0 /\ Len(order') = 0 /\ 1 .. Len(order') - 1 = {}
        BY <1>4, <1>5, <2>1, <1>1
      <3> QED  BY <2>2, <3>1 DEF Linked
    <2> QED  BY <1>1, <1>2, <1>3, <1>4, <1>5, <1>7, <1>8, <2>2, <2>3, <2>4
  <1>10. CASE tail /= elems
    <2>1. qlen >= 2
      BY <1>2, <1>3, <1>10, <1>1
    <2>2. /\ 1 \in 1 .. qlen - 1 /\ 2 \in 1 .. qlen
          /\ next[elems] = order[2] /\ order[2] \in Nodes /\ order[2] /= elems
      <3>1. 1 \in 1 .. qlen - 1 /\ 2 \in 1 .. qlen /\ 1 + 1 = 2
        BY <2>1, <1>1
      <3> QED  BY <3>1, <1>1, <1>3, <1>6
    <2>3. /\ elems' = order[2] /\ tail' = tail
          /\ prev' = [prev EXCEPT ![order[2]] = NIL, ![elems] = NIL]
          /\ next' = [next EXCEPT ![elems] = NIL]
      BY <1>10, <2>2 DEF UnlinkFirst, FirstUnlinked
    <2>4. /\ prev' \in [Nodes -> Nodes \union {NIL}]
          /\ next' \in [Nodes -> Nodes \union {NIL}]
          /\ prev'[order[2]] = NIL
          /\ \A m \in Nodes : /\ m /= elems => next'[m] = next[m]
                              /\ m /= elems /\ m /= order[2] => prev'[m] = prev[m]
      BY <1>3, <2>2, <2>3 DEF TypeOK
    <2>5. ASSUME NEW i \in 1 .. qlen - 2
          PROVE  next'[order'[i]] = order'[i + 1] /\ prev'[order'[i + 1]] = order'[i]
      <3>1. /\ i \in 1 .. qlen - 1 /\ i + 1 \in 1 .. qlen - 1 /\ i + 1 \in 1 .. qlen
            /\ (i + 1) + 1 \in 1 .. qlen
        BY <1>1
      <3>2. order'[i] = order[i + 1] /\ order'[i + 1] = order[(i + 1) + 1]
        BY <3>1, <1>5
      <3>3. order[i + 1] /= elems /\ order[(i + 1) + 1] /= elems
        BY <3>1, <1>6
      <3>4. order[(i + 1) + 1] /= order[2]
        <4>1. (i + 1) + 1 /= 2
          OBVIOUS
        <4> QED  BY <4>1, <3>1, <2>2, <1>1
      <3>5. /\ next[order[i + 1]] = order[(i + 1) + 1]
            /\ prev[order[(i + 1) + 1]] = order[i + 1]
            /\ order[i + 1] \in Nodes /\ order[(i + 1) + 1] \in Nodes
        BY <3>1, <1>1
      <3> QED  BY <3>2, <3>3, <3>4, <3>5, <2>4
    <2>6. /\ Len(order') - 1 = qlen - 2 /\ order' /= <<>>
          /\ order'[1] = order[2] /\ order'[Len(order')] = tail
          /\ next'[tail] = NIL
      <3>1. order'[1] = order[1 + 1] /\ order'[qlen - 1] = order[(qlen - 1) + 1]
        BY <1>1, <1>5, <2>1, <2>2
      <3>2. (qlen - 1) + 1 = qlen
        BY <1>1
      <3> QED  BY <1>1, <1>3, <1>5, <1>10, <2>1, <2>4, <3>1, <3>2
    <2>7. Linked'
      BY <1>4, <1>5, <2>3, <2>4, <2>5, <2>6 DEF Linked
    <2>8. elems' \in Nodes \union {NIL} /\ tail' \in Nodes \union {NIL}
      BY <1>3, <2>2, <2>3
    <2>9. qlen' = qlen - 1 /\ qlen >= 1
      BY <1>2, <1>4
    <2>10. elems \in InQueue
      BY <1>1, <1>3
    <2> QED  BY <1>3, <1>5, <1>7, <1>8, <2>4, <2>7, <2>8, <2>9, <2>10, Zenon
  <1> QED  BY <1>9, <1>10

-----------------------------------------------------------------------------
(* Where a traversal stands is not disturbed by a node entering.           *)
LEMMA EnterTraversal ==
  ASSUME QueueInv, NEW n \in Nodes, n \notin InQueue, LinkLast(n), UNCHANGED <<at, seen>>
  PROVE  TraversalInOrder'
  <1> SUFFICES ASSUME at /= NIL
               PROVE  \E i \in DOMAIN order' :
                        order'[i] = at /\ seen = {order'[j] : j \in 1 .. i - 1}
    BY DEF TraversalInOrder
  <1>1. /\ qlen \in Nat /\ DOMAIN order = 1 .. qlen
    BY ListFacts DEF QueueInv
  <1>2. /\ order' \in Seq(Nodes) /\ Len(order') = qlen + 1
        /\ \A i \in 1 .. qlen : order'[i] = order[i]
    BY EnterList DEF QueueInv
  <1>3. DOMAIN order' = 1 .. qlen + 1
    BY <1>1, <1>2
  <1>4. PICK i \in 1 .. qlen : order[i] = at /\ seen = {order[j] : j \in 1 .. i - 1}
    BY <1>1 DEF QueueInv, TraversalInOrder
  <1>5. order'[i] = at /\ i \in DOMAIN order'
    BY <1>1, <1>2, <1>3, <1>4
  <1>6. \A j \in 1 .. i - 1 : order'[j] = order[j]
    BY <1>1, <1>2
  <1>7. {order'[j] : j \in 1 .. i - 1} = {order[j] : j \in 1 .. i - 1}
    BY <1>6
  <1> QED  BY <1>4, <1>5, <1>7

(* Nor by the front leaving, unless it is the node being visited.          *)
LEMMA RemoveTraversal ==
  ASSUME QueueInv, CanRemove, UnlinkFirst, at = NIL \/ at /= elems, at' = at
  PROVE  TraversalInOrder'
  <1> SUFFICES ASSUME at /= NIL, at /= elems
               PROVE  \E i \in DOMAIN order' :
                        order'[i] = at /\ seen' = {order'[j] : j \in 1 .. i - 1}
    BY DEF TraversalInOrder
  <1>1. /\ qlen \in Nat /\ DOMAIN order = 1 .. qlen
        /\ \A i, j \in 1 .. qlen : order[i] = order[j] => i = j
    BY ListFacts DEF QueueInv
  <1>2. /\ order' \in Seq(Nodes) /\ Len(order') = qlen - 1 /\ qlen >= 1
        /\ elems = order[1]
        /\ \A i \in 1 .. qlen - 1 : order'[i] = order[i + 1]
    BY RemoveList DEF QueueInv
  <1>3. DOMAIN order' = 1 .. qlen - 1
    BY <1>1, <1>2
  <1>4. PICK i \in 1 .. qlen : order[i] = at /\ seen = {order[j] : j \in 1 .. i - 1}
    BY <1>1 DEF QueueInv, TraversalInOrder
  <1>5. i /= 1
    BY <1>2, <1>4
  <1>6. i - 1 \in 1 .. qlen - 1 /\ (i - 1) + 1 = i
    BY <1>1, <1>5
  <1>7. order'[i - 1] = at
    BY <1>2, <1>4, <1>6
  <1>8. seen' = seen \ {order[1]}
    BY <1>2 DEF UnlinkFirst
  <1>9. seen' = {order'[j] : j \in 1 .. (i - 1) - 1}
    <2>1. ASSUME NEW m \in seen' PROVE \E j \in 1 .. (i - 1) - 1 : m = order'[j]
      <3>1. PICK j \in 1 .. i - 1 : m = order[j]
        BY <1>4, <1>8
      <3>2. j /= 1
        BY <2>1, <3>1, <1>8
      <3>3. j - 1 \in 1 .. (i - 1) - 1 /\ j - 1 \in 1 .. qlen - 1 /\ (j - 1) + 1 = j
        BY <3>2, <1>1
      <3> QED  BY <3>1, <3>3, <1>2
    <2>2. ASSUME NEW j \in 1 .. (i - 1) - 1 PROVE order'[j] \in seen'
      <3>1. /\ j \in 1 .. qlen - 1 /\ j + 1 \in 1 .. i - 1 /\ j + 1 \in 1 .. qlen
            /\ j + 1 /= 1 /\ 1 \in 1 .. qlen
        BY <1>1
      <3>2. order'[j] = order[j + 1] /\ order[j + 1] /= order[1]
        BY <3>1, <1>1, <1>2
      <3> QED  BY <3>1, <3>2, <1>4, <1>8
    <2> QED  BY <2>1, <2>2
  <1> QED  BY <1>3, <1>6, <1>7, <1>9

(* The traversal moves to the following node, or ends with all visited.    *)
LEMMA NextTraversal ==
  ASSUME QueueInv, TraversalNext
  PROVE  /\ at' \in Nodes \union {NIL}
         /\ TraversalInOrder'
         /\ at' = NIL => seen' = InQueue
         /\ at \in Nodes
  <1>1. /\ qlen \in Nat /\ DOMAIN order = 1 .. qlen
        /\ \A i \in 1 .. qlen : order[i] \in Nodes
        /\ InQueue = {order[i] : i \in 1 .. qlen}
        /\ \A i, j \in 1 .. qlen : order[i] = order[j] => i = j
        /\ \A i \in 1 .. qlen - 1 : next[order[i]] = order[i + 1]
        /\ qlen >= 1 => tail = order[qlen] /\ next[tail] = NIL
    BY ListFacts DEF QueueInv
  <1>2. PICK i \in 1 .. qlen : order[i] = at /\ seen = {order[j] : j \in 1 .. i - 1}
    BY <1>1 DEF QueueInv, TraversalInOrder, TraversalNext
  <1>3. seen' = {order[j] : j \in 1 .. i}
    <2>1. \A j \in 1 .. i : j \in 1 .. i - 1 \/ j = i
      BY <1>1
    <2>2. i \in 1 .. i /\ \A j \in 1 .. i - 1 : j \in 1 .. i
      BY <1>1
    <2>3. seen' = seen \union {order[i]}
      BY <1>2 DEF TraversalNext
    <2> QED  BY <1>2, <2>1, <2>2, <2>3
  <1>4. at' = next[order[i]] /\ order' = order
    BY <1>2 DEF TraversalNext, listVars
  <1>5. CASE i = qlen
    BY <1>1, <1>2, <1>3, <1>4, <1>5 DEF TraversalInOrder
  <1>6. CASE i < qlen
    <2>1. i \in 1 .. qlen - 1 /\ i + 1 \in 1 .. qlen /\ (i + 1) - 1 = i
      BY <1>6, <1>1
    <2>2. at' = order[i + 1] /\ order[i + 1] \in Nodes
      BY <2>1, <1>1, <1>4
    <2>3. TraversalInOrder'
      <3>1. /\ i + 1 \in DOMAIN order' /\ order'[i + 1] = at'
            /\ seen' = {order'[j] : j \in 1 .. (i + 1) - 1}
        BY <2>1, <2>2, <1>1, <1>3, <1>4
      <3> QED  BY <3>1 DEF TraversalInOrder
    <2> QED  BY <2>2, <2>3, <1>1, <1>2, NilAssumption
  <1> QED  BY <1>5, <1>6, <1>1

-----------------------------------------------------------------------------
LEMMA QueueInit == Init => QueueInv
  <1> SUFFICES ASSUME Init PROVE QueueInv
    OBVIOUS
  <1>1. <<>> \in Seq(Nodes) /\ Len(<<>>) = 0 /\ DOMAIN <<>> = {}
    OBVIOUS
  <1>2. TypeOK
    BY <1>1 DEF Init, TypeOK
  <1>3. Linked /\ NodesAccounted
    BY <1>1 DEF Init, Linked, NodesAccounted, InQueue
  <1> QED  BY <1>2, <1>3 DEF Init, QueueInv, TraversalInOrder, Traversed, Emptied

(* A step that leaves the list and the traversal alone.                    *)
LEMMA ListUnchanged ==
  ASSUME QueueInv, UNCHANGED <<listVars, at, seen>>
  PROVE  Linked' /\ TraversalInOrder' /\ InQueue' = InQueue
  BY DEF QueueInv, Linked, TraversalInOrder, InQueue, listVars

LEMMA QueueNext == ASSUME QueueInv, [Next]_vars PROVE QueueInv'
  <1>1. TypeOK /\ Linked /\ NodesAccounted /\ TraversalInOrder /\ Traversed /\ Emptied
    BY DEF QueueInv
  <1>2. order \in Seq(Nodes) /\ qlen \in Nat
    BY <1>1 DEF TypeOK
  <1>3. ASSUME NEW f \in BOOLEAN, QueueCreate(f) PROVE QueueInv'
    <2>1. order' = order /\ order = <<>> /\ at = NIL /\ at' = NIL
      BY <1>1, <1>3 DEF QueueCreate, Traversed, Emptied
    <2>2. Linked'
      BY <1>1, <1>3, <2>1 DEF QueueCreate, Linked
    <2>3. TypeOK'
      BY <1>1, <1>3 DEF QueueCreate, TypeOK
    <2> QED  BY <1>1, <1>3, <2>1, <2>2, <2>3
             DEF QueueCreate, QueueInv, NodesAccounted, InQueue, TraversalInOrder, Traversed,
                 Emptied
  <1>4. ASSUME NEW n \in Nodes, QnodeCreate(n) PROVE QueueInv'
    <2>1. n \notin InQueue /\ n \notin dropped
      BY <1>1, <1>4 DEF QnodeCreate, NodesAccounted
    <2>2. TypeOK'
      BY <1>1, <1>4 DEF QnodeCreate, TypeOK
    <2>3. Linked'
      <3>1. /\ qlen \in Nat /\ Len(order) = qlen
            /\ \A i \in 1 .. qlen : order[i] \in Nodes /\ order[i] /= n
            /\ \A i \in 1 .. qlen - 1 : /\ next[order[i]] = order[i + 1]
                                        /\ prev[order[i + 1]] = order[i]
            /\ qlen >= 1 => /\ elems = order[1] /\ prev[elems] = NIL
                            /\ tail = order[qlen] /\ next[tail] = NIL
                            /\ elems \in Nodes /\ tail \in Nodes
        BY <1>1, <2>1, ListFacts
      <3>2. \A m \in Nodes : m /= n => prev'[m] = prev[m] /\ next'[m] = next[m]
        BY <1>1, <1>4 DEF QnodeCreate, TypeOK
      <3>3. \A i \in 1 .. qlen - 1 : /\ next'[order[i]] = order[i + 1]
                                     /\ prev'[order[i + 1]] = order[i]
        <4> SUFFICES ASSUME NEW i \in 1 .. qlen - 1
                     PROVE  next'[order[i]] = order[i + 1] /\ prev'[order[i + 1]] = order[i]
          OBVIOUS
        <4>1. i \in 1 .. qlen /\ i + 1 \in 1 .. qlen
          BY <3>1
        <4> QED  BY <3>1, <3>2, <4>1, Zenon
      <3>4. qlen >= 1 => prev'[elems] = NIL /\ next'[tail] = NIL
        <4>1. qlen >= 1 => 1 \in 1 .. qlen /\ qlen \in 1 .. qlen
          BY <3>1
        <4> QED  BY <3>1, <3>2, <4>1
      <3> QED  BY <1>1, <1>4, <3>1, <3>3, <3>4 DEF QnodeCreate, Linked
    <2>4. NodesAccounted' /\ TraversalInOrder'
      BY <1>1, <1>4, <2>1 DEF QnodeCreate, NodesAccounted, InQueue, TraversalInOrder
    <2> QED  BY <1>1, <1>4, <2>2, <2>3, <2>4 DEF QnodeCreate, QueueInv, Traversed, Emptied
  <1>5. ASSUME NEW n \in Nodes, QnodeDestory(n) PROVE QueueInv'
    <2>1. Linked' /\ TraversalInOrder' /\ InQueue' = InQueue
      BY <1>5, ListUnchanged DEF QnodeDestory
    <2>2. NodesAccounted'
      BY <1>1, <1>5, <2>1 DEF QnodeDestory, NodesAccounted, listVars
    <2> QED  BY <1>1, <1>5, <2>1, <2>2
             DEF QnodeDestory, QueueInv, TypeOK, Traversed, Emptied, listVars
  <1>6. ASSUME NEW n \in Nodes, Qenter(n) PROVE QueueInv'
    <2>1. n \notin InQueue /\ LinkLast(n)
      BY <1>1, <1>6 DEF Qenter, NodesAccounted
    <2>2. /\ Linked' /\ InQueue' = InQueue \union {n}
          /\ elems' \in Nodes /\ tail' \in Nodes /\ qlen' = qlen + 1
          /\ prev' \in [Nodes -> Nodes \union {NIL}]
          /\ next' \in [Nodes -> Nodes \union {NIL}]
          /\ order' \in Seq(Nodes)
          /\ \A i, j \in DOMAIN order' : order'[i] = order'[j] => i = j
      BY <1>1, <2>1, EnterList
    <2>3. TraversalInOrder'
      BY <1>6, <2>1, EnterTraversal DEF Qenter
    <2>4. NodesAccounted'
      BY <1>1, <1>6, <2>2 DEF Qenter, NodesAccounted
    <2>5. TypeOK'
      BY <1>1, <1>2, <1>6, <2>2 DEF Qenter, TypeOK
    <2> QED  BY <1>1, <1>6, <2>2, <2>3, <2>4, <2>5 DEF Qenter, QueueInv, Traversed, Emptied
  <1>7. ASSUME NEW n \in Nodes, Qinsert(n) PROVE QueueInv'
    <2>1. n \notin InQueue /\ LinkLast(n)
      BY <1>1, <1>7 DEF Qinsert, NodesAccounted
    <2>2. /\ Linked' /\ InQueue' = InQueue \union {n}
          /\ elems' \in Nodes /\ tail' \in Nodes /\ qlen' = qlen + 1
          /\ prev' \in [Nodes -> Nodes \union {NIL}]
          /\ next' \in [Nodes -> Nodes \union {NIL}]
          /\ order' \in Seq(Nodes)
          /\ \A i, j \in DOMAIN order' : order'[i] = order'[j] => i = j
      BY <1>1, <2>1, EnterList
    <2>3. TraversalInOrder'
      BY <1>7, <2>1, EnterTraversal DEF Qinsert
    <2>4. NodesAccounted'
      BY <1>1, <1>7, <2>2 DEF Qinsert, NodesAccounted
    <2>5. TypeOK'
      BY <1>1, <1>2, <1>7, <2>2 DEF Qinsert, TypeOK
    <2> QED  BY <1>1, <1>7, <2>2, <2>3, <2>4, <2>5 DEF Qinsert, QueueInv, Traversed, Emptied
  <1>8. ASSUME CanRemove, UnlinkFirst, at = NIL \/ at /= elems, at' = at,
               phase /= "none", UNCHANGED <<phase, freeNode, dropped>>,
               \/ held' = held \union {elems} /\ alloc' = alloc
               \/ alloc' = alloc \ {elems} /\ held' = held
        PROVE  QueueInv'
    <2>1. /\ Linked' /\ InQueue' = InQueue \ {elems} /\ elems \in InQueue
          /\ elems' \in Nodes \union {NIL} /\ tail' \in Nodes \union {NIL}
          /\ qlen' = qlen - 1 /\ qlen >= 1 /\ elems \in Nodes
          /\ prev' \in [Nodes -> Nodes \union {NIL}]
          /\ next' \in [Nodes -> Nodes \union {NIL}]
          /\ order' \in Seq(Nodes)
          /\ \A i, j \in DOMAIN order' : order'[i] = order'[j] => i = j
      BY <1>1, <1>8, RemoveList
    <2>2. TraversalInOrder'
      BY <1>8, RemoveTraversal
    <2>3. NodesAccounted'
      BY <1>1, <1>8, <2>1 DEF NodesAccounted
    <2>4. seen' \subseteq Nodes
      BY <1>1, <1>8 DEF UnlinkFirst, TypeOK
    <2>5. TypeOK'
      BY <1>1, <1>2, <1>8, <2>1, <2>4 DEF TypeOK
    <2> QED  BY <1>1, <1>8, <2>1, <2>2, <2>3, <2>5 DEF QueueInv, Traversed, Emptied
  <1>9. CASE QnodeRemove
    BY <1>8, <1>9 DEF QnodeRemove, NotVisited
  <1>10. CASE QnodeDelete
    BY <1>8, <1>10 DEF QnodeDelete, NotVisited
  <1>11. CASE CleanNode
    BY <1>1, <1>8, <1>11 DEF CleanNode, Traversed
  <1>12. CASE QcleanBegin \/ QdestoryBegin
    <2>1. /\ UNCHANGED <<freeNode, listVars, alloc, at, held, dropped, seen>>
          /\ phase' \in {"clean", "destory"} /\ at = NIL
      BY <1>12 DEF QcleanBegin, QdestoryBegin
    <2>2. Linked' /\ TraversalInOrder' /\ InQueue' = InQueue
      BY <2>1, ListUnchanged
    <2> QED  BY <1>1, <2>1, <2>2
             DEF QueueInv, TypeOK, NodesAccounted, Traversed, Emptied, listVars
  <1>13. CASE CleanForget
    <2>1. at = NIL /\ at' = NIL /\ phase' \in {"live", "none"}
      BY <1>1, <1>13 DEF CleanForget, Cleaned, Traversed
    <2>2. <<>> \in Seq(Nodes) /\ Len(<<>>) = 0 /\ DOMAIN <<>> = {}
      OBVIOUS
    <2>3. Linked'
      BY <1>13, <2>2 DEF CleanForget, Cleaned, Linked
    <2>4. InQueue' = {} /\ InQueue \subseteq Nodes
      BY <1>2, <1>13, <2>2 DEF CleanForget, InQueue
    <2>5. NodesAccounted'
      BY <1>1, <1>13, <2>2, <2>4 DEF CleanForget, NodesAccounted
    <2>6. /\ prev' \in [Nodes -> Nodes \union {NIL}]
          /\ next' \in [Nodes -> Nodes \union {NIL}]
      BY <1>1, <1>13 DEF CleanForget, FirstUnlinked, TypeOK
    <2>7. TypeOK'
      BY <1>1, <1>13, <2>1, <2>2, <2>4, <2>6 DEF CleanForget, Cleaned, TypeOK
    <2> QED  BY <1>13, <2>1, <2>3, <2>5, <2>7
             DEF CleanForget, QueueInv, TraversalInOrder, Traversed, Emptied
  <1>14. CASE CleanEnd
    <2>1. at = NIL /\ at' = NIL /\ order' = order /\ phase' \in {"live", "none"}
      BY <1>1, <1>14 DEF CleanEnd, Cleaned, Traversed
    <2>2. qlen = 0 /\ order = <<>>
      <3>1. qlen = 0
        BY <1>1, <1>14, ListFacts DEF CleanEnd, CanRemove
      <3>2. Len(order) = 0
        BY <1>1, <3>1 DEF Linked
      <3> QED  BY <1>2, <3>1, <3>2, EmptySeq
    <2>3. Linked'
      BY <1>1, <1>14, <2>1, <2>2 DEF CleanEnd, Cleaned, Linked
    <2>4. TypeOK'
      BY <1>1, <1>14, <2>1 DEF CleanEnd, Cleaned, TypeOK
    <2>5. NodesAccounted'
      BY <1>1, <1>14, <2>1 DEF CleanEnd, NodesAccounted, InQueue
    <2> QED  BY <2>1, <2>2, <2>3, <2>4, <2>5
             DEF QueueInv, TraversalInOrder, Traversed, Emptied
  <1>15. CASE TraversalBegin
    <2>1. /\ qlen >= 1 /\ 1 \in 1 .. qlen /\ elems = order[1] /\ elems \in Nodes
          /\ DOMAIN order = 1 .. qlen
      BY <1>1, <1>15, ListFacts DEF TraversalBegin, CanRemove
    <2>2. Linked' /\ InQueue' = InQueue
      BY <1>1, <1>15 DEF TraversalBegin, listVars, Linked, InQueue
    <2>3. TraversalInOrder'
      <3>1. {order[j] : j \in 1 .. 1 - 1} = {}
        OBVIOUS
      <3> QED  BY <1>15, <2>1, <3>1 DEF TraversalBegin, listVars, TraversalInOrder
    <2> QED  BY <1>1, <1>15, <2>1, <2>2, <2>3
             DEF TraversalBegin, QueueInv, TypeOK, NodesAccounted, Traversed, Emptied, listVars
  <1>16. CASE TraversalNext
    <2>1. at' \in Nodes \union {NIL} /\ TraversalInOrder' /\ at \in Nodes
      BY <1>16, NextTraversal
    <2>2. Linked' /\ InQueue' = InQueue
      BY <1>1, <1>16 DEF TraversalNext, listVars, Linked, InQueue
    <2> QED  BY <1>1, <1>16, <2>1, <2>2
             DEF TraversalNext, QueueInv, TypeOK, NodesAccounted, Traversed, Emptied, listVars
  <1>17. CASE UNCHANGED vars
    <2>1. Linked' /\ TraversalInOrder' /\ InQueue' = InQueue
      BY <1>17, ListUnchanged DEF vars
    <2> QED  BY <1>1, <1>17, <2>1
             DEF vars, QueueInv, TypeOK, NodesAccounted, Traversed, Emptied, listVars
  <1> QED
    BY <1>3, <1>4, <1>5, <1>6, <1>7, <1>9, <1>10, <1>11, <1>12, <1>13, <1>14, <1>15,
       <1>16, <1>17 DEF Next

(* The inductive invariant of smp_queue.c, whatever the order of calls.    *)
THEOREM QueueInvariant == Spec => []QueueInv
  BY QueueInit, QueueNext, PTL DEF Spec

(* Type correctness.                                                       *)
THEOREM QueueTyping == Spec => []TypeOK
  <1>1. QueueInv => TypeOK
    BY DEF QueueInv
  <1> QED  BY <1>1, QueueInvariant, PTL

(* The links in both directions, the two ends and the length always agree  *)
(* with the order in which the nodes entered.                              *)
THEOREM LinksAgree == Spec => []Linked
  <1>1. QueueInv => Linked
    BY DEF QueueInv
  <1> QED  BY <1>1, QueueInvariant, PTL

(* No node is lost, in two places, or in the queue once freed.             *)
THEOREM Accounted == Spec => []NodesAccounted
  <1>1. QueueInv => NodesAccounted
    BY DEF QueueInv
  <1> QED  BY <1>1, QueueInvariant, PTL

(* A traversal whose visitors change the queue misses none and repeats     *)
(* none, and ends when all have been visited.                              *)
THEOREM TraversalOrdered == Spec => []TraversalInOrder
  <1>1. QueueInv => TraversalInOrder
    BY DEF QueueInv
  <1> QED  BY <1>1, QueueInvariant, PTL

(* smp_queue_traversal, when it ends, has visited every node of the queue. *)
THEOREM TraversalComplete == Spec => VisitsAll
  <1>1. ASSUME QueueInv, [Next]_vars, at /= NIL, at' = NIL PROVE seen' = InQueue
    <2>1. TraversalNext
      <3>1. TraversalNext \/ at' = at \/ at = NIL
        BY <1>1 DEF Next, QueueCreate, QnodeCreate, QnodeDestory, Qenter, Qinsert,
                    QnodeRemove, QnodeDelete, QcleanBegin, QdestoryBegin, CleanNode,
                    CleanForget, CleanEnd, TraversalBegin, vars
      <3> QED  BY <1>1, <3>1
    <2> QED  BY <1>1, <2>1, NextTraversal
  <1>2. QueueInv /\ [Next]_vars => [at /= NIL /\ at' = NIL => seen' = InQueue]_vars
    BY <1>1
  <1> QED  BY <1>2, QueueInvariant, PTL DEF Spec, VisitsAll

(* Stepping back and forth with smp_qnode_next and smp_qnode_prev agrees.  *)
THEOREM RingHolds == Spec => []Ring
  <1>1. QueueInv => Ring
    <2> SUFFICES ASSUME QueueInv, NEW n \in InQueue
                 PROVE  /\ QnodeNextOf(n) \in InQueue
                        /\ QnodePrevOf(QnodeNextOf(n)) = n
                        /\ QnodeNextOf(QnodePrevOf(n)) = n
      BY DEF Ring
    <2>1. /\ qlen \in Nat /\ InQueue = {order[i] : i \in 1 .. qlen}
          /\ \A i \in 1 .. qlen : order[i] \in Nodes
          /\ \A i \in 1 .. qlen - 1 : /\ next[order[i]] = order[i + 1]
                                      /\ prev[order[i + 1]] = order[i]
      BY ListFacts DEF QueueInv
    <2>2. PICK i \in 1 .. qlen : n = order[i]
      BY <2>1
    <2>3. /\ 1 \in 1 .. qlen /\ elems = order[1] /\ prev[elems] = NIL
          /\ qlen \in 1 .. qlen /\ tail = order[qlen] /\ next[tail] = NIL
      BY <2>1, ListFacts DEF QueueInv
    <2>4. QnodeNextOf(n) \in InQueue /\ QnodePrevOf(QnodeNextOf(n)) = n
      <3>1. CASE i = qlen
        BY <3>1, <2>1, <2>2, <2>3 DEF QnodeNextOf, QnodePrevOf
      <3>2. CASE i < qlen
        <4>1. i \in 1 .. qlen - 1 /\ i + 1 \in 1 .. qlen
          BY <3>2, <2>1
        <4>2. next[n] = order[i + 1] /\ prev[order[i + 1]] = n /\ n /= NIL
              /\ order[i + 1] /= NIL
          BY <4>1, <2>1, <2>2, NilAssumption
        <4> QED  BY <4>1, <4>2, <2>1 DEF QnodeNextOf, QnodePrevOf
      <3> QED  BY <3>1, <3>2, <2>1
    <2>5. QnodeNextOf(QnodePrevOf(n)) = n
      <3>1. CASE i = 1
        BY <3>1, <2>1, <2>2, <2>3 DEF QnodeNextOf, QnodePrevOf
      <3>2. CASE i > 1
        <4>1. i - 1 \in 1 .. qlen - 1 /\ (i - 1) + 1 = i /\ i - 1 \in 1 .. qlen
          BY <3>2, <2>1
        <4>2. prev[n] = order[i - 1] /\ next[order[i - 1]] = n /\ n /= NIL
              /\ order[i - 1] /= NIL
          BY <4>1, <2>1, <2>2, NilAssumption
        <4> QED  BY <4>2 DEF QnodeNextOf, QnodePrevOf
      <3> QED  BY <3>1, <3>2, <2>1
    <2> QED  BY <2>4, <2>5
  <1> QED  BY <1>1, QueueInvariant, PTL

-----------------------------------------------------------------------------
(* The queue implements SmpFifo: a walk from the front meets its nodes in  *)
(* the order in which they entered.                                        *)
Queued == [k \in 1 .. qlen |-> Walk[k]]

LEMMA QueuedIs == QueueInv => Queued = order
  <1> SUFFICES ASSUME QueueInv PROVE Queued = order
    OBVIOUS
  <1>1. /\ qlen \in Nat /\ Len(order) = qlen /\ order \in Seq(Nodes)
        /\ \A i \in 1 .. qlen : order[i] \in Nodes /\ order[i] /= NIL
        /\ \A i \in 1 .. qlen - 1 : next[order[i]] = order[i + 1]
        /\ qlen = 0 => elems = NIL
        /\ qlen >= 1 => elems = order[1] /\ tail = order[qlen] /\ next[tail] = NIL
    BY ListFacts, NilAssumption DEF QueueInv
  <1>2. Chained(elems, next, NIL, order, qlen)
    <2>1. ASSUME NEW i \in 1 .. qlen
          PROVE  next[order[i]] = IF i = qlen THEN NIL ELSE order[i + 1]
      <3>1. CASE i = qlen
        BY <1>1, <3>1
      <3>2. CASE i /= qlen
        <4>1. i \in 1 .. qlen - 1
          BY <1>1, <3>2
        <4> QED  BY <1>1, <3>2, <4>1
      <3> QED  BY <3>1, <3>2
    <2> QED  BY <1>1, <2>1 DEF Chained
  <1>3. Walk = CHOOSE f : f = Walking(f, Nat, elems, next, NIL)
    BY DEF Walk, Walking, Onto
  <1>4. Walk = Walking(Walk, Nat, elems, next, NIL)
    BY <1>2, <1>3, WalkExists, StepsIn
  <1>5. \A k \in 1 .. qlen : Walk[k] = order[k]
    BY <1>1, <1>2, <1>4, WalkMeets, StepsIn
  <1>6. Queued = [k \in 1 .. qlen |-> order[k]]
    BY <1>5 DEF Queued
  <1> QED  BY <1>1, <1>6

LEMMA QueuedNext == ASSUME QueueInv' PROVE Queued' = order'
  <1>1. (QueueInv => Queued = order)'
    BY QueuedIs, PTL
  <1> QED  BY <1>1

LEMMA FifoStep ==
  ASSUME QueueInv, QueueInv', [Next]_vars
  PROVE  [Fifo!FNext]_(Fifo!fvars)
  <1>1. Queued = order /\ Queued' = order'
    BY QueuedIs, QueuedNext
  <1>2. /\ order \in Seq(Nodes) /\ qlen \in Nat /\ Len(order) = qlen
        /\ InQueue \union held \subseteq alloc /\ InQueue \cap held = {}
        /\ \A i \in DOMAIN order : order[i] \in InQueue
    BY ListFacts DEF QueueInv, NodesAccounted, InQueue
  <1>3. CASE \E n \in Nodes : QnodeCreate(n)
    <2>1. PICK n \in Nodes : QnodeCreate(n)
      BY <1>3
    <2>2. /\ \A i \in DOMAIN order : order[i] /= n
          /\ n \notin held /\ held' = held \union {n} /\ order' = order
      BY <1>2, <2>1 DEF QnodeCreate
    <2>3. Fifo!Own(n)
      BY <1>1, <2>2 DEF Fifo!Own, Fifo!InQ, Queued
    <2> QED  BY <2>3 DEF Fifo!FNext
  <1>4. CASE \E n \in Nodes : QnodeDestory(n)
    <2>1. PICK n \in Nodes : QnodeDestory(n)
      BY <1>4
    <2>2. Fifo!Disown(n)
      BY <1>1, <2>1 DEF QnodeDestory, listVars, Fifo!Disown, Queued
    <2> QED  BY <2>2 DEF Fifo!FNext
  <1>5. CASE \E n \in Nodes : Qenter(n) \/ Qinsert(n)
    <2>1. PICK n \in Nodes : Qenter(n) \/ Qinsert(n)
      BY <1>5
    <2>2. /\ \A i \in DOMAIN order : order[i] /= n
          /\ order' = Append(order, n) /\ held' = held \ {n}
      BY <1>2, <2>1 DEF Qenter, Qinsert, LinkLast
    <2>3. Fifo!Put(n)
      BY <1>1, <2>2 DEF Fifo!Put, Fifo!InQ, Queued
    <2> QED  BY <2>3 DEF Fifo!FNext
  <1>6. ASSUME CanRemove, UnlinkFirst
        PROVE  order /= <<>> /\ order' = Tail(order) /\ Head(order) = elems
    <2>1. qlen >= 1 /\ elems = order[1]
      BY <1>2, <1>6, ListFacts DEF CanRemove, QueueInv
    <2> QED  BY <1>2, <1>6, <2>1 DEF UnlinkFirst
  <1>7. CASE QnodeRemove
    <2>1. Fifo!Take
      BY <1>1, <1>6, <1>7 DEF QnodeRemove, Fifo!Take, Queued
    <2> QED  BY <2>1 DEF Fifo!FNext
  <1>8. CASE QnodeDelete \/ CleanNode
    <2>1. Fifo!Drop
      BY <1>1, <1>6, <1>8 DEF QnodeDelete, CleanNode, Fifo!Drop, Queued
    <2> QED  BY <2>1 DEF Fifo!FNext
  <1>9. CASE CleanForget
    <2>1. Fifo!Clear
      BY <1>1, <1>9 DEF CleanForget, Fifo!Clear, Queued
    <2> QED  BY <2>1 DEF Fifo!FNext
  <1>10. CASE \/ \E f \in BOOLEAN : QueueCreate(f)
              \/ QcleanBegin \/ QdestoryBegin \/ CleanEnd
              \/ TraversalBegin \/ TraversalNext \/ UNCHANGED vars
    <2>1. order' = order /\ held' = held
      BY <1>10 DEF QueueCreate, QcleanBegin, QdestoryBegin, CleanEnd, TraversalBegin,
                   TraversalNext, vars, listVars
    <2> QED  BY <1>1, <2>1 DEF Fifo!fvars, Queued
  <1> QED  BY <1>3, <1>4, <1>5, <1>7, <1>8, <1>9, <1>10 DEF Next

(* To its client the queue is first in, first out: no node is lost,        *)
(* repeated or overtaken, cleaning included.                               *)
THEOREM FifoImplemented == Spec => FifoRefined
  <1>1. Init => Fifo!FInit
    <2> SUFFICES ASSUME Init PROVE Fifo!FInit
      OBVIOUS
    <2>1. Queued = <<>>
      BY QueueInit, QueuedIs DEF Init
    <2> QED  BY <2>1 DEF Init, Fifo!FInit, Queued
  <1>2. QueueInv /\ QueueInv' /\ [Next]_vars => [Fifo!FNext]_(Fifo!fvars)
    BY FifoStep
  <1> QED  BY <1>1, <1>2, QueueInvariant, PTL DEF Spec, FifoRefined, Fifo!FSpec
=============================================================================
