------------------------------ MODULE SmpLink ------------------------------
(***************************************************************************)
(* The link of smp_stl/smp_link/smp_link.c: a doubly linked list whose     *)
(* nodes are carved from a pool of its own and, once taken out, kept as    *)
(* spares for the next insertion; and its traversal, with visitors that    *)
(* change the link while it runs.                                          *)
(*                                                                         *)
(* The pool is SmpPool's business: here it gives nodes until Nodes are     *)
(* used, and takes them back all at once.  Calls with NULL arguments, and  *)
(* those that fail for want of memory, change nothing and are left out.    *)
(* So is link->quotes, which nothing reads.                                *)
(***************************************************************************)
EXTENDS Integers, Sequences, FiniteSets

CONSTANTS
  Nodes,  (* bound: the addresses the pool can give nodes *)
  Data,   (* what the client stores; equal ones compare SMP_CMP_EQUAL *)
  Dirty,  (* whether the memory of a new pool can hold anything but zeros *)
  WILD,   (* a pointer to no node, as memory not written yet may hold *)
  NIL     (* the null pointer *)

ASSUME LinkAssumption ==
  /\ NIL \notin Nodes /\ WILD \notin Nodes /\ NIL /= WILD
  /\ NIL \notin Data
  /\ IsFiniteSet(Nodes)
  /\ Dirty \in BOOLEAN

VARIABLES
  phase,    (* "none", "live", or "destory" while smp_link_destory runs *)
  dataFree, (* whether free_func was given to smp_link_init *)
  node,     (* link->node, the first *)
  tail,     (* link->tail *)
  size,     (* link->size *)
  recover,  (* link->recover, the first spare *)
  prev,     (* prev of every node *)
  next,     (* next of every node *)
  data,     (* data of every node *)
  used,     (* the nodes carved from the pool *)
  taken,    (* what the last call to take a datum returned *)
  at,       (* node of the traversal under way, NIL if there is none *)
  order,    (* history: the nodes of the link in the order they entered *)
  spares,   (* history: the nodes taken out, the latest first *)
  peak,     (* history: the greatest size this link has had *)
  seen      (* history: the nodes of the link the traversal has visited *)

linkVars == <<node, tail, size, recover, prev, next, data, used, order, spares, peak>>
vars == <<phase, dataFree, linkVars, taken, at, seen>>

(* The operators named Mutant... are not part of the specification: each is *)
(* what the definition after it would be with a plausible mistake in the   *)
(* code, and shows that a property can tell.                               *)

Init == /\ phase = "none"
        /\ dataFree = FALSE
        /\ node = NIL /\ tail = NIL /\ size = 0 /\ recover = NIL
        /\ prev = [n \in Nodes |-> NIL]
        /\ next = [n \in Nodes |-> NIL]
        /\ data = [n \in Nodes |-> NIL]
        /\ used = {} /\ order = <<>> /\ spares = <<>> /\ peak = 0
        /\ taken = NIL
        /\ at = NIL /\ seen = {}

(* A link without nodes, in a pool without nodes. *)
Emptied == /\ node' = NIL /\ tail' = NIL /\ size' = 0
           /\ prev' = [n \in Nodes |-> NIL]
           /\ next' = [n \in Nodes |-> NIL]
           /\ data' = [n \in Nodes |-> NIL]
           /\ used' = {} /\ order' = <<>> /\ spares' = <<>> /\ peak' = 0
           /\ seen' = {}

(***************************************************************************)
(* smp_link_init and __smp_link_init, which writes every field of the link *)
(* but recover: that one holds what was in the pool's memory.              *)
(***************************************************************************)
LinkInit(f) ==
  /\ phase = "none"
  /\ phase' = "live"
  /\ dataFree' = f
  /\ Emptied
  /\ recover' \in IF Dirty THEN {NIL, WILD} ELSE {NIL}
  /\ UNCHANGED <<taken, at>>

MutantLnodeCreate(n) == /\ n \notin used
                        /\ recover' = recover
                        /\ spares' = spares

(***************************************************************************)
(* smp_lnode_create: the first spare, or a node of the pool.  What happens *)
(* when recover is WILD is undefined, and not modelled.                    *)
(***************************************************************************)
LnodeCreate(n) ==
  \/ /\ recover = n
     /\ recover' = next[n]
     /\ spares' = Tail(spares)
  \/ /\ recover = NIL
     /\ n \notin used
     /\ UNCHANGED <<recover, spares>>

MutantLinkLast(n) ==
  /\ node' = IF node = NIL THEN n ELSE node
  /\ prev' = [prev EXCEPT ![n] = NIL]
  /\ next' = [m \in Nodes |-> IF m = n THEN NIL ELSE IF m = tail THEN n ELSE next[m]]
  /\ tail' = n

(***************************************************************************)
(* The pointers __smp_link_insert writes.                                  *)
(***************************************************************************)
LinkLast(n) ==
  \/ /\ node = NIL
     /\ node' = n
     /\ tail' = n
     /\ prev' = [prev EXCEPT ![n] = IF n \in used THEN @ ELSE NIL]
     /\ next' = [next EXCEPT ![n] = NIL]
  \/ /\ node /= NIL
     /\ tail' = n
     /\ prev' = [prev EXCEPT ![n] = tail]
     /\ next' = [next EXCEPT ![n] = NIL, ![tail] = n]
     /\ UNCHANGED node

LinkInsert(n, x) ==
  /\ phase = "live"
  /\ LnodeCreate(n)
  /\ LinkLast(n)
  /\ data' = [data EXCEPT ![n] = x]
  /\ size' = size + 1
  /\ used' = used \union {n}
  /\ order' = Append(order, n)
  /\ peak' = IF size + 1 > peak THEN size + 1 ELSE peak
  /\ UNCHANGED <<phase, dataFree, taken, at, seen>>

(***************************************************************************)
(* smp_link_rm_node, and smp_link_node_recover, which puts n in front of   *)
(* the spares.  The neighbours of n are written first, then n itself.      *)
(***************************************************************************)
MutantRmFirst(n) == /\ n = node
                    /\ node' = next[n]
                    /\ tail' = IF next[n] = NIL THEN NIL ELSE tail
                    /\ next' = [next EXCEPT ![n] = NIL]
                    /\ prev' = [m \in Nodes |-> IF m \in {n, next[n]} THEN NIL ELSE prev[m]]

RmFirst(n) == /\ n = node
              /\ node' = next[n]
              /\ tail' = IF next[n] = NIL THEN NIL ELSE tail
              /\ next' = [next EXCEPT ![n] = recover]
              /\ prev' = [m \in Nodes |-> IF m \in {n, next[n]} THEN NIL ELSE prev[m]]

RmLast(n) == /\ n /= node /\ n = tail
             /\ tail' = prev[n]
             /\ next' = [next EXCEPT ![prev[n]] = NIL, ![n] = recover]
             /\ prev' = [prev EXCEPT ![n] = NIL]
             /\ UNCHANGED node

RmMiddle(n) == /\ n /= node /\ n /= tail
               /\ next' = [next EXCEPT ![prev[n]] = next[n], ![n] = recover]
               /\ prev' = [prev EXCEPT ![next[n]] = prev[n], ![n] = NIL]
               /\ UNCHANGED <<node, tail>>

(* The sequence s without n, its only one. *)
Without(s, n) ==
  [i \in 1 .. Len(s) - 1 |-> IF \E j \in 1 .. i : s[j] = n THEN s[i + 1] ELSE s[i]]

MutantRmNode(n) ==
  /\ RmFirst(n) \/ RmLast(n) \/ RmMiddle(n)
  /\ size' = size - 1
  /\ data' = [data EXCEPT ![n] = NIL]
  /\ taken' = data'[n]
  /\ recover' = n
  /\ order' = Without(order, n)
  /\ spares' = <<n>> \o spares
  /\ seen' = seen \ {n}
  /\ UNCHANGED <<phase, dataFree, used, peak, at>>

(* A visitor must not take out the node it visits: the traversal reads its *)
(* next when the visitor returns.                                          *)
RmNode(n) ==
  /\ RmFirst(n) \/ RmLast(n) \/ RmMiddle(n)
  /\ size' = size - 1
  /\ taken' = data[n]
  /\ data' = [data EXCEPT ![n] = NIL]
  /\ recover' = n
  /\ order' = Without(order, n)
  /\ spares' = <<n>> \o spares
  /\ seen' = seen \ {n}
  /\ UNCHANGED <<phase, dataFree, used, peak, at>>

NotVisited(n) == at /= n

TakeNothing == taken' = NIL /\ UNCHANGED <<phase, dataFree, linkVars, at, seen>>

(* smp_link_node_rm_athead and smp_link_node_rm_attail. *)
RmAthead == /\ phase = "live"
            /\ \/ node = NIL /\ TakeNothing
               \/ node /= NIL /\ NotVisited(node) /\ RmNode(node)

MutantRmAttail == /\ phase = "live"
                  /\ \/ tail = NIL /\ TakeNothing
                     \/ tail /= NIL /\ NotVisited(node) /\ RmNode(node)

RmAttail == /\ phase = "live"
            /\ \/ tail = NIL /\ TakeNothing
               \/ tail /= NIL /\ NotVisited(tail) /\ RmNode(tail)

(* The k-th node from the first, and how many there are before the end. *)
Walk[k \in Nat] == IF k <= 1 THEN node
                   ELSE IF Walk[k - 1] = NIL THEN NIL ELSE next[Walk[k - 1]]

Steps == {k \in 1 .. Cardinality(Nodes) : Walk[k] /= NIL}

(* The search of smp_link_node_rm stops at the k-th node. *)
Found(k, x) == /\ k \in Steps
               /\ data[Walk[k]] = x
               /\ \A j \in 1 .. k - 1 : data[Walk[j]] /= x

NodeRm(x) == /\ phase = "live"
             /\ \/ (\A k \in Steps : data[Walk[k]] /= x) /\ TakeNothing
                \/ \E k \in Steps : /\ Found(k, x)
                                    /\ NotVisited(Walk[k])
                                    /\ RmNode(Walk[k])

(***************************************************************************)
(* smp_link_traversal.  The visitor runs between two steps.                *)
(***************************************************************************)
TraversalBegin ==
  /\ phase = "live" /\ at = NIL /\ node /= NIL
  /\ at' = node
  /\ seen' = {}
  /\ UNCHANGED <<phase, dataFree, linkVars, taken>>

MutantTraversalNext ==
  /\ at /= NIL
  /\ at' = IF next[at] = tail THEN NIL ELSE next[at]
  /\ seen' = seen \union {at}
  /\ UNCHANGED <<phase, dataFree, linkVars, taken>>

TraversalNext ==
  /\ at /= NIL
  /\ at' = next[at]
  /\ seen' = seen \union {at}
  /\ UNCHANGED <<phase, dataFree, linkVars, taken>>

(***************************************************************************)
(* smp_link_destory: a traversal with data_free, if there is one, and then *)
(* the pool goes with all the nodes.                                       *)
(***************************************************************************)
DestoryBegin ==
  /\ phase = "live" /\ at = NIL
  /\ phase' = "destory"
  /\ at' = IF dataFree THEN node ELSE NIL
  /\ seen' = {}
  /\ UNCHANGED <<dataFree, linkVars, taken>>

DestoryEnd ==
  /\ phase = "destory" /\ at = NIL
  /\ phase' = "none"
  /\ Emptied
  /\ recover' = NIL
  /\ UNCHANGED <<dataFree, taken, at>>

Next == \/ \E f \in BOOLEAN : LinkInit(f)
        \/ \E n \in Nodes, x \in Data : LinkInsert(n, x)
        \/ RmAthead \/ RmAttail
        \/ \E x \in Data : NodeRm(x)
        \/ TraversalBegin \/ TraversalNext
        \/ DestoryBegin \/ DestoryEnd

Spec == Init /\ [][Next]_vars
-----------------------------------------------------------------------------
(***************************************************************************)
(* Properties.                                                             *)
(***************************************************************************)

InLink == {order[i] : i \in DOMAIN order}

(* Every variable has its type. *)
TypeOK ==
  /\ phase \in {"none", "live", "destory"}
  /\ dataFree \in BOOLEAN
  /\ {node, tail, at} \subseteq Nodes \union {NIL}
  /\ recover \in Nodes \union {NIL, WILD}
  /\ size \in Nat /\ peak \in Nat
  /\ prev \in [Nodes -> Nodes \union {NIL}]
  /\ next \in [Nodes -> Nodes \union {NIL}]
  /\ data \in [Nodes -> Data \union {NIL}]
  /\ used \subseteq Nodes /\ seen \subseteq Nodes
  /\ taken \in Data \union {NIL}
  /\ order \in Seq(Nodes) /\ spares \in Seq(Nodes)

(***************************************************************************)
(* The pointers, both ends and the size agree, in both directions, with    *)
(* the nodes that entered and were not taken out, and each holds a datum.  *)
(***************************************************************************)
Linked ==
  /\ size = Len(order)
  /\ order = <<>> => node = NIL /\ tail = NIL
  /\ order /= <<>> => /\ node = order[1] /\ prev[node] = NIL
                       /\ tail = order[Len(order)] /\ next[tail] = NIL
  /\ \A i \in 1 .. Len(order) - 1 : /\ next[order[i]] = order[i + 1]
                                   /\ prev[order[i + 1]] = order[i]
  /\ \A n \in InLink : data[n] \in Data

(***************************************************************************)
(* link->recover is the chain of the nodes taken out ("recovered nodes of  *)
(* the queue", smp_link.h:22), the latest first, each cleared.  A node     *)
(* carved from the pool is in the link or in that chain, never both.       *)
(***************************************************************************)
SparesApart ==
  /\ recover = IF spares = <<>> THEN NIL ELSE spares[1]
  /\ \A i \in DOMAIN spares :
       /\ next[spares[i]] = IF i = Len(spares) THEN NIL ELSE spares[i + 1]
       /\ prev[spares[i]] = NIL /\ data[spares[i]] = NIL
       /\ spares[i] \notin InLink
       /\ \A j \in DOMAIN spares : spares[i] = spares[j] => i = j
  /\ used = InLink \union {spares[i] : i \in DOMAIN spares}

(***************************************************************************)
(* The pool gives a node only when no spare is left: the memory a link     *)
(* takes is that of its greatest size, however often nodes come and go.    *)
(***************************************************************************)
UsesPeak == Cardinality(used) = peak

(***************************************************************************)
(* A traversal that ends, smp_link_destory's with data_free included, has  *)
(* visited every node then in the link, whatever its visitors added or     *)
(* took out; and until then exactly the nodes before the one it is at.     *)
(***************************************************************************)
VisitsAll ==
  [][at /= NIL => IF at' = NIL THEN seen' = InLink
                  ELSE \E i \in DOMAIN order' : /\ order'[i] = at'
                                                /\ seen' = {order'[j] : j \in 1 .. i - 1}]_vars

Deque == INSTANCE SmpDeque WITH
  NONE <- NIL,
  d <- [k \in 1 .. size |-> data[Walk[k]]]

(* The data a walk meets, and what each call returns, are those of a       *)
(* sequence with two ends.                                                 *)
DequeRefined == Deque!DSpec

(***************************************************************************)
(* And each call takes where its name says: smp_link_node_rm_athead the    *)
(* datum inserted first of those still there, smp_link_node_rm_attail the  *)
(* last, smp_link_node_rm the first that is equal; nothing, and NULL given *)
(* back, only when there is none.                                          *)
(***************************************************************************)
CallsTakeTheirs ==
  [][/\ \A n \in Nodes, x \in Data : LinkInsert(n, x) => Deque!Insert(x)
     /\ RmAthead => Deque!TakeFirst
     /\ RmAttail => Deque!TakeLast
     /\ \A x \in Data : NodeRm(x) => Deque!TakeEqual(x)]_vars
=============================================================================
