------------------------------ MODULE SmpQueue ------------------------------
(***************************************************************************)
(* The queue of smp_stl/smp_queue/smp_queue.c, one user's view of it: a    *)
(* doubly linked list of nodes the client owns until they enter it and     *)
(* again once they leave it, with a front, a rear and a length.  How       *)
(* several users share a queue is SmpQueueShare.                           *)
(*                                                                         *)
(* A node stands for the struct smp_queue_node_s that its link is part of, *)
(* so smp_cnt_qnode is the identity on what the model calls a node.  The   *)
(* data of a node is the client's business, and its free_qdata with it.    *)
(* Calls with NULL arguments return at once and are left out, as are calls *)
(* that fail for want of memory, which change nothing.                     *)
(***************************************************************************)
EXTENDS Integers, Sequences

CONSTANTS
  Nodes, (* bound: the addresses the heap can give nodes *)
  NIL    (* the null pointer *)

ASSUME NilAssumption == NIL \notin Nodes

VARIABLES
  phase,    (* "none", "live", or "clean" or "destory" while those run *)
  freeNode, (* whether free_qnode was given to smp_queue_create *)
  elems,    (* queue->elems, the front *)
  tail,     (* queue->tail *)
  qlen,     (* queue->qlen *)
  prev,     (* link.prev of every node *)
  next,     (* link.next of every node *)
  alloc,    (* heap: the nodes that are allocated *)
  at,       (* node_cnt of the traversal under way, NIL if there is none *)
  order,    (* history: the nodes in the queue in the order they entered *)
  held,     (* history: the nodes the client has outside the queue *)
  dropped,  (* history: the nodes smp_qclean let go without freeing them *)
  seen      (* history: the nodes of the queue the traversal has visited *)

listVars == <<elems, tail, qlen, prev, next, order>>
vars == <<phase, freeNode, listVars, alloc, at, held, dropped, seen>>

Init == /\ phase = "none"
        /\ freeNode = FALSE
        /\ elems = NIL /\ tail = NIL /\ qlen = 0
        /\ prev = [n \in Nodes |-> NIL]
        /\ next = [n \in Nodes |-> NIL]
        /\ alloc = {}
        /\ at = NIL
        /\ order = <<>>
        /\ held = {} /\ dropped = {} /\ seen = {}

(* The operators named Mutant... are not part of the specification: each is *)
(* what the definition after it would be with a plausible mistake in the   *)
(* code, and shows that a property can tell.                               *)

(* smp_qnode_next and smp_qnode_prev, which go round the ends. *)
QnodeNextOf(n) == IF next[n] = NIL THEN elems ELSE next[n]

QnodePrevOf(n) == IF prev[n] = NIL THEN tail ELSE prev[n]

(***************************************************************************)
(* smp_queue_create and smp_qinit.                                         *)
(***************************************************************************)
QueueCreate(f) ==
  /\ phase = "none"
  /\ phase' = "live"
  /\ freeNode' = f
  /\ elems' = NIL /\ tail' = NIL /\ qlen' = 0
  /\ UNCHANGED <<prev, next, order, alloc, at, held, dropped, seen>>

(***************************************************************************)
(* smp_qnode_create and smp_qnode_destory.                                 *)
(***************************************************************************)
QnodeCreate(n) ==
  /\ n \notin alloc
  /\ alloc' = alloc \union {n}
  /\ held' = held \union {n}
  /\ prev' = [prev EXCEPT ![n] = NIL]
  /\ next' = [next EXCEPT ![n] = NIL]
  /\ UNCHANGED <<phase, freeNode, elems, tail, qlen, order, at, dropped, seen>>

QnodeDestory(n) ==
  /\ n \in held
  /\ alloc' = alloc \ {n}
  /\ held' = held \ {n}
  /\ UNCHANGED <<phase, freeNode, listVars, at, dropped, seen>>

MutantLinkFirst(n) ==
  /\ next' = [next EXCEPT ![n] = elems]
  /\ prev' = [x \in Nodes |-> IF x = n THEN NIL ELSE IF x = elems THEN n ELSE prev[x]]
  /\ elems' = n
  /\ tail' = IF tail = NIL THEN n ELSE tail
  /\ qlen' = qlen + 1
  /\ order' = Append(order, n)

MutantLinkBackOnly(n) ==
  /\ elems' = IF qlen = 0 /\ elems = NIL THEN n ELSE elems
  /\ prev' = [prev EXCEPT ![n] = tail]
  /\ next' = [next EXCEPT ![n] = NIL]
  /\ tail' = n
  /\ qlen' = qlen + 1
  /\ order' = Append(order, n)

(***************************************************************************)
(* The links smp_qenter writes: n becomes the rear.                        *)
(***************************************************************************)
LinkLast(n) ==
  /\ \/ /\ qlen = 0 /\ elems = NIL
        /\ elems' = n
        /\ prev' = [prev EXCEPT ![n] = NIL]
        /\ next' = [next EXCEPT ![n] = NIL]
     \/ /\ ~(qlen = 0 /\ elems = NIL)
        /\ prev' = [prev EXCEPT ![n] = tail]
        /\ next' = [next EXCEPT ![tail] = n, ![n] = NIL]
        /\ UNCHANGED elems
  /\ tail' = n
  /\ qlen' = qlen + 1
  /\ order' = Append(order, n)

Qenter(n) ==
  /\ phase = "live"
  /\ n \in held
  /\ LinkLast(n)
  /\ held' = held \ {n}
  /\ UNCHANGED <<phase, freeNode, alloc, at, dropped, seen>>

(* smp_qinsert: a node is made and enters at once. *)
Qinsert(n) ==
  /\ phase = "live"
  /\ n \notin alloc
  /\ alloc' = alloc \union {n}
  /\ LinkLast(n)
  /\ UNCHANGED <<phase, freeNode, at, held, dropped, seen>>

(***************************************************************************)
(* The links smp_qnode_remove writes: the front leaves.                    *)
(***************************************************************************)
CanRemove == elems /= NIL /\ qlen /= 0

MutantFirstKeepsPrev ==
  /\ prev' = [prev EXCEPT ![elems] = NIL]
  /\ next' = [next EXCEPT ![elems] = NIL]

FirstUnlinked ==
  /\ prev' = IF tail = elems THEN [prev EXCEPT ![elems] = NIL]
             ELSE [prev EXCEPT ![next[elems]] = NIL, ![elems] = NIL]
  /\ next' = [next EXCEPT ![elems] = NIL]

UnlinkFirst ==
  /\ FirstUnlinked
  /\ elems' = IF tail = elems THEN NIL ELSE next[elems]
  /\ tail' = IF tail = elems THEN NIL ELSE tail
  /\ qlen' = qlen - 1
  /\ order' = Tail(order)
  /\ seen' = seen \ {elems}

(* A visitor must not take the node it is visiting out of the queue: the   *)
(* traversal reads its next when the visitor returns.                      *)
NotVisited == at = NIL \/ at /= elems

QnodeRemove ==
  /\ phase = "live" /\ CanRemove /\ NotVisited
  /\ UnlinkFirst
  /\ held' = held \union {elems}
  /\ UNCHANGED <<phase, freeNode, alloc, at, dropped>>

MutantDeleteInPlace ==
  /\ phase = "live" /\ CanRemove /\ NotVisited
  /\ alloc' = alloc \ {elems}
  /\ UNCHANGED <<phase, freeNode, listVars, at, held, dropped, seen>>

QnodeDelete ==
  /\ phase = "live" /\ CanRemove /\ NotVisited
  /\ UnlinkFirst
  /\ alloc' = alloc \ {elems}
  /\ UNCHANGED <<phase, freeNode, at, held, dropped>>

(***************************************************************************)
(* smp_qclean, and smp_qdestory by the last user, which cleans the queue   *)
(* and frees it.  With a free_qnode each node is removed and freed; with   *)
(* none the front is removed and all the nodes are let go.                 *)
(***************************************************************************)
InQueue == {order[i] : i \in DOMAIN order}

QcleanBegin ==
  /\ phase = "live" /\ at = NIL
  /\ phase' = "clean"
  /\ UNCHANGED <<freeNode, listVars, alloc, at, held, dropped, seen>>

QdestoryBegin ==
  /\ phase = "live" /\ at = NIL
  /\ phase' = "destory"
  /\ UNCHANGED <<freeNode, listVars, alloc, at, held, dropped, seen>>

Cleaned == /\ elems' = NIL /\ tail' = NIL /\ qlen' = 0
           /\ phase' = IF phase = "clean" THEN "live" ELSE "none"

CleanNode ==
  /\ phase \in {"clean", "destory"} /\ CanRemove /\ freeNode
  /\ UnlinkFirst
  /\ alloc' = alloc \ {elems}
  /\ UNCHANGED <<phase, freeNode, at, held, dropped>>

CleanForget ==
  /\ phase \in {"clean", "destory"} /\ CanRemove /\ ~freeNode
  /\ FirstUnlinked
  /\ Cleaned
  /\ order' = <<>>
  /\ dropped' = dropped \union InQueue
  /\ UNCHANGED <<freeNode, alloc, at, held, seen>>

CleanEnd ==
  /\ phase \in {"clean", "destory"} /\ ~CanRemove
  /\ Cleaned
  /\ UNCHANGED <<freeNode, prev, next, order, alloc, at, held, dropped, seen>>

(***************************************************************************)
(* smp_queue_traversal and smp_qnode_traversal.  The visitor runs between  *)
(* two steps of the traversal and may call the queue's operations.         *)
(***************************************************************************)
TraversalBegin ==
  /\ phase = "live" /\ at = NIL /\ CanRemove
  /\ at' = elems
  /\ seen' = {}
  /\ UNCHANGED <<phase, freeNode, listVars, alloc, held, dropped>>

MutantTraversalRing ==
  /\ at /= NIL
  /\ at' = QnodeNextOf(at)
  /\ seen' = seen \union {at}
  /\ UNCHANGED <<phase, freeNode, listVars, alloc, held, dropped>>

TraversalNext ==
  /\ at /= NIL
  /\ at' = next[at]
  /\ seen' = seen \union {at}
  /\ UNCHANGED <<phase, freeNode, listVars, alloc, held, dropped>>

Next == \/ \E f \in BOOLEAN : QueueCreate(f)
        \/ \E n \in Nodes : \/ QnodeCreate(n) \/ QnodeDestory(n)
                            \/ Qenter(n) \/ Qinsert(n)
        \/ QnodeRemove \/ QnodeDelete
        \/ QcleanBegin \/ QdestoryBegin \/ CleanNode \/ CleanForget \/ CleanEnd
        \/ TraversalBegin \/ TraversalNext

Spec == Init /\ [][Next]_vars
-----------------------------------------------------------------------------
(***************************************************************************)
(* Properties.                                                             *)
(***************************************************************************)

(* Every variable has its type. *)
TypeOK ==
  /\ phase \in {"none", "live", "clean", "destory"}
  /\ freeNode \in BOOLEAN
  /\ elems \in Nodes \union {NIL}
  /\ tail \in Nodes \union {NIL}
  /\ qlen \in Nat
  /\ prev \in [Nodes -> Nodes \union {NIL}]
  /\ next \in [Nodes -> Nodes \union {NIL}]
  /\ alloc \subseteq Nodes
  /\ at \in Nodes \union {NIL}
  /\ order \in Seq(Nodes)
  /\ held \subseteq Nodes
  /\ dropped \subseteq Nodes
  /\ seen \subseteq Nodes

(***************************************************************************)
(* The links, the two ends and the length agree, in both directions, with  *)
(* the nodes that entered and have not left, in that order: what one walk  *)
(* or counter says, the others do.                                         *)
(***************************************************************************)
Linked ==
  /\ qlen = Len(order)
  /\ order = <<>> => elems = NIL /\ tail = NIL
  /\ order /= <<>> => /\ elems = order[1] /\ prev[elems] = NIL
                       /\ tail = order[Len(order)] /\ next[tail] = NIL
  /\ \A i \in 1 .. Len(order) - 1 : /\ next[order[i]] = order[i + 1]
                                   /\ prev[order[i + 1]] = order[i]

(***************************************************************************)
(* Each allocated node is in exactly one place: once in the queue, with    *)
(* the client, or let go by smp_qclean.  The queue never holds a freed one.*)
(***************************************************************************)
NodesAccounted ==
  /\ alloc = InQueue \union held \union dropped
  /\ InQueue \intersect held = {}
  /\ InQueue \intersect dropped = {}
  /\ held \intersect dropped = {}
  /\ \A i, j \in DOMAIN order : order[i] = order[j] => i = j

(***************************************************************************)
(* A traversal stands at a node of the queue, has visited all those before *)
(* it and none from it on, and has visited all of them when it ends:       *)
(* whatever its visitors add or remove, none is missed or seen twice.      *)
(***************************************************************************)
TraversalInOrder ==
  at /= NIL => \E i \in DOMAIN order :
                 order[i] = at /\ seen = {order[j] : j \in 1 .. i - 1}

VisitsAll == [][at /= NIL /\ at' = NIL => seen' = InQueue]_vars

(* To a client that steps through the queue with smp_qnode_next and        *)
(* smp_qnode_prev it is a ring: the two undo each other, and lead from any *)
(* node of the queue to another.                                           *)
Ring ==
  \A n \in InQueue : /\ QnodeNextOf(n) \in InQueue
                     /\ QnodePrevOf(QnodeNextOf(n)) = n
                     /\ QnodeNextOf(QnodePrevOf(n)) = n

(***************************************************************************)
(* The nodes a walk from the front meets, as many as smp_qlen says, are a  *)
(* first-in first-out queue.                                               *)
(***************************************************************************)
Walk[k \in Nat] == IF k <= 1 THEN elems
                   ELSE IF Walk[k - 1] = NIL THEN NIL ELSE next[Walk[k - 1]]

Fifo == INSTANCE SmpFifo WITH q <- [k \in 1 .. qlen |-> Walk[k]]

FifoRefined == Fifo!FSpec
=============================================================================
