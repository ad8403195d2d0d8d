------------------------------ MODULE SmpStack ------------------------------
(***************************************************************************)
(* The stack of smp_stl/smp_stack/smp_stack.c: a chain of nodes, with a    *)
(* limit or without, that hands its nodes over when they are popped and    *)
(* uses those it gets back before it asks its pool for more.               *)
(*                                                                         *)
(* The client gives each node it has popped back at most once, and none    *)
(* other; without an appoint function it writes the datum itself.  Calls   *)
(* with NULL arguments change nothing and are left out.  Limits are below  *)
(* 2^31, and so is the number of nodes: smp_stack_filled compares them as  *)
(* the ints that smp_stack_size and smp_stack_length make of them.         *)
(***************************************************************************)
EXTENDS Integers, Sequences, FiniteSets, SmpAddress

CONSTANTS
  Data,          (* what the client stores *)
  BLANK,         (* what a node holds before a push has written it *)
  MaxStackNodes, (* bound: the nodes the pool can give *)
  MaxStackSize   (* bound: the limits a stack may be given *)

ASSUME StackAssumption == /\ MaxStackNodes \in Nat /\ MaxStackSize \in Nat
                          /\ BLANK \notin Data

UNLIMITED == 0  (* SMP_STACK_UNLIMITED *)
StackNodes == 1 .. MaxStackNodes

VARIABLES
  stackPhase, (* "none" or "live" *)
  size,       (* stack->size, the limit *)
  currSize,   (* stack->curr_size *)
  top,        (* stack->top *)
  idel,       (* stack->idel, the first node to use again *)
  below,      (* below of every node *)
  datum,      (* data of every node *)
  carved,     (* how many nodes the pool has given *)
  answer,     (* what the last call answered *)
  popped,     (* history: the nodes the client holds *)
  most        (* history: the most nodes in the stack and with the client *)

stackVars == <<stackPhase, size, currSize, top, idel, below, datum, carved, answer, popped, most>>

(* For operators named Mutant..., see SmpArray. *)

StackInit == /\ stackPhase = "none"
             /\ size = UNLIMITED /\ currSize = 0
             /\ top = NULL /\ idel = NULL
             /\ below = [n \in StackNodes |-> NULL]
             /\ datum = [n \in StackNodes |-> BLANK]
             /\ carved = 0 /\ answer = "none"
             /\ popped = {} /\ most = 0

(* No node anywhere: a new stack, or one gone with its pool. *)
NoNodes == /\ currSize' = 0 /\ top' = NULL /\ idel' = NULL
           /\ below' = [n \in StackNodes |-> NULL]
           /\ datum' = [n \in StackNodes |-> BLANK]
           /\ carved' = 0 /\ popped' = {} /\ most' = 0

(* smp_stack_init and __smp_stack_init. *)
StackCreate(limit) ==
  /\ stackPhase = "none"
  /\ stackPhase' = "live"
  /\ size' = limit
  /\ answer' = "ok"
  /\ NoNodes

StackFilled == size /= UNLIMITED /\ currSize >= size

StackEmpty == currSize = 0 \/ top = NULL

(***************************************************************************)
(* smp_stack_node_create: the first idle node, cleared, or one of the      *)
(* pool.  What a new node holds is not cleared, but written at once.       *)
(***************************************************************************)
MutantStackNode(n) == n = carved + 1 /\ n \in StackNodes /\ carved' = n /\ idel' = idel

StackNode(n) ==
  \/ /\ idel /= NULL
     /\ n = idel
     /\ idel' = below[n]
     /\ UNCHANGED carved
  \/ /\ idel = NULL
     /\ n = carved + 1
     /\ carved' = n
     /\ UNCHANGED idel

(* smp_stack_push of x. *)
StackPush(n, x) ==
  /\ stackPhase = "live"
  /\ ~StackFilled
  /\ StackNode(n)
  /\ datum' = [datum EXCEPT ![n] = x]
  /\ below' = [below EXCEPT ![n] = top]
  /\ top' = n
  /\ currSize' = currSize + 1
  /\ answer' = "ok"
  /\ most' = LET out == currSize + 1 + Cardinality(popped) IN IF out > most THEN out ELSE most
  /\ UNCHANGED <<stackPhase, size, popped>>

(* A push that is refused: the stack is filled, or there is no idle node   *)
(* and the pool gives none.                                                *)
StackRefuse ==
  /\ stackPhase = "live"
  /\ \/ StackFilled /\ answer' = "filled"
     \/ ~StackFilled /\ idel = NULL /\ answer' = "none"
  /\ UNCHANGED <<stackPhase, size, currSize, top, idel, below, datum, carved, popped, most>>

MutantStackPop ==
  /\ stackPhase = "live"
  /\ ~StackEmpty
  /\ top' = below[top]
  /\ currSize' = currSize - 1
  /\ answer' = datum[top]
  /\ idel' = top
  /\ below' = [below EXCEPT ![top] = idel]
  /\ popped' = popped \union {top}
  /\ UNCHANGED <<stackPhase, size, datum, carved, most>>

StackPop ==
  /\ stackPhase = "live"
  /\ ~StackEmpty
  /\ top' = below[top]
  /\ below' = [below EXCEPT ![top] = NULL]
  /\ currSize' = currSize - 1
  /\ answer' = datum[top]
  /\ popped' = popped \union {top}
  /\ UNCHANGED <<stackPhase, size, idel, datum, carved, most>>

StackPopNone ==
  /\ stackPhase = "live"
  /\ StackEmpty
  /\ answer' = "none"
  /\ UNCHANGED <<stackPhase, size, currSize, top, idel, below, datum, carved, popped, most>>

(* smp_stack_recover. *)
StackRecover(n) ==
  /\ n \in popped
  /\ below' = [below EXCEPT ![n] = idel]
  /\ idel' = n
  /\ popped' = popped \ {n}
  /\ UNCHANGED <<stackPhase, size, currSize, top, datum, carved, answer, most>>

(* smp_stack_destory: all nodes go with the pool. *)
StackDestory ==
  /\ stackPhase = "live"
  /\ stackPhase' = "none"
  /\ size' = UNLIMITED
  /\ answer' = "ok"
  /\ NoNodes

StackNext == \/ \E limit \in 0 .. MaxStackSize : StackCreate(limit)
             \/ \E n \in StackNodes, x \in Data : StackPush(n, x)
             \/ StackRefuse
             \/ StackPop \/ StackPopNone
             \/ \E n \in StackNodes : StackRecover(n)
             \/ StackDestory

StackSpec == StackInit /\ [][StackNext]_stackVars
-----------------------------------------------------------------------------
(***************************************************************************)
(* Properties.                                                             *)
(***************************************************************************)

(* Every variable has its type. *)
StackTypeOK ==
  /\ stackPhase \in {"none", "live"}
  /\ size \in Nat /\ currSize \in Nat /\ carved \in Nat /\ most \in Nat
  /\ {top, idel} \subseteq StackNodes \union {NULL}
  /\ below \in [StackNodes -> StackNodes \union {NULL}]
  /\ datum \in [StackNodes -> Data \union {BLANK}]
  /\ answer \in Data \union {"ok", "filled", "none"}
  /\ popped \subseteq StackNodes

(* The k-th node of the chain that begins with n, or NULL after its end. *)
Chain(n) == LET at[k \in 1 .. MaxStackNodes + 1] ==
                  IF k = 1 THEN n ELSE IF at[k - 1] = NULL THEN NULL ELSE below[at[k - 1]]
            IN at

InChain(n) == {Chain(n)[k] : k \in 1 .. MaxStackNodes + 1} \ {NULL}

(***************************************************************************)
(* Each node the pool has given is in the stack, idle, or with the client, *)
(* and in one of them only; both chains end, the stack's after curr_size   *)
(* nodes.  The pool is asked only when no node is idle: it has given as    *)
(* many as were ever in use at a time.                                     *)
(***************************************************************************)
StackApart ==
  /\ \A n \in {top, idel} : Chain(n)[MaxStackNodes + 1] = NULL
  /\ Cardinality(InChain(top)) = currSize
  /\ InChain(top) \union InChain(idel) \union popped = 1 .. carved
  /\ currSize + Cardinality(InChain(idel)) + Cardinality(popped) = carved
  /\ carved = most

Lifo == INSTANCE SmpLifo WITH
  Unlimited <- UNLIMITED,
  limit <- size,
  lifo <- [k \in 1 .. currSize |-> datum[Chain(top)[currSize + 1 - k]]],
  taken <- {<<n, datum[n]>> : n \in popped}

(* A stack takes, refuses and gives back data as a bounded sequence does,  *)
(* and those the client has popped stay as they are until it recovers      *)
(* their nodes, whatever is pushed and popped meanwhile.                   *)
StackRefined == Lifo!LSpec
=============================================================================
