--------------------------- MODULE SmpQueueShare ---------------------------
(***************************************************************************)
(* A queue shared by threads: the counter queue->quotes, the increments    *)
(* and decrements of smp_queue_quote_inc and smp_queue_quote_dec, and      *)
(* smp_qdestory, whose last caller cleans and frees the queue.             *)
(*                                                                         *)
(* The counter is a plain unsigned int.  Each update is a read and a write *)
(* and other threads may come between, as they may before the value that   *)
(* smp_queue_quote_dec returns: the build may keep the value it wrote in a *)
(* register or read the counter again.  The mutex of the queue is no help  *)
(* around smp_qdestory, which frees it; with Serialised the threads hold a *)
(* lock of their own around each call.                                     *)
(***************************************************************************)
EXTENDS Integers, FiniteSets

CONSTANTS
  Threads,
  Serialised, (* whether the threads take a lock of their own *)
  NodeCount,  (* bound: the nodes in the queue when it is made *)
  UIntMod,    (* the number of values of an unsigned int *)
  NONE        (* no thread *)

ASSUME ShareAssumption == /\ Serialised \in BOOLEAN
                          /\ NodeCount \in Nat
                          /\ UIntMod \in Nat
                          /\ NONE \notin Threads
                          /\ IsFiniteSet(Threads)
                          /\ Cardinality(Threads) < UIntMod

VARIABLES
  pc,     (* what each thread does: "out" if it has no quote, "using" if it  *)
          (* has and is in no call, else where in the call it is *)
  reg,    (* the value of the counter each thread works with *)
  peer,   (* the thread each thread makes a quote for *)
  lock,   (* the thread that holds the lock of the threads *)
  quotes, (* queue->quotes *)
  nodes,  (* queue->qlen *)
  alive,  (* heap: the queue is allocated *)
  frees,  (* history: how often the queue was freed *)
  fault   (* history: the queue was accessed after it was freed *)

vars == <<pc, reg, peer, lock, quotes, nodes, alive, frees, fault>>

Init == /\ pc = [t \in Threads |-> "out"]
        /\ reg = [t \in Threads |-> 0]
        /\ peer = [t \in Threads |-> NONE]
        /\ lock = NONE
        /\ quotes = 0
        /\ nodes = 0
        /\ alive = FALSE
        /\ frees = 0
        /\ fault = FALSE

Goto(t, l) == pc' = [pc EXCEPT ![t] = l]
Touch == fault' = (fault \/ ~alive)
Enter(t) == IF Serialised THEN lock = NONE /\ lock' = t ELSE UNCHANGED lock
Leave(t) == lock' = IF lock = t THEN NONE ELSE lock

(***************************************************************************)
(* smp_queue_create and smp_qinit, whose quotes is 1, and the nodes the    *)
(* threads will have put in the queue.  A new queue is made when the       *)
(* threads are done with the previous one.                                 *)
(***************************************************************************)
QueueCreate(t) ==
  /\ \A u \in Threads : pc[u] = "out"
  /\ Goto(t, "using")
  /\ quotes' = 1
  /\ nodes' = NodeCount
  /\ alive' = TRUE
  /\ frees' = 0
  /\ UNCHANGED <<reg, peer, lock, fault>>

(* The operators named Mutant... are not part of the specification: each is *)
(* what the definition after it would be with a plausible mistake in the   *)
(* code, and shows that a property can tell.                               *)

(***************************************************************************)
(* smp_queue_quote_inc by a thread that then passes the queue to another.  *)
(***************************************************************************)
QuoteIncRead(t, u) ==
  /\ pc[t] = "using"
  /\ pc[u] = "out"
  /\ \A v \in Threads : peer[v] /= u
  /\ Enter(t)
  /\ Goto(t, "inc")
  /\ reg' = [reg EXCEPT ![t] = quotes]
  /\ peer' = [peer EXCEPT ![t] = u]
  /\ Touch
  /\ UNCHANGED <<quotes, nodes, alive, frees>>

MutantIncForgotten(t) ==
  /\ pc[t] = "inc"
  /\ pc' = [pc EXCEPT ![t] = "using", ![peer[t]] = "using"]
  /\ peer' = [peer EXCEPT ![t] = NONE]
  /\ Leave(t)
  /\ UNCHANGED <<reg, quotes, nodes, alive, frees, fault>>

QuoteIncWrite(t) ==
  /\ pc[t] = "inc"
  /\ pc' = [pc EXCEPT ![t] = "using", ![peer[t]] = "using"]
  /\ quotes' = (reg[t] + 1) % UIntMod
  /\ peer' = [peer EXCEPT ![t] = NONE]
  /\ Leave(t)
  /\ Touch
  /\ UNCHANGED <<reg, nodes, alive, frees>>

(***************************************************************************)
(* smp_qdestory, called once by each thread that has a quote: the read and *)
(* the write of smp_queue_quote_dec, and the value it returns.             *)
(***************************************************************************)
QuoteDecRead(t) ==
  /\ pc[t] = "using"
  /\ Enter(t)
  /\ Goto(t, "dec")
  /\ reg' = [reg EXCEPT ![t] = quotes]
  /\ Touch
  /\ UNCHANGED <<peer, quotes, nodes, alive, frees>>

MutantDecNotStored(t) ==
  /\ pc[t] = "dec"
  /\ Goto(t, "test")
  /\ reg' = [reg EXCEPT ![t] = (reg[t] - 1) % UIntMod]
  /\ UNCHANGED <<peer, lock, quotes, nodes, alive, frees, fault>>

QuoteDecWrite(t) ==
  /\ pc[t] = "dec"
  /\ Goto(t, "test")
  /\ quotes' = (reg[t] - 1) % UIntMod
  /\ reg' = [reg EXCEPT ![t] = (reg[t] - 1) % UIntMod]
  /\ Touch
  /\ UNCHANGED <<peer, lock, nodes, alive, frees>>

QuoteDecValue(t, v) ==
  /\ pc[t] = "test"
  /\ \/ v = reg[t] /\ UNCHANGED fault
     \/ v = quotes /\ Touch

MutantDestoryEarly(t) ==
  /\ QuoteDecValue(t, 1)
  /\ Goto(t, "clean")
  /\ UNCHANGED <<reg, peer, lock, quotes, nodes, alive, frees>>

QdestoryLast(t) ==
  /\ QuoteDecValue(t, 0)
  /\ Goto(t, "clean")
  /\ UNCHANGED <<reg, peer, lock, quotes, nodes, alive, frees>>

(* "other thread quoting this queue" *)
QdestoryFails(t) ==
  /\ \E v \in {reg[t], quotes} \ {0} : QuoteDecValue(t, v)
  /\ Goto(t, "out")
  /\ Leave(t)
  /\ UNCHANGED <<reg, peer, quotes, nodes, alive, frees>>

MutantCleanOnlyLooks(t) == pc[t] = "clean" /\ nodes > 0 /\ UNCHANGED vars

(* smp_qclean removes and frees the nodes, then the queue is freed. *)
QcleanNode(t) ==
  /\ pc[t] = "clean"
  /\ nodes > 0
  /\ nodes' = nodes - 1
  /\ Touch
  /\ UNCHANGED <<pc, reg, peer, lock, quotes, alive, frees>>

QdestoryFree(t) ==
  /\ pc[t] = "clean"
  /\ nodes = 0
  /\ Goto(t, "out")
  /\ alive' = FALSE
  /\ frees' = frees + 1
  /\ Leave(t)
  /\ Touch
  /\ UNCHANGED <<reg, peer, quotes, nodes>>

InCall(t) == QuoteIncWrite(t) \/ QuoteDecWrite(t) \/ QdestoryLast(t)
             \/ QdestoryFails(t) \/ QcleanNode(t) \/ QdestoryFree(t)

Next == \E t \in Threads :
          \/ QueueCreate(t)
          \/ \E u \in Threads : QuoteIncRead(t, u)
          \/ QuoteDecRead(t)
          \/ InCall(t)

(* A thread that is in a call goes on with it. *)
Spec == Init /\ [][Next]_vars /\ \A t \in Threads : WF_vars(InCall(t))

-----------------------------------------------------------------------------
(***************************************************************************)
(* Properties.                                                             *)
(***************************************************************************)

TypeOK == /\ pc \in [Threads -> {"out", "using", "inc", "dec", "test", "clean"}]
          /\ reg \in [Threads -> 0 .. UIntMod - 1]
          /\ peer \in [Threads -> Threads \union {NONE}]
          /\ lock \in Threads \union {NONE}
          /\ quotes \in 0 .. UIntMod - 1
          /\ nodes \in 0 .. NodeCount
          /\ alive \in BOOLEAN
          /\ frees \in Nat
          /\ fault \in BOOLEAN

Users == {t \in Threads : pc[t] /= "out"}

(***************************************************************************)
(* "the amount of process or thread to quote this queue"                   *)
(* (smp_queue.h:28): between calls, while the queue exists, quotes is the  *)
(* number of threads that may still use it.                                *)
(***************************************************************************)
QuotesIsAmount ==
  alive /\ (\A t \in Threads : pc[t] \in {"out", "using"})
    => quotes = Cardinality(Users)

(***************************************************************************)
(* The queue is freed once, by the last thread to quote it, and no thread  *)
(* accesses it afterwards; while one may, "other thread quoting this       *)
(* queue" (smp_queue.c:266) is what the others are told.                   *)
(***************************************************************************)
FreedByLast == /\ frees <= 1
               /\ ~fault
               /\ \A t \in Threads : pc[t] = "using" => alive

(* When no thread quotes the queue any more, it has been freed.            *)
NoneLeft == (\A t \in Threads : pc[t] = "out") => ~alive

(* Every smp_qdestory returns, the one that cleans the queue included.     *)
DestoryEnds == \A t \in Threads : pc[t] = "dec" ~> pc[t] = "out"
=============================================================================
