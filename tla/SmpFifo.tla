------------------------------ MODULE SmpFifo ------------------------------
(***************************************************************************)
(* What smp_queue promises: nodes leave a queue in the order they entered  *)
(* it, each exactly once, and a node is in the queue or with the client.   *)
(***************************************************************************)
EXTENDS Sequences

CONSTANT Nodes (* the addresses of nodes *)

VARIABLES
  q,   (* the nodes in the queue, the oldest first *)
  held (* the nodes the client has outside the queue *)

fvars == <<q, held>>

InQ(n) == \E i \in DOMAIN q : q[i] = n

FInit == q = <<>> /\ held = {}

(* The client makes a node, or gives one up. *)
Own(n) == ~InQ(n) /\ n \notin held /\ held' = held \union {n} /\ UNCHANGED q
Disown(n) == n \in held /\ held' = held \ {n} /\ UNCHANGED q

(* A node, new or the client's, goes to the end of the queue. *)
Put(n) == ~InQ(n) /\ q' = Append(q, n) /\ held' = held \ {n}

(* The oldest node goes to the client, or is destroyed. *)
Take == q /= <<>> /\ q' = Tail(q) /\ held' = held \union {Head(q)}
Drop == q /= <<>> /\ q' = Tail(q) /\ UNCHANGED held

Clear == q' = <<>> /\ UNCHANGED held

FNext == \/ \E n \in Nodes : Own(n) \/ Disown(n) \/ Put(n)
         \/ Take \/ Drop \/ Clear

FSpec == FInit /\ [][FNext]_fvars
=============================================================================
