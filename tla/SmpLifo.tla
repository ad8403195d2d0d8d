------------------------------ MODULE SmpLifo -------------------------------
(***************************************************************************)
(* What smp_stack promises: a sequence of data, bounded or not, that is    *)
(* taken back from the end it was put in at.  A datum taken stays as it is *)
(* with the client until the client gives its node up.                     *)
(***************************************************************************)
EXTENDS Integers, Sequences

CONSTANTS
  Data,     (* what the client stores *)
  Unlimited (* the limit of a stack without one *)

VARIABLES
  lifo,   (* the data stored, the last one put in at the end *)
  limit,  (* how many there may be *)
  taken,  (* pairs of a node the client has taken and the datum in it *)
  answer  (* what the last call answered: a datum, "ok", "filled" or "none" *)

lvars == <<lifo, limit, taken, answer>>

LInit == lifo = <<>> /\ limit = Unlimited /\ taken = {} /\ answer = "none"

Filled == limit /= Unlimited /\ Len(lifo) >= limit

Make == /\ lifo' = <<>> /\ taken' = {}
        /\ limit' >= 0
        /\ answer' = "ok"

Push == /\ ~Filled
        /\ \E x \in Data : lifo' = Append(lifo, x)
        /\ answer' = "ok"
        /\ UNCHANGED <<limit, taken>>

Refuse == /\ answer' = IF Filled THEN "filled" ELSE "none"
          /\ UNCHANGED <<lifo, limit, taken>>

Pop == /\ lifo /= <<>>
       /\ answer' = lifo[Len(lifo)]
       /\ lifo' = SubSeq(lifo, 1, Len(lifo) - 1)
       /\ \E t \in taken' : t[2] = answer' /\ t \notin taken /\ taken' = taken \union {t}
       /\ UNCHANGED limit

PopNone == /\ lifo = <<>>
           /\ answer' = "none"
           /\ UNCHANGED <<lifo, limit, taken>>

GiveUp == /\ \E t \in taken : taken' = taken \ {t}
          /\ UNCHANGED <<lifo, limit, answer>>

LNext == Make \/ Push \/ Refuse \/ Pop \/ PopNone \/ GiveUp

LSpec == LInit /\ [][LNext]_lvars
=============================================================================
