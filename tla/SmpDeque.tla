------------------------------ MODULE SmpDeque ------------------------------
(***************************************************************************)
(* What smp_link promises: a sequence of data that grows at its end and is *)
(* taken from either end or from the middle by value, each datum handed    *)
(* back by the call that takes it, and NONE where there is none to take.   *)
(***************************************************************************)
EXTENDS Integers, Sequences

CONSTANTS
  Data, (* what the client stores *)
  NONE  (* the answer when there is nothing *)

VARIABLES
  d,    (* the data stored, in the order they were inserted *)
  taken (* the datum the last call to take one gave back *)

dvars == <<d, taken>>

DInit == d = <<>> /\ taken = NONE

Insert(x) == d' = Append(d, x) /\ UNCHANGED taken

TakeAt(k) == /\ d' = [i \in 1 .. Len(d) - 1 |-> IF i < k THEN d[i] ELSE d[i + 1]]
             /\ taken' = d[k]

TakeNothing == taken' = NONE /\ UNCHANGED d

TakeFirst == \/ d = <<>> /\ TakeNothing
             \/ d /= <<>> /\ TakeAt(1)

TakeLast == \/ d = <<>> /\ TakeNothing
            \/ d /= <<>> /\ TakeAt(Len(d))

(* The first one equal to x. *)
TakeEqual(x) == \/ (\A k \in DOMAIN d : d[k] /= x) /\ TakeNothing
                \/ \E k \in DOMAIN d : /\ d[k] = x
                                       /\ \A j \in 1 .. k - 1 : d[j] /= x
                                       /\ TakeAt(k)

Clear == d' = <<>> /\ UNCHANGED taken

DNext == \/ \E x \in Data : Insert(x) \/ TakeEqual(x)
         \/ TakeFirst \/ TakeLast \/ Clear

DSpec == DInit /\ [][DNext]_dvars
=============================================================================
