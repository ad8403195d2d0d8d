----------------------------- MODULE SmpAddress -----------------------------
(***************************************************************************)
(* Addresses as numbers, for the containers whose memory is given out in   *)
(* one order and only taken back all at once: the k-th piece is number k.  *)
(***************************************************************************)
EXTENDS Integers

NULL == 0   (* the null pointer *)
WILD == -1  (* a pointer that nothing has written yet *)
=============================================================================
