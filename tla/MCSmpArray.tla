---------------------------- MODULE MCSmpArray ----------------------------
(* SmpArray for TLC, by itself. *)
EXTENDS SmpArray
=============================================================================
