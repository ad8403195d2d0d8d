-------------------------- MODULE MCSmpQueueShare --------------------------
(* SmpQueueShare with a few threads. *)
EXTENDS SmpQueueShare
=============================================================================
