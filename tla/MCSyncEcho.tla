----------------------------- MODULE MCSyncEcho ----------------------------
(* An instance of SyncEcho for TLC. *)
EXTENDS SyncEcho

(* Buffers that hold a byte each way, and one to the server that holds    *)
(* more than the longest line.                                             *)
SmallAndLarge == {[up |-> 1, down |-> 1], [up |-> 3, down |-> 1]}
=============================================================================
