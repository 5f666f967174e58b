---------------------------- MODULE MCSessionApi ---------------------------
(* Instances of SessionApi for TLC. *)
EXTENDS SessionApi
=============================================================================
