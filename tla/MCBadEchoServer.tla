-------------------------- MODULE MCBadEchoServer --------------------------
(* Model checking of BadEchoServer. *)
EXTENDS BadEchoServer
=============================================================================
