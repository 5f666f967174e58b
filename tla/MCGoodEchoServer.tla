-------------------------- MODULE MCGoodEchoServer -------------------------
(* Instances of GoodEchoServer for TLC. *)
EXTENDS GoodEchoServer
=============================================================================
