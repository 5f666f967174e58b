---------------------------- MODULE MCHttpServer ---------------------------
(* An instance of HttpServer for TLC. *)
EXTENDS HttpServer

(* A GET of each kind, and one request with another method. *)
SomeRequests ==
  {[method |-> "get", url |-> "known", query |-> "good"],
   [method |-> "get", url |-> "unknown", query |-> "good"],
   [method |-> "get", url |-> "known", query |-> "bad"],
   [method |-> "other", url |-> "known", query |-> "good"]}
=============================================================================
