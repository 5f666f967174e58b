---------------------------- MODULE EchoService ----------------------------
(***************************************************************************)
(* What an echo server promises, and nothing of how it keeps the promise:  *)
(* on every connection the bytes sent back are the bytes received so far,  *)
(* in the order received, with none lost, repeated, invented or altered.   *)
(* Every echo server of the repository is meant to implement it.           *)
(*                                                                         *)
(* No server looks at the value of a byte, so the i-th byte a client sends *)
(* is written i: a byte out of place is then always visible.               *)
(***************************************************************************)
EXTENDS Integers, Sequences

CONSTANTS
  Session      (* connections (a session object serves one at a time)      *)

VARIABLES
  received,    (* received[s]: how many bytes the server took from s       *)
  echoed       (* echoed[s]: the bytes the server sent back to s           *)

echoVars == <<received, echoed>>

(* The first n bytes a client sends. *)
Stream(n) == [i \in 1..n |-> i]

Init ==
  /\ received = [s \in Session |-> 0]
  /\ echoed = [s \in Session |-> <<>>]

(* A new client takes the place of s. *)
Connect(s) ==
  /\ received' = [received EXCEPT ![s] = 0]
  /\ echoed' = [echoed EXCEPT ![s] = <<>>]

(* The server takes some bytes from the client. *)
Receive(s) ==
  /\ received'[s] \in Nat
  /\ received'[s] > received[s]
  /\ received' = [received EXCEPT ![s] = received'[s]]
  /\ UNCHANGED echoed

(* The server sends back some bytes it has taken and not sent back yet. *)
Echo(s) ==
  /\ \E n \in (Len(echoed[s]) + 1)..received[s] :
        echoed' = [echoed EXCEPT ![s] = Stream(n)]
  /\ UNCHANGED received

Next == \E s \in Session : Connect(s) \/ Receive(s) \/ Echo(s)

Spec == Init /\ [][Next]_echoVars
=============================================================================
