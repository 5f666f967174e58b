----------------------------- MODULE ByteStream ----------------------------
(***************************************************************************)
(* What a client session promises the application that writes to it: the   *)
(* peer gets a growing piece, from the first byte on, of all the           *)
(* application wrote, as if each message were put on one pipe; once a      *)
(* write has failed, nothing more.  The promise may end; what happens      *)
(* then is left open.  An application that does not keep its strings until *)
(* they are sent is promised only that no byte is lost or out of place:    *)
(* what is in that place may be garbage.                                   *)
(*                                                                         *)
(* The i-th byte the application writes is i.                              *)
(***************************************************************************)
EXTENDS Integers, Sequences

CONSTANTS
  Garbage      (* what is read from a string that is gone                  *)

VARIABLES
  written,     (* how many bytes the application wrote                     *)
  arrived,     (* what the peer gets                                       *)
  broken,      (* has a write failed                                       *)
  promised,    (* is any of this still promised                            *)
  kept         (* does the application keep its strings                    *)

streamVars == <<written, arrived, broken, promised, kept>>

Init ==
  /\ written = 0
  /\ arrived = <<>>
  /\ broken = FALSE
  /\ promised \in BOOLEAN
  /\ kept \in BOOLEAN

Write ==
  /\ promised
  /\ written' \in Nat
  /\ written' >= written
  /\ UNCHANGED <<arrived, broken, promised, kept>>

(* Some of what is written and has not arrived arrives, in one piece. *)
Deliver ==
  /\ promised
  /\ ~broken
  /\ \E n \in 1..(written - Len(arrived)) :
       \/ arrived' = arrived \o [i \in 1..n |-> Len(arrived) + i]
       \/ ~kept /\ arrived' = arrived \o [i \in 1..n |-> Garbage]
  /\ UNCHANGED <<written, broken, promised, kept>>

Break ==
  /\ promised
  /\ broken' = TRUE
  /\ UNCHANGED <<written, arrived, promised, kept>>

Lapse ==
  /\ promised' = FALSE
  /\ UNCHANGED <<written, arrived, broken, kept>>

Afterwards ==
  /\ ~promised
  /\ ~promised'
  /\ UNCHANGED kept

Next == Write \/ Deliver \/ Break \/ Lapse \/ Afterwards

Spec == Init /\ [][Next]_streamVars
=============================================================================
