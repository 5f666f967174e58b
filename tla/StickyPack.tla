----------------------------- MODULE StickyPack ----------------------------
(***************************************************************************)
(* asio/async/04_sticky_packs: the message node, which puts the length of  *)
(* a message before it, so that the peer can tell where one message ends   *)
(* and the next begins.  04 does not compile, for its csession.cpp still   *)
(* sends max_len_ bytes of a node, a member the node of 03 had; the node   *)
(* itself is complete, and is what this module is about.                   *)
(***************************************************************************)
EXTENDS Integers, Sequences, SequencesExt

HeadLength == 2      (* HEAD_LENGTH                                        *)
MaxLength == 1024    (* max_length: the longest message a session passes   *)

(* memcpy of the first HEAD_LENGTH bytes of an int, low byte first. *)
HeaderSwapped(n) == <<(n \div 256) % 256, n % 256>>
Header(n) == <<n % 256, (n \div 256) % 256>>

(* data_ of a node to send: one byte more than total_len_, for printing.   *)
Data(msg) == Header(Len(msg)) \o msg \o <<0>>
TotalLen(msg) == Len(msg) + HeadLength

(* The total_len_ bytes of each node, one after the other. *)
Stream(msgs) == FlattenSeq([i \in DOMAIN msgs |-> SubSeq(Data(msgs[i]), 1, TotalLen(msgs[i]))])
-----------------------------------------------------------------------------
(* What csession.h:21 says a message is: a length, then that many bytes;   *)
(* the length read as the uint16_t the node to receive is made with.       *)
Split(s) ==
  LET from[i \in 1..(Len(s) + 1)] ==
        IF i + HeadLength > Len(s) + 1 THEN <<>>
        ELSE LET n == s[i] + 256 * s[i + 1]
                 end == IF (i - 1) + HeadLength + n < Len(s) THEN (i - 1) + HeadLength + n
                        ELSE Len(s)
             IN  <<SubSeq(s, i + HeadLength, end)>> \o from[end + 1]
  IN  from[1]

(* The ways s can be sent as one, two or three messages. *)
Cuts(s) ==
  {<<SubSeq(s, 1, p[1]), SubSeq(s, p[1] + 1, p[2]), SubSeq(s, p[2] + 1, Len(s))>> :
     p \in {q \in (0..Len(s)) \X (0..Len(s)) : q[1] <= q[2]}}

Longest == [i \in 1..MaxLength |-> i % 256]

(* Wherever the bytes s are cut into messages, and whatever bytes they     *)
(* are, the peer finds the cuts again in the stream of the nodes, also     *)
(* behind a message of the length that uses both bytes of the header.      *)
CutsAreFound(s) ==
  \A msgs \in Cuts(s) :
     /\ Split(Stream(msgs)) = msgs
     /\ Split(Stream(<<Longest>> \o msgs)) = <<Longest>> \o msgs
=============================================================================
