----------------------------- MODULE MCUrlCodec ----------------------------
(* Instances of UrlCodec for TLC. *)
EXTENDS UrlCodec

(* % + space & = ? A 4: what has a meaning in a url, and two hex digits. *)
UrlBytes == {Percent, Plus, Space, Ampersand, Equals, Question, 65, 52}
=============================================================================
