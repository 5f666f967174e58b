------------------------------ MODULE MCCodecs -----------------------------
(* An instance of UrlCodec for TLC, whose inputs are also sent as messages *)
(* of 04_sticky_packs.                                                     *)
EXTENDS MCUrlCodec, StickyPack

(* csession.h:20-29: no cut of an input into messages is lost or moved. *)
BoundariesSurvive == CutsAreFound(str)
=============================================================================
