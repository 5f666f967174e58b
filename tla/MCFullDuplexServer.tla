------------------------- MODULE MCFullDuplexServer ------------------------
(* Instances of FullDuplexServer for TLC. *)
EXTENDS FullDuplexServer, TLC

(* Addresses are only compared for equality. *)
Symmetry == Permutations(Session)
=============================================================================
