--------------------------- MODULE MCMediaDecoder ---------------------------
(***************************************************************************)
(* TLC instances of MediaDecoder.                                          *)
(***************************************************************************)
EXTENDS MediaDecoder, TLC

Symmetry == Permutations(Producers)

=============================================================================
