----------------------------- MODULE MCEvoQueue -----------------------------
(***************************************************************************)
(* TLC instances of EvoQueue.                                              *)
(***************************************************************************)
EXTENDS EvoQueue, TLC

Symmetry == Permutations(Producers) \cup Permutations(Consumers)

=============================================================================
