----------------------------- MODULE MCRteRing -----------------------------
(***************************************************************************)
(* RteRing with few threads on a ring of two or four slots, indices of     *)
(* three or four bits.                                                     *)
(***************************************************************************)
EXTENDS RteRing, TLC

Symmetric == Permutations(Producers) \cup Permutations(Consumers) \cup Permutations(Objects)
=============================================================================
