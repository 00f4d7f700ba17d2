----------------------- MODULE MCOrderbookRefinement -----------------------
(* OrderbookRefinement on small sets for TLC.                              *)
EXTENDS OrderbookRefinement

Symmetry == Permutations(OrderIds)
=============================================================================
