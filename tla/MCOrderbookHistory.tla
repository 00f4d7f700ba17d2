------------------------ MODULE MCOrderbookHistory -------------------------
(* OrderbookHistory on small sets for TLC.                                 *)
EXTENDS OrderbookHistory

Symmetry == Permutations(OrderIds)
=============================================================================
