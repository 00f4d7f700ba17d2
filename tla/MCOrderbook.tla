---------------------------- MODULE MCOrderbook ----------------------------
(* Orderbook on small sets for TLC.                                        *)
EXTENDS Orderbook

Symmetry == Permutations(OrderIds)
=============================================================================
