---------------------------- MODULE MCTcpServer ----------------------------
(* TcpServer on small sets for TLC.                                        *)
EXTENDS TcpServer

Symmetry == Permutations(Workers) \cup Permutations(Connections) \cup Permutations(Handles)
=============================================================================
