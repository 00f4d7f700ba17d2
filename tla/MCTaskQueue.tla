---------------------------- MODULE MCTaskQueue ----------------------------
(* TaskQueue on small sets for TLC.                                        *)
EXTENDS TaskQueue

Symmetry == Permutations(Workers) \cup Permutations(Callers) \cup Permutations(Tasks)
=============================================================================
