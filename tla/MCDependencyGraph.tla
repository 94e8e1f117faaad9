------------------------- MODULE MCDependencyGraph --------------------------
(* Values for the runs of DependencyGraph. *)
EXTENDS DependencyGraph, TLC

Interchangeable == Permutations(Tasks) \cup Permutations(Writers)

=============================================================================
