--------------------------- MODULE MCPropagation ---------------------------
(* Instances of Propagation for TLC.                                       *)
EXTENDS Propagation, TLC

Symmetry == Permutations(Files) \cup Permutations(Paths)
=============================================================================
