--------------------------- MODULE MCCollectorHeap ---------------------------
(* Three blocks of two cells and two oversize cells, one spare block.      *)
EXTENDS CollectorHeap, TLC

Symmetry == Permutations(Blocks) \cup Permutations(Oversize)
==============================================================================
