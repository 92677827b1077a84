----------------------------- MODULE MCCollector -----------------------------
(* Two threads, one interpreter, three cells.                              *)
EXTENDS Collector, TLC

Symmetry == Permutations(Cells) \cup Permutations(Threads)
==============================================================================
