------------------------------ MODULE MCJSLock -------------------------------
(* Three threads: the list needs three for a record to be unlinked from    *)
(* its middle.                                                             *)
EXTENDS JSLock, TLC

Symmetry == Permutations(Threads)
==============================================================================
