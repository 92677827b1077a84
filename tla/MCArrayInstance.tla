--------------------------- MODULE MCArrayInstance ---------------------------
(* Arrays of up to four elements, the first two of them in the vector.     *)
EXTENDS ArrayInstance
==============================================================================
