------------------------------- MODULE MCLists -------------------------------
EXTENDS Lists

\* Handles are compared with each other only, and the properties are safety
\* properties.
Symmetry == Permutations(Handles)
=============================================================================
