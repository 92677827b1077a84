---------------------------- MODULE MCSyntaxTree ----------------------------
EXTENDS SyntaxTree
=============================================================================
