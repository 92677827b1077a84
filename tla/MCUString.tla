------------------------------ MODULE MCUString ------------------------------
EXTENDS UString

MCLiterals == {<<>>, <<"A", "b">>}
MCLower == [c \in {"A", "b"} |-> "b"]
MCCuts == {<<0, 1>>, <<1, 1>>}
=============================================================================
