---------------------------- MODULE StringValues ----------------------------
(***************************************************************************)
(* What UString and Identifier of src/kjs/ustring.h and identifier.h       *)
(* promise: each variable has a value of its own, a sequence of            *)
(* characters, and an operation changes the variable it is called on.      *)
(***************************************************************************)
EXTENDS Naturals, Sequences

CONSTANTS Vars,       \* variables of type UString
          Idents,     \* variables of type Identifier
          Chars,      \* characters
          Literals,   \* character sequences that the program names
          Lower      \* the lower case of a character

VARIABLES val,  \* the value of a string
          name  \* the value of an identifier

Init == val = [v \in Vars |-> <<>>] /\ name = [i \in Idents |-> <<>>]

SetString(v, s) == val' = [val EXCEPT ![v] = s] /\ UNCHANGED name
SetName(i, s) == name' = [name EXCEPT ![i] = s] /\ UNCHANGED val

Lowered(s) == [n \in DOMAIN s |-> Lower[s[n]]]
Substrings(s) == {SubSeq(s, p, q) : p \in 1 .. Len(s) + 1, q \in 0 .. Len(s)}

Strings == {val[v] : v \in Vars} \cup {name[i] : i \in Idents}

Next ==
    \/ \E v \in Vars, s \in Literals : SetString(v, s) \/ SetString(v, val[v] \o s)
    \/ \E v \in Vars, c \in Chars : SetString(v, Append(val[v], c))
    \/ \E v \in Vars : SetString(v, Lowered(val[v]))
    \/ \E v \in Vars, s \in Strings : SetString(v, s) \/ SetString(v, val[v] \o s)
    \/ \E v \in Vars, s \in Strings : \E t \in Substrings(s) : SetString(v, t)
    \/ \E v \in Vars, s, t \in Strings : SetString(v, s \o t)
    \/ \E i \in Idents, s \in Strings \cup Literals : SetName(i, s)

Spec == Init /\ [][Next]_<<val, name>>
=============================================================================
