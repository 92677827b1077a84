------------------------------ MODULE EcmaArray -------------------------------
(***************************************************************************)
(* The array of ECMA-262 15.4 as a program sees it through get and length: *)
(* a sequence of values, with Undefined in the places of absent elements.  *)
(* Element i of the array is elements[i + 1].                              *)
(***************************************************************************)
EXTENDS Integers, Sequences, FiniteSets, SequencesExt

CONSTANTS
    Values,      \* values that a comparison function orders as numbers
    Undefined,   \* jsUndefined()
    MaxLength,   \* bound on the length
    MaxArgs      \* bound on the arguments of push, unshift and splice

VARIABLE elements

Element == Values \cup {Undefined}
Lists(n) == UNION {[1 .. m -> Element] : m \in 0 .. n}

WithLength(s, n) ==
    IF n <= Len(s) THEN SubSeq(s, 1, n)
    ELSE s \o [i \in 1 .. n - Len(s) |-> Undefined]

Assigned(s, i, v) ==
    [WithLength(s, IF i < Len(s) THEN Len(s) ELSE i + 1) EXCEPT ![i + 1] = v]
Emptied(s, i) == IF i < Len(s) THEN [s EXCEPT ![i + 1] = Undefined] ELSE s

\* 15.4.4.11: a permutation in the order of the comparison; undefined values, and
\* the places of absent elements, come last.
Less(v, w) == v # Undefined /\ (w = Undefined \/ v < w)

Orders(s, t) ==
    /\ t \in [1 .. Len(s) -> Element]
    /\ \A v \in Values :
        Cardinality({i \in DOMAIN s : s[i] = v}) = Cardinality({i \in DOMAIN t : t[i] = v})
    /\ \A i, j \in DOMAIN t : i < j => ~ Less(t[j], t[i])

\* 15.4.4.12; push, pop, shift and unshift are special cases.
Spliced(s, begin, count, args) ==
    SubSeq(s, 1, begin) \o args \o SubSeq(s, begin + count + 1, Len(s))

Init == elements \in Lists(MaxLength)

Splice(begin, count, args) ==
    /\ begin + count <= Len(elements)
    /\ Len(elements) - count + Len(args) <= MaxLength
    /\ elements' = Spliced(elements, begin, count, args)

Next ==
    \/ \E i \in 0 .. MaxLength - 1 :
            \/ \E v \in Element : elements' = Assigned(elements, i, v)
            \/ elements' = Emptied(elements, i)
    \/ \E n \in 0 .. MaxLength : elements' = WithLength(elements, n)
    \/ Orders(elements, elements') \/ elements' = Reverse(elements)
    \/ \E begin, count \in 0 .. MaxLength, args \in Lists(MaxArgs) :
            Splice(begin, count, args)

Spec == Init /\ [][Next]_elements
==============================================================================
