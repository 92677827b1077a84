------------------------------ MODULE OrderedMap ------------------------------
(***************************************************************************)
(* What a PropertyMap promises to JSObject: a dictionary from names to     *)
(* values with attributes that remembers the order of insertion.  "It's    *)
(* vital that getEnumerablePropertyNames return the properties in the      *)
(* order they were added" (kjs/property_map.cpp).                          *)
(***************************************************************************)
EXTENDS Integers, Sequences, FiniteSets

CONSTANTS Keys, Values, Attributes   \* as in PropertyMap.tla

VARIABLES
    order,     \* the names, oldest first
    content    \* name -> value and attributes

mapVars == <<order, content>>

Init == order = <<>> /\ content = <<>>

Has(k) == k \in DOMAIN content

\* A property keeps its place and its attributes when it is assigned again.
Put(k, v) ==
    /\ Has(k)
    /\ content' = [content EXCEPT ![k].value = v]
    /\ UNCHANGED order

Add(k, v, a) ==
    /\ ~ Has(k)
    /\ order' = Append(order, k)
    /\ content' = [x \in DOMAIN content \cup {k} |->
            IF x = k THEN [value |-> v, attributes |-> a] ELSE content[x]]

\* The elements of s that are in K, in their order.
Kept(s, K) ==
    LET I == {i \in DOMAIN s : s[i] \in K}
        Before(i) == {j \in I : j < i}
    IN  [n \in 1 .. Cardinality(I) |-> s[CHOOSE i \in I : Cardinality(Before(i)) = n - 1]]

Retain(K) ==
    /\ order' = Kept(order, K)
    /\ content' = [k \in DOMAIN content \cap K |-> content[k]]

Remove(k) == Has(k) /\ Retain(DOMAIN content \ {k})

\* save and restore into a new map lose the read-only properties and the
\* built-in functions, and nothing else.
Reload ==
    Retain({k \in DOMAIN content : content[k].attributes \cap {"ReadOnly", "Function"} = {}})

Next ==
    \/ \E k \in Keys, v \in Values :
            Put(k, v) \/ \E a \in Attributes[k] : Add(k, v, a)
    \/ \E k \in Keys : Remove(k)
    \/ Reload
    \/ order' = <<>> /\ content' = <<>>

Spec == Init /\ [][Next]_mapVars
==============================================================================
