---------------------------- MODULE SharedLists ----------------------------
(***************************************************************************)
(* What the List of src/kjs/list.h promises: a variable refers to a list   *)
(* of values, "The list is explicitly shared", and copies share only the   *)
(* values.                                                                 *)
(***************************************************************************)
EXTENDS Naturals, Sequences

CONSTANTS Handles,  \* variables of type List
          Lists,    \* identities of lists
          Values,   \* what a list holds
          NoList    \* what a variable that is not alive refers to

VARIABLES of,      \* the list a variable refers to
          content  \* the values of a list, none if nothing refers to it

Init ==
    /\ of = [h \in Handles |-> NoList]
    /\ content = [l \in Lists |-> <<>>]

Referred(f) == {f[h] : h \in Handles} \ {NoList}
Kept(f, c) == [l \in Lists |-> IF l \in Referred(f) THEN c[l] ELSE <<>>]

\* h refers to a list of its own with the values s.
Create(h, s) ==
    \E l \in Lists \ Referred(of) :
        /\ of[h] = NoList
        /\ of' = [of EXCEPT ![h] = l]
        /\ content' = [content EXCEPT ![l] = s]

\* h refers to the list of g, or to none.
Refer(h, l) ==
    /\ of' = [of EXCEPT ![h] = l]
    /\ content' = Kept(of', content)

\* All that refer to the list of h see its new values.
Change(h, s) ==
    /\ of[h] # NoList
    /\ content' = [content EXCEPT ![of[h]] = s]
    /\ UNCHANGED of

Content(h) == content[of[h]]
Alive == {h \in Handles : of[h] # NoList}

Next ==
    \/ \E h \in Handles : Create(h, <<>>) \/ Refer(h, NoList)
    \/ \E h \in Handles, g \in Alive : Create(h, Content(g)) \/ Refer(h, of[g])
    \/ \E h \in Handles, g \in Alive :
         Content(g) # <<>> /\ Create(h, Tail(Content(g)))
    \/ \E h \in Alive, v \in Values : Change(h, Append(Content(h), v))
    \/ \E h \in Alive : Change(h, <<>>)
    \/ \E h, g \in Alive : Change(h, Content(h) \o Content(g))

Spec == Init /\ [][Next]_<<of, content>>
=============================================================================
