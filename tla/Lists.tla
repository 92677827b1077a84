-------------------------------- MODULE Lists --------------------------------
(***************************************************************************)
(* Lists of values: src/kjs/list.cpp and src/kjs/list.h, under the single  *)
(* interpreter lock.                                                       *)
(*                                                                         *)
(* A List is a counted pointer to a ListImp, which is taken from a static  *)
(* pool, or from the heap when the pool is used up.  The ListImps of the   *)
(* heap are a doubly linked list; the free ones of the pool are a chain in *)
(* which the link 0 stands for the entry that follows.  The collector      *)
(* marks the values of the lists that a List without an owner refers to    *)
(* (valueRefCount); the owner marks those of the others.                   *)
(*                                                                         *)
(* Entries of the pool have the addresses 1 .. PoolSize, 0 is the null     *)
(* pointer.                                                                *)
(***************************************************************************)
EXTENDS Integers, SequencesExt

CONSTANTS Handles,           \* variables of type List
          Values,            \* what a list holds
          PoolSize,          \* poolSize
          HeapAddresses,     \* addresses of HeapListImps
          inlineValuesSize,  \* values in the ListImp itself
          MaxLoad            \* bound: Lists, and values in all of them, together

Pool == 1 .. PoolSize
Addresses == Pool \cup HeapAddresses

ASSUME ListsAssumption ==
    /\ PoolSize \in Nat \ {0}
    /\ inlineValuesSize \in Nat \ {0}
    /\ HeapAddresses \subseteq Nat \ (0 .. PoolSize + 1)
    /\ IsFiniteSet(HeapAddresses) /\ IsFiniteSet(Handles)

VARIABLES imp, poolFreeList, poolUsed, heapList, handle

vars == <<imp, poolFreeList, poolUsed, heapList, handle>>

Null == 0
NoHandle == [imp |-> Null, needsMarking |-> FALSE]
Junk == "junk"
Fill(n) == [i \in 1 .. n |-> Junk]

\* "next" is nextInFreeList or nextInHeapList.  nextInFreeList shares its
\* place with values, which are not read while the ListImp is free.
Unused(next) ==
    [state |-> "unused", size |-> 0, refCount |-> 0, valueRefCount |-> 0, capacity |-> 0,
     values |-> Fill(inlineValuesSize), overflow |-> <<>>, next |-> next, prev |-> Null]

NewImp(state, valueRefCount, next) ==
    [Unused(next) EXCEPT !.state = state, !.refCount = 1, !.valueRefCount = valueRefCount]

\* The pool is zeroed memory.
Init ==
    /\ imp = [a \in Addresses |-> Unused(Null)]
    /\ poolFreeList = Null
    /\ poolUsed = 0
    /\ heapList = Null
    /\ handle = [h \in Handles |-> NoHandle]

-----------------------------------------------------------------------------
\* The values of a ListImp.

ValueAt(I, n) == IF n <= inlineValuesSize THEN I.values[n] ELSE I.overflow[n - inlineValuesSize]
Content(I) == [n \in 1 .. I.size |-> ValueAt(I, n)]

\* (Mutant: the new array is not filled from the old one.)
GrowEmpty(I, i) ==
    [I EXCEPT !.overflow = Fill(i * 2 - inlineValuesSize), !.capacity = i * 2]

\* A larger array for the values that do not fit, when there are i values.
Grow(I, i) ==
    [I EXCEPT !.overflow = SubSeq(@, 1, i - inlineValuesSize) \o Fill(i),
              !.capacity = i * 2]

\* List::append.
Appended(I, v) ==
    LET i == I.size
        G == IF i >= inlineValuesSize /\ i >= I.capacity THEN Grow(I, i) ELSE I
    IN  IF i < inlineValuesSize THEN [I EXCEPT !.size = i + 1, !.values[i + 1] = v]
        ELSE [G EXCEPT !.size = i + 1, !.overflow[i + 1 - inlineValuesSize] = v]

\* List::copyFrom: one append after the other.
AppendedAll(I, s) ==
    LET after[n \in 0 .. Len(s)] == IF n = 0 THEN I ELSE Appended(after[n - 1], s[n])
    IN  after[Len(s)]

-----------------------------------------------------------------------------
\* Taking and releasing a ListImp.  The heap is passed through the functions
\* as a record of the four static variables.

Heap == [imp |-> imp, free |-> poolFreeList, used |-> poolUsed, list |-> heapList]
SetHeap(H) ==
    /\ imp' = H.imp /\ poolFreeList' = H.free /\ poolUsed' = H.used /\ heapList' = H.list

OnHeap == {a \in HeapAddresses : imp[a].state = "unused"}
CanAllocate == poolUsed < PoolSize \/ OnHeap # {}

\* The address that allocateListImp takes.
Head1 == IF poolFreeList # Null THEN poolFreeList ELSE 1
Fresh == IF poolUsed < PoolSize THEN Head1 ELSE Min(OnHeap)

\* (Mutant: the link of an entry that was never used is taken for the end.)
AllocatedFromPoolUnlinked(H, valueRefCount) ==
    [H EXCEPT !.free = H.imp[Fresh].next,
              !.imp[Fresh] = NewImp("pool", valueRefCount, Null),
              !.used = @ + 1]

AllocatedFromPool(H, valueRefCount) ==
    LET next == H.imp[Fresh].next
    IN  [H EXCEPT !.free = IF next # Null THEN next ELSE Fresh + 1,
                  !.imp[Fresh] = NewImp("pool", valueRefCount, Null),
                  !.used = @ + 1]

AllocatedOnHeap(H, valueRefCount) ==
    [H EXCEPT !.imp = [a \in Addresses |->
                         IF a = Fresh THEN NewImp("heap", valueRefCount, H.list)
                         ELSE IF a = H.list THEN [H.imp[a] EXCEPT !.prev = Fresh]
                         ELSE H.imp[a]],
              !.list = Fresh]

Allocated(H, valueRefCount) ==
    IF H.used < PoolSize THEN AllocatedFromPool(H, valueRefCount)
    ELSE AllocatedOnHeap(H, valueRefCount)

\* (Mutant: the next ListImp keeps its link back to the one released.)
ReleasedOneWay(H, a) ==
    LET I == H.imp[a]
        After(x) == [H.imp[x] EXCEPT !.next = IF x = I.prev THEN I.next ELSE @]
    IN  IF I.state = "pool"
        THEN [H EXCEPT !.imp[a] = Unused(H.free), !.free = a, !.used = @ - 1]
        ELSE [H EXCEPT !.imp = [x \in Addresses |->
                                  IF x = a THEN Unused(Null)
                                  ELSE IF x \in HeapAddresses THEN After(x)
                                  ELSE H.imp[x]],
                       !.list = IF I.prev = Null THEN I.next ELSE @]

\* List::release.
Released(H, a) ==
    LET I == H.imp[a]
        Unlinked(x) == [H.imp[x] EXCEPT !.next = IF x = I.prev THEN I.next ELSE @,
                                        !.prev = IF x = I.next THEN I.prev ELSE @]
    IN  IF I.state = "pool"
        THEN [H EXCEPT !.imp[a] = Unused(H.free), !.free = a, !.used = @ - 1]
        ELSE [H EXCEPT !.imp = [x \in Addresses |->
                                  IF x = a THEN Unused(Null)
                                  ELSE IF x \in HeapAddresses THEN Unlinked(x)
                                  ELSE H.imp[x]],
                       !.list = IF I.prev = Null THEN I.next ELSE @]

\* (Mutant: the owner's reference counts for marking, too.)
DerefValues(H, l) ==
    LET D == [H EXCEPT !.imp[l.imp].refCount = @ - 1, !.imp[l.imp].valueRefCount = @ - 1]
    IN  IF D.imp[l.imp].refCount = 0 THEN Released(D, l.imp) ELSE D

\* List::deref of a List l.
Deref(H, l) ==
    LET I == H.imp[l.imp]
        D == [H EXCEPT !.imp[l.imp] =
                 [I EXCEPT !.refCount = @ - 1,
                           !.valueRefCount = IF l.needsMarking THEN @ ELSE @ - 1]]
    IN  IF D.imp[l.imp].refCount = 0 THEN Released(D, l.imp) ELSE D

\* (Mutant: a copy is not counted for marking.)
RefUncounted(H, a, needsMarking) == [H EXCEPT !.imp[a].refCount = @ + 1]

\* Another List, with an owner or not, refers to the ListImp at a.
Ref(H, a, needsMarking) ==
    [H EXCEPT !.imp[a].refCount = @ + 1,
              !.imp[a].valueRefCount = IF needsMarking THEN @ ELSE @ + 1]

-----------------------------------------------------------------------------
\* The operations of List.

Alive == {h \in Handles : handle[h] # NoHandle}
ContentOf(h) == Content(imp[handle[h].imp])
SetHandle(h, a, needsMarking) ==
    handle' = [handle EXCEPT ![h] = [imp |-> a, needsMarking |-> needsMarking]]
SizeOf(a) == imp[a].size
Bounded(lists, values) ==
    Cardinality(Alive) + lists + MapThenSumSet(SizeOf, Addresses) + values <= MaxLoad

\* A constructor that fills the new list with s: List(), List(needsMarking),
\* copy() and copyTail().
ConstructWith(h, needsMarking, s) ==
    /\ h \notin Alive /\ CanAllocate /\ Bounded(1, Len(s))
    /\ LET H == Allocated(Heap, IF needsMarking THEN 0 ELSE 1)
       IN  SetHeap([H EXCEPT !.imp[Fresh] = AppendedAll(@, s)])
    /\ SetHandle(h, Fresh, needsMarking)

Construct(h, needsMarking) == ConstructWith(h, needsMarking, <<>>)
Copy(h, g) == ConstructWith(h, FALSE, ContentOf(g))

\* The first loop of copyTail starts at 1, the second at the first value that
\* did not fit.
CopyTail(h, g) ==
    LET I == imp[handle[g].imp]
        inlineSize == Min({I.size, inlineValuesSize})
    IN  ConstructWith(h, FALSE, SubSeq(I.values, 2, inlineSize)
                                \o SubSeq(I.overflow, 1, I.size - inlineSize))

\* The copy constructor: a copy has no owner.
CopyConstruct(h, g) ==
    /\ h \notin Alive /\ Bounded(1, 0)
    /\ SetHeap(Ref(Heap, handle[g].imp, FALSE))
    /\ SetHandle(h, handle[g].imp, FALSE)

Assign(h, g) ==
    /\ SetHeap(Deref(Ref(Heap, handle[g].imp, handle[h].needsMarking), handle[h]))
    /\ SetHandle(h, handle[g].imp, handle[h].needsMarking)

Destroy(h) ==
    /\ SetHeap(Deref(Heap, handle[h]))
    /\ handle' = [handle EXCEPT ![h] = NoHandle]

Change(a, I) ==
    /\ imp' = [imp EXCEPT ![a] = I]
    /\ UNCHANGED <<poolFreeList, poolUsed, heapList, handle>>

AppendValue(h, v) ==
    Bounded(0, 1) /\ LET a == handle[h].imp IN Change(a, Appended(imp[a], v))

\* The values stay in their places, but nothing reads beyond the size: they
\* are forgotten here.
Clear(h) ==
    LET a == handle[h].imp
    IN  Change(a, [imp[a] EXCEPT !.size = 0, !.values = Fill(inlineValuesSize),
                                 !.overflow = Fill(Len(@))])

\* Not of a list to itself, which nobody does: append may free the array that
\* copyFrom reads.
CopyFrom(h, g) ==
    LET a == handle[h].imp
    IN  /\ handle[g].imp # a
        /\ Bounded(0, Len(ContentOf(g)))
        /\ Change(a, AppendedAll(imp[a], ContentOf(g)))

Next ==
    \/ \E h \in Handles, needsMarking \in BOOLEAN : Construct(h, needsMarking)
    \/ \E h \in Handles, g \in Alive : Copy(h, g) \/ CopyTail(h, g) \/ CopyConstruct(h, g)
    \/ \E h, g \in Alive : Assign(h, g) \/ CopyFrom(h, g)
    \/ \E h \in Alive : Destroy(h) \/ Clear(h)
    \/ \E h \in Alive, v \in Values : AppendValue(h, v)

Spec == Init /\ [][Next]_vars

-----------------------------------------------------------------------------
\* What markProtectedLists marks.

\* The scan of the pool stops when it has seen as many lists as are in use.
ScannedPool ==
    {a \in Pool : /\ imp[a].state = "pool"
                  /\ Cardinality({b \in Pool : b < a /\ imp[b].state = "pool"}) < poolUsed}

\* The n-th element of a chain that starts at "first".
Nth(first, n) ==
    LET at[m \in 0 .. n] == IF m = 0 THEN first
                            ELSE IF at[m - 1] \in Addresses THEN imp[at[m - 1]].next
                            ELSE Null
    IN  at[n]

ScannedHeap == {Nth(heapList, n) : n \in 0 .. Cardinality(HeapAddresses)} \ {Null}

markProtectedLists ==
    UNION {ToSet(Content(imp[a])) : a \in {b \in ScannedPool \cup ScannedHeap : imp[b].valueRefCount > 0}}

\* List::mark, called by the owner of the List h.
MarkedByOwner(h) ==
    IF imp[handle[h].imp].valueRefCount = 0 THEN ToSet(ContentOf(h)) ELSE {}

\* The entries of the pool that the free list leads to.
PoolWalk ==
    LET free[n \in 0 .. PoolSize] ==
            IF n = 0 THEN Head1
            ELSE IF free[n - 1] \notin Pool THEN Null
            ELSE IF imp[free[n - 1]].next # Null THEN imp[free[n - 1]].next
            ELSE free[n - 1] + 1
    IN  free

-----------------------------------------------------------------------------
TypeOK ==
    /\ DOMAIN imp = Addresses
    /\ \A a \in Addresses :
         LET I == imp[a]
         IN  /\ I.state \in {"unused", "pool", "heap"}
             /\ I.valueRefCount \in 0 .. I.refCount
             /\ Len(I.overflow) = Max({0, I.capacity - inlineValuesSize})
             /\ I.size <= Max({inlineValuesSize, I.capacity})
             /\ \A n \in 1 .. I.size : ValueAt(I, n) \in Values
    /\ poolUsed \in 0 .. PoolSize
    /\ poolFreeList \in 0 .. PoolSize + 1
    /\ heapList \in HeapAddresses \cup {Null}
    /\ \A h \in Alive : handle[h].imp \in Addresses

\* A ListImp is in use as long as Lists refer to it, and counts them.  The
\* free list of the pool leads to each free entry once, and then one past the
\* end; the heap list leads to each ListImp of the heap once, in both
\* directions.
ListsExact ==
    LET Used(s) == {a \in Addresses : imp[a].state = s}
        Free == Pool \ Used("pool")
    IN  /\ \A a \in Addresses :
             imp[a].refCount = Cardinality({h \in Alive : handle[h].imp = a})
        /\ \A a \in Addresses : imp[a].state # "unused" <=> imp[a].refCount > 0
        /\ poolUsed = Cardinality(Used("pool"))
        /\ {PoolWalk[n] : n \in 0 .. Cardinality(Free) - 1} = Free
        /\ PoolWalk[Cardinality(Free)] = PoolSize + 1
        /\ {Nth(heapList, n) : n \in 0 .. Cardinality(Used("heap"))} = Used("heap") \cup {Null}
        /\ \A a \in Used("heap") :
             imp[a].prev = IF a = heapList THEN Null
                           ELSE CHOOSE b \in Used("heap") : imp[b].next = a

\* A value in a list is marked in every collection: by the scan of the lists
\* if a List without an owner refers to it, else by the owner of each List.
ValuesMarked ==
    \A h \in Alive :
        ToSet(ContentOf(h)) \subseteq
            markProtectedLists \cup IF handle[h].needsMarking THEN MarkedByOwner(h) ELSE {}

\* Reusing and growing ListImps does not show: a List keeps the values that
\* were put into the list it refers to.
Shared == INSTANCE SharedLists WITH
    Lists <- Addresses,
    NoList <- Null,
    of <- [h \in Handles |-> handle[h].imp],
    content <- [a \in Addresses |-> Content(imp[a])]
ImplementsSharedLists == Shared!Spec
=============================================================================
