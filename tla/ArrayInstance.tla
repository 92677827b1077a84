---------------------------- MODULE ArrayInstance -----------------------------
(***************************************************************************)
(* JavaScript arrays (kjs/array_object.cpp).  Elements below a cutoff are  *)
(* kept in a vector that grows on demand; later ones are properties of the *)
(* object, in its property map.  An absent element and one that is         *)
(* undefined look alike to get, but not to the code.                       *)
(***************************************************************************)
EXTENDS Integers, Sequences, FiniteSets, FiniteSetsExt, SequencesExt

CONSTANTS
    Values,          \* values; the comparison of a sort is that of numbers
    Undefined,       \* jsUndefined()
    Null,            \* a null pointer
    Cutoff,          \* sparseArrayCutoff
    MaxLength,       \* bound on the length, in place of 2^32 - 1
    MaxArgs,         \* bound on the arguments of push, unshift and splice
    MaxSorted,       \* bound on the elements of an array that is sorted
    CutsAtElement    \* TRUE if length may be set to the index of a property

ASSUME ValuesAssumption == Values \subseteq Nat
ASSUME BoundsAssumption ==
    /\ Cutoff \in Nat \ {0} /\ MaxLength \in Nat
    /\ MaxArgs \in Nat /\ MaxSorted \in Nat
ASSUME CutsAtElementAssumption == CutsAtElement \in BOOLEAN
ASSUME SpecialAssumption == Undefined \notin Values /\ Null \notin Values \cup {Undefined}

VARIABLE array   \* length, storage, storageLength; sparse: index -> value

Element == Values \cup {Undefined}
Indices == 0 .. MaxLength - 1

capacity(a) == Cardinality(DOMAIN a.storage)

TypeOK ==
    /\ array.length \in 0 .. MaxLength
    /\ array.storage \in [0 .. capacity(array) - 1 -> Element \cup {Null}]
    /\ array.storageLength \in 0 .. capacity(array)
    /\ DOMAIN array.sparse \subseteq Indices
    /\ \A i \in DOMAIN array.sparse : array.sparse[i] \in Element

------------------------------------------------------------------------------
(* The constructors, and access to one element.                            *)

Cleared(n) == [i \in 0 .. n - 1 |-> Null]

\* (Mutant: only the capacity is cut off.)
ofLengthUncut(n) ==
    [length |-> n, storage |-> Cleared(IF n < Cutoff THEN n ELSE 0),
     storageLength |-> n, sparse |-> <<>>]

ofLength(n) ==
    LET m == IF n < Cutoff THEN n ELSE 0 IN
    [length |-> n, storage |-> Cleared(m), storageLength |-> m, sparse |-> <<>>]

ofList(s) ==
    [length |-> Len(s), storage |-> [i \in 0 .. Len(s) - 1 |-> s[i + 1]],
     storageLength |-> Len(s), sparse |-> <<>>]

\* getOwnPropertySlot: Null if there is no such property.
getProperty(a, i) ==
    IF i >= a.length THEN Null
    ELSE IF i < a.storageLength
         THEN IF a.storage[i] = Undefined THEN Null ELSE a.storage[i]
    ELSE IF i \in DOMAIN a.sparse THEN a.sparse[i] ELSE Null

get(a, i) == LET v == getProperty(a, i) IN IF v = Null THEN Undefined ELSE v

\* (Mutant: the cells given up are not cleared.)
ZeroNothing(a, n) == a

\* memset of the cells in use from n on.
ZeroFrom(a, n) ==
    [a EXCEPT !.storage = [i \in DOMAIN @ |->
        IF n <= i /\ i < a.storageLength THEN Null ELSE @[i]]]

resizeStorage(a, n) ==
    LET old == ZeroFrom(a, n).storage
        newCapacity ==
            IF n <= capacity(a) THEN capacity(a)
            ELSE IF n > Cutoff THEN n ELSE Min({(n * 3 + 1) \div 2, Cutoff})
        grown == [i \in 0 .. newCapacity - 1 |-> IF i < capacity(a) THEN old[i] ELSE Null]
    IN  [a EXCEPT !.storage = grown, !.storageLength = n]

With(f, i, v) == [j \in DOMAIN f \cup {i} |-> IF j = i THEN v ELSE f[j]]

put(a, i, v) ==
    LET r == IF i < Cutoff /\ i >= a.storageLength THEN resizeStorage(a, i + 1) ELSE a
        l == [r EXCEPT !.length = Max({@, i + 1})]
    IN  IF i < l.storageLength THEN [l EXCEPT !.storage[i] = v]
        ELSE [l EXCEPT !.sparse = With(@, i, v)]

Without(f, S) == [j \in DOMAIN f \ S |-> f[j]]

deleteProperty(a, i) ==
    IF i >= a.length THEN a
    ELSE IF i < a.storageLength THEN [a EXCEPT !.storage[i] = Null]
    ELSE [a EXCEPT !.sparse = Without(@, {i})]

\* (Mutant: the properties are left alone.)
setLengthOfVector(a, n) ==
    [(IF n <= a.storageLength THEN resizeStorage(a, n) ELSE a) EXCEPT !.length = n]

\* The property at the new length itself is not deleted, nor one that
\* deleteProperty takes to be above the old length.
setLength(a, n) ==
    LET r == IF n <= a.storageLength THEN resizeStorage(a, n) ELSE a
        cut == {i \in DOMAIN r.sparse : n < i /\ i < r.length}
    IN  [r EXCEPT !.sparse = Without(@, cut), !.length = n]

------------------------------------------------------------------------------
(* Sorting.                                                                *)

Defined(v) == v \notin {Null, Undefined}

Below(S, i) == Cardinality({j \in S : j < i})

InVector(a) == {i \in 0 .. a.storageLength - 1 : Defined(a.storage[i])}

\* The defined elements of the vector move to its front.
Compacted(a) ==
    LET cells[i \in 0 .. a.storageLength] ==
            IF i = 0 THEN a.storage
            ELSE IF i - 1 \in InVector(a)
                 THEN [cells[i - 1] EXCEPT ![Below(InVector(a), i - 1)] = a.storage[i - 1]]
                 ELSE cells[i - 1]
    IN  [a EXCEPT !.storage = cells[a.storageLength]]

\* The properties move to the vector, from place o on.
TakeSparse(a, o) ==
    LET Take(b, i) ==
            [b EXCEPT !.storage[o + Below(DOMAIN a.sparse, i)] = get(b, i),
                      !.sparse = Without(@, {i})]
        taken[i \in 0 .. MaxLength] ==
            IF i = 0 THEN a
            ELSE IF i - 1 \in DOMAIN a.sparse THEN Take(taken[i - 1], i - 1)
                 ELSE taken[i - 1]
    IN  taken[MaxLength]

\* Each property is fetched after the vector has grown.
pushUndefinedObjectsToEnd(a) ==
    LET o == Cardinality(InVector(a))
        n == o + Cardinality(DOMAIN a.sparse)
        c == Compacted(a)
        grown == IF n > a.storageLength THEN resizeStorage(c, n) ELSE c
    IN  [array |-> ZeroFrom(TakeSparse(grown, o), n), count |-> n]

\* The comparison functions given to qsort: undefined is above all values.
Less(v, w) == v # Undefined /\ (w = Undefined \/ v < w)

\* qsort of the cells s, numbered from 0: number i holds the value that at most i
\* are less than and more than i do not exceed.
Sorted(s) ==
    [i \in DOMAIN s |-> CHOOSE v \in {s[j] : j \in DOMAIN s} :
        /\ Cardinality({j \in DOMAIN s : Less(s[j], v)}) <= i
        /\ i < Cardinality({j \in DOMAIN s : ~ Less(v, s[j])})]

sort(a) ==
    LET p == pushUndefinedObjectsToEnd(a)
        sorted == Sorted([i \in 0 .. p.count - 1 |-> p.array.storage[i]])
    IN  [p.array EXCEPT !.storage = [i \in DOMAIN @ |->
            IF i < p.count THEN sorted[i] ELSE @[i]]]

------------------------------------------------------------------------------
(* The functions of Array.prototype.                                       *)

Up(m, n) == [i \in 1 .. n - m + 1 |-> m + i - 1]
Down(m, n) == [i \in 1 .. m - n + 1 |-> m - i + 1]

\* Element from, or its absence, is copied to place to.
Copy(a, from, to) ==
    LET v == getProperty(a, from) IN
    IF v = Null THEN deleteProperty(a, to) ELSE put(a, to, v)

\* The elements s, one after the other, are copied to the places d further on.
CopyAll(a, s, d) ==
    LET after[n \in 0 .. Len(s)] ==
            IF n = 0 THEN a ELSE Copy(after[n - 1], s[n], s[n] + d)
    IN  after[Len(s)]

DeleteAll(a, s) ==
    LET after[n \in 0 .. Len(s)] ==
            IF n = 0 THEN a ELSE deleteProperty(after[n - 1], s[n])
    IN  after[Len(s)]

\* The elements args are put at place i and after it.
PutAll(a, i, args) ==
    LET after[n \in 0 .. Len(args)] ==
            IF n = 0 THEN a ELSE put(after[n - 1], i + n - 1, args[n])
    IN  after[Len(args)]

\* Elements k and other change places.
Swap(a, k, other) ==
    LET v == getProperty(a, k)
        first == Copy(a, other, k)
    IN  IF v = Null THEN deleteProperty(first, other) ELSE put(first, other, v)

reverse(a) ==
    LET after[n \in 0 .. a.length \div 2] ==
            IF n = 0 THEN a ELSE Swap(after[n - 1], n - 1, a.length - n)
    IN  after[a.length \div 2]

push(a, args) == setLength(PutAll(a, a.length, args), a.length + Len(args))

pop(a) == setLength(a, IF a.length = 0 THEN 0 ELSE a.length - 1)

shift(a) ==
    IF a.length = 0 THEN setLength(a, 0)
    ELSE
        LET moved == CopyAll(a, Up(1, a.length - 1), -1)
        IN  setLength(deleteProperty(moved, a.length - 1), a.length - 1)

\* (Mutant: the elements are moved from the first to the last.)
unshiftUpwards(a, args) ==
    LET moved == CopyAll(a, Up(0, a.length - 1), Len(args))
    IN  setLength(PutAll(moved, 0, args), a.length + Len(args))

unshift(a, args) ==
    LET moved == CopyAll(a, Down(a.length - 1, 0), Len(args))
    IN  setLength(PutAll(moved, 0, args), a.length + Len(args))

\* splice with its first two arguments brought into range.
splice(a, begin, count, args) ==
    LET d == Len(args) - count
        moved ==
            IF d < 0
            THEN DeleteAll(CopyAll(a, Up(begin + count, a.length - 1), d),
                           Down(a.length - 1, a.length + d))
            ELSE IF d > 0
            THEN CopyAll(a, Down(a.length - 1, begin + count), d)
            ELSE a
    IN  setLength(PutAll(moved, begin, args), a.length + d)

\* Copies into a new array: slice, concat and the result of splice.
CopyInto(target, n, a, begin, end) ==
    LET passes == Max({end - begin, 0})
        Step(r, i) ==
            LET v == getProperty(a, begin + i) IN IF v = Null THEN r ELSE put(r, n + i, v)
        after[i \in 0 .. passes] == IF i = 0 THEN target ELSE Step(after[i - 1], i - 1)
    IN  after[passes]

slice(a, begin, end) ==
    LET place(x) == IF x < 0 THEN Max({x + a.length, 0}) ELSE Min({x, a.length})
        b == place(begin)
        e == place(end)
    IN  setLength(CopyInto(ofList(<<>>), 0, a, b, e), Max({e - b, 0}))

concat(a, c) ==
    setLength(CopyInto(CopyInto(ofList(<<>>), 0, a, 0, a.length), a.length, c, 0, c.length),
              a.length + c.length)

\* The first of the least elements from i on.
MinFrom(a, i) ==
    CHOOSE j \in i .. a.length - 1 : \A k \in i .. a.length - 1 :
        /\ ~ Less(get(a, k), get(a, j))
        /\ k < j => Less(get(a, j), get(a, k))

Select(a, i) ==
    LET j == MinFrom(a, i) IN
    IF j = i THEN a ELSE put(put(a, i, get(a, j)), j, get(a, i))

\* The sort of an object that is not an ArrayInstance: by repeated selection.
minSort(a) ==
    IF a.length = 0 THEN setLength(a, 0)
    ELSE
        LET after[n \in 0 .. a.length - 1] ==
                IF n = 0 THEN a ELSE Select(after[n - 1], n - 1)
        IN  after[a.length - 1]

------------------------------------------------------------------------------
(* The specification.                                                      *)

Lists(n) == UNION {[1 .. m -> Element] : m \in 0 .. n}

Init ==
    \/ \E n \in 0 .. MaxLength : array = ofLength(n)
    \/ \E s \in Lists(MaxLength) : array = ofList(s)

Put(i, v) == array' = put(array, i, v)
Delete(i) == array' = deleteProperty(array, i)

\* An assignment to length, or pop, cuts the array at n; see setLength.
MayCut(n) == CutsAtElement \/ n >= array.length \/ n \notin DOMAIN array.sparse

SetLength(n) == MayCut(n) /\ array' = setLength(array, n)
Pop == (array.length > 0 => MayCut(array.length - 1)) /\ array' = pop(array)

Sort ==
    /\ Cardinality({i \in Indices : getProperty(array, i) # Null}) <= MaxSorted
    /\ array' = sort(array)

RoomFor(n) == array.length + n <= MaxLength

Push(args) == RoomFor(Len(args)) /\ array' = push(array, args)
Unshift(args) == RoomFor(Len(args)) /\ array' = unshift(array, args)
Splice(begin, count, args) ==
    /\ begin + count <= array.length
    /\ RoomFor(Len(args) - count)
    /\ array' = splice(array, begin, count, args)

Next ==
    \/ \E i \in Indices : Delete(i) \/ \E v \in Element : Put(i, v)
    \/ \E n \in 0 .. MaxLength : SetLength(n)
    \/ Pop \/ Sort \/ array' = shift(array) \/ array' = reverse(array)
    \/ \E args \in Lists(MaxArgs) :
            \/ Push(args) \/ Unshift(args)
            \/ \E begin, count \in 0 .. MaxLength : Splice(begin, count, args)

Spec == Init /\ [][Next]_array

------------------------------------------------------------------------------
(* Properties.                                                             *)

Elements(a) == [i \in 1 .. a.length |-> get(a, i - 1)]

\* The length is above every index that is the name of a property: those that
\* getPropertyNames would list, in the vector or not.
LengthAboveIndices ==
    \A i \in Indices :
        (i < array.storageLength /\ Defined(array.storage[i])) \/ i \in DOMAIN array.sparse
            => i < array.length

\* The two stores do not overlap, a property is never found at an index that put
\* would have given to the vector (the assertion of array_object.cpp:164) nor
\* above the length, and the spare cells are clear, so that nothing reappears when
\* the vector or the length grows.
StorageLayout ==
    /\ LengthAboveIndices
    /\ array.storageLength <= array.length
    /\ \A i \in DOMAIN array.sparse : i >= Max({Cutoff, array.storageLength})
    /\ \A i \in array.storageLength .. capacity(array) - 1 : array.storage[i] = Null

\* Each function of Array.prototype does what ECMA-262 says, to whatever mixture
\* of the two stores, and leaves no trace of how its loop got there.
Ecma == INSTANCE EcmaArray WITH elements <- Elements(array)

MethodsExact ==
    LET s == Elements(array) IN
    /\ Elements(reverse(array)) = Reverse(s)
    /\ Elements(shift(array)) = IF s = <<>> THEN s ELSE Tail(s)
    /\ Elements(pop(array)) = IF s = <<>> THEN s ELSE Front(s)
    /\ Ecma!Orders(s, Elements(minSort(array)))
    /\ Elements(concat(array, array)) = s \o s
    /\ \A args \in Lists(MaxArgs) :
        /\ Elements(push(array, args)) = s \o args
        /\ Elements(unshift(array, args)) = args \o s
        /\ \A begin \in 0 .. Len(s) : \A count \in 0 .. Len(s) - begin :
            Elements(splice(array, begin, count, args)) = Ecma!Spliced(s, begin, count, args)
    /\ \A begin, end \in 0 .. Len(s) :
        Elements(slice(array, begin, end)) = SubSeq(s, begin + 1, end)

\* A sort loses no element and makes none up: what ECMA-262 15.4.4.5 asks for
\* first, a permutation.
SortPermutes ==
    [][Sort => \A v \in Values :
        Cardinality({i \in Indices : get(array, i) = v})
            = Cardinality({i \in Indices : get(array', i) = v})]_array

\* Under any sequence of operations the array behaves like the sequence of its
\* elements: it is never seen which elements are in the vector.
ImplementsEcmaArray == Ecma!Spec
==============================================================================
