------------------------------- MODULE UString -------------------------------
(***************************************************************************)
(* Strings and identifiers: src/kjs/ustring.cpp and src/kjs/identifier.cpp *)
(* under the single interpreter lock.                                      *)
(*                                                                         *)
(* A UString is a pointer to a counted Rep.  A Rep either owns a buffer or *)
(* is a window on the buffer of its base.  The buffer has room in front    *)
(* and behind, and a string that reaches the end of what is used of it     *)
(* (or the beginning) is appended to (or prepended to) without a copy.     *)
(* An Identifier is a UString whose Rep is the one key with its characters *)
(* in identifierTable, which does not count as a reference.                *)
(*                                                                         *)
(* The heap is passed through the functions as a record of "rep" and       *)
(* "table".  A hash is abstract: the characters it was computed from.      *)
(* Rep::null and Rep::empty are one static Rep, Empty, and its count is    *)
(* not kept.                                                               *)
(***************************************************************************)
EXTENDS Integers, Sequences, FiniteSets, FiniteSetsExt

CONSTANTS Vars,      \* variables of type UString
          Idents,    \* variables of type Identifier
          Reps,      \* addresses of Reps
          Chars,     \* characters
          Literals,  \* character sequences that the program names
          Lower,     \* the lower case of a character
          Cuts,      \* the positions and lengths that substr is called with
          MaxLen,    \* bound: the length of a string
          MaxRoom,   \* bound: the used characters of a buffer
          Careful    \* callers change no Rep in place that is an identifier,
                     \* and assign C strings to empty strings only

ASSUME StringsAssumption ==
    /\ <<>> \in Literals
    /\ Reps \subseteq Nat \ {0}
    /\ IsFiniteSet(Reps) /\ IsFiniteSet(Vars) /\ IsFiniteSet(Idents)
    /\ \A s \in Literals : s \in Seq(Chars) /\ Len(s) <= MaxLen
    /\ Lower \in [Chars -> Chars]
    /\ Cuts \subseteq Nat \X Nat
    /\ MaxLen \in Nat /\ MaxRoom \in Nat
    /\ Careful \in BOOLEAN

VARIABLES var, ident, heap

vars == <<var, ident, heap>>

Empty == 0
NoBase == 0
NoHash == <<>>
Junk == "junk"

-----------------------------------------------------------------------------
\* Reps.

\* A Rep that is not allocated has the count 0.
Free(H) == {r \in Reps : H.rep[r].rc = 0}

Owner(H, r) == IF H.rep[r].base = NoBase THEN r ELSE H.rep[r].base

Size(H, r) == IF r = Empty THEN 0 ELSE H.rep[r].len

\* Rep::data() and len.
Content(H, r) ==
    IF r = Empty THEN <<>>
    ELSE LET B == H.rep[Owner(H, r)]
             first == B.preCapacity + H.rep[r].offset + 1
         IN  SubSeq(B.buf, first, first + H.rep[r].len - 1)

RepOf(offset, len, base, buf, capacity) ==
    [offset |-> offset, len |-> len, rc |-> 1, hash |-> NoHash, isIdentifier |-> FALSE,
     base |-> base, buf |-> buf, usedCapacity |-> IF base = NoBase THEN len ELSE 0,
     capacity |-> capacity, usedPreCapacity |-> 0, preCapacity |-> 0]

Freed == [RepOf(0, 0, NoBase, <<>>, 0) EXCEPT !.rc = 0]

\* A function that makes a Rep returns the heap and the Rep, which has one
\* reference.
Made(H, R) ==
    LET r == Min(Free(H))
    IN  [h |-> [H EXCEPT !.rep[r] = R], r |-> r]

Fill(n) == [i \in 1 .. n |-> Junk]

\* Rep::create(d, l), where the buffer d has room for capacity characters.
Create(H, s, capacity) ==
    Made(H, RepOf(0, Len(s), NoBase, s \o Fill(capacity - Len(s)), capacity))

Ref(H, r) == IF r = Empty THEN H ELSE [H EXCEPT !.rep[r].rc = @ + 1]

\* (Mutant: the new Rep holds on to the Rep it is made from and not to the
\* one that owns the buffer.)
CreateSharedUncounted(H, r, offset, len) ==
    Made(Ref(H, r), RepOf(H.rep[r].offset + offset, len, Owner(H, r), <<>>, 0))

\* Rep::create(base, offset, length).
CreateShared(H, r, offset, len) ==
    Made(Ref(H, Owner(H, r)),
         RepOf(H.rep[r].offset + offset, len, Owner(H, r), <<>>, 0))

\* Rep::hash() and the keys of identifierTable that it finds.
Hash(H, r) == IF H.rep[r].hash = NoHash THEN Content(H, r) ELSE H.rep[r].hash
Keys(H, hash, s) == {k \in DOMAIN H.table : H.table[k] = hash /\ Content(H, k) = s}

\* Rep::destroy(), short of the reference to the base.
\* (Mutant: the key stays in the table.)
DestroyRepOnly(H, r) == [H EXCEPT !.rep[r] = Freed]

DestroyRep(H, r) ==
    LET gone == IF H.rep[r].isIdentifier THEN Keys(H, Hash(H, r), Content(H, r)) ELSE {}
    IN  [rep |-> [H.rep EXCEPT ![r] = Freed],
         table |-> [k \in DOMAIN H.table \ gone |-> H.table[k]]]

\* Rep::deref().  A base has no base.
Drop(H, r) == IF H.rep[r].rc > 1 THEN [H EXCEPT !.rep[r].rc = @ - 1] ELSE DestroyRep(H, r)
Deref(H, r) ==
    IF r = Empty THEN H
    ELSE IF H.rep[r].rc > 1 \/ H.rep[r].base = NoBase THEN Drop(H, r)
    ELSE Drop(Drop(H, r), H.rep[r].base)

-----------------------------------------------------------------------------
\* Room in the buffer.

expandedSize(size, otherSize) == (size * 11) \div 10 + 1 + otherSize

usedCapacity(H, r) == IF r = Empty THEN 0 ELSE H.rep[Owner(H, r)].usedCapacity
usedPreCapacity(H, r) == IF r = Empty THEN 0 ELSE H.rep[Owner(H, r)].usedPreCapacity

\* (Mutant: the room in front is counted as room behind.)
expandCapacityTwice(H, r, required) ==
    LET o == Owner(H, r)
        B == H.rep[o]
        new == expandedSize(required, B.preCapacity)
        grow == required > B.capacity
    IN  [H EXCEPT !.rep[o] =
           [B EXCEPT !.buf = IF grow THEN @ \o Fill(new - B.preCapacity - B.capacity) ELSE @,
                     !.capacity = IF grow THEN new ELSE @,
                     !.usedCapacity = Max({@, required})]]

expandCapacity(H, r, required) ==
    LET o == Owner(H, r)
        B == H.rep[o]
        new == expandedSize(required, B.preCapacity)
        grow == required > B.capacity
    IN  [H EXCEPT !.rep[o] =
           [B EXCEPT !.buf = IF grow THEN @ \o Fill(new - B.preCapacity - B.capacity) ELSE @,
                     !.capacity = IF grow THEN new - B.preCapacity ELSE @,
                     !.usedCapacity = Max({@, required})]]

expandPreCapacity(H, r, required) ==
    LET o == Owner(H, r)
        B == H.rep[o]
        new == expandedSize(required, B.capacity)
        grow == required > B.preCapacity
    IN  [H EXCEPT !.rep[o] =
           [B EXCEPT !.buf = IF grow THEN Fill(new - B.capacity - B.preCapacity) \o @ ELSE @,
                     !.preCapacity = IF grow THEN new - B.capacity ELSE @,
                     !.usedPreCapacity = Max({@, required})]]

\* The characters s are copied to the place "at" of the buffer of r.
Written(H, r, at, s) ==
    LET o == Owner(H, r)
        first == H.rep[o].preCapacity + at
    IN  [H EXCEPT !.rep[o].buf =
           [n \in DOMAIN @ |-> IF n - first \in DOMAIN s THEN s[n - first] ELSE @[n]]]

-----------------------------------------------------------------------------
\* The functions of UString, for the Reps of their operands.  Each returns the
\* heap and the Rep of the result, counted.

Copied(H, r) == [h |-> Ref(H, r), r |-> r]

\* (Mutant: a string that ends inside the used part is appended to as well.)
EndsBufferOrInside(H, r) == H.rep[r].offset + Size(H, r) <= usedCapacity(H, r)

EndsBuffer(H, r) == H.rep[r].offset + Size(H, r) = usedCapacity(H, r)
BeginsBuffer(H, r) == -H.rep[r].offset = usedPreCapacity(H, r)

\* UString::UString(a, b).
Concatenated(H, a, b) ==
    LET aSize == Size(H, a)
        bSize == Size(H, b)
        length == aSize + bSize
        copy == Create(H, Content(H, a) \o Content(H, b), expandedSize(length, 0))
    IN  IF aSize = 0 THEN Copied(H, b)
        ELSE IF bSize = 0 THEN Copied(H, a)
        ELSE IF EndsBuffer(H, a) /\ 4 * aSize >= bSize /\ (~BeginsBuffer(H, b) \/ aSize >= bSize)
        THEN LET end == H.rep[a].offset + aSize
                 h == expandCapacity(H, a, end + bSize)
             IN  CreateShared(Written(h, a, end, Content(h, b)), a, 0, length)
        ELSE IF BeginsBuffer(H, b) /\ 4 * bSize >= aSize
        THEN LET begin == H.rep[b].offset - aSize
                 h == expandPreCapacity(H, b, -begin)
             IN  CreateShared(Written(h, b, begin, Content(h, a)), b, -aSize, length)
        ELSE copy

\* A Rep that can be altered by the one string that refers to it.
Alterable(H, r) == r # Empty /\ H.rep[r].base = NoBase /\ H.rep[r].rc = 1

\* UString::append of the characters s, none of the two being empty.
Extended(H, r, s) ==
    LET size == Size(H, r)
        end == H.rep[r].offset + size
        h == Written(expandCapacity(H, r, end + Len(s)), r, end, s)
    IN  IF Alterable(H, r)
        THEN [h |-> [h EXCEPT !.rep[r].len = size + Len(s), !.rep[r].hash = NoHash], r |-> r]
        ELSE IF EndsBuffer(H, r)
        THEN LET m == CreateShared(h, r, 0, size + Len(s)) IN [m EXCEPT !.h = Deref(@, r)]
        ELSE LET m == Create(H, Content(H, r) \o s, expandedSize(size + Len(s), 0))
             IN  [m EXCEPT !.h = Deref(@, r)]

Substring(H, r, pos, len) ==
    LET size == Size(H, r)
        p == IF pos >= size THEN size ELSE pos
        l == IF p + len >= size THEN size - p ELSE len
    IN  IF p = 0 /\ l = size THEN Copied(H, r) ELSE CreateShared(H, r, p, l)

\* UString::operator=(const char *): the length of the old string stays when
\* its buffer is used again.
AssignedChars(H, r, s) ==
    IF Alterable(H, r) /\ Len(s) <= H.rep[r].capacity
       /\ H.rep[r].offset = 0 /\ H.rep[r].preCapacity = 0
    THEN [h |-> [Written(H, r, 0, s) EXCEPT !.rep[r].hash = NoHash], r |-> r]
    ELSE LET m == Create(H, s, Len(s)) IN [m EXCEPT !.h = Deref(@, r)]

\* UString::copyForWriting.
CopiedForWriting(H, r) ==
    IF ~Alterable(H, r)
    THEN LET m == Create(H, Content(H, r), Size(H, r)) IN [m EXCEPT !.h = Deref(@, r)]
    ELSE [h |-> H, r |-> r]

\* The Rep becomes the key for the characters that have the hash.
AddKey(H, r, hash) ==
    [rep |-> [H.rep EXCEPT ![r].hash = hash, ![r].isIdentifier = TRUE],
     table |-> [x \in DOMAIN H.table \cup {r} |-> IF x = r THEN hash ELSE H.table[x]]]

\* Identifier::add of a Rep, and of a C string.
Interned(H, r) ==
    IF Size(H, r) = 0 THEN Copied(H, Empty)
    ELSE IF H.rep[r].isIdentifier THEN Copied(H, r)
    ELSE LET hash == Hash(H, r)
             h == [H EXCEPT !.rep[r].hash = hash]
             found == Keys(h, hash, Content(h, r))
             k == CHOOSE x \in found : TRUE
         IN  IF found # {} THEN Copied(h, k)
             ELSE Copied(AddKey(H, r, hash), r)

InternedChars(H, s) ==
    LET found == Keys(H, s, s)
        k == CHOOSE x \in found : TRUE
        m == Create(H, s, Len(s))
    IN  IF s = <<>> THEN Copied(H, Empty)
        ELSE IF found # {} THEN Copied(H, k)
        ELSE [r |-> m.r, h |-> AddKey(m.h, m.r, s)]

-----------------------------------------------------------------------------
\* What a program does with its variables.

Init ==
    /\ var = [v \in Vars |-> Empty]
    /\ ident = [i \in Idents |-> Empty]
    /\ heap = [rep |-> [r \in Reps |-> Freed], table |-> <<>>]

CanMake == Free(heap) # {}

\* Characters that are in the window of no Rep cannot be read again: they are
\* forgotten, which keeps the number of states small.
Forgotten(H) ==
    LET Read(o, n) == \E r \in Reps \ Free(H) :
            /\ Owner(H, r) = o
            /\ n - H.rep[o].preCapacity - H.rep[r].offset \in 1 .. H.rep[r].len
        Kept(o) == [n \in DOMAIN H.rep[o].buf |-> IF Read(o, n) THEN H.rep[o].buf[n] ELSE Junk]
    IN  [H EXCEPT !.rep = [o \in Reps |-> [H.rep[o] EXCEPT !.buf = Kept(o)]]]

Bounded(H) == \A r \in Reps : H.rep[r].usedCapacity + H.rep[r].usedPreCapacity <= MaxRoom

\* The variable takes the result and lets its old Rep go (operator=), or is
\* altered by a function that has done so itself.
AlterString(v, m) ==
    /\ Bounded(m.h)
    /\ var' = [var EXCEPT ![v] = m.r]
    /\ heap' = Forgotten(m.h)
    /\ UNCHANGED ident
TakeString(v, m) == AlterString(v, [m EXCEPT !.h = Deref(@, var[v])])
TakeName(i, m) ==
    /\ ident' = [ident EXCEPT ![i] = m.r]
    /\ heap' = Forgotten(Deref(m.h, ident[i]))
    /\ UNCHANGED var

New(v, s) ==
    CanMake /\ TakeString(v, IF s = <<>> THEN Copied(heap, Empty) ELSE Create(heap, s, Len(s)))

Assign(v, w) == TakeString(v, Copied(heap, w))

Concat(v, a, b) ==
    /\ CanMake
    /\ Size(heap, a) + Size(heap, b) <= MaxLen
    /\ TakeString(v, Concatenated(heap, a, b))

MayAlter(r) == Careful /\ Alterable(heap, r) => ~heap.rep[r].isIdentifier

AppendString(v, w) ==
    LET r == var[v]
        s == Content(heap, w)
    IN  /\ CanMake
        /\ s # <<>>
        /\ Size(heap, r) + Len(s) <= MaxLen
        /\ IF Size(heap, r) = 0 THEN TakeString(v, Copied(heap, w))
           ELSE MayAlter(r) /\ AlterString(v, Extended(heap, r, s))

AppendChars(v, s) ==
    LET r == var[v]
    IN  /\ CanMake
        /\ s # <<>>
        /\ Size(heap, r) + Len(s) <= MaxLen
        /\ IF Size(heap, r) = 0 THEN AlterString(v, AssignedChars(heap, r, s))
           ELSE MayAlter(r) /\ AlterString(v, Extended(heap, r, s))

AppendChar(v, c) ==
    LET r == var[v]
    IN  /\ CanMake
        /\ Size(heap, r) < MaxLen
        /\ IF Size(heap, r) = 0
           THEN TakeString(v, Create(heap, <<c>>, expandedSize(1, 0)))
           ELSE MayAlter(r) /\ AlterString(v, Extended(heap, r, <<c>>))

AssignChars(v, s) ==
    /\ CanMake
    /\ Careful => Size(heap, var[v]) = 0
    /\ AlterString(v, AssignedChars(heap, var[v], s))

Substr(v, w, pos, len) ==
    CanMake /\ TakeString(v, Substring(heap, w, pos, len))

\* copyForWriting and a change of the characters.  The callers have copied
\* the string from one they keep.
MakeLower(v) ==
    /\ CanMake
    /\ Careful => ~Alterable(heap, var[v])
    /\ LET m == CopiedForWriting(heap, var[v])
           s == Content(m.h, m.r)
       IN  AlterString(v, [m EXCEPT !.h =
               Written(@, m.r, m.h.rep[m.r].offset, [n \in DOMAIN s |-> Lower[s[n]]])])

Name(i, w) == TakeName(i, Interned(heap, w))
NameChars(i, s) == CanMake /\ TakeName(i, InternedChars(heap, s))

\* The strings a program can name: its variables and the ustring() of its
\* identifiers.
Strings == {var[v] : v \in Vars} \cup {ident[i] : i \in Idents}

Next ==
    \/ \E v \in Vars, s \in Literals : New(v, s) \/ AppendChars(v, s) \/ AssignChars(v, s)
    \/ \E v \in Vars, c \in Chars : AppendChar(v, c)
    \/ \E v \in Vars : MakeLower(v)
    \/ \E v \in Vars, w \in Strings : Assign(v, w) \/ AppendString(v, w)
    \/ \E v \in Vars, w \in Strings, cut \in Cuts : Substr(v, w, cut[1], cut[2])
    \/ \E v \in Vars, a, b \in Strings : Concat(v, a, b)
    \/ \E i \in Idents, w \in Strings : Name(i, w)
    \/ \E i \in Idents, s \in Literals : NameChars(i, s)

Spec == Init /\ [][Next]_vars

-----------------------------------------------------------------------------
Handles(r) == Cardinality({v \in Vars : var[v] = r}) + Cardinality({i \in Idents : ident[i] = r})
Allocated == Reps \ Free(heap)

\* Every Rep is one, and a window lies within the used part of a buffer that
\* is within the capacity (the assertions of Rep::create).
TypeOK ==
    /\ var \in [Vars -> Reps \cup {Empty}]
    /\ ident \in [Idents -> Reps \cup {Empty}]
    /\ \A r \in Allocated :
         LET R == heap.rep[r]
             B == heap.rep[Owner(heap, r)]
         IN  /\ R.rc \in Nat
             /\ B.base = NoBase
             /\ Len(B.buf) = B.preCapacity + B.capacity
             /\ B.usedCapacity \in 0 .. B.capacity
             /\ B.usedPreCapacity \in 0 .. B.preCapacity
             /\ -R.offset <= B.usedPreCapacity
             /\ R.offset + R.len <= B.usedCapacity
             /\ R.len \in 0 .. MaxLen
             /\ \A n \in DOMAIN Content(heap, r) : Content(heap, r)[n] \in Chars

\* A Rep is counted once for each variable that refers to it and each Rep that
\* is a window on it: none is freed under a reference, and none is lost.
RefCountsExact ==
    /\ \A r \in Allocated :
         heap.rep[r].rc = Handles(r) + Cardinality({x \in Allocated : heap.rep[x].base = r})
    /\ \A v \in Vars : var[v] \in Allocated \cup {Empty}
    /\ \A i \in Idents : ident[i] \in Allocated \cup {Empty}

\* The table has the live identifiers for keys, each where the hash of its
\* characters leads to, no two of them with the same characters: so equal
\* identifiers are the same pointer, whatever was done to the strings they
\* came from.
NamesUnique ==
    /\ DOMAIN heap.table = {r \in Allocated : heap.rep[r].isIdentifier}
    /\ \A k \in DOMAIN heap.table :
         Keys(heap, Hash(heap, k), Content(heap, k)) = {k} /\ Hash(heap, k) = Content(heap, k)
    /\ \A i \in Idents : ident[i] \in DOMAIN heap.table \cup {Empty}

\* Buffers are shared, values are not: a string and an identifier change by
\* the operations called on them only.
Values == INSTANCE StringValues WITH
    val <- [v \in Vars |-> Content(heap, var[v])],
    name <- [i \in Idents |-> Content(heap, ident[i])]
ImplementsStringValues == Values!Spec
=============================================================================
