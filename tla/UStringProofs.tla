--------------------------- MODULE UStringProofs ----------------------------
(***************************************************************************)
(* Reference counts, shared buffers and the table of identifiers are       *)
(* exact, and strings that share a buffer are the independent values of    *)
(* StringValues.tla, for any characters and any number of variables.       *)
(*                                                                         *)
(* The operations of UString are functions of the heap.  A heap is good    *)
(* for the counts c if each Rep is a window on a buffer, and counts c[r]   *)
(* variables and the windows on it.  Each function is shown to keep a heap *)
(* good, and the characters of each Rep that somebody refers to.           *)
(***************************************************************************)
EXTENDS UString, InductionLemmas, SequenceTheorems

Symbols == Chars \cup {Junk}

RepType ==
    [offset : Int, len : Nat, rc : Nat, hash : Seq(Chars), isIdentifier : BOOLEAN,
     base : Reps \cup {NoBase}, buf : Seq(Symbols), usedCapacity : Nat, capacity : Nat,
     usedPreCapacity : Nat, preCapacity : Nat]

Typed(H) ==
    /\ H = [rep |-> H.rep, table |-> H.table] /\ H.rep \in [Reps -> RepType]
    /\ DOMAIN H.table \subseteq Reps /\ H.table \in [DOMAIN H.table -> Seq(Chars)]

\* The place n of a buffer, counted from where the first string began.
At(B, n) == B.buf[B.preCapacity + n]

\* A buffer fits its capacities.
Buffer(B) ==
    /\ Len(B.buf) = B.preCapacity + B.capacity
    /\ B.usedCapacity <= B.capacity /\ B.usedPreCapacity <= B.preCapacity

\* R is a window on the used part of the buffer of B and has characters.
Window(R, B) ==
    /\ 0 <= R.offset + B.usedPreCapacity /\ R.offset + R.len <= B.usedCapacity
    /\ \A i \in 1 .. R.len : At(B, R.offset + i) \in Chars

\* An empty string that has a buffer has one without room.
Roomless(R) == R.len = 0 => R.capacity = 0 /\ R.preCapacity = 0

Unheld(R) == R.rc = 0 => R.len = 0 /\ R.base = NoBase /\ ~R.isIdentifier

SoundRep(H, r) ==
    LET R == H.rep[r]
        B == H.rep[Owner(H, r)]
    IN  /\ R.len <= MaxLen /\ Unheld(R)
        /\ B.base = NoBase /\ Window(R, B)
        /\ R.base = NoBase => Buffer(R) /\ Roomless(R)

Sound(H) == \A r \in Reps : SoundRep(H, r)

Windows(H, r) == {x \in Reps : H.rep[x].base = r}
Counted(H, c) == \A r \in Reps : H.rep[r].rc = c[r] + Cardinality(Windows(H, r))

\* The table and the cached hashes, if callers are careful.
Named(H) ==
    /\ DOMAIN H.table = {r \in Reps : H.rep[r].isIdentifier}
    /\ \A r \in Reps : H.rep[r].hash = NoHash \/ H.rep[r].hash = Content(H, r)
    /\ \A k \in DOMAIN H.table :
         /\ Content(H, k) # <<>>
         /\ H.rep[k].hash = Content(H, k) /\ H.table[k] = Content(H, k)
         /\ \A j \in DOMAIN H.table : Content(H, j) = Content(H, k) => j = k

Good(H, c) ==
    /\ Typed(H) /\ c \in [Reps -> Nat]
    /\ Sound(H) /\ Counted(H, c)
    /\ Careful => Named(H)

\* The variables that refer to each Rep.
HandlesAt(D, f, r) == {v \in D : f[v] = r}
Counts(f, g) ==
    [r \in Reps |-> Cardinality(HandlesAt(Vars, f, r)) + Cardinality(HandlesAt(Idents, g, r))]

IInv ==
    /\ var \in [Vars -> Reps \cup {Empty}] /\ ident \in [Idents -> Reps \cup {Empty}]
    /\ Good(heap, Counts(var, ident))
    /\ Careful => \A i \in Idents : ident[i] = Empty \/ heap.rep[ident[i]].isIdentifier

------------------------------------------------------------------------------
(* Sequences and numbers.                                                  *)

LEMMA FillType ==
    ASSUME NEW n \in Nat
    PROVE  Fill(n) \in Seq(Symbols) /\ Len(Fill(n)) = n
  BY DEF Fill, Symbols

LEMMA MaxOf ==
    ASSUME NEW x \in Nat, NEW y \in Nat
    PROVE  Max({x, y}) = IF x > y THEN x ELSE y
  <1>1. \E z \in {x, y} : \A w \in {x, y} : z >= w
    OBVIOUS
  <1>2. /\ Max({x, y}) \in {x, y}
        /\ \A w \in {x, y} : Max({x, y}) >= w
    BY <1>1 DEF Max
  <1> QED
    BY <1>2

LEMMA Expanded ==
    ASSUME NEW size, NEW otherSize, size \in Nat, otherSize \in Nat
    PROVE  /\ expandedSize(size, otherSize) \in Nat
           /\ expandedSize(size, otherSize) > size + otherSize
  BY DEF expandedSize

\* A part of a sequence, and two sequences in a row.
Part(g, q, first, n) == Len(g) = n /\ \A i \in 1 .. n : g[i] = q[first + i]

LEMMA Piece ==
    ASSUME NEW S, NEW q \in Seq(S), NEW first \in Nat, NEW n \in Nat, first + n <= Len(q),
           NEW g, g = SubSeq(q, first + 1, first + n)
    PROVE  g \in Seq(S) /\ Part(g, q, first, n)
  BY DEF Part

JoinOf(g, q, r) ==
    /\ Len(g) = Len(q) + Len(r)
    /\ \A n \in 1 .. Len(q) : g[n] = q[n]
    /\ \A n \in 1 .. Len(r) : g[n + Len(q)] = r[n]

LEMMA Joined ==
    ASSUME NEW S, NEW q, NEW r, NEW g, q \in Seq(S), r \in Seq(S), g = q \o r
    PROVE  g \in Seq(S) /\ JoinOf(g, q, r)
  BY DEF JoinOf

LEMMA InSeq ==
    ASSUME NEW S, NEW T, NEW q \in Seq(S), \A i \in 1 .. Len(q) : q[i] \in T
    PROVE  q \in Seq(T)
  <1>1. Len(q) \in Nat /\ q \in [1 .. Len(q) -> T]
    OBVIOUS
  <1> QED
    BY <1>1

LEMMA SameSeq ==
    ASSUME NEW S, NEW q \in Seq(S), NEW g \in Seq(S), Part(g, q, 0, Len(q))
    PROVE  g = q
  BY DEF Part

------------------------------------------------------------------------------
(* What a Rep reads.                                                       *)

LEMMA RepsPositive == Reps \subseteq Nat /\ Empty \notin Reps /\ NoBase \notin Reps
  BY StringsAssumption DEF Empty, NoBase

\* The reps of a heap and their owners.
LEMMA RepTypes ==
    ASSUME NEW H, Typed(H), NEW r \in Reps
    PROVE  /\ H.rep[r] \in RepType
           /\ Owner(H, r) \in Reps /\ H.rep[Owner(H, r)] \in RepType
           /\ H.rep[r].base = NoBase => Owner(H, r) = r
           /\ H.rep[r].base # NoBase => Owner(H, r) = H.rep[r].base
  <1>1. H.rep[r] \in RepType
    BY DEF Typed
  <1>2. H.rep[r].base \in Reps \cup {NoBase}
    BY <1>1 DEF RepType
  <1>3. Owner(H, r) \in Reps
    BY <1>2 DEF Owner
  <1>4. H.rep[Owner(H, r)] \in RepType
    BY <1>3 DEF Typed
  <1> QED
    BY <1>1, <1>3, <1>4 DEF Owner

\* The characters of a window.
Reads(s, R, B) ==
    Len(s) = R.len /\ \A i \in 1 .. R.len : s[i] = At(B, R.offset + i)

LEMMA OwnerSound ==
    ASSUME NEW H, Typed(H), Sound(H), NEW r \in Reps
    PROVE  LET B == H.rep[Owner(H, r)]
           IN  /\ Owner(H, r) \in Reps /\ B \in RepType /\ B.base = NoBase
               /\ Owner(H, Owner(H, r)) = Owner(H, r)
               /\ Buffer(B) /\ Roomless(B) /\ Window(H.rep[r], B)
  <1>1. SoundRep(H, r) /\ Owner(H, r) \in Reps /\ H.rep[Owner(H, r)] \in RepType
    BY RepTypes DEF Sound
  <1>2. H.rep[Owner(H, r)].base = NoBase /\ Window(H.rep[r], H.rep[Owner(H, r)])
    BY <1>1 DEF SoundRep
  <1>3. SoundRep(H, Owner(H, r))
    BY <1>1 DEF Sound
  <1>4. Buffer(H.rep[Owner(H, r)]) /\ Roomless(H.rep[Owner(H, r)])
    BY <1>2, <1>3 DEF SoundRep
  <1>5. Owner(H, Owner(H, r)) = Owner(H, r)
    BY <1>2 DEF Owner
  <1> QED
    BY <1>1, <1>2, <1>4, <1>5

LEMMA WindowReads ==
    ASSUME NEW R \in RepType, NEW B \in RepType, Window(R, B), Buffer(B),
           NEW first, first = B.preCapacity + R.offset + 1,
           NEW s, s = SubSeq(B.buf, first, first + R.len - 1)
    PROVE  s \in Seq(Chars) /\ Reads(s, R, B)
  <1>1. /\ R.len \in Nat /\ R.offset \in Int /\ B.preCapacity \in Nat /\ B.capacity \in Nat
        /\ B.usedCapacity \in Nat /\ B.usedPreCapacity \in Nat /\ B.buf \in Seq(Symbols)
    BY DEF RepType
  <1>2. PICK k : k = B.preCapacity + R.offset
    OBVIOUS
  <1>3. k \in Nat /\ k + R.len <= Len(B.buf)
    <2>1. 0 <= R.offset + B.usedPreCapacity /\ R.offset + R.len <= B.usedCapacity
      BY DEF Window
    <2>2. /\ Len(B.buf) = B.preCapacity + B.capacity
          /\ B.usedCapacity <= B.capacity /\ B.usedPreCapacity <= B.preCapacity
      BY DEF Buffer
    <2>3. PICK p, o, n, c, u, v : /\ p = B.preCapacity /\ o = R.offset /\ n = R.len
                                  /\ c = B.capacity /\ u = B.usedCapacity /\ v = B.usedPreCapacity
      OBVIOUS
    <2>4. p \in Nat /\ o \in Int /\ n \in Nat /\ c \in Nat /\ u \in Nat /\ v \in Nat
      BY <1>1, <2>3
    <2>5. 0 <= o + v /\ o + n <= u /\ u <= c /\ v <= p /\ k = p + o /\ Len(B.buf) = p + c
      BY <1>2, <2>1, <2>2, <2>3
    <2>6. k \in Nat /\ k + n <= p + c
      BY <2>4, <2>5
    <2> QED
      BY <2>3, <2>5, <2>6
  <1>4. first = k + 1 /\ first + R.len - 1 = k + R.len
    BY ONLY first = B.preCapacity + R.offset + 1, <1>1, <1>2
  <1>5. s = SubSeq(B.buf, k + 1, k + R.len)
    BY <1>4
  <1>6. s \in Seq(Symbols) /\ Part(s, B.buf, k, R.len)
    BY <1>1, <1>3, <1>5, Piece
  <1>7. \A i \in 1 .. R.len : s[i] = At(B, R.offset + i) /\ s[i] \in Chars
    <2>1. ASSUME NEW i \in 1 .. R.len PROVE s[i] = At(B, R.offset + i) /\ s[i] \in Chars
      <3>1. k + i = B.preCapacity + (R.offset + i)
        BY <1>1, <1>2
      <3>2. s[i] = At(B, R.offset + i)
        BY <1>6, <3>1 DEF Part, At
      <3> QED
        BY <3>2 DEF Window
    <2> QED
      BY <2>1
  <1>8. Len(s) = R.len
    BY <1>6 DEF Part
  <1>9. s \in Seq(Chars)
    BY <1>6, <1>7, <1>8, InSeq
  <1> QED
    BY <1>7, <1>8, <1>9 DEF Reads

LEMMA OneReads ==
    ASSUME NEW H, Typed(H), NEW r \in Reps,
           Window(H.rep[r], H.rep[Owner(H, r)]), Buffer(H.rep[Owner(H, r)])
    PROVE  /\ Content(H, r) \in Seq(Chars) /\ Reads(Content(H, r), H.rep[r], H.rep[Owner(H, r)])
           /\ \A s \in Seq(Chars) : Reads(s, H.rep[r], H.rep[Owner(H, r)]) => Content(H, r) = s
  <1>1. PICK R, B : R = H.rep[r] /\ B = H.rep[Owner(H, r)]
    OBVIOUS
  <1>2. R \in RepType /\ B \in RepType /\ Window(R, B) /\ Buffer(B)
    BY <1>1, RepTypes
  <1>3. r # Empty
    BY RepsPositive
  <1>4. PICK first : first = B.preCapacity + R.offset + 1
    OBVIOUS
  <1>5. PICK t : t = SubSeq(B.buf, first, first + R.len - 1)
    OBVIOUS
  <1>6. Content(H, r) = t
    BY <1>1, <1>3, <1>4, <1>5 DEF Content
  <1>7. t \in Seq(Chars) /\ Reads(t, R, B)
    BY <1>2, <1>4, <1>5, WindowReads
  <1>8. ASSUME NEW s \in Seq(Chars), Reads(s, R, B) PROVE t = s
    <2>1. Len(s) = Len(t) /\ \A i \in 1 .. Len(t) : s[i] = t[i]
      BY <1>7, <1>8 DEF Reads
    <2>2. Part(t, s, 0, Len(s))
      BY <2>1 DEF Part
    <2> QED
      BY <1>7, <2>2, SameSeq
  <1> QED
    BY <1>1, <1>6, <1>7, <1>8

LEMMA ContentReads ==
    ASSUME NEW H, Typed(H), Sound(H), NEW r \in Reps
    PROVE  /\ Content(H, r) \in Seq(Chars) /\ Len(Content(H, r)) = H.rep[r].len
           /\ Reads(Content(H, r), H.rep[r], H.rep[Owner(H, r)])
  <1>1. Content(H, r) \in Seq(Chars) /\ Reads(Content(H, r), H.rep[r], H.rep[Owner(H, r)])
    BY OwnerSound, OneReads
  <1> QED
    BY <1>1 DEF Reads

\* Reps that read the same have the same characters.
LEMMA ReadsIs ==
    ASSUME NEW H, Typed(H), Sound(H), NEW r \in Reps, NEW s \in Seq(Chars),
           Reads(s, H.rep[r], H.rep[Owner(H, r)])
    PROVE  Content(H, r) = s
  BY OwnerSound, OneReads

LEMMA EmptyContent ==
    ASSUME NEW H
    PROVE  Content(H, Empty) = <<>> /\ Size(H, Empty) = 0
  BY DEF Content, Size

LEMMA SizeIs ==
    ASSUME NEW H, Typed(H), Sound(H), NEW r \in Reps \cup {Empty}
    PROVE  /\ Content(H, r) \in Seq(Chars) /\ Size(H, r) = Len(Content(H, r))
           /\ Size(H, r) \in Nat
           /\ Size(H, r) = 0 <=> Content(H, r) = <<>>
  <1>1. CASE r = Empty
    <2>1. <<>> \in Seq(Chars) /\ Len(<<>>) = 0
      OBVIOUS
    <2>2. Content(H, r) = <<>> /\ Size(H, r) = 0
      BY <1>1, EmptyContent
    <2> QED
      BY <2>1, <2>2
  <1>2. CASE r # Empty
    <2>1. r \in Reps /\ Size(H, r) = H.rep[r].len
      BY <1>2 DEF Size
    <2>2. Content(H, r) \in Seq(Chars) /\ Len(Content(H, r)) = H.rep[r].len
      BY <2>1, ContentReads
    <2> QED
      BY <2>1, <2>2
  <1> QED
    BY <1>1, <1>2

------------------------------------------------------------------------------
(* The table of identifiers.                                               *)

\* x reads the same and has the same cached hash, or is not an identifier and
\* has no cached hash.
Unchanged(H, G, x) ==
    /\ Content(G, x) = Content(H, x)
    /\ G.rep[x].hash = H.rep[x].hash /\ G.rep[x].isIdentifier = H.rep[x].isIdentifier
Nameless(H, G, x) ==
    /\ ~H.rep[x].isIdentifier /\ ~G.rep[x].isIdentifier /\ G.rep[x].hash = NoHash

LEMMA NamedKeeps ==
    ASSUME NEW H, NEW G, Named(H), G.table = H.table,
           \A x \in Reps : Unchanged(H, G, x) \/ Nameless(H, G, x)
    PROVE  Named(G)
  <1>1. \A x \in Reps : G.rep[x].isIdentifier <=> H.rep[x].isIdentifier
    BY DEF Unchanged, Nameless
  <1>2. DOMAIN H.table = {r \in Reps : H.rep[r].isIdentifier}
    BY DEF Named
  <1>3. DOMAIN G.table = {r \in Reps : G.rep[r].isIdentifier}
    BY <1>1, <1>2
  <1>4. \A x \in DOMAIN H.table : x \in Reps /\ Unchanged(H, G, x)
    BY <1>2 DEF Nameless
  <1>5. \A r \in Reps : G.rep[r].hash = NoHash \/ G.rep[r].hash = Content(G, r)
    BY DEF Named, Unchanged, Nameless
  <1>6. ASSUME NEW k \in DOMAIN H.table
        PROVE  /\ Content(G, k) # <<>>
               /\ G.rep[k].hash = Content(G, k) /\ G.table[k] = Content(G, k)
               /\ \A j \in DOMAIN H.table : Content(G, j) = Content(G, k) => j = k
    BY <1>4 DEF Named, Unchanged
  <1> QED
    BY <1>3, <1>5, <1>6 DEF Named

------------------------------------------------------------------------------
(* Changes of the buffers.                                                 *)

SameHead(R, S) ==
    /\ S.offset = R.offset /\ S.len = R.len /\ S.rc = R.rc /\ S.hash = R.hash
    /\ S.isIdentifier = R.isIdentifier /\ S.base = R.base

\* S has in its buffer what each window on the buffer of o reads.
Retains(H, o, S) ==
    \A x \in Reps : Owner(H, x) = o =>
        \A i \in 1 .. H.rep[x].len :
            At(S, H.rep[x].offset + i) = At(H.rep[o], H.rep[x].offset + i)

Rebuffer(H, o, S) ==
    /\ Buffer(S) /\ Roomless(S) /\ Retains(H, o, S)
    /\ S.usedCapacity >= H.rep[o].usedCapacity
    /\ S.usedPreCapacity >= H.rep[o].usedPreCapacity

Rebuffers(H, G) ==
    /\ Typed(G) /\ G.table = H.table
    /\ \A x \in Reps : /\ SameHead(H.rep[x], G.rep[x])
                       /\ H.rep[x].base = NoBase => Rebuffer(H, x, G.rep[x])

\* The heads of all Reps and their characters are the same.
Same(H, G) ==
    /\ G.table = H.table
    /\ \A x \in Reps : SameHead(H.rep[x], G.rep[x]) /\ Content(G, x) = Content(H, x)

LEMMA WindowMoves ==
    ASSUME NEW R \in RepType, NEW S \in RepType, SameHead(R, S),
           NEW B \in RepType, NEW D \in RepType, Window(R, B),
           D.usedCapacity >= B.usedCapacity, D.usedPreCapacity >= B.usedPreCapacity,
           \A i \in 1 .. R.len : At(D, R.offset + i) = At(B, R.offset + i)
    PROVE  Window(S, D) /\ \A s : Reads(s, R, B) => Reads(s, S, D)
  <1>1. S.offset = R.offset /\ S.len = R.len /\ R.offset \in Int /\ R.len \in Nat
    BY DEF SameHead, RepType
  <1>2. /\ B.usedCapacity \in Nat /\ D.usedCapacity \in Nat
        /\ B.usedPreCapacity \in Nat /\ D.usedPreCapacity \in Nat
    BY DEF RepType
  <1>3. 0 <= R.offset + B.usedPreCapacity /\ R.offset + R.len <= B.usedCapacity
    BY DEF Window
  <1>4. 0 <= S.offset + D.usedPreCapacity /\ S.offset + S.len <= D.usedCapacity
    BY <1>1, <1>2, <1>3
  <1>5. \A i \in 1 .. R.len : At(D, R.offset + i) \in Chars
    BY DEF Window
  <1>6. Window(S, D)
    BY <1>1, <1>4, <1>5 DEF Window
  <1>7. ASSUME NEW s, Reads(s, R, B) PROVE Reads(s, S, D)
    BY <1>1, <1>7 DEF Reads
  <1> QED
    BY <1>6, <1>7

LEMMA RebufferSound ==
    ASSUME NEW H, NEW G, Typed(H), Sound(H), Rebuffers(H, G)
    PROVE  Sound(G) /\ Same(H, G)
  <1>1. ASSUME NEW x \in Reps
        PROVE  SoundRep(G, x) /\ Content(G, x) = Content(H, x)
    <2>1. PICK R, S, o : R = H.rep[x] /\ S = G.rep[x] /\ o = Owner(H, x)
      OBVIOUS
    <2>2. SameHead(R, S) /\ (R.base = NoBase => Rebuffer(H, x, S))
      BY <2>1 DEF Rebuffers
    <2>3. /\ o \in Reps /\ R \in RepType /\ H.rep[o] \in RepType /\ H.rep[o].base = NoBase
          /\ Window(R, H.rep[o])
      BY <2>1, RepTypes, OwnerSound
    <2>4. Typed(G) /\ S \in RepType /\ G.rep[o] \in RepType
      BY <2>1, <2>3, RepTypes DEF Rebuffers
    <2>5. Owner(G, x) = o
      BY <2>1, <2>2 DEF Owner, SameHead
    <2>6. SameHead(H.rep[o], G.rep[o]) /\ Rebuffer(H, o, G.rep[o])
      BY <2>3 DEF Rebuffers
    <2>7. G.rep[o].base = NoBase
      BY <2>3, <2>6 DEF SameHead
    <2>8. /\ G.rep[o].usedCapacity >= H.rep[o].usedCapacity
          /\ G.rep[o].usedPreCapacity >= H.rep[o].usedPreCapacity
          /\ \A i \in 1 .. R.len : At(G.rep[o], R.offset + i) = At(H.rep[o], R.offset + i)
      BY <2>1, <2>6 DEF Rebuffer, Retains
    <2>9. Window(S, G.rep[o]) /\ \A s : Reads(s, R, H.rep[o]) => Reads(s, S, G.rep[o])
      BY <2>2, <2>3, <2>4, <2>8, WindowMoves
    <2>10. SoundRep(H, x)
      BY DEF Sound
    <2>11. S.len <= MaxLen /\ Unheld(S)
      BY <2>1, <2>2, <2>10 DEF SoundRep, SameHead, Unheld
    <2>12. S.base = NoBase => Buffer(S) /\ Roomless(S)
      BY <2>2 DEF SameHead, Rebuffer
    <2>13. SoundRep(G, x)
      BY <2>1, <2>5, <2>7, <2>9, <2>11, <2>12 DEF SoundRep
    <2>14. Content(H, x) \in Seq(Chars) /\ Reads(Content(H, x), S, G.rep[o])
      BY <2>1, <2>9, ContentReads
    <2>15. Buffer(G.rep[o])
      BY <2>6 DEF Rebuffer
    <2> QED
      BY <2>1, <2>4, <2>5, <2>9, <2>13, <2>14, <2>15, OneReads
  <1>2. Sound(G)
    BY <1>1 DEF Sound
  <1>3. Same(H, G)
    BY <1>1 DEF Same, Rebuffers
  <1> QED
    BY <1>2, <1>3

LEMMA SameGood ==
    ASSUME NEW H, NEW c, Good(H, c), NEW G, Typed(G), Sound(G), Same(H, G)
    PROVE  Good(G, c)
  <1>1. Typed(H) /\ c \in [Reps -> Nat] /\ Counted(H, c)
    BY DEF Good
  <1>2. Counted(G, c)
    <2>1. ASSUME NEW r \in Reps PROVE G.rep[r].rc = c[r] + Cardinality(Windows(G, r))
      <3>1. Windows(G, r) = Windows(H, r)
        BY DEF Windows, Same, SameHead
      <3>2. G.rep[r].rc = H.rep[r].rc
        BY DEF Same, SameHead
      <3> QED
        BY <1>1, <3>1, <3>2 DEF Counted
    <2> QED
      BY <2>1 DEF Counted
  <1>3. ASSUME Careful PROVE Named(G)
    <2>1. Named(H) /\ G.table = H.table
      BY <1>3 DEF Good, Same
    <2>2. \A x \in Reps : Unchanged(H, G, x)
      BY DEF Same, SameHead, Unchanged
    <2> QED
      BY <2>1, <2>2, NamedKeeps
  <1> QED
    BY <1>1, <1>2, <1>3 DEF Good

\* What Forgotten keeps of a buffer.
ReadAt(H, o, n) ==
    \E r \in Reps \ Free(H) :
        /\ Owner(H, r) = o
        /\ n - H.rep[o].preCapacity - H.rep[r].offset \in 1 .. H.rep[r].len
KeptOf(H, o) == [n \in DOMAIN H.rep[o].buf |-> IF ReadAt(H, o, n) THEN H.rep[o].buf[n] ELSE Junk]

LEMMA KeptIs ==
    ASSUME NEW H, Typed(H), NEW o \in Reps, NEW b, b = KeptOf(H, o)
    PROVE  /\ b \in Seq(Symbols) /\ Len(b) = Len(H.rep[o].buf)
           /\ \A n \in 1 .. Len(b) : ReadAt(H, o, n) => b[n] = H.rep[o].buf[n]
  <1>1. PICK a : a = H.rep[o].buf
    OBVIOUS
  <1>2. a \in Seq(Symbols)
    BY <1>1, RepTypes DEF RepType
  <1>3. Len(a) \in Nat /\ DOMAIN a = 1 .. Len(a) /\ \A n \in 1 .. Len(a) : a[n] \in Symbols
    BY <1>2
  <1>4. b = [n \in 1 .. Len(a) |-> IF ReadAt(H, o, n) THEN a[n] ELSE Junk]
    BY <1>1, <1>3 DEF KeptOf
  <1>5. \A n \in 1 .. Len(a) : b[n] = (IF ReadAt(H, o, n) THEN a[n] ELSE Junk) /\ b[n] \in Symbols
    BY <1>3, <1>4 DEF Symbols
  <1>6. b \in [1 .. Len(a) -> Symbols]
    BY <1>4, <1>5
  <1>7. b \in Seq(Symbols) /\ Len(b) = Len(a)
    BY <1>3, <1>6
  <1> QED
    BY <1>1, <1>5, <1>7

LEMMA ForgottenIs ==
    ASSUME NEW H, Typed(H), NEW G, G = Forgotten(H)
    PROVE  /\ G = [rep |-> G.rep, table |-> H.table] /\ G.rep = [x \in Reps |-> G.rep[x]]
           /\ \A o \in Reps : G.rep[o] = [H.rep[o] EXCEPT !.buf = KeptOf(H, o)]
  <1>1. H = [rep |-> H.rep, table |-> H.table]
    BY DEF Typed
  <1>2. G = [H EXCEPT !.rep = [o \in Reps |-> [H.rep[o] EXCEPT !.buf = KeptOf(H, o)]]]
    BY DEF Forgotten, KeptOf, ReadAt
  <1>3. G = [rep |-> [o \in Reps |-> [H.rep[o] EXCEPT !.buf = KeptOf(H, o)]], table |-> H.table]
    BY <1>1, <1>2
  <1> QED
    BY <1>3

LEMMA ForgottenGood ==
    ASSUME NEW H, NEW c, Good(H, c), NEW G, G = Forgotten(H)
    PROVE  Good(G, c) /\ Same(H, G)
  <1>1. Typed(H) /\ Sound(H)
    BY DEF Good
  <1>2. /\ G = [rep |-> G.rep, table |-> H.table] /\ G.rep = [x \in Reps |-> G.rep[x]]
        /\ \A o \in Reps : G.rep[o] = [H.rep[o] EXCEPT !.buf = KeptOf(H, o)]
    BY <1>1, ForgottenIs
  <1>3. ASSUME NEW x \in Reps
        PROVE  /\ G.rep[x] \in RepType /\ SameHead(H.rep[x], G.rep[x])
               /\ H.rep[x].base = NoBase => Rebuffer(H, x, G.rep[x])
    <2>1. PICK R, S, b : R = H.rep[x] /\ S = G.rep[x] /\ b = KeptOf(H, x)
      OBVIOUS
    <2>2. S = [R EXCEPT !.buf = b] /\ R \in RepType
      BY <1>1, <1>2, <2>1, RepTypes
    <2>3. /\ b \in Seq(Symbols) /\ Len(b) = Len(R.buf)
          /\ \A n \in 1 .. Len(b) : ReadAt(H, x, n) => b[n] = R.buf[n]
      BY <1>1, <2>1, KeptIs
    <2>4. /\ S \in RepType /\ S.buf = b /\ S.len = R.len /\ S.base = R.base
          /\ S.capacity = R.capacity /\ S.preCapacity = R.preCapacity
          /\ S.usedCapacity = R.usedCapacity /\ S.usedPreCapacity = R.usedPreCapacity
      BY <2>2, <2>3 DEF RepType
    <2>5. SameHead(R, S)
      BY <2>2 DEF RepType, SameHead
    <2>6. ASSUME R.base = NoBase PROVE Rebuffer(H, x, S)
      <3>1. SoundRep(H, x)
        BY <1>1 DEF Sound
      <3>2. Buffer(R) /\ Roomless(R)
        BY <2>1, <2>6, <3>1 DEF SoundRep
      <3>3. Buffer(S) /\ Roomless(S)
        BY <2>3, <2>4, <3>2 DEF Buffer, Roomless
      <3>4. ASSUME NEW y \in Reps, Owner(H, y) = x, NEW i \in 1 .. H.rep[y].len
            PROVE  At(S, H.rep[y].offset + i) = At(R, H.rep[y].offset + i)
        <4>1. PICK k, p, n : k = H.rep[y].offset /\ p = R.preCapacity /\ n = H.rep[y].len
          OBVIOUS
        <4>2. H.rep[y] \in RepType /\ Window(H.rep[y], R)
          BY <1>1, <2>1, <3>4, RepTypes, OwnerSound
        <4>3. k \in Int /\ n \in Nat /\ p \in Nat /\ i \in 1 .. n
          BY <2>2, <3>4, <4>1, <4>2 DEF RepType
        <4>4. p + (k + i) \in 1 .. Len(b)
          <5>1. PICK u, v, q : u = R.usedCapacity /\ v = R.usedPreCapacity /\ q = R.capacity
            OBVIOUS
          <5>2. 0 <= k + v /\ k + n <= u
            BY <4>1, <4>2, <5>1 DEF Window
          <5>3. Len(b) = p + q /\ u <= q /\ v <= p
            BY <2>3, <3>2, <4>1, <5>1 DEF Buffer
          <5>4. u \in Nat /\ v \in Nat /\ q \in Nat
            BY <2>2, <5>1 DEF RepType
          <5>5. p + (k + i) >= 1 /\ p + (k + i) <= p + q /\ p + (k + i) \in Int
            BY <4>3, <5>2, <5>3, <5>4
          <5> QED
            BY <4>3, <5>3, <5>4, <5>5
        <4>5. (p + (k + i)) - p - k = i
          BY <4>3
        <4>6. SoundRep(H, y)
          BY <1>1 DEF Sound
        <4>7. H.rep[y].rc # 0
          BY <4>1, <4>3, <4>6 DEF SoundRep, Unheld
        <4>8. ReadAt(H, x, p + (k + i))
          BY <2>1, <3>4, <4>1, <4>3, <4>5, <4>7 DEF ReadAt, Free
        <4>9. b[p + (k + i)] = R.buf[p + (k + i)]
          BY <2>3, <4>4, <4>8
        <4> QED
          BY <2>4, <4>1, <4>9 DEF At
      <3>5. Retains(H, x, S)
        BY <2>1, <3>4 DEF Retains
      <3>6. S.usedCapacity >= R.usedCapacity /\ S.usedPreCapacity >= R.usedPreCapacity
        <4>1. PICK u, v : u = R.usedCapacity /\ v = R.usedPreCapacity
          OBVIOUS
        <4>2. u \in Nat /\ v \in Nat
          BY <2>2, <4>1 DEF RepType
        <4>3. S.usedCapacity = u /\ S.usedPreCapacity = v
          BY <2>4, <4>1
        <4> QED
          BY <4>1, <4>2, <4>3
      <3> QED
        BY <2>1, <3>3, <3>5, <3>6 DEF Rebuffer
    <2> QED
      BY <2>1, <2>4, <2>5, <2>6
  <1>4. Typed(G)
    <2>1. G.rep = [x \in Reps |-> G.rep[x]] /\ G.table = H.table
      BY <1>2
    <2>2. G.rep \in [Reps -> RepType]
      BY <1>3, <2>1
    <2> QED
      BY <1>1, <1>2, <2>1, <2>2 DEF Typed
  <1>5. Rebuffers(H, G)
    BY <1>2, <1>3, <1>4 DEF Rebuffers
  <1>6. Sound(G) /\ Same(H, G)
    BY <1>1, <1>5, RebufferSound
  <1> QED
    BY <1>4, <1>6, SameGood

------------------------------------------------------------------------------
(* Counting.                                                               *)

Plus(c, r) == [x \in Reps |-> IF x = r THEN c[x] + 1 ELSE c[x]]
Minus(c, r) == [x \in Reps |-> IF x = r THEN c[x] - 1 ELSE c[x]]

\* G is H but for the Rep at r, and for the table.
Replaces(H, r, R, G) ==
    Typed(G) /\ G.rep[r] = R /\ \A x \in Reps : x # r => G.rep[x] = H.rep[x]

LEMMA PutIs ==
    ASSUME NEW H, Typed(H), NEW r \in Reps, NEW R \in RepType,
           NEW G, G = [H EXCEPT !.rep[r] = R]
    PROVE  Replaces(H, r, R, G) /\ G.table = H.table
  <1>1. H = [rep |-> H.rep, table |-> H.table] /\ H.rep \in [Reps -> RepType]
    BY DEF Typed
  <1>2. PICK f, t : f = H.rep /\ t = H.table
    OBVIOUS
  <1>3. H = [rep |-> f, table |-> t] /\ f \in [Reps -> RepType]
    BY <1>1, <1>2
  <1> DEFINE g == [f EXCEPT ![r] = R]
  <1>4. G = [rep |-> g, table |-> t]
    BY <1>3
  <1> HIDE DEF g
  <1>5. G.rep = g /\ G.table = t
    BY <1>4
  <1>6. /\ G.rep \in [Reps -> RepType] /\ G.rep[r] = R
        /\ \A x \in Reps : x # r => G.rep[x] = f[x]
    BY <1>3, <1>5 DEF g
  <1>7. DOMAIN t \subseteq Reps /\ t \in [DOMAIN t -> Seq(Chars)]
    BY <1>2 DEF Typed
  <1>8. Typed(G)
    BY <1>4, <1>5, <1>6, <1>7 DEF Typed
  <1> QED
    BY <1>2, <1>5, <1>6, <1>8 DEF Replaces

LEMMA WindowsType ==
    ASSUME NEW H, NEW x
    PROVE  /\ IsFiniteSet(Windows(H, x)) /\ Cardinality(Windows(H, x)) \in Nat
           /\ Cardinality(Windows(H, x)) = 0 <=> Windows(H, x) = {}
  <1>1. IsFiniteSet(Reps) /\ Windows(H, x) \subseteq Reps
    BY StringsAssumption DEF Windows
  <1>2. IsFiniteSet(Windows(H, x))
    BY <1>1, FS_Subset
  <1> QED
    BY <1>2, FS_CardinalityType, FS_EmptySet

One(a, b) == IF a = b THEN 1 ELSE 0

\* The windows on x when the base of one Rep changes.
LEMMA WindowsMove ==
    ASSUME NEW H, NEW G, NEW r \in Reps, NEW R, Replaces(H, r, R, G), NEW x
    PROVE  Cardinality(Windows(G, x)) =
               Cardinality(Windows(H, x)) - One(H.rep[r].base, x) + One(R.base, x)
  <1> DEFINE S == Windows(H, x)
             T == Windows(G, x)
  <1>1. Beside(r, S, T)
    BY DEF Beside, Windows, Replaces
  <1>2. (r \in S <=> H.rep[r].base = x) /\ (r \in T <=> R.base = x)
    BY DEF Windows, Replaces
  <1>3. IsFiniteSet(S)
    BY WindowsType
  <1> HIDE DEF S, T
  <1>4. /\ Cardinality(S) \in Nat /\ Cardinality(T) \in Nat
        /\ (r \in S <=> r \in T) => Cardinality(T) = Cardinality(S)
        /\ r \notin S /\ r \in T => Cardinality(T) = Cardinality(S) + 1
        /\ r \in S /\ r \notin T => Cardinality(T) = Cardinality(S) - 1
    BY <1>1, <1>3, OneMoves
  <1>5. Cardinality(T) = Cardinality(S) - One(H.rep[r].base, x) + One(R.base, x)
    BY <1>2, <1>4 DEF One
  <1> QED
    BY <1>5 DEF S, T

\* The same window on the same buffer, and the same labels.
SameText(R, S) ==
    /\ S.offset = R.offset /\ S.len = R.len /\ S.base = R.base /\ S.buf = R.buf
    /\ S.capacity = R.capacity /\ S.preCapacity = R.preCapacity
    /\ S.usedCapacity = R.usedCapacity /\ S.usedPreCapacity = R.usedPreCapacity
SameBody(R, S) == SameText(R, S) /\ S.hash = R.hash /\ S.isIdentifier = R.isIdentifier

\* Changes of the counts and labels.
LEMMA TextsSound ==
    ASSUME NEW H, Sound(H), Typed(H), NEW G,
           \A x \in Reps : SameText(H.rep[x], G.rep[x]) /\ Unheld(G.rep[x])
    PROVE  /\ Sound(G)
           /\ \A x \in Reps : Content(G, x) = Content(H, x)
  <1>1. ASSUME NEW x \in Reps
        PROVE  SoundRep(G, x) /\ Content(G, x) = Content(H, x)
    <2>1. PICK o \in Reps : o = Owner(H, x)
      BY RepTypes
    <2>2. PICK R, S, B, D : R = H.rep[x] /\ S = G.rep[x] /\ B = H.rep[o] /\ D = G.rep[o]
      OBVIOUS
    <2>3. SameText(R, S) /\ Unheld(S)
      BY <2>2
    <2>4. SameText(B, D)
      BY <2>2
    <2>5. Owner(G, x) = o
      BY <2>1, <2>2, <2>3 DEF Owner, SameText
    <2>6. SoundRep(H, x)
      BY DEF Sound
    <2>7. R.len <= MaxLen /\ B.base = NoBase /\ Window(R, B) /\ (R.base = NoBase => Buffer(R) /\ Roomless(R))
      BY <2>1, <2>2, <2>6 DEF SoundRep
    <2>8. Window(S, D)
      BY <2>3, <2>4, <2>7 DEF Window, SameText, At
    <2>9. Buffer(R) => Buffer(S)
      BY <2>3, <2>4 DEF Buffer, SameText
    <2>10. Roomless(R) => Roomless(S)
      BY <2>3, <2>4 DEF Roomless, SameText
    <2>11. S.len <= MaxLen /\ D.base = NoBase /\ S.base = R.base
      BY <2>3, <2>4, <2>7 DEF SameText
    <2>12. SoundRep(G, x)
      BY <2>2, <2>3, <2>4, <2>5, <2>7, <2>8, <2>9, <2>10, <2>11 DEF SoundRep
    <2>13. Content(G, x) = Content(H, x)
      <3>1. /\ S.offset = R.offset /\ S.len = R.len /\ D.preCapacity = B.preCapacity /\ D.buf = B.buf
        BY <2>3, <2>4 DEF SameText
      <3> QED
        BY <2>1, <2>2, <2>5, <3>1 DEF Content
    <2> QED
      BY <2>12, <2>13
  <1> QED
    BY <1>1 DEF Sound

LEMMA BodiesSound ==
    ASSUME NEW H, Sound(H), Typed(H), NEW G,
           \A x \in Reps : SameBody(H.rep[x], G.rep[x]) /\ Unheld(G.rep[x])
    PROVE  Sound(G) /\ \A x \in Reps : Unchanged(H, G, x)
  BY TextsSound DEF SameBody, Unchanged

LEMMA GoodParts ==
    ASSUME NEW H, NEW c, Good(H, c), NEW r \in Reps
    PROVE  /\ Typed(H) /\ Sound(H) /\ SoundRep(H, r) /\ H.rep[r] \in RepType
           /\ H.rep[r].rc \in Nat /\ c[r] \in Nat
           /\ H.rep[r].rc = c[r] + Cardinality(Windows(H, r))
           /\ Cardinality(Windows(H, r)) \in Nat
  <1>1. Typed(H) /\ Sound(H) /\ SoundRep(H, r) /\ c[r] \in Nat
    BY DEF Good, Sound
  <1>2. H.rep[r] \in RepType /\ H.rep[r].rc \in Nat
    BY <1>1, RepTypes DEF RepType
  <1> QED
    BY <1>1, <1>2, WindowsType DEF Good, Counted

\* Two functions that differ at r at most, and two heaps that differ in the
\* count of the Rep at r.
Apart(c, d, r) == \A x \in Reps : x # r => d[x] = c[x]
CountOnly(H, r, G) ==
    /\ G.table = H.table
    /\ \A x \in Reps : /\ Unchanged(H, G, x) /\ SameBody(H.rep[x], G.rep[x])
                       /\ x # r => G.rep[x] = H.rep[x]

\* The count of one Rep changes, with the number of variables that refer to it.
LEMMA Recounted ==
    ASSUME NEW H, NEW c, Good(H, c), NEW r \in Reps, NEW n \in Nat \ {0},
           NEW d \in [Reps -> Nat], d[r] + H.rep[r].rc = c[r] + n,
           Apart(c, d, r), NEW G, G = [H EXCEPT !.rep[r].rc = n]
    PROVE  Good(G, d) /\ G.rep[r].rc = n /\ CountOnly(H, r, G)
  <1>1. PICK R, S : R = H.rep[r] /\ S = [R EXCEPT !.rc = n]
    OBVIOUS
  <1>2. /\ Typed(H) /\ Sound(H) /\ SoundRep(H, r) /\ R \in RepType /\ R.rc \in Nat /\ c[r] \in Nat
        /\ R.rc = c[r] + Cardinality(Windows(H, r)) /\ Cardinality(Windows(H, r)) \in Nat
    BY <1>1, GoodParts
  <1>3. S \in RepType /\ SameBody(R, S) /\ S.rc = n
    BY <1>1, <1>2 DEF RepType, SameBody, SameText
  <1>4. G = [H EXCEPT !.rep[r] = S]
    BY <1>1
  <1>5. Replaces(H, r, S, G) /\ G.table = H.table
    BY <1>2, <1>3, <1>4, PutIs
  <1>6. ASSUME NEW x \in Reps
        PROVE  SameBody(H.rep[x], G.rep[x]) /\ Unheld(G.rep[x]) /\ (x # r => G.rep[x] = H.rep[x])
    <2>1. CASE x = r
      BY <1>1, <1>3, <1>5, <2>1 DEF Replaces, Unheld
    <2>2. CASE x # r
      <3>1. G.rep[x] = H.rep[x] /\ SoundRep(H, x)
        BY <1>2, <1>5, <2>2 DEF Replaces, Sound
      <3> QED
        BY <3>1 DEF SameBody, SameText, SoundRep
    <2> QED
      BY <2>1, <2>2
  <1>7. Sound(G) /\ \A x \in Reps : Unchanged(H, G, x)
    BY <1>2, <1>6, BodiesSound
  <1>8. Counted(G, d)
    <2>1. ASSUME NEW x \in Reps PROVE G.rep[x].rc = d[x] + Cardinality(Windows(G, x))
      <3>1. Windows(G, x) = Windows(H, x)
        BY <1>6 DEF Windows, SameBody, SameText
      <3>2. CASE x = r
        <4>1. d[r] \in Nat /\ G.rep[r].rc = n
          BY <1>3, <1>5 DEF Replaces
        <4> QED
          BY <1>1, <1>2, <3>1, <3>2, <4>1
      <3>3. CASE x # r
        BY <1>6, <3>1, <3>3 DEF Good, Counted, Apart
      <3> QED
        BY <3>2, <3>3
    <2> QED
      BY <2>1 DEF Counted
  <1>9. ASSUME Careful PROVE Named(G)
    <2>1. Named(H)
      BY <1>9 DEF Good
    <2> QED
      BY <1>5, <1>7, <2>1, NamedKeeps
  <1> QED
    BY <1>3, <1>5, <1>6, <1>7, <1>8, <1>9 DEF Good, Replaces, CountOnly

LEMMA RefGood ==
    ASSUME NEW H, NEW c, Good(H, c), NEW r \in Reps, NEW G, G = Ref(H, r)
    PROVE  Good(G, Plus(c, r)) /\ G.rep[r].rc # 0 /\ CountOnly(H, r, G)
  <1>1. PICK n, d : n = H.rep[r].rc + 1 /\ d = Plus(c, r)
    OBVIOUS
  <1>2. c \in [Reps -> Nat] /\ H.rep[r].rc \in Nat
    BY GoodParts DEF Good
  <1>3. r # Empty
    BY RepsPositive
  <1>4. G = [H EXCEPT !.rep[r].rc = n]
    BY <1>1, <1>3 DEF Ref
  <1>5. /\ d \in [Reps -> Nat] /\ n \in Nat \ {0}
        /\ d[r] = c[r] + 1 /\ Apart(c, d, r)
    BY <1>1, <1>2 DEF Plus, Apart
  <1>6. d[r] + H.rep[r].rc = c[r] + n
    BY <1>1, <1>2, <1>5
  <1>7. Good(G, d) /\ G.rep[r].rc = n /\ CountOnly(H, r, G)
    BY <1>4, <1>5, <1>6, Recounted
  <1> QED
    BY <1>1, <1>5, <1>7

\* All but the Rep at r have the same characters.
Elsewhere(H, r, G) == \A x \in Reps : x # r => Content(G, x) = Content(H, x)

\* One Rep on which there are no windows is replaced.
LEMMA ReplaceSound ==
    ASSUME NEW H, Typed(H), Sound(H), NEW r \in Reps, Windows(H, r) = {}, NEW R,
           NEW G, Replaces(H, r, R, G), SoundRep(G, r)
    PROVE  Sound(G) /\ Elsewhere(H, r, G)
  <1>1. ASSUME NEW x \in Reps, x # r
        PROVE  SoundRep(G, x) /\ Content(G, x) = Content(H, x)
    <2>1. H.rep[x].base # r
      BY DEF Windows
    <2>2. G.rep[x] = H.rep[x] /\ Owner(H, x) \in Reps /\ Owner(H, x) # r
      BY <1>1, <2>1, RepTypes DEF Replaces
    <2>3. Owner(G, x) = Owner(H, x)
      BY <2>2 DEF Owner
    <2>4. G.rep[Owner(G, x)] = H.rep[Owner(H, x)]
      BY <2>2, <2>3 DEF Replaces
    <2>5. SoundRep(H, x)
      BY DEF Sound
    <2> QED
      BY <2>2, <2>4, <2>5 DEF SoundRep, Content
  <1> QED
    BY <1>1 DEF Sound, Elsewhere

LEMMA MadeIs ==
    ASSUME NEW H, Typed(H), Free(H) # {}, NEW R \in RepType, NEW m, m = Made(H, R)
    PROVE  /\ m.r \in Reps /\ H.rep[m.r].rc = 0
           /\ Replaces(H, m.r, R, m.h) /\ m.h.table = H.table
  <1>1. PICK r : r = Min(Free(H))
    OBVIOUS
  <1>2. Free(H) \subseteq Nat
    BY RepsPositive DEF Free
  <1>3. \E x \in Free(H) : \A y \in Free(H) : x <= y
    BY <1>2, LeastNumber
  <1>4. r \in Free(H)
    BY <1>1, <1>3 DEF Min
  <1>5. r \in Reps /\ H.rep[r].rc = 0
    BY <1>4 DEF Free
  <1>6. m.r = r /\ m.h = [H EXCEPT !.rep[r] = R]
    BY <1>1 DEF Made
  <1> QED
    BY <1>5, <1>6, PutIs

\* R can be added to H as a window on the buffer of B.
Fits(H, c, R, B) ==
    /\ R \in RepType /\ R.rc = 1 /\ ~R.isIdentifier /\ R.hash = NoHash /\ R.len <= MaxLen
    /\ B \in RepType /\ B.base = NoBase /\ Window(R, B)
    /\ R.base = NoBase => B = R /\ Buffer(R) /\ Roomless(R)
    /\ R.base # NoBase => B = H.rep[R.base] /\ c[R.base] # 0

LEMMA MadeGood ==
    ASSUME NEW H, NEW c, Good(H, c), Free(H) # {}, NEW R, NEW B, Fits(H, c, R, B),
           NEW m, m = Made(H, R)
    PROVE  /\ m.r \in Reps /\ H.rep[m.r].rc = 0 /\ R.base # m.r
           /\ Good(m.h, Minus(Plus(c, m.r), R.base)) /\ Replaces(H, m.r, R, m.h)
           /\ Elsewhere(H, m.r, m.h)
           /\ \A s \in Seq(Chars) : Reads(s, R, B) => Content(m.h, m.r) = s
  <1>1. PICK r, G, d : r = m.r /\ G = m.h /\ d = Minus(Plus(c, r), R.base)
    OBVIOUS
  <1>2. /\ R \in RepType /\ R.rc = 1 /\ ~R.isIdentifier /\ R.hash = NoHash /\ R.len <= MaxLen
        /\ B \in RepType /\ B.base = NoBase /\ Window(R, B)
    BY DEF Fits
  <1>3. Typed(H) /\ Sound(H) /\ c \in [Reps -> Nat]
    BY DEF Good
  <1>4. /\ r \in Reps /\ H.rep[r].rc = 0 /\ Replaces(H, r, R, G) /\ G.table = H.table
    BY <1>1, <1>2, <1>3, MadeIs
  <1>5. c[r] = 0 /\ Cardinality(Windows(H, r)) = 0 /\ SoundRep(H, r)
    BY <1>4, GoodParts
  <1>6. Windows(H, r) = {}
    BY <1>5, WindowsType
  <1>7. R.base # r
    BY <1>4, <1>5, RepsPositive DEF Fits
  <1>8. G.rep[r] = R /\ G.rep[Owner(G, r)] = B
    <2>1. G.rep[r] = R
      BY <1>4 DEF Replaces
    <2>2. CASE R.base = NoBase
      BY <2>1, <2>2 DEF Fits, Owner
    <2>3. CASE R.base # NoBase
      <3>1. R.base \in Reps /\ Owner(G, r) = R.base
        BY <1>2, <2>1, <2>3 DEF RepType, Owner
      <3> QED
        BY <1>4, <1>7, <2>1, <2>3, <3>1 DEF Replaces, Fits
    <2> QED
      BY <2>2, <2>3
  <1>9. SoundRep(G, r)
    <2>1. Unheld(R) /\ (R.base = NoBase => Buffer(R) /\ Roomless(R))
      BY <1>2 DEF Unheld, Fits
    <2> QED
      BY <1>2, <1>8, <2>1 DEF SoundRep
  <1>10. Sound(G) /\ Elsewhere(H, r, G)
    BY <1>3, <1>4, <1>6, <1>9, ReplaceSound
  <1>11. Typed(G)
    BY <1>4 DEF Replaces
  <1>12. ASSUME NEW x \in Reps
         PROVE  d[x] \in Nat /\ G.rep[x].rc = d[x] + Cardinality(Windows(G, x))
    <2>1. PICK u, w : u = Cardinality(Windows(H, x)) /\ w = Cardinality(Windows(G, x))
      OBVIOUS
    <2>2. w = u - One(H.rep[r].base, x) + One(R.base, x)
      BY <1>4, <2>1, WindowsMove
    <2>3. H.rep[r].base # x
      BY <1>4, <1>5, RepsPositive DEF SoundRep, Unheld
    <2>4. /\ u \in Nat /\ c[x] \in Nat /\ H.rep[x].rc = c[x] + u
      BY <2>1, GoodParts
    <2>5. R.base = x => c[x] # 0
      BY RepsPositive DEF Fits
    <2>6. d[x] = (IF x = r THEN c[x] + 1 ELSE c[x]) - One(R.base, x)
      BY <1>1, <2>4 DEF Minus, Plus, One
    <2>7. w = u + One(R.base, x)
      BY <2>2, <2>3, <2>4 DEF One
    <2>8. CASE x = r
      <3>1. d[x] = 1 /\ w = 0 /\ G.rep[x].rc = 1
        BY <1>2, <1>5, <1>7, <1>8, <2>1, <2>6, <2>7, <2>8 DEF One
      <3> QED
        BY <2>1, <3>1
    <2>9. CASE x # r
      <3>1. G.rep[x].rc = c[x] + u
        BY <1>4, <2>4, <2>9 DEF Replaces
      <3>2. d[x] = c[x] - One(R.base, x)
        BY <2>6, <2>9
      <3> QED
        BY <2>1, <2>4, <2>5, <2>7, <3>1, <3>2 DEF One
    <2> QED
      BY <2>8, <2>9
  <1>13. d \in [Reps -> Nat] /\ Counted(G, d)
    <2>1. d = [x \in Reps |-> d[x]]
      BY <1>1 DEF Minus
    <2> QED
      BY <1>12, <2>1 DEF Counted
  <1>14. ASSUME Careful PROVE Named(G)
    <2>1. Named(H)
      BY <1>14 DEF Good
    <2>2. \A x \in Reps : x # r => Unchanged(H, G, x)
      BY <1>4, <1>10 DEF Replaces, Unchanged, Elsewhere
    <2>3. Nameless(H, G, r)
      BY <1>2, <1>4, <1>5, <1>8 DEF Nameless, SoundRep, Unheld
    <2> QED
      BY <1>4, <2>1, <2>2, <2>3, NamedKeeps
  <1>15. Good(G, d)
    BY <1>10, <1>11, <1>13, <1>14 DEF Good
  <1>16. ASSUME NEW s \in Seq(Chars), Reads(s, R, B) PROVE Content(G, r) = s
    BY <1>4, <1>8, <1>10, <1>11, <1>16, ReadsIs
  <1> QED
    BY <1>1, <1>4, <1>7, <1>10, <1>15, <1>16

\* What is alive keeps its characters and stays an identifier.
Keeps(H, G) ==
    \A x \in Reps : H.rep[x].rc # 0 =>
        /\ Content(G, x) = Content(H, x)
        /\ H.rep[x].isIdentifier => G.rep[x].isIdentifier

\* What the functions return.
IsResult(m) == m = [h |-> m.h, r |-> m.r]

\* m is a heap like H with one more reference, to a Rep with the characters s.
Yields(H, c, m, s) ==
    /\ IsResult(m) /\ m.r \in Reps \cup {Empty} /\ Good(m.h, Plus(c, m.r))
    /\ Content(m.h, m.r) = s /\ Keeps(H, m.h)

LEMMA MadeKeeps ==
    ASSUME NEW H, NEW G, NEW r \in Reps, H.rep[r].rc = 0, NEW R, Replaces(H, r, R, G),
           Elsewhere(H, r, G)
    PROVE  Keeps(H, G)
  <1>1. \A x \in Reps : H.rep[x].rc # 0 => x # r
    OBVIOUS
  <1> QED
    BY <1>1 DEF Keeps, Replaces, Elsewhere

LEMMA MadeResult ==
    ASSUME NEW H, NEW R, NEW m, m = Made(H, R)
    PROVE  IsResult(m)
  BY DEF Made, IsResult

\* A Rep that owns its buffer and is not an identifier yet.
Fresh(R) == R.base = NoBase /\ R.rc = 1 /\ R.hash = NoHash /\ ~R.isIdentifier

NewCopy(H, m) ==
    m.r \in Reps /\ H.rep[m.r].rc = 0 /\ Fresh(m.h.rep[m.r]) /\ m.h.table = H.table

LEMMA CreateYields ==
    ASSUME NEW H, NEW c, NEW s, NEW capacity, NEW m, Good(H, c), Free(H) # {}, s \in Seq(Chars),
           Len(s) <= MaxLen, capacity \in Nat, Len(s) <= capacity, s = <<>> => capacity = 0,
           m = Create(H, s, capacity)
    PROVE  Yields(H, c, m, s) /\ NewCopy(H, m)
  <1>1. PICK b : b = s \o Fill(capacity - Len(s))
    OBVIOUS
  <1>2. PICK R : R = RepOf(0, Len(s), NoBase, b, capacity)
    OBVIOUS
  <1>3. m = Made(H, R)
    BY <1>1, <1>2 DEF Create
  <1>4. Len(s) \in Nat /\ s \in Seq(Symbols) /\ \A i \in 1 .. Len(s) : s[i] \in Chars
    BY InSeq DEF Symbols
  <1>5. /\ b \in Seq(Symbols) /\ Len(b) = capacity
        /\ \A i \in 1 .. Len(s) : b[i] = s[i]
    <2>1. PICK k : k = capacity - Len(s)
      OBVIOUS
    <2>2. k \in Nat /\ Len(s) + k = capacity
      BY <1>4, <2>1
    <2>3. Fill(k) \in Seq(Symbols) /\ Len(Fill(k)) = k
      BY <2>2, FillType
    <2> QED
      BY <1>1, <1>4, <2>1, <2>2, <2>3, Joined
  <1>6. /\ R.offset = 0 /\ R.len = Len(s) /\ R.rc = 1 /\ R.hash = NoHash /\ R.isIdentifier = FALSE
        /\ R.base = NoBase /\ R.buf = b /\ R.usedCapacity = Len(s) /\ R.capacity = capacity
        /\ R.usedPreCapacity = 0 /\ R.preCapacity = 0
    BY <1>2 DEF RepOf
  <1>7. R \in RepType
    <2>1. NoHash \in Seq(Chars)
      BY DEF NoHash
    <2> QED
      BY <1>2, <1>4, <1>5, <2>1 DEF RepOf, RepType
  <1>8. \A i \in 1 .. Len(s) : At(R, R.offset + i) = s[i]
    BY <1>4, <1>5, <1>6 DEF At
  <1>9. Window(R, R) /\ Reads(s, R, R)
    BY <1>4, <1>6, <1>8 DEF Window, Reads
  <1>10. Buffer(R) /\ Roomless(R)
    <2>1. Len(s) = 0 => s = <<>>
      OBVIOUS
    <2> QED
      BY <1>4, <1>5, <1>6, <2>1 DEF Buffer, Roomless
  <1>11. Fits(H, c, R, R)
    BY <1>6, <1>7, <1>9, <1>10 DEF Fits
  <1>12. /\ m.r \in Reps /\ H.rep[m.r].rc = 0
         /\ Good(m.h, Minus(Plus(c, m.r), R.base)) /\ Replaces(H, m.r, R, m.h)
         /\ Elsewhere(H, m.r, m.h)
         /\ Content(m.h, m.r) = s
    BY <1>3, <1>9, <1>11, MadeGood
  <1>13. Minus(Plus(c, m.r), NoBase) = Plus(c, m.r)
    BY RepsPositive DEF Minus, Plus
  <1>14. Keeps(H, m.h)
    BY <1>12, MadeKeeps
  <1>15. Fresh(m.h.rep[m.r])
    BY <1>6, <1>12 DEF Replaces, Fresh
  <1>16. m.h.table = H.table
    BY <1>3, <1>7, MadeIs DEF Good
  <1>17. IsResult(m)
    BY <1>3, MadeResult
  <1> QED
    BY <1>6, <1>12, <1>13, <1>14, <1>15, <1>16, <1>17 DEF Yields, NewCopy

\* The window of len characters from the place "at" of the buffer of B.
Shows(B, at, len, s) ==
    /\ 0 <= at + B.usedPreCapacity /\ at + len <= B.usedCapacity
    /\ s \in Seq(Chars) /\ Len(s) = len
    /\ \A i \in 1 .. len : s[i] = At(B, at + i)

NewWindow(at, len, o) == RepOf(at, len, o, <<>>, 0)

LEMMA ShownReads ==
    ASSUME NEW at, NEW len \in Nat, NEW o, NEW s, NEW B, Shows(B, at, len, s)
    PROVE  Reads(s, NewWindow(at, len, o), B) /\ NewWindow(at, len, o).base = o
  <1>1. PICK R : R = NewWindow(at, len, o)
    OBVIOUS
  <1>2. R.offset = at /\ R.len = len /\ R.base = o
    BY <1>1 DEF NewWindow, RepOf
  <1>3. Len(s) = len /\ \A i \in 1 .. len : s[i] = At(B, at + i)
    BY DEF Shows
  <1>4. Reads(s, R, B)
    BY <1>2, <1>3 DEF Reads
  <1> QED
    BY <1>1, <1>2, <1>4

LEMMA ShownFits ==
    ASSUME NEW B \in RepType, B.base = NoBase, NEW o \in Reps,
           NEW at \in Int, NEW len \in Nat, len <= MaxLen, NEW s, Shows(B, at, len, s),
           NEW H, NEW c, B = H.rep[o], c[o] # 0
    PROVE  Fits(H, c, NewWindow(at, len, o), B)
  <1>1. PICK R : R = NewWindow(at, len, o)
    OBVIOUS
  <1>2. o # NoBase
    BY RepsPositive
  <1>3. /\ R.offset = at /\ R.len = len /\ R.rc = 1 /\ R.hash = NoHash
        /\ R.isIdentifier = FALSE /\ R.base = o
    BY <1>1 DEF NewWindow, RepOf
  <1>4. R \in RepType
    <2>1. NoHash \in Seq(Chars) /\ <<>> \in Seq(Symbols)
      BY DEF NoHash
    <2> QED
      BY <1>1, <1>2, <2>1 DEF NewWindow, RepOf, RepType
  <1>5. /\ s \in Seq(Chars) /\ Len(s) = len /\ \A i \in 1 .. len : s[i] = At(B, at + i)
        /\ 0 <= at + B.usedPreCapacity /\ at + len <= B.usedCapacity
    BY DEF Shows
  <1>6. ASSUME NEW i \in 1 .. len PROVE At(B, at + i) \in Chars
    <2>1. s[i] \in Chars
      BY <1>5
    <2> QED
      BY <1>5, <2>1
  <1>7. Window(R, B)
    BY <1>3, <1>5, <1>6 DEF Window
  <1> QED
    BY <1>1, <1>2, <1>3, <1>4, <1>7 DEF Fits

LEMMA KeepsTrans ==
    ASSUME NEW H, NEW G, NEW K, Keeps(H, G), Keeps(G, K),
           \A x \in Reps : H.rep[x].rc # 0 => G.rep[x].rc # 0
    PROVE  Keeps(H, K)
  BY DEF Keeps

\* The counts while a window is added.
LEMMA PlusMinus ==
    ASSUME NEW c \in [Reps -> Nat], NEW r, NEW o \in Reps, r # o
    PROVE  Minus(Plus(Plus(c, o), r), o) = Plus(c, r)
  <1>1. PICK d : d = Minus(Plus(Plus(c, o), r), o)
    OBVIOUS
  <1>2. ASSUME NEW x \in Reps PROVE d[x] = Plus(c, r)[x]
    <2>1. c[x] \in Nat
      OBVIOUS
    <2> QED
      BY <1>1, <2>1 DEF Minus, Plus
  <1>3. d = [x \in Reps |-> d[x]]
    BY <1>1 DEF Minus
  <1>4. Plus(c, r) = [x \in Reps |-> Plus(c, r)[x]]
    BY DEF Plus
  <1> QED
    BY <1>1, <1>2, <1>3, <1>4

LEMMA CreateSharedYields ==
    ASSUME NEW H, NEW c, NEW r, NEW offset, NEW len, NEW at, NEW s, NEW m, Good(H, c), Free(H) # {},
           r \in Reps, H.rep[r].rc # 0, offset \in Int, len \in Nat, len <= MaxLen,
           at = H.rep[r].offset + offset, Shows(H.rep[Owner(H, r)], at, len, s),
           m = CreateShared(H, r, offset, len)
    PROVE  Yields(H, c, m, s) /\ m.r \in Reps /\ H.rep[m.r].rc = 0
  <1>1. PICK o, K, R :
            /\ o = Owner(H, r) /\ K = Ref(H, o)
            /\ R = RepOf(at, len, o, <<>>, 0)
    OBVIOUS
  <1>2. m = Made(K, R)
    BY <1>1 DEF CreateShared
  <1>3. Typed(H) /\ Sound(H) /\ c \in [Reps -> Nat]
    BY DEF Good
  <1>4. o \in Reps /\ H.rep[o] \in RepType /\ H.rep[o].base = NoBase
    BY <1>1, <1>3, OwnerSound
  <1>5. Good(K, Plus(c, o)) /\ K.rep[o].rc # 0 /\ CountOnly(H, o, K)
    BY <1>1, <1>4, RefGood
  <1>6. H.rep[o].rc # 0
    <2>1. CASE H.rep[r].base = NoBase
      BY <1>1, <1>3, <2>1, RepTypes
    <2>2. CASE H.rep[r].base # NoBase
      <3>1. H.rep[r].base = o
        BY <1>1, <1>3, <2>2, RepTypes
      <3>2. Windows(H, o) # {}
        BY <3>1 DEF Windows
      <3>3. Cardinality(Windows(H, o)) # 0
        BY <3>2, WindowsType
      <3>4. /\ H.rep[o].rc = c[o] + Cardinality(Windows(H, o)) /\ c[o] \in Nat
            /\ Cardinality(Windows(H, o)) \in Nat
        BY <1>4, GoodParts
      <3> QED
        BY <3>3, <3>4
    <2> QED
      BY <2>1, <2>2
  <1>7. Free(K) = Free(H)
    BY <1>5, <1>6 DEF Free, CountOnly
  <1>8. PICK B : B = K.rep[o]
    OBVIOUS
  <1>9. B \in RepType /\ B.base = NoBase /\ SameBody(H.rep[o], B)
    <2>1. Typed(K)
      BY <1>5 DEF Good
    <2>2. SameBody(H.rep[o], B)
      BY <1>4, <1>5, <1>8 DEF CountOnly
    <2> QED
      BY <1>4, <1>8, <2>1, <2>2, RepTypes DEF SameBody, SameText
  <1>10. Shows(H.rep[o], at, len, s)
    BY <1>1
  <1>11. Shows(B, at, len, s)
    BY <1>9, <1>10 DEF Shows, SameBody, SameText, At
  <1>12. Plus(c, o)[o] # 0
    BY <1>3, <1>4 DEF Plus
  <1>13. H.rep[r].offset \in Int
    BY <1>3, RepTypes DEF RepType
  <1>14. at \in Int
    BY <1>1, <1>13
  <1>15. Fits(K, Plus(c, o), R, B) /\ Reads(s, R, B) /\ R.base = o
    <2>1. PICK d : d = Plus(c, o)
      OBVIOUS
    <2>2. d[o] # 0
      BY <1>12, <2>1
    <2>3. /\ B \in RepType /\ B.base = NoBase /\ B = K.rep[o] /\ o \in Reps
          /\ at \in Int /\ len \in Nat /\ len <= MaxLen
      BY <1>4, <1>8, <1>9, <1>14
    <2>4. R = NewWindow(at, len, o)
      BY <1>1 DEF NewWindow
    <2>5. Fits(K, d, R, B) /\ Reads(s, R, B) /\ R.base = o
      <3>1. Fits(K, d, NewWindow(at, len, o), B)
        BY ONLY <1>11, <2>2, <2>3, ShownFits
      <3>2. Reads(s, NewWindow(at, len, o), B) /\ NewWindow(at, len, o).base = o
        BY ONLY <1>11, <2>3, ShownReads
      <3> QED
        BY <2>4, <3>1, <3>2
    <2> QED
      BY <2>1, <2>5
  <1>16. s \in Seq(Chars)
    BY <1>11 DEF Shows
  <1>17. /\ m.r \in Reps /\ K.rep[m.r].rc = 0 /\ R.base # m.r
         /\ Good(m.h, Minus(Plus(Plus(c, o), m.r), R.base)) /\ Replaces(K, m.r, R, m.h)
         /\ Elsewhere(K, m.r, m.h)
         /\ Content(m.h, m.r) = s
    BY <1>2, <1>5, <1>7, <1>15, <1>16, MadeGood
  <1>18. Good(m.h, Plus(c, m.r))
    BY <1>3, <1>4, <1>15, <1>17, PlusMinus
  <1>19. Keeps(K, m.h)
    BY <1>17, MadeKeeps
  <1>20. Keeps(H, K)
    BY <1>5 DEF Keeps, CountOnly, Unchanged
  <1>21. \A x \in Reps : H.rep[x].rc # 0 => K.rep[x].rc # 0
    BY <1>7 DEF Free
  <1>22. Keeps(H, m.h)
    BY <1>19, <1>20, <1>21, KeepsTrans
  <1>23. H.rep[m.r].rc = 0
    BY <1>17, <1>21
  <1>24. IsResult(m)
    BY <1>2, MadeResult
  <1> QED
    BY <1>17, <1>18, <1>22, <1>23, <1>24 DEF Yields

------------------------------------------------------------------------------
(* Letting a Rep go.                                                       *)

\* What is still alive in G is what it was.
Survives(H, G) ==
    \A x \in Reps : G.rep[x].rc # 0 =>
        H.rep[x].rc # 0 /\ Unchanged(H, G, x) /\ G.rep[x].base = H.rep[x].base

LEMMA FreedSound ==
    ASSUME NEW G, NEW r \in Reps, G.rep[r] = Freed
    PROVE  SoundRep(G, r) /\ Freed \in RepType /\ Freed.rc = 0 /\ Freed.base = NoBase
  <1>1. /\ Freed.offset = 0 /\ Freed.len = 0 /\ Freed.rc = 0 /\ Freed.hash = NoHash
        /\ Freed.isIdentifier = FALSE /\ Freed.base = NoBase /\ Freed.buf = <<>>
        /\ Freed.usedCapacity = 0 /\ Freed.capacity = 0
        /\ Freed.usedPreCapacity = 0 /\ Freed.preCapacity = 0
    BY DEF Freed, RepOf
  <1>2. Freed \in RepType
    <2>1. NoHash \in Seq(Chars) /\ <<>> \in Seq(Symbols)
      BY DEF NoHash
    <2>2. Freed = [offset |-> 0, len |-> 0, rc |-> 0, hash |-> NoHash, isIdentifier |-> FALSE,
                   base |-> NoBase, buf |-> <<>>, usedCapacity |-> 0, capacity |-> 0,
                   usedPreCapacity |-> 0, preCapacity |-> 0]
      BY DEF Freed, RepOf
    <2> QED
      BY <2>1, <2>2 DEF RepType
  <1>3. Owner(G, r) = r
    BY <1>1 DEF Owner
  <1>4. Window(Freed, Freed)
    BY <1>1 DEF Window
  <1>5. Len(<<>>) = 0
    OBVIOUS
  <1>6. Buffer(Freed) /\ Roomless(Freed) /\ Unheld(Freed)
    BY <1>1, <1>5 DEF Buffer, Roomless, Unheld
  <1>7. Freed.len <= MaxLen
    BY <1>1, StringsAssumption
  <1> QED
    BY <1>1, <1>2, <1>3, <1>4, <1>6, <1>7 DEF SoundRep

\* The keys that go with a Rep.
Gone(H, r) == IF H.rep[r].isIdentifier THEN Keys(H, Hash(H, r), Content(H, r)) ELSE {}
Without(H, S) == [k \in DOMAIN H.table \ S |-> H.table[k]]

LEMMA DestroyedIs ==
    ASSUME NEW H, Typed(H), NEW r \in Reps, NEW G, G = DestroyRep(H, r)
    PROVE  Replaces(H, r, Freed, G) /\ G.table = Without(H, Gone(H, r))
  <1>1. PICK t, f : t = Without(H, Gone(H, r)) /\ f = [H.rep EXCEPT ![r] = Freed]
    OBVIOUS
  <1>2. G = [rep |-> f, table |-> t]
    BY <1>1 DEF DestroyRep, Without, Gone
  <1>3. H.rep \in [Reps -> RepType] /\ Freed \in RepType
    <2>1. PICK K : K = [rep |-> [x \in Reps |-> Freed]]
      OBVIOUS
    <2>2. K.rep[r] = Freed
      BY <2>1
    <2> QED
      BY <2>2, FreedSound DEF Typed
  <1>4. f \in [Reps -> RepType] /\ f[r] = Freed /\ \A x \in Reps : x # r => f[x] = H.rep[x]
    BY <1>1, <1>3
  <1>5. G.rep = f /\ G.table = t
    BY <1>2
  <1>6. DOMAIN t \subseteq Reps /\ t \in [DOMAIN t -> Seq(Chars)]
    BY <1>1 DEF Typed, Without
  <1>7. Typed(G)
    BY <1>2, <1>4, <1>5, <1>6 DEF Typed
  <1> QED
    BY <1>1, <1>4, <1>5, <1>7 DEF Replaces

LEMMA NamedLoses ==
    ASSUME NEW H, Named(H), NEW r \in Reps, NEW G, G.table = Without(H, Gone(H, r)),
           G.rep[r] = Freed, \A x \in Reps : x # r => Unchanged(H, G, x)
    PROVE  Named(G)
  <1>1. DOMAIN H.table = {x \in Reps : H.rep[x].isIdentifier}
    BY DEF Named
  <1>2. DOMAIN H.table \ Gone(H, r) = DOMAIN H.table \ {r}
    <2>1. CASE H.rep[r].isIdentifier
      <3>1. r \in DOMAIN H.table
        BY <1>1, <2>1
      <3>2. PICK s : s = Content(H, r)
        OBVIOUS
      <3>3. s # <<>> /\ H.rep[r].hash = s /\ H.table[r] = s
        BY <3>1, <3>2 DEF Named
      <3>4. Hash(H, r) = s
        BY <3>2, <3>3 DEF Hash
      <3>5. \A k \in DOMAIN H.table : Content(H, k) = s => k = r
        BY <3>1, <3>2 DEF Named
      <3>6. Keys(H, s, s) = {r}
        BY <3>1, <3>2, <3>3, <3>5 DEF Keys
      <3> QED
        BY <2>1, <3>2, <3>4, <3>6 DEF Gone
    <2>2. CASE ~H.rep[r].isIdentifier
      BY <1>1, <2>2 DEF Gone
    <2> QED
      BY <2>1, <2>2
  <1>3. DOMAIN G.table = DOMAIN H.table \ {r} /\ \A k \in DOMAIN G.table : G.table[k] = H.table[k]
    BY <1>2 DEF Without
  <1>4. G.rep[r].isIdentifier = FALSE /\ G.rep[r].hash = NoHash
    BY DEF Freed, RepOf
  <1>5. DOMAIN G.table = {x \in Reps : G.rep[x].isIdentifier}
    BY <1>1, <1>3, <1>4 DEF Unchanged
  <1>6. \A x \in Reps : G.rep[x].hash = NoHash \/ G.rep[x].hash = Content(G, x)
    BY <1>4 DEF Named, Unchanged
  <1>7. \A k \in DOMAIN G.table : k \in DOMAIN H.table /\ Unchanged(H, G, k)
    BY <1>1, <1>3
  <1>8. ASSUME NEW k \in DOMAIN G.table
        PROVE  /\ Content(G, k) # <<>>
               /\ G.rep[k].hash = Content(G, k) /\ G.table[k] = Content(G, k)
               /\ \A j \in DOMAIN G.table : Content(G, j) = Content(G, k) => j = k
    BY <1>3, <1>7 DEF Named, Unchanged
  <1> QED
    BY <1>5, <1>6, <1>8 DEF Named

LEMMA DestroyGood ==
    ASSUME NEW H, NEW c, Good(H, c), NEW r \in Reps, H.rep[r].rc = 1, c[r] # 0,
           NEW G, G = DestroyRep(H, r), NEW d, d = Plus(Minus(c, r), H.rep[r].base)
    PROVE  Good(G, d) /\ Survives(H, G) /\ Replaces(H, r, Freed, G)
  <1>1. PICK o : o = H.rep[r].base
    OBVIOUS
  <1>2. Typed(H) /\ Sound(H) /\ c \in [Reps -> Nat]
    BY DEF Good
  <1>3. /\ H.rep[r] \in RepType /\ c[r] \in Nat
        /\ H.rep[r].rc = c[r] + Cardinality(Windows(H, r)) /\ Cardinality(Windows(H, r)) \in Nat
    BY GoodParts
  <1>4. c[r] = 1 /\ Cardinality(Windows(H, r)) = 0
    BY <1>3
  <1>5. Windows(H, r) = {}
    BY <1>4, WindowsType
  <1>6. o # r /\ o \in Reps \cup {NoBase}
    BY <1>1, <1>3, <1>5 DEF Windows, RepType
  <1>7. Replaces(H, r, Freed, G) /\ G.table = Without(H, Gone(H, r))
    BY <1>2, DestroyedIs
  <1>8. G.rep[r] = Freed /\ Typed(G)
    BY <1>7 DEF Replaces
  <1>9. SoundRep(G, r) /\ Freed \in RepType /\ Freed.rc = 0 /\ Freed.base = NoBase
    BY <1>8, FreedSound
  <1>10. Sound(G) /\ Elsewhere(H, r, G)
    BY <1>2, <1>5, <1>7, <1>9, ReplaceSound
  <1>11. ASSUME NEW x \in Reps
         PROVE  d[x] \in Nat /\ G.rep[x].rc = d[x] + Cardinality(Windows(G, x))
    <2>1. PICK u, w : u = Cardinality(Windows(H, x)) /\ w = Cardinality(Windows(G, x))
      OBVIOUS
    <2>2. w = u - One(o, x) + One(NoBase, x)
      BY <1>1, <1>7, <1>9, <2>1, WindowsMove
    <2>3. NoBase # x
      BY RepsPositive
    <2>4. u \in Nat /\ w \in Nat /\ c[x] \in Nat /\ H.rep[x].rc = c[x] + u
      BY <2>1, GoodParts, WindowsType
    <2>5. d[x] = (IF x = r THEN c[x] - 1 ELSE c[x]) + One(o, x)
      BY <1>1, <2>4 DEF Minus, Plus, One
    <2>6. w = u - One(o, x)
      BY <2>2, <2>3, <2>4 DEF One
    <2>7. CASE x = r
      <3>1. d[x] = 0 /\ w = 0 /\ G.rep[x].rc = 0
        BY <1>4, <1>6, <1>8, <1>9, <2>1, <2>5, <2>6, <2>7 DEF One
      <3> QED
        BY <2>1, <3>1
    <2>8. CASE x # r
      <3>1. G.rep[x].rc = c[x] + u
        BY <1>7, <2>4, <2>8 DEF Replaces
      <3>2. d[x] = c[x] + One(o, x)
        BY <2>5, <2>8
      <3> QED
        BY <2>1, <2>4, <2>6, <3>1, <3>2 DEF One
    <2> QED
      BY <2>7, <2>8
  <1>12. d \in [Reps -> Nat] /\ Counted(G, d)
    <2>1. d = [x \in Reps |-> d[x]]
      BY DEF Plus
    <2> QED
      BY <1>11, <2>1 DEF Counted
  <1>13. \A x \in Reps : x # r => Unchanged(H, G, x)
    BY <1>7, <1>10 DEF Replaces, Unchanged, Elsewhere
  <1>14. ASSUME Careful PROVE Named(G)
    <2>1. Named(H)
      BY <1>14 DEF Good
    <2> QED
      BY <1>7, <1>8, <1>13, <2>1, NamedLoses
  <1>15. Good(G, d)
    BY <1>8, <1>10, <1>12, <1>14 DEF Good
  <1>16. Survives(H, G)
    BY <1>7, <1>8, <1>9, <1>13 DEF Survives, Replaces
  <1> QED
    BY <1>7, <1>15, <1>16

LEMMA MinusType ==
    ASSUME NEW c \in [Reps -> Nat], NEW r \in Reps, c[r] # 0
    PROVE  /\ Minus(c, r) \in [Reps -> Nat] /\ Minus(c, r)[r] = c[r] - 1
           /\ Apart(c, Minus(c, r), r)
           /\ Plus(Minus(c, r), NoBase) = Minus(c, r)
  <1>1. PICK d : d = Minus(c, r)
    OBVIOUS
  <1>2. c[r] \in Nat /\ c[r] - 1 \in Nat
    OBVIOUS
  <1>3. d \in [Reps -> Nat] /\ d[r] = c[r] - 1 /\ Apart(c, d, r)
    BY <1>1, <1>2 DEF Minus, Apart
  <1>4. Plus(d, NoBase) = d
    <2>1. ASSUME NEW x \in Reps PROVE Plus(d, NoBase)[x] = d[x]
      BY RepsPositive DEF Plus
    <2>2. Plus(d, NoBase) = [x \in Reps |-> Plus(d, NoBase)[x]] /\ d = [x \in Reps |-> d[x]]
      BY <1>3 DEF Plus
    <2> QED
      BY <2>1, <2>2
  <1> QED
    BY <1>1, <1>3, <1>4

LEMMA SurvivesTrans ==
    ASSUME NEW H, NEW G, NEW K, Survives(H, G), Survives(G, K)
    PROVE  Survives(H, K)
  BY DEF Survives, Unchanged

LEMMA DropGood ==
    ASSUME NEW H, NEW c, Good(H, c), NEW r \in Reps, c[r] # 0,
           H.rep[r].rc > 1 \/ H.rep[r].base = NoBase, NEW G, G = Drop(H, r)
    PROVE  Good(G, Minus(c, r)) /\ Survives(H, G)
  <1>1. PICK d : d = Minus(c, r)
    OBVIOUS
  <1>2. c \in [Reps -> Nat]
    BY DEF Good
  <1>3. /\ d \in [Reps -> Nat] /\ d[r] = c[r] - 1 /\ Apart(c, d, r) /\ Plus(d, NoBase) = d
    BY <1>1, <1>2, MinusType
  <1>4. /\ H.rep[r].rc \in Nat /\ c[r] \in Nat
        /\ H.rep[r].rc = c[r] + Cardinality(Windows(H, r)) /\ Cardinality(Windows(H, r)) \in Nat
    BY GoodParts
  <1>5. CASE H.rep[r].rc > 1
    <2>1. PICK n : n = H.rep[r].rc - 1
      OBVIOUS
    <2>2. n \in Nat \ {0} /\ d[r] + H.rep[r].rc = c[r] + n
      BY <1>3, <1>4, <1>5, <2>1
    <2>3. G = [H EXCEPT !.rep[r].rc = n]
      BY <1>5, <2>1 DEF Drop
    <2>4. Good(G, d) /\ G.rep[r].rc = n /\ CountOnly(H, r, G)
      BY <1>3, <2>2, <2>3, Recounted
    <2>5. Survives(H, G)
      BY <1>4, <1>5, <2>4 DEF Survives, CountOnly, SameBody, SameText
    <2> QED
      BY <1>1, <2>4, <2>5
  <1>6. CASE ~(H.rep[r].rc > 1)
    <2>1. H.rep[r].rc = 1 /\ H.rep[r].base = NoBase
      BY <1>4, <1>6
    <2>2. G = DestroyRep(H, r)
      BY <1>6 DEF Drop
    <2>3. Good(G, Plus(d, NoBase)) /\ Survives(H, G)
      BY <1>1, <2>1, <2>2, DestroyGood
    <2> QED
      BY <1>1, <1>3, <2>3
  <1> QED
    BY <1>5, <1>6

LEMMA DerefGood ==
    ASSUME NEW H, NEW c, Good(H, c), NEW r \in Reps \cup {Empty}, r \in Reps => c[r] # 0,
           NEW G, G = Deref(H, r)
    PROVE  Good(G, Minus(c, r)) /\ Survives(H, G)
  <1>1. c \in [Reps -> Nat] /\ Empty \notin Reps
    BY RepsPositive DEF Good
  <1>2. CASE r = Empty
    <2>1. G = H
      BY <1>2 DEF Deref
    <2>2. Minus(c, r) = c
      <3>1. \A x \in Reps : Minus(c, r)[x] = c[x]
        BY <1>1, <1>2 DEF Minus
      <3>2. Minus(c, r) = [x \in Reps |-> Minus(c, r)[x]] /\ c = [x \in Reps |-> c[x]]
        BY <1>1 DEF Minus
      <3> QED
        BY <3>1, <3>2
    <2> QED
      BY <2>1, <2>2 DEF Survives, Unchanged
  <1>3. CASE r \in Reps /\ (H.rep[r].rc > 1 \/ H.rep[r].base = NoBase)
    <2>1. r # Empty
      BY <1>1, <1>3
    <2>2. G = Drop(H, r)
      BY <1>3, <2>1 DEF Deref
    <2> QED
      BY <1>3, <2>2, DropGood
  <1>4. CASE r \in Reps /\ ~(H.rep[r].rc > 1) /\ H.rep[r].base # NoBase
    <2>1. PICK o, D, d : /\ o = H.rep[r].base /\ D = DestroyRep(H, r)
                         /\ d = Plus(Minus(c, r), H.rep[r].base)
      OBVIOUS
    <2>2. r # Empty
      BY <1>1, <1>4, Zenon
    <2>3. G = Drop(D, o)
      BY <1>4, <2>1, <2>2, Zenon DEF Deref, Drop
    <2>4. /\ H.rep[r].rc \in Nat /\ c[r] \in Nat /\ H.rep[r] \in RepType
          /\ H.rep[r].rc = c[r] + Cardinality(Windows(H, r)) /\ Cardinality(Windows(H, r)) \in Nat
          /\ SoundRep(H, r)
      BY <1>4, GoodParts
    <2>5. H.rep[r].rc = 1 /\ c[r] # 0 /\ c[r] = 1 /\ Cardinality(Windows(H, r)) = 0
      BY <1>4, <2>4
    <2>6. o \in Reps /\ o # r /\ H.rep[o].base = NoBase
      <3>1. Windows(H, r) = {}
        BY <2>5, WindowsType
      <3>2. o \in Reps /\ o # r
        BY <1>4, <2>1, <2>4, <3>1 DEF RepType, Windows
      <3> QED
        BY <1>4, <2>1, <2>4, <3>2 DEF SoundRep, Owner
    <2>7. Good(D, d) /\ Survives(H, D) /\ Replaces(H, r, Freed, D)
      BY <1>4, <2>1, <2>5, DestroyGood
    <2>8. D.rep[o].base = NoBase
      BY <2>6, <2>7 DEF Replaces
    <2>9. Minus(c, r)[o] = c[o] /\ c[o] \in Nat
      BY <1>1, <2>6 DEF Minus
    <2>10. d[o] # 0
      BY <2>1, <2>6, <2>9 DEF Plus
    <2>11. Good(G, Minus(d, o)) /\ Survives(D, G)
      BY <2>3, <2>6, <2>7, <2>8, <2>10, DropGood
    <2>12. Minus(d, o) = Minus(c, r)
      <3>1. ASSUME NEW x \in Reps PROVE Minus(d, o)[x] = Minus(c, r)[x]
        <4>1. c[x] \in Nat
          BY <1>1
        <4> QED
          BY <2>1, <4>1 DEF Plus, Minus
      <3>2. /\ Minus(d, o) = [x \in Reps |-> Minus(d, o)[x]]
            /\ Minus(c, r) = [x \in Reps |-> Minus(c, r)[x]]
        BY DEF Minus
      <3> QED
        BY <3>1, <3>2
    <2> QED
      BY <2>7, <2>11, <2>12, SurvivesTrans
  <1> QED
    BY <1>2, <1>3, <1>4

------------------------------------------------------------------------------
(* The variables.                                                          *)

Pointers == Reps \cup {Empty}

\* A variable that referred to r refers to q.
Moved(c, r, q) == [x \in Reps |-> c[x] - One(r, x) + One(q, x)]

LEMMA HandlesType ==
    ASSUME NEW D, IsFiniteSet(D), NEW f, NEW x
    PROVE  /\ IsFiniteSet(HandlesAt(D, f, x)) /\ Cardinality(HandlesAt(D, f, x)) \in Nat
           /\ Cardinality(HandlesAt(D, f, x)) = 0 <=> HandlesAt(D, f, x) = {}
  <1>1. HandlesAt(D, f, x) \subseteq D
    BY DEF HandlesAt
  <1>2. IsFiniteSet(HandlesAt(D, f, x))
    BY <1>1, FS_Subset
  <1> QED
    BY <1>2, FS_CardinalityType, FS_EmptySet

\* One variable gets another value.
Sets(D, f, v, q, g) == g[v] = q /\ \A w \in D : w # v => g[w] = f[w]

LEMMA HandlesMove ==
    ASSUME NEW D, IsFiniteSet(D), NEW f, NEW v \in D, NEW q, NEW g, Sets(D, f, v, q, g), NEW x
    PROVE  Cardinality(HandlesAt(D, g, x)) =
               Cardinality(HandlesAt(D, f, x)) - One(f[v], x) + One(q, x)
  <1> DEFINE S == HandlesAt(D, f, x)
             T == HandlesAt(D, g, x)
  <1>1. g[v] = q /\ \A w \in D : w # v => g[w] = f[w]
    BY DEF Sets
  <1>2. Beside(v, S, T)
    BY <1>1 DEF Beside, HandlesAt
  <1>3. (v \in S <=> f[v] = x) /\ (v \in T <=> q = x)
    BY <1>1 DEF HandlesAt
  <1>4. IsFiniteSet(S)
    BY HandlesType
  <1> HIDE DEF S, T
  <1>5. /\ Cardinality(S) \in Nat /\ Cardinality(T) \in Nat
        /\ (v \in S <=> v \in T) => Cardinality(T) = Cardinality(S)
        /\ v \notin S /\ v \in T => Cardinality(T) = Cardinality(S) + 1
        /\ v \in S /\ v \notin T => Cardinality(T) = Cardinality(S) - 1
    BY <1>2, <1>4, OneMoves
  <1>6. Cardinality(T) = Cardinality(S) - One(f[v], x) + One(q, x)
    BY <1>3, <1>5 DEF One
  <1> QED
    BY <1>6 DEF S, T

LEMMA CountsType ==
    ASSUME NEW f, NEW g
    PROVE  /\ Counts(f, g) \in [Reps -> Nat]
           /\ \A v \in Vars : f[v] \in Reps => Counts(f, g)[f[v]] # 0
           /\ \A i \in Idents : g[i] \in Reps => Counts(f, g)[g[i]] # 0
  <1>1. IsFiniteSet(Vars) /\ IsFiniteSet(Idents)
    BY StringsAssumption
  <1>2. \A x : /\ Cardinality(HandlesAt(Vars, f, x)) \in Nat
               /\ Cardinality(HandlesAt(Idents, g, x)) \in Nat
    BY <1>1, HandlesType
  <1>3. Counts(f, g) \in [Reps -> Nat]
    BY <1>2 DEF Counts
  <1>4. ASSUME NEW v \in Vars, f[v] \in Reps PROVE Counts(f, g)[f[v]] # 0
    <2>1. HandlesAt(Vars, f, f[v]) # {}
      BY DEF HandlesAt
    <2>2. Cardinality(HandlesAt(Vars, f, f[v])) # 0
      BY <1>1, <2>1, HandlesType
    <2> QED
      BY <1>2, <1>4, <2>2 DEF Counts
  <1>5. ASSUME NEW i \in Idents, g[i] \in Reps PROVE Counts(f, g)[g[i]] # 0
    <2>1. HandlesAt(Idents, g, g[i]) # {}
      BY DEF HandlesAt
    <2>2. Cardinality(HandlesAt(Idents, g, g[i])) # 0
      BY <1>1, <2>1, HandlesType
    <2> QED
      BY <1>2, <1>5, <2>2 DEF Counts
  <1> QED
    BY <1>3, <1>4, <1>5

LEMMA VarMoves ==
    ASSUME NEW f, NEW g, NEW v \in Vars, NEW q, NEW f2, Sets(Vars, f, v, q, f2)
    PROVE  Counts(f2, g) = Moved(Counts(f, g), f[v], q)
  <1>1. IsFiniteSet(Vars) /\ IsFiniteSet(Idents)
    BY StringsAssumption
  <1>2. ASSUME NEW x \in Reps
        PROVE  Counts(f2, g)[x] = Moved(Counts(f, g), f[v], q)[x]
    <2>1. PICK a, b, e : /\ a = Cardinality(HandlesAt(Vars, f, x))
                         /\ b = Cardinality(HandlesAt(Vars, f2, x))
                         /\ e = Cardinality(HandlesAt(Idents, g, x))
      OBVIOUS
    <2>2. a \in Nat /\ b \in Nat /\ e \in Nat
      BY <1>1, <2>1, HandlesType
    <2>3. b = a - One(f[v], x) + One(q, x)
      <3>1. Cardinality(HandlesAt(Vars, f2, x)) =
                Cardinality(HandlesAt(Vars, f, x)) - One(f[v], x) + One(q, x)
        BY <1>1, HandlesMove
      <3> QED
        BY <2>1, <3>1
    <2>4. Counts(f, g)[x] = a + e /\ Counts(f2, g)[x] = b + e
      BY <2>1 DEF Counts
    <2>5. b + e = (a + e) - One(f[v], x) + One(q, x)
      BY <2>2, <2>3 DEF One
    <2> QED
      BY <2>4, <2>5 DEF Moved
  <1>3. /\ Counts(f2, g) = [x \in Reps |-> Counts(f2, g)[x]]
        /\ Moved(Counts(f, g), f[v], q) = [x \in Reps |-> Moved(Counts(f, g), f[v], q)[x]]
    BY DEF Counts, Moved
  <1> QED
    BY <1>2, <1>3

LEMMA IdentMoves ==
    ASSUME NEW f, NEW g, NEW i \in Idents, NEW q, NEW g2, Sets(Idents, g, i, q, g2)
    PROVE  Counts(f, g2) = Moved(Counts(f, g), g[i], q)
  <1>1. IsFiniteSet(Vars) /\ IsFiniteSet(Idents)
    BY StringsAssumption
  <1>2. ASSUME NEW x \in Reps
        PROVE  Counts(f, g2)[x] = Moved(Counts(f, g), g[i], q)[x]
    <2>1. PICK a, b, e : /\ a = Cardinality(HandlesAt(Idents, g, x))
                         /\ b = Cardinality(HandlesAt(Idents, g2, x))
                         /\ e = Cardinality(HandlesAt(Vars, f, x))
      OBVIOUS
    <2>2. a \in Nat /\ b \in Nat /\ e \in Nat
      BY <1>1, <2>1, HandlesType
    <2>3. b = a - One(g[i], x) + One(q, x)
      <3>1. Cardinality(HandlesAt(Idents, g2, x)) =
                Cardinality(HandlesAt(Idents, g, x)) - One(g[i], x) + One(q, x)
        BY <1>1, HandlesMove
      <3> QED
        BY <2>1, <3>1
    <2>4. Counts(f, g)[x] = e + a /\ Counts(f, g2)[x] = e + b
      BY <2>1 DEF Counts
    <2>5. e + b = (e + a) - One(g[i], x) + One(q, x)
      BY <2>2, <2>3 DEF One
    <2> QED
      BY <2>4, <2>5 DEF Moved
  <1>3. /\ Counts(f, g2) = [x \in Reps |-> Counts(f, g2)[x]]
        /\ Moved(Counts(f, g), g[i], q) = [x \in Reps |-> Moved(Counts(f, g), g[i], q)[x]]
    BY DEF Counts, Moved
  <1> QED
    BY <1>2, <1>3

------------------------------------------------------------------------------
(* Results and steps.                                                      *)

LEMMA LiveByCount ==
    ASSUME NEW H, NEW c, Good(H, c), NEW r \in Reps, c[r] # 0
    PROVE  H.rep[r].rc # 0
  <1>1. /\ c[r] \in Nat /\ H.rep[r].rc = c[r] + Cardinality(Windows(H, r))
        /\ Cardinality(Windows(H, r)) \in Nat
    BY GoodParts
  <1> QED
    BY <1>1

\* What others refer to, when one variable lets r go.
Others(c, r, H, G) ==
    \A x \in Reps : Minus(c, r)[x] # 0 =>
        /\ Content(G, x) = Content(H, x)
        /\ H.rep[x].isIdentifier => G.rep[x].isIdentifier

\* m is a heap like H in which the variable that referred to r refers to a
\* Rep with the characters s.
Result(H, c, r, m, s) ==
    /\ m.r \in Pointers /\ Good(m.h, Moved(c, r, m.r))
    /\ Content(m.h, m.r) = s /\ Others(c, r, H, m.h)

LEMMA MovedType ==
    ASSUME NEW c \in [Reps -> Nat], NEW r \in Pointers, r \in Reps => c[r] # 0,
           NEW q \in Pointers
    PROVE  /\ Moved(c, r, q) = Minus(Plus(c, q), r)
           /\ q \in Reps => Moved(c, r, q)[q] # 0
           /\ \A x \in Reps : Minus(c, r)[x] # 0 => Moved(c, r, q)[x] # 0 /\ c[x] # 0
  <1>1. ASSUME NEW x \in Reps
        PROVE  /\ Moved(c, r, q)[x] = Minus(Plus(c, q), r)[x]
               /\ x = q => Moved(c, r, q)[x] # 0
               /\ Minus(c, r)[x] # 0 => Moved(c, r, q)[x] # 0 /\ c[x] # 0
    <2>1. PICK n : n = c[x]
      OBVIOUS
    <2>2. n \in Nat /\ (x = r => n # 0)
      BY <2>1
    <2>3. /\ Moved(c, r, q)[x] = n - One(r, x) + One(q, x)
          /\ Minus(c, r)[x] = (IF x = r THEN n - 1 ELSE n)
          /\ Minus(Plus(c, q), r)[x] =
                 (IF x = r THEN (IF x = q THEN n + 1 ELSE n) - 1 ELSE IF x = q THEN n + 1 ELSE n)
      BY <2>1 DEF Moved, Minus, Plus
    <2>4. One(r, x) = (IF x = r THEN 1 ELSE 0) /\ One(q, x) = (IF x = q THEN 1 ELSE 0)
      BY DEF One
    <2> QED
      BY <2>1, <2>2, <2>3, <2>4
  <1>2. /\ Moved(c, r, q) = [x \in Reps |-> Moved(c, r, q)[x]]
        /\ Minus(Plus(c, q), r) = [x \in Reps |-> Minus(Plus(c, q), r)[x]]
    BY DEF Moved, Minus
  <1> QED
    BY <1>1, <1>2

LEMMA PlusAtLeast ==
    ASSUME NEW c \in [Reps -> Nat], NEW q, NEW r \in Reps, c[r] # 0
    PROVE  Plus(c, q)[r] # 0
  BY DEF Plus

LEMMA TakenResult ==
    ASSUME NEW H, NEW c, Good(H, c), NEW r \in Pointers, r \in Reps => c[r] # 0,
           NEW n, NEW s, Yields(H, c, n, s), NEW m, m = [n EXCEPT !.h = Deref(@, r)]
    PROVE  /\ Result(H, c, r, m, s) /\ m.r = n.r /\ m.h = Deref(n.h, r) /\ Survives(n.h, m.h)
           /\ m.r \in Reps => m.h.rep[m.r].rc # 0
  <1>1. PICK K, q : K = n.h /\ q = n.r
    OBVIOUS
  <1>2. n = [h |-> K, r |-> q] /\ q \in Pointers /\ Good(K, Plus(c, q))
        /\ Content(K, q) = s /\ Keeps(H, K)
    BY <1>1 DEF Yields, IsResult, Pointers
  <1>3. PICK G, d : G = Deref(K, r) /\ d = Moved(c, r, q)
    OBVIOUS
  <1>4. m = [h |-> G, r |-> q]
    BY <1>1, <1>2, <1>3
  <1>5. m.h = G /\ m.r = q
    BY <1>4
  <1>6. c \in [Reps -> Nat]
    BY DEF Good
  <1>7. /\ d = Minus(Plus(c, q), r) /\ (q \in Reps => d[q] # 0)
        /\ \A x \in Reps : Minus(c, r)[x] # 0 => d[x] # 0 /\ c[x] # 0
    BY <1>2, <1>3, <1>6, MovedType
  <1>8. r \in Reps => Plus(c, q)[r] # 0
    BY <1>6, PlusAtLeast
  <1>9. Good(G, Minus(Plus(c, q), r)) /\ Survives(K, G)
    BY <1>2, <1>3, <1>8, DerefGood DEF Pointers
  <1>10. Good(G, d)
    BY <1>7, <1>9
  <1>11. q \in Reps => G.rep[q].rc # 0
    BY <1>7, <1>10, LiveByCount
  <1>12. Content(G, q) = s
    <2>1. CASE q = Empty
      BY <1>2, <2>1, EmptyContent
    <2>2. CASE q \in Reps
      BY <1>2, <1>9, <1>11, <2>2 DEF Survives, Unchanged
    <2> QED
      BY <1>2, <2>1, <2>2 DEF Pointers
  <1>13. ASSUME NEW x \in Reps, Minus(c, r)[x] # 0
         PROVE  /\ Content(G, x) = Content(H, x)
                /\ H.rep[x].isIdentifier => G.rep[x].isIdentifier
    <2>1. d[x] # 0 /\ c[x] # 0
      BY <1>7, <1>13
    <2>2. G.rep[x].rc # 0 /\ H.rep[x].rc # 0
      BY <1>10, <2>1, LiveByCount
    <2> QED
      BY <1>2, <1>9, <2>2 DEF Keeps, Survives, Unchanged
  <1>14. Others(c, r, H, G)
    BY <1>13 DEF Others
  <1> QED
    BY <1>1, <1>2, <1>3, <1>5, <1>9, <1>10, <1>11, <1>12, <1>14 DEF Result

\* What other variables than the one that lets go refer to.
LEMMA OtherCounts ==
    ASSUME NEW f \in [Vars -> Pointers], NEW g \in [Idents -> Pointers]
    PROVE  /\ \A v \in Vars : LET d == Minus(Counts(f, g), f[v])
                              IN  /\ \A w \in Vars : w # v /\ f[w] \in Reps => d[f[w]] # 0
                                  /\ \A i \in Idents : g[i] \in Reps => d[g[i]] # 0
           /\ \A i \in Idents : LET d == Minus(Counts(f, g), g[i])
                                IN  /\ \A v \in Vars : f[v] \in Reps => d[f[v]] # 0
                                    /\ \A j \in Idents : j # i /\ g[j] \in Reps => d[g[j]] # 0
  <1>1. Counts(f, g) \in [Reps -> Nat] /\ Empty \notin Reps
    BY CountsType, RepsPositive
  <1>2. ASSUME NEW r PROVE Minus(Counts(f, g), r) = Moved(Counts(f, g), r, Empty)
    <2>1. PICK c : c = Counts(f, g)
      OBVIOUS
    <2>2. ASSUME NEW x \in Reps PROVE Minus(c, r)[x] = Moved(c, r, Empty)[x]
      <3>1. c[x] \in Nat /\ x # Empty
        BY <1>1, <2>1
      <3> QED
        BY <3>1 DEF Minus, Moved, One
    <2>3. /\ Minus(c, r) = [x \in Reps |-> Minus(c, r)[x]]
          /\ Moved(c, r, Empty) = [x \in Reps |-> Moved(c, r, Empty)[x]]
      BY DEF Minus, Moved
    <2> QED
      BY <2>1, <2>2, <2>3
  <1>3. ASSUME NEW v \in Vars, NEW d, d = Minus(Counts(f, g), f[v])
        PROVE  /\ \A w \in Vars : w # v /\ f[w] \in Reps => d[f[w]] # 0
               /\ \A i \in Idents : g[i] \in Reps => d[g[i]] # 0
    <2>1. PICK e : e = [f EXCEPT ![v] = Empty]
      OBVIOUS
    <2>2. Sets(Vars, f, v, Empty, e)
      BY <2>1 DEF Sets
    <2>3. d = Counts(e, g)
      BY <1>2, <1>3, <2>2, VarMoves
    <2> QED
      BY <2>2, <2>3, CountsType DEF Sets
  <1>4. ASSUME NEW i \in Idents, NEW d, d = Minus(Counts(f, g), g[i])
        PROVE  /\ \A v \in Vars : f[v] \in Reps => d[f[v]] # 0
               /\ \A j \in Idents : j # i /\ g[j] \in Reps => d[g[j]] # 0
    <2>1. PICK e : e = [g EXCEPT ![i] = Empty]
      OBVIOUS
    <2>2. Sets(Idents, g, i, Empty, e)
      BY <2>1 DEF Sets
    <2>3. d = Counts(f, e)
      BY <1>2, <1>4, <2>2, IdentMoves
    <2> QED
      BY <2>2, <2>3, CountsType DEF Sets
  <1> QED
    BY <1>3, <1>4

\* The characters of another variable in the heap of the result.
LEMMA OtherKeeps ==
    ASSUME NEW c, NEW r, NEW H, NEW G, Others(c, r, H, G), NEW K, Same(G, K),
           NEW q \in Pointers, q \in Reps => Minus(c, r)[q] # 0
    PROVE  /\ Content(K, q) = Content(H, q)
           /\ q \in Reps /\ H.rep[q].isIdentifier => K.rep[q].isIdentifier
  <1>1. CASE q = Empty
    BY <1>1, EmptyContent, RepsPositive
  <1>2. CASE q \in Reps
    BY <1>2 DEF Others, Same, SameHead
  <1> QED
    BY <1>1, <1>2 DEF Pointers

LEMMA SameContent ==
    ASSUME NEW H, NEW G, Same(H, G), NEW q \in Pointers
    PROVE  Content(G, q) = Content(H, q)
  <1>1. CASE q = Empty
    BY <1>1, EmptyContent
  <1>2. CASE q \in Reps
    BY <1>2 DEF Same
  <1> QED
    BY <1>1, <1>2 DEF Pointers

\* An identifier refers to a key.
Names(g, H) == \A i \in Idents : g[i] = Empty \/ H.rep[g[i]].isIdentifier

LEMMA AlterStep ==
    ASSUME IInv, NEW v \in Vars, NEW m, NEW s,
           Result(heap, Counts(var, ident), var[v], m, s),
           var' = [var EXCEPT ![v] = m.r], heap' = Forgotten(m.h), ident' = ident
    PROVE  IInv' /\ Values!SetString(v, s)
  <1>1. PICK H, K, c, r, f, g, q, G :
            /\ H = heap /\ K = heap' /\ c = Counts(var, ident) /\ r = var[v]
            /\ f = var /\ g = ident /\ q = m.r /\ G = m.h
    OBVIOUS
  <1>2. /\ f \in [Vars -> Pointers] /\ g \in [Idents -> Pointers] /\ Good(H, c)
        /\ Careful => Names(g, H)
    BY <1>1 DEF IInv, Pointers, Names
  <1>3. /\ q \in Pointers /\ Good(G, Moved(c, r, q)) /\ Content(G, q) = s /\ Others(c, r, H, G)
    BY <1>1 DEF Result
  <1>4. Good(K, Moved(c, r, q)) /\ Same(G, K)
    BY <1>1, <1>3, ForgottenGood
  <1>5. PICK e : e = [f EXCEPT ![v] = q]
    OBVIOUS
  <1>6. e \in [Vars -> Pointers] /\ e[v] = q /\ \A w \in Vars : w # v => e[w] = f[w]
    BY <1>2, <1>3, <1>5
  <1>7. Counts(e, g) = Moved(c, r, q)
    <2>1. Sets(Vars, f, v, q, e)
      BY <1>6 DEF Sets
    <2>2. Counts(e, g) = Moved(Counts(f, g), f[v], q)
      BY <2>1, VarMoves
    <2> QED
      BY <1>1, <2>2
  <1>8. /\ \A w \in Vars : w # v /\ f[w] \in Reps => Minus(c, r)[f[w]] # 0
        /\ \A i \in Idents : g[i] \in Reps => Minus(c, r)[g[i]] # 0
    BY <1>1, <1>2, OtherCounts
  <1>9. ASSUME NEW w \in Vars PROVE Content(K, e[w]) = IF w = v THEN s ELSE Content(H, f[w])
    <2>1. CASE w = v
      BY <1>3, <1>4, <1>6, <2>1, SameContent
    <2>2. CASE w # v
      BY <1>2, <1>3, <1>4, <1>6, <1>8, <2>2, OtherKeeps
    <2> QED
      BY <2>1, <2>2
  <1>10. ASSUME NEW i \in Idents
         PROVE  /\ Content(K, g[i]) = Content(H, g[i])
                /\ g[i] \in Reps /\ H.rep[g[i]].isIdentifier => K.rep[g[i]].isIdentifier
    BY <1>2, <1>3, <1>4, <1>8, OtherKeeps
  <1>11. Careful => Names(g, K)
    BY <1>2, <1>10 DEF Names, Pointers
  <1>12. var' = e /\ ident' = g
    BY <1>1, <1>5
  <1>13. IInv'
    <2>1. Good(heap', Counts(var', ident'))
      BY <1>1, <1>4, <1>7, <1>12
    <2>2. Careful => Names(ident', heap')
      BY <1>1, <1>11, <1>12
    <2>3. var' \in [Vars -> Pointers] /\ ident' \in [Idents -> Pointers]
      BY <1>2, <1>6, <1>12
    <2> QED
      BY <2>1, <2>2, <2>3 DEF IInv, Names, Pointers
  <1>14. Values!SetString(v, s)
    <2>1. [w \in Vars |-> Content(heap', var'[w])] =
              [[w \in Vars |-> Content(heap, var[w])] EXCEPT ![v] = s]
      BY <1>1, <1>9, <1>12
    <2>2. [i \in Idents |-> Content(heap', ident'[i])] = [i \in Idents |-> Content(heap, ident[i])]
      BY <1>1, <1>10, <1>12
    <2> QED
      BY <2>1, <2>2 DEF Values!SetString
  <1> QED
    BY <1>13, <1>14

LEMMA NameStep ==
    ASSUME IInv, NEW i \in Idents, NEW m, NEW s,
           Result(heap, Counts(var, ident), ident[i], m, s),
           Careful => m.r = Empty \/ m.h.rep[m.r].isIdentifier,
           ident' = [ident EXCEPT ![i] = m.r], heap' = Forgotten(m.h), var' = var
    PROVE  IInv' /\ Values!SetName(i, s)
  <1>1. PICK H, K, c, r, f, g, q, G :
            /\ H = heap /\ K = heap' /\ c = Counts(var, ident) /\ r = ident[i]
            /\ f = var /\ g = ident /\ q = m.r /\ G = m.h
    OBVIOUS
  <1>2. /\ f \in [Vars -> Pointers] /\ g \in [Idents -> Pointers] /\ Good(H, c)
        /\ Careful => Names(g, H)
    BY <1>1 DEF IInv, Pointers, Names
  <1>3. /\ q \in Pointers /\ Good(G, Moved(c, r, q)) /\ Content(G, q) = s /\ Others(c, r, H, G)
    BY <1>1 DEF Result
  <1>4. Good(K, Moved(c, r, q)) /\ Same(G, K)
    BY <1>1, <1>3, ForgottenGood
  <1>5. PICK e : e = [g EXCEPT ![i] = q]
    OBVIOUS
  <1>6. e \in [Idents -> Pointers] /\ e[i] = q /\ \A j \in Idents : j # i => e[j] = g[j]
    BY <1>2, <1>3, <1>5
  <1>7. Counts(f, e) = Moved(c, r, q)
    <2>1. Sets(Idents, g, i, q, e)
      BY <1>6 DEF Sets
    <2>2. Counts(f, e) = Moved(Counts(f, g), g[i], q)
      BY <2>1, IdentMoves
    <2> QED
      BY <1>1, <2>2
  <1>8. /\ \A v \in Vars : f[v] \in Reps => Minus(c, r)[f[v]] # 0
        /\ \A j \in Idents : j # i /\ g[j] \in Reps => Minus(c, r)[g[j]] # 0
    BY <1>1, <1>2, OtherCounts
  <1>9. ASSUME NEW j \in Idents
        PROVE  /\ Content(K, e[j]) = IF j = i THEN s ELSE Content(H, g[j])
               /\ Careful => e[j] = Empty \/ K.rep[e[j]].isIdentifier
    <2>1. CASE j = i
      <3>1. Content(K, q) = s
        BY <1>3, <1>4, SameContent
      <3>2. Careful => q = Empty \/ K.rep[q].isIdentifier
        BY <1>1, <1>3, <1>4 DEF Same, SameHead, Pointers
      <3> QED
        BY <1>6, <2>1, <3>1, <3>2
    <2>2. CASE j # i
      <3>1. /\ Content(K, g[j]) = Content(H, g[j])
            /\ g[j] \in Reps /\ H.rep[g[j]].isIdentifier => K.rep[g[j]].isIdentifier
        BY <1>2, <1>3, <1>4, <1>8, <2>2, OtherKeeps
      <3> QED
        BY <1>2, <1>6, <2>2, <3>1 DEF Names, Pointers
    <2> QED
      BY <2>1, <2>2
  <1>10. ASSUME NEW v \in Vars PROVE Content(K, f[v]) = Content(H, f[v])
    BY <1>2, <1>3, <1>4, <1>8, OtherKeeps
  <1>11. Careful => Names(e, K)
    BY <1>9 DEF Names
  <1>12. var' = f /\ ident' = e
    BY <1>1, <1>5
  <1>13. IInv'
    <2>1. Good(heap', Counts(var', ident'))
      BY <1>1, <1>4, <1>7, <1>12
    <2>2. Careful => Names(ident', heap')
      BY <1>1, <1>11, <1>12
    <2>3. var' \in [Vars -> Pointers] /\ ident' \in [Idents -> Pointers]
      BY <1>2, <1>6, <1>12
    <2> QED
      BY <2>1, <2>2, <2>3 DEF IInv, Names, Pointers
  <1>14. Values!SetName(i, s)
    <2>1. [j \in Idents |-> Content(heap', ident'[j])] =
              [[j \in Idents |-> Content(heap, ident[j])] EXCEPT ![i] = s]
      BY <1>1, <1>9, <1>12
    <2>2. [v \in Vars |-> Content(heap', var'[v])] = [v \in Vars |-> Content(heap, var[v])]
      BY <1>1, <1>10, <1>12
    <2> QED
      BY <2>1, <2>2 DEF Values!SetName
  <1> QED
    BY <1>13, <1>14

------------------------------------------------------------------------------
(* Room in a buffer.                                                       *)

LEMMA MaxOfInt ==
    ASSUME NEW x \in Int, NEW y \in Int
    PROVE  Max({x, y}) = IF x > y THEN x ELSE y
  <1>1. \E z \in {x, y} : \A w \in {x, y} : z >= w
    OBVIOUS
  <1>2. /\ Max({x, y}) \in {x, y}
        /\ \A w \in {x, y} : Max({x, y}) >= w
    BY <1>1 DEF Max
  <1> QED
    BY <1>2

\* S is B with more room; what is in the buffer stays in its place.
Extends(B, S) ==
    /\ S \in RepType /\ SameHead(B, S) /\ Buffer(S)
    /\ S.usedCapacity >= B.usedCapacity /\ S.usedPreCapacity >= B.usedPreCapacity
    /\ S.preCapacity >= B.preCapacity /\ S.capacity >= B.capacity
    /\ \A n \in 1 - B.preCapacity .. B.capacity : At(S, n) = At(B, n)

RepFields(B, u, v, p, q) ==
    /\ u = B.usedCapacity /\ v = B.usedPreCapacity /\ p = B.preCapacity /\ q = B.capacity
    /\ u \in Nat /\ v \in Nat /\ p \in Nat /\ q \in Nat

LEMMA FieldsOf ==
    ASSUME NEW B \in RepType
    PROVE  \E u, v, p, q : RepFields(B, u, v, p, q)
  <1>1. /\ B.usedCapacity \in Nat /\ B.usedPreCapacity \in Nat
        /\ B.preCapacity \in Nat /\ B.capacity \in Nat
    BY DEF RepType
  <1> QED
    BY <1>1 DEF RepFields

Behind(B, b, n, k) == [B EXCEPT !.buf = b, !.capacity = n, !.usedCapacity = k]
Ahead(B, b, n, k) == [B EXCEPT !.buf = b, !.preCapacity = n, !.usedPreCapacity = k]

LEMMA BehindIs ==
    ASSUME NEW B, NEW b, NEW n, NEW k,
           B \in RepType, b \in Seq(Symbols), n \in Nat, k \in Nat, NEW S, S = Behind(B, b, n, k)
    PROVE  /\ S \in RepType /\ SameHead(B, S) /\ S.buf = b
           /\ S.capacity = n /\ S.usedCapacity = k
           /\ S.preCapacity = B.preCapacity /\ S.usedPreCapacity = B.usedPreCapacity
  BY DEF Behind, RepType, SameHead

LEMMA AheadIs ==
    ASSUME NEW B, NEW b, NEW n, NEW k,
           B \in RepType, b \in Seq(Symbols), n \in Nat, k \in Nat, NEW S, S = Ahead(B, b, n, k)
    PROVE  /\ S \in RepType /\ SameHead(B, S) /\ S.buf = b
           /\ S.preCapacity = n /\ S.usedPreCapacity = k
           /\ S.capacity = B.capacity /\ S.usedCapacity = B.usedCapacity
  BY DEF Ahead, RepType, SameHead

\* The Rep that expandCapacity leaves.
Grown(B, required) ==
    LET new == expandedSize(required, B.preCapacity)
        grow == required > B.capacity
    IN  Behind(B,
               IF grow THEN B.buf \o Fill(new - B.preCapacity - B.capacity) ELSE B.buf,
               IF grow THEN new - B.preCapacity ELSE B.capacity,
               Max({B.usedCapacity, required}))

PreGrown(B, required) ==
    LET new == expandedSize(required, B.capacity)
        grow == required > B.preCapacity
    IN  Ahead(B,
                IF grow THEN Fill(new - B.capacity - B.preCapacity) \o B.buf ELSE B.buf,
                IF grow THEN new - B.capacity ELSE B.preCapacity,
                Max({B.usedPreCapacity, required}))

LEMMA GrownIs ==
    ASSUME NEW B \in RepType, Buffer(B), NEW required \in Int, NEW S, S = Grown(B, required)
    PROVE  Extends(B, S) /\ S.usedCapacity >= required
  <1>1. PICK u, v, p, q : RepFields(B, u, v, p, q)
    BY FieldsOf
  <1>2. PICK b : b = B.buf
    OBVIOUS
  <1>3. /\ b \in Seq(Symbols) /\ Len(b) = p + q /\ u <= q /\ v <= p
        /\ u \in Nat /\ v \in Nat /\ p \in Nat /\ q \in Nat
    BY <1>1, <1>2 DEF RepType, Buffer, RepFields
  <1>4. PICK k : k = Max({u, required})
    OBVIOUS
  <1>5. k = (IF u > required THEN u ELSE required) /\ k \in Nat /\ k >= u /\ k >= required
    BY <1>3, <1>4, MaxOfInt
  <1>6. PICK n, t : /\ n = (IF required > q THEN expandedSize(required, p) - p ELSE q)
                    /\ t = (IF required > q THEN b \o Fill(expandedSize(required, p) - p - q) ELSE b)
    OBVIOUS
  <1>7. S = Behind(B, t, n, k)
    BY <1>1, <1>2, <1>4, <1>6 DEF Grown, RepFields
  <1>8. /\ n \in Nat /\ n >= q /\ n >= required /\ t \in Seq(Symbols) /\ Len(t) = p + n
        /\ \A j \in 1 .. Len(b) : t[j] = b[j]
    <2>1. CASE required > q
      <3>1. PICK e : e = expandedSize(required, p)
        OBVIOUS
      <3>2. required \in Nat
        BY <1>3, <2>1
      <3>3. e \in Nat /\ e > required + p
        BY <1>3, <3>1, <3>2, Expanded
      <3>4. PICK j : j = e - p - q
        OBVIOUS
      <3>5. n = e - p
        BY <1>6, <2>1, <3>1
      <3>6. j \in Nat /\ n \in Nat /\ n >= required /\ n >= q /\ p + n = (p + q) + j
        BY <1>3, <2>1, <3>2, <3>3, <3>4, <3>5
      <3>7. PICK d : d = Fill(j)
        OBVIOUS
      <3>8. d \in Seq(Symbols) /\ Len(d) = j /\ t = b \o d
        BY <1>6, <2>1, <3>1, <3>4, <3>6, <3>7, FillType
      <3>9. b \in Seq(Symbols)
        BY <1>3
      <3>10. t \in Seq(Symbols) /\ JoinOf(t, b, d)
        BY <3>8, <3>9, Joined
      <3> QED
        BY <1>3, <3>6, <3>8, <3>10 DEF JoinOf
    <2>2. CASE ~(required > q)
      BY <1>3, <1>6, <2>2
    <2> QED
      BY <2>1, <2>2
  <1>9. /\ S \in RepType /\ SameHead(B, S) /\ S.buf = t /\ S.capacity = n /\ S.usedCapacity = k
        /\ S.preCapacity = p /\ S.usedPreCapacity = v
    <2>1. t \in Seq(Symbols) /\ n \in Nat /\ k \in Nat
      BY <1>5, <1>8
    <2>2. /\ S \in RepType /\ SameHead(B, S) /\ S.buf = t /\ S.capacity = n /\ S.usedCapacity = k
          /\ S.preCapacity = B.preCapacity /\ S.usedPreCapacity = B.usedPreCapacity
      BY <1>7, <2>1, BehindIs
    <2> QED
      BY <1>1, <2>2 DEF RepFields
  <1>10. k <= n
    BY <1>3, <1>5, <1>8
  <1>11. Buffer(S)
    BY <1>3, <1>8, <1>9, <1>10 DEF Buffer
  <1>12. ASSUME NEW i \in 1 - p .. q PROVE At(S, i) = At(B, i)
    <2>1. p + i \in 1 .. Len(b)
      BY <1>3
    <2> QED
      BY <1>1, <1>2, <1>8, <1>9, <2>1 DEF At, RepFields
  <1>13. /\ S.usedCapacity >= B.usedCapacity /\ S.usedPreCapacity >= B.usedPreCapacity
         /\ S.preCapacity >= B.preCapacity /\ S.capacity >= B.capacity
         /\ S.usedCapacity >= required
    BY <1>1, <1>3, <1>5, <1>8, <1>9 DEF RepFields
  <1>14. \A i \in 1 - B.preCapacity .. B.capacity : At(S, i) = At(B, i)
    BY <1>1, <1>12 DEF RepFields
  <1> QED
    BY <1>9, <1>11, <1>13, <1>14 DEF Extends

LEMMA PreGrownIs ==
    ASSUME NEW B \in RepType, Buffer(B), NEW required \in Int, NEW S, S = PreGrown(B, required)
    PROVE  Extends(B, S) /\ S.usedPreCapacity >= required
  <1>1. PICK u, v, p, q : RepFields(B, u, v, p, q)
    BY FieldsOf
  <1>2. PICK b : b = B.buf
    OBVIOUS
  <1>3. /\ b \in Seq(Symbols) /\ Len(b) = p + q /\ u <= q /\ v <= p
        /\ u \in Nat /\ v \in Nat /\ p \in Nat /\ q \in Nat
    BY <1>1, <1>2 DEF RepType, Buffer, RepFields
  <1>4. PICK k : k = Max({v, required})
    OBVIOUS
  <1>5. k = (IF v > required THEN v ELSE required) /\ k \in Nat /\ k >= v /\ k >= required
    BY <1>3, <1>4, MaxOfInt
  <1>6. PICK n, t : /\ n = (IF required > p THEN expandedSize(required, q) - q ELSE p)
                    /\ t = (IF required > p THEN Fill(expandedSize(required, q) - q - p) \o b ELSE b)
    OBVIOUS
  <1>7. S = Ahead(B, t, n, k)
    BY <1>1, <1>2, <1>4, <1>6 DEF PreGrown, RepFields
  <1>8. /\ n \in Nat /\ n >= p /\ n >= required /\ t \in Seq(Symbols) /\ Len(t) = n + q
        /\ \A j \in 1 .. Len(b) : t[j + (n - p)] = b[j]
    <2>1. CASE required > p
      <3>1. PICK e : e = expandedSize(required, q)
        OBVIOUS
      <3>2. required \in Nat
        BY <1>3, <2>1
      <3>3. e \in Nat /\ e > required + q
        BY <1>3, <3>1, <3>2, Expanded
      <3>4. PICK j : j = e - q - p
        OBVIOUS
      <3>10. n = e - q
        BY <1>6, <2>1, <3>1
      <3>11. p \in Nat /\ q \in Nat
        BY <1>3
      <3>5. /\ j \in Nat /\ n = e - q /\ n \in Nat /\ n >= required /\ n >= p /\ n + q = j + (p + q)
            /\ j = n - p
        BY ONLY <2>1, <3>2, <3>3, <3>4, <3>10, <3>11
      <3>6. PICK d : d = Fill(j)
        OBVIOUS
      <3>7. d \in Seq(Symbols) /\ Len(d) = j /\ t = d \o b
        BY <1>6, <2>1, <3>1, <3>4, <3>5, <3>6, FillType
      <3>8. b \in Seq(Symbols)
        BY <1>3
      <3>9. t \in Seq(Symbols) /\ JoinOf(t, d, b)
        BY <3>7, <3>8, Joined
      <3> QED
        BY <1>3, <3>5, <3>7, <3>9 DEF JoinOf
    <2>2. CASE ~(required > p)
      <3>1. n = p /\ t = b
        BY <1>6, <2>2
      <3> QED
        BY <1>3, <2>2, <3>1
    <2> QED
      BY <2>1, <2>2
  <1>9. /\ S \in RepType /\ SameHead(B, S) /\ S.buf = t /\ S.preCapacity = n /\ S.usedPreCapacity = k
        /\ S.capacity = q /\ S.usedCapacity = u
    <2>1. t \in Seq(Symbols) /\ n \in Nat /\ k \in Nat
      BY <1>5, <1>8
    <2>2. /\ S \in RepType /\ SameHead(B, S) /\ S.buf = t /\ S.preCapacity = n /\ S.usedPreCapacity = k
          /\ S.capacity = B.capacity /\ S.usedCapacity = B.usedCapacity
      BY <1>7, <2>1, AheadIs
    <2> QED
      BY <1>1, <2>2 DEF RepFields
  <1>10. k <= n
    BY <1>3, <1>5, <1>8
  <1>11. Buffer(S)
    BY <1>3, <1>8, <1>9, <1>10 DEF Buffer
  <1>12. ASSUME NEW i \in 1 - p .. q PROVE At(S, i) = At(B, i)
    <2>1. p + i \in 1 .. Len(b) /\ (p + i) + (n - p) = n + i
      BY <1>3, <1>8
    <2>2. t[n + i] = b[p + i]
      BY <1>8, <2>1
    <2> QED
      BY <1>1, <1>2, <1>9, <2>2 DEF At, RepFields
  <1>13. /\ S.usedCapacity >= B.usedCapacity /\ S.usedPreCapacity >= B.usedPreCapacity
         /\ S.preCapacity >= B.preCapacity /\ S.capacity >= B.capacity
         /\ S.usedPreCapacity >= required
    BY <1>1, <1>3, <1>5, <1>8, <1>9 DEF RepFields
  <1>14. \A i \in 1 - B.preCapacity .. B.capacity : At(S, i) = At(B, i)
    BY <1>1, <1>12 DEF RepFields
  <1> QED
    BY <1>9, <1>11, <1>13, <1>14 DEF Extends

\* S is B with the characters s at the place "at".
Overwritten(B, at, s) ==
    LET first == B.preCapacity + at
    IN  [B EXCEPT !.buf = [n \in DOMAIN @ |-> IF n - first \in DOMAIN s THEN s[n - first] ELSE @[n]]]

LEMMA OverwrittenIs ==
    ASSUME NEW B \in RepType, Buffer(B), NEW at \in Int, NEW s \in Seq(Chars),
           NEW S, S = Overwritten(B, at, s)
    PROVE  /\ S \in RepType /\ SameHead(B, S) /\ Buffer(S)
           /\ S.usedCapacity = B.usedCapacity /\ S.usedPreCapacity = B.usedPreCapacity
           /\ S.preCapacity = B.preCapacity /\ S.capacity = B.capacity
           /\ \A n \in 1 - B.preCapacity .. B.capacity :
                  At(S, n) = IF n - at \in 1 .. Len(s) THEN s[n - at] ELSE At(B, n)
  <1>1. PICK u, v, p, q : RepFields(B, u, v, p, q)
    BY FieldsOf
  <1>2. PICK a : a = B.buf
    OBVIOUS
  <1>3. /\ a \in Seq(Symbols) /\ Len(a) = p + q /\ p \in Nat /\ q \in Nat
    BY <1>1, <1>2 DEF RepType, Buffer, RepFields
  <1>4. PICK first, b :
            /\ first = p + at
            /\ b = [n \in DOMAIN a |-> IF n - first \in DOMAIN s THEN s[n - first] ELSE a[n]]
    OBVIOUS
  <1>5. S = [B EXCEPT !.buf = b]
    BY <1>1, <1>2, <1>4 DEF Overwritten, RepFields
  <1>6. DOMAIN a = 1 .. p + q /\ DOMAIN s = 1 .. Len(s) /\ Len(s) \in Nat /\ p + q \in Nat
    BY <1>3
  <1>7. ASSUME NEW n \in 1 .. p + q
        PROVE  /\ b[n] = IF n - first \in 1 .. Len(s) THEN s[n - first] ELSE a[n]
               /\ b[n] \in Symbols
    <2>1. b[n] = IF n - first \in 1 .. Len(s) THEN s[n - first] ELSE a[n]
      BY <1>4, <1>6
    <2>2. a[n] \in Symbols
      BY <1>3, <1>6
    <2>3. \A i \in 1 .. Len(s) : s[i] \in Symbols
      BY DEF Symbols
    <2> QED
      BY <2>1, <2>2, <2>3
  <1>8. b \in Seq(Symbols) /\ Len(b) = p + q
    <2>1. b = [n \in 1 .. p + q |-> b[n]]
      BY <1>4, <1>6
    <2>2. b \in [1 .. p + q -> Symbols]
      BY <1>7, <2>1
    <2> QED
      BY <1>6, <2>2
  <1>9. /\ S \in RepType /\ SameHead(B, S) /\ S.buf = b
        /\ S.usedCapacity = B.usedCapacity /\ S.usedPreCapacity = B.usedPreCapacity
        /\ S.preCapacity = p /\ S.capacity = q
    BY <1>1, <1>5, <1>8 DEF RepType, SameHead, RepFields
  <1>10. Buffer(S)
    BY <1>1, <1>8, <1>9 DEF Buffer, RepFields
  <1>11. ASSUME NEW n \in 1 - p .. q
         PROVE  At(S, n) = IF n - at \in 1 .. Len(s) THEN s[n - at] ELSE At(B, n)
    <2>1. p + n \in 1 .. p + q /\ (p + n) - first = n - at
      BY <1>3, <1>4
    <2>2. b[p + n] = IF n - at \in 1 .. Len(s) THEN s[n - at] ELSE a[p + n]
      BY <1>7, <2>1
    <2> QED
      BY <1>1, <1>2, <1>9, <2>2 DEF At, RepFields
  <1> QED
    BY <1>1, <1>9, <1>10, <1>11 DEF RepFields

\* S has the characters s at the place "at" and otherwise what B has.
WrittenAt(B, S, at, s) ==
    /\ S \in RepType /\ SameHead(B, S) /\ Buffer(S)
    /\ S.usedCapacity >= B.usedCapacity /\ S.usedPreCapacity >= B.usedPreCapacity
    /\ \A n \in 1 - B.preCapacity .. B.capacity : n - at \notin 1 .. Len(s) => At(S, n) = At(B, n)
    /\ \A i \in 1 .. Len(s) : At(S, at + i) = s[i]

LEMMA GrowWrite ==
    ASSUME NEW B, NEW T, NEW S, NEW at, NEW s, B \in RepType, Extends(B, T), at \in Int,
           s \in Seq(Chars), S = Overwritten(T, at, s),
           0 <= at + T.preCapacity, at + Len(s) <= T.capacity
    PROVE  /\ WrittenAt(B, S, at, s)
           /\ S.usedCapacity = T.usedCapacity /\ S.usedPreCapacity = T.usedPreCapacity
  <1>1. /\ T \in RepType /\ SameHead(B, T) /\ Buffer(T)
        /\ T.usedCapacity >= B.usedCapacity /\ T.usedPreCapacity >= B.usedPreCapacity
        /\ T.preCapacity >= B.preCapacity /\ T.capacity >= B.capacity
        /\ \A n \in 1 - B.preCapacity .. B.capacity : At(T, n) = At(B, n)
    BY DEF Extends
  <1>2. /\ S \in RepType /\ SameHead(T, S) /\ Buffer(S)
        /\ S.usedCapacity = T.usedCapacity /\ S.usedPreCapacity = T.usedPreCapacity
        /\ \A n \in 1 - T.preCapacity .. T.capacity :
               At(S, n) = IF n - at \in 1 .. Len(s) THEN s[n - at] ELSE At(T, n)
    BY <1>1, OverwrittenIs
  <1>3. PICK p, q, pt, qt : /\ p = B.preCapacity /\ q = B.capacity
                            /\ pt = T.preCapacity /\ qt = T.capacity
    OBVIOUS
  <1>4. p \in Nat /\ q \in Nat /\ pt \in Nat /\ qt \in Nat /\ pt >= p /\ qt >= q
    BY <1>1, <1>3 DEF RepType
  <1>5. ASSUME NEW n \in 1 - p .. q, n - at \notin 1 .. Len(s) PROVE At(S, n) = At(B, n)
    <2>1. n \in 1 - pt .. qt
      BY <1>4
    <2> QED
      BY <1>1, <1>2, <1>3, <1>5, <2>1
  <1>6. ASSUME NEW i \in 1 .. Len(s) PROVE At(S, at + i) = s[i]
    <2>1. Len(s) \in Nat /\ 0 <= at + pt /\ at + Len(s) <= qt
      BY <1>3
    <2>2. at + i \in 1 - pt .. qt /\ (at + i) - at = i
      BY <1>4, <2>1
    <2> QED
      BY <1>2, <1>3, <2>2
  <1>7. SameHead(B, S)
    BY <1>1, <1>2 DEF SameHead
  <1> QED
    BY <1>1, <1>2, <1>3, <1>5, <1>6, <1>7 DEF WrittenAt

LEMMA ExpandIs ==
    ASSUME NEW H, NEW r, NEW required, NEW o, NEW G, Typed(H), Sound(H), r \in Reps,
           required \in Int, o = Owner(H, r), G = expandCapacity(H, r, required)
    PROVE  /\ Replaces(H, o, Grown(H.rep[o], required), G) /\ G.table = H.table
           /\ Extends(H.rep[o], G.rep[o]) /\ G.rep[o].usedCapacity >= required
  <1>1. PICK B, S : B = H.rep[o] /\ S = Grown(B, required)
    OBVIOUS
  <1>2. o \in Reps /\ B \in RepType /\ Buffer(B)
    BY <1>1, OwnerSound
  <1>3. Extends(B, S) /\ S.usedCapacity >= required
    BY <1>1, <1>2, GrownIs
  <1>4. G = [H EXCEPT !.rep[o] = S]
    BY <1>1, <1>2 DEF expandCapacity, Grown, Behind
  <1>5. S \in RepType
    BY <1>3 DEF Extends
  <1>6. Replaces(H, o, S, G) /\ G.table = H.table
    BY <1>2, <1>4, <1>5, PutIs
  <1> QED
    BY <1>1, <1>3, <1>6 DEF Replaces

LEMMA PreExpandIs ==
    ASSUME NEW H, NEW r, NEW required, NEW o, NEW G, Typed(H), Sound(H), r \in Reps,
           required \in Int, o = Owner(H, r), G = expandPreCapacity(H, r, required)
    PROVE  /\ Replaces(H, o, PreGrown(H.rep[o], required), G) /\ G.table = H.table
           /\ Extends(H.rep[o], G.rep[o]) /\ G.rep[o].usedPreCapacity >= required
  <1>1. PICK B, S : B = H.rep[o] /\ S = PreGrown(B, required)
    OBVIOUS
  <1>2. o \in Reps /\ B \in RepType /\ Buffer(B)
    BY <1>1, OwnerSound
  <1>3. Extends(B, S) /\ S.usedPreCapacity >= required
    BY <1>1, <1>2, PreGrownIs
  <1>4. G = [H EXCEPT !.rep[o] = S]
    BY <1>1, <1>2 DEF expandPreCapacity, PreGrown, Ahead
  <1>5. S \in RepType
    BY <1>3 DEF Extends
  <1>6. Replaces(H, o, S, G) /\ G.table = H.table
    BY <1>2, <1>4, <1>5, PutIs
  <1> QED
    BY <1>1, <1>3, <1>6 DEF Replaces

LEMMA WrittenIs ==
    ASSUME NEW H, NEW r, NEW at, NEW s, NEW o, NEW G, Typed(H), o = Owner(H, r), o \in Reps,
           Buffer(H.rep[o]), at \in Int, s \in Seq(Chars), G = Written(H, r, at, s)
    PROVE  Replaces(H, o, Overwritten(H.rep[o], at, s), G) /\ G.table = H.table
  <1>1. PICK B, S : B = H.rep[o] /\ S = Overwritten(B, at, s)
    OBVIOUS
  <1>2. B \in RepType /\ Buffer(B)
    BY <1>1 DEF Typed
  <1>3. S \in RepType
    BY <1>1, <1>2, OverwrittenIs
  <1>4. G = [H EXCEPT !.rep[o] = S]
    BY <1>1 DEF Written, Overwritten
  <1> QED
    BY <1>1, <1>3, <1>4, PutIs

LEMMA OwnerHasRoom ==
    ASSUME NEW H, NEW r, Typed(H), Sound(H), r \in Reps, H.rep[r].len # 0
    PROVE  H.rep[Owner(H, r)].len # 0
  <1>1. PICK R, B : R = H.rep[r] /\ B = H.rep[Owner(H, r)]
    OBVIOUS
  <1>2. R \in RepType /\ B \in RepType /\ Buffer(B) /\ Roomless(B) /\ Window(R, B)
    BY <1>1, OwnerSound, RepTypes
  <1>3. PICK u, v, p, q : RepFields(B, u, v, p, q)
    BY <1>2, FieldsOf
  <1>4. PICK k, n : k = R.offset /\ n = R.len
    OBVIOUS
  <1>5. k \in Int /\ n \in Nat /\ n # 0 /\ 0 <= k + v /\ k + n <= u /\ u <= q /\ v <= p
    BY <1>1, <1>2, <1>3, <1>4 DEF RepType, Window, Buffer, RepFields
  <1>6. u \in Nat /\ v \in Nat /\ p \in Nat /\ q \in Nat
    BY <1>3 DEF RepFields
  <1>7. ~(p = 0 /\ q = 0)
    BY <1>5, <1>6
  <1> QED
    BY <1>1, <1>2, <1>3, <1>7 DEF Roomless, RepFields

\* No window on the buffer of o has a place among the n after "at".
Clear(H, o, at, n) ==
    \A x \in Reps : Owner(H, x) = o =>
        H.rep[x].offset + H.rep[x].len <= at \/ at + n <= H.rep[x].offset

\* The places of a window are in the buffer.
LEMMA InBuffer ==
    ASSUME NEW R, NEW B, R \in RepType, B \in RepType, Buffer(B), Window(R, B),
           NEW i \in 1 .. R.len
    PROVE  R.offset + i \in 1 - B.preCapacity .. B.capacity
  <1>1. PICK u, v, p, q : RepFields(B, u, v, p, q)
    BY FieldsOf
  <1>2. PICK k, n : k = R.offset /\ n = R.len
    OBVIOUS
  <1>3. k \in Int /\ n \in Nat /\ 0 <= k + v /\ k + n <= u /\ u <= q /\ v <= p
    BY <1>1, <1>2 DEF RepType, Window, Buffer, RepFields
  <1>4. u \in Nat /\ v \in Nat /\ p \in Nat /\ q \in Nat /\ i \in 1 .. n
    BY <1>1, <1>2 DEF RepFields
  <1>5. k + i \in 1 - p .. q
    BY <1>3, <1>4
  <1> QED
    BY <1>1, <1>2, <1>5 DEF RepFields

LEMMA SharedRebuffer ==
    ASSUME NEW H, NEW o, NEW S, NEW G, Typed(H), Sound(H), o \in Reps, H.rep[o].len # 0,
           Replaces(H, o, S, G), G.table = H.table, SameHead(H.rep[o], S), Buffer(S),
           S.usedCapacity >= H.rep[o].usedCapacity,
           S.usedPreCapacity >= H.rep[o].usedPreCapacity, Retains(H, o, S)
    PROVE  Typed(G) /\ Sound(G) /\ Same(H, G)
  <1>1. Typed(G) /\ G.rep[o] = S /\ \A x \in Reps : x # o => G.rep[x] = H.rep[x]
    BY DEF Replaces
  <1>2. Rebuffer(H, o, S)
    <2>1. Roomless(S)
      BY DEF Roomless, SameHead
    <2> QED
      BY <2>1 DEF Rebuffer
  <1>3. ASSUME NEW x \in Reps
        PROVE  /\ SameHead(H.rep[x], G.rep[x])
               /\ H.rep[x].base = NoBase => Rebuffer(H, x, G.rep[x])
    <2>1. CASE x = o
      BY <1>1, <1>2, <2>1
    <2>2. CASE x # o
      <3>1. PICK R : R = H.rep[x]
        OBVIOUS
      <3>2. G.rep[x] = R /\ R \in RepType /\ SoundRep(H, x)
        BY <1>1, <2>2, <3>1, RepTypes DEF Sound
      <3>3. R.usedCapacity >= R.usedCapacity /\ R.usedPreCapacity >= R.usedPreCapacity
        BY <3>2 DEF RepType
      <3> QED
        BY <3>1, <3>2, <3>3 DEF SameHead, Rebuffer, SoundRep, Retains
    <2> QED
      BY <2>1, <2>2
  <1>4. Rebuffers(H, G)
    BY <1>1, <1>3 DEF Rebuffers
  <1> QED
    BY <1>1, <1>4, RebufferSound

LEMMA SharedWrite ==
    ASSUME NEW H, NEW o, NEW S, NEW G, NEW at, NEW s, Typed(H), Sound(H), o \in Reps,
           H.rep[o].base = NoBase, H.rep[o].len # 0, at \in Int, s \in Seq(Chars),
           Replaces(H, o, S, G), G.table = H.table, WrittenAt(H.rep[o], S, at, s),
           Clear(H, o, at, Len(s))
    PROVE  Typed(G) /\ Sound(G) /\ Same(H, G)
  <1>1. PICK B : B = H.rep[o]
    OBVIOUS
  <1>2. SoundRep(H, o) /\ Owner(H, o) = o /\ B \in RepType
    BY <1>1, RepTypes DEF Sound
  <1>3. Buffer(B)
    BY <1>1, <1>2 DEF SoundRep
  <1>4. /\ SameHead(B, S) /\ Buffer(S)
        /\ S.usedCapacity >= B.usedCapacity /\ S.usedPreCapacity >= B.usedPreCapacity
        /\ \A n \in 1 - B.preCapacity .. B.capacity : n - at \notin 1 .. Len(s) => At(S, n) = At(B, n)
    BY <1>1 DEF WrittenAt
  <1>5. ASSUME NEW x \in Reps, Owner(H, x) = o, NEW i \in 1 .. H.rep[x].len
        PROVE  At(S, H.rep[x].offset + i) = At(B, H.rep[x].offset + i)
    <2>1. PICK R : R = H.rep[x]
      OBVIOUS
    <2>2. R \in RepType /\ Window(R, B)
      BY <1>1, <1>5, <2>1, RepTypes, OwnerSound
    <2>3. PICK k, n : k = R.offset /\ n = R.len
      OBVIOUS
    <2>4. k \in Int /\ n \in Nat /\ i \in 1 .. n /\ Len(s) \in Nat
      BY <1>5, <2>1, <2>2, <2>3 DEF RepType
    <2>5. k + i \in 1 - B.preCapacity .. B.capacity
      BY <1>2, <1>3, <2>1, <2>2, <2>3, <2>4, InBuffer
    <2>6. k + n <= at \/ at + Len(s) <= k
      BY <1>5, <2>1, <2>3 DEF Clear
    <2>7. (k + i) - at \notin 1 .. Len(s)
      BY <2>4, <2>6
    <2> QED
      BY <1>4, <2>1, <2>3, <2>5, <2>7
  <1>6. Retains(H, o, S)
    BY <1>1, <1>5 DEF Retains
  <1> QED
    BY <1>1, <1>4, <1>6, SharedRebuffer

\* More room alone changes nothing that is read.
LEMMA RoomIsSame ==
    ASSUME NEW H, NEW o, NEW S, NEW G, Typed(H), Sound(H), o \in Reps, H.rep[o].base = NoBase,
           H.rep[o].len # 0, Replaces(H, o, S, G), G.table = H.table, Extends(H.rep[o], S)
    PROVE  Typed(G) /\ Sound(G) /\ Same(H, G)
  <1>1. PICK B : B = H.rep[o]
    OBVIOUS
  <1>2. SoundRep(H, o) /\ Owner(H, o) = o /\ B \in RepType
    BY <1>1, RepTypes DEF Sound
  <1>3. Buffer(B)
    BY <1>1, <1>2 DEF SoundRep
  <1>4. /\ SameHead(B, S) /\ Buffer(S)
        /\ S.usedCapacity >= B.usedCapacity /\ S.usedPreCapacity >= B.usedPreCapacity
        /\ \A n \in 1 - B.preCapacity .. B.capacity : At(S, n) = At(B, n)
    BY <1>1 DEF Extends
  <1>5. ASSUME NEW x \in Reps, Owner(H, x) = o, NEW i \in 1 .. H.rep[x].len
        PROVE  At(S, H.rep[x].offset + i) = At(B, H.rep[x].offset + i)
    <2>1. PICK R : R = H.rep[x]
      OBVIOUS
    <2>2. R \in RepType /\ Window(R, B)
      BY <1>1, <1>5, <2>1, RepTypes, OwnerSound
    <2>3. R.offset + i \in 1 - B.preCapacity .. B.capacity
      BY <1>2, <1>3, <1>5, <2>1, <2>2, InBuffer
    <2> QED
      BY <1>4, <2>1, <2>3
  <1>6. Retains(H, o, S)
    BY <1>1, <1>5 DEF Retains
  <1> QED
    BY <1>1, <1>4, <1>6, SharedRebuffer

LEMMA RoomKeeps ==
    ASSUME NEW H, NEW c, NEW r, NEW required, NEW h, Good(H, c), r \in Reps, H.rep[r].len # 0,
           required \in Int, h = expandCapacity(H, r, required)
    PROVE  Same(H, h)
  <1>1. PICK o : o = Owner(H, r)
    OBVIOUS
  <1>2. Typed(H) /\ Sound(H)
    BY DEF Good
  <1>3. o \in Reps /\ H.rep[o].base = NoBase /\ H.rep[o].len # 0
    BY <1>1, <1>2, OwnerSound, OwnerHasRoom
  <1>4. /\ Replaces(H, o, Grown(H.rep[o], required), h) /\ h.table = H.table
        /\ Extends(H.rep[o], h.rep[o])
    BY <1>1, <1>2, ExpandIs
  <1>5. h.rep[o] = Grown(H.rep[o], required)
    BY <1>3, <1>4 DEF Replaces
  <1> QED
    BY <1>2, <1>3, <1>4, <1>5, RoomIsSame

LEMMA OwnerKept ==
    ASSUME NEW H, NEW o, NEW S, NEW G, NEW r, Replaces(H, o, S, G), SameHead(H.rep[o], S), r \in Reps
    PROVE  Owner(G, r) = Owner(H, r)
  <1>1. G.rep[r].base = H.rep[r].base
    <2>1. CASE r = o
      BY <2>1 DEF Replaces, SameHead
    <2>2. CASE r # o
      BY <2>2 DEF Replaces
    <2> QED
      BY <2>1, <2>2
  <1> QED
    BY <1>1 DEF Owner

\* Where the string of r ends in its buffer, and where s begins in front of it.
EndOf(H, r, end) == end = H.rep[r].offset + H.rep[r].len
BeginOf(H, r, s, begin) == begin = H.rep[r].offset - Len(s)

\* h has the room for the characters s, and G has the characters.
WritesBehind(H, r, s, end, h, G) ==
    h = expandCapacity(H, r, end + Len(s)) /\ G = Written(h, r, end, s)
WritesInFront(H, r, s, begin, h, G) ==
    h = expandPreCapacity(H, r, -begin) /\ G = Written(h, r, begin, s)

\* The heap in which the characters s are written at the end of r, or in front.
LEMMA AppendedIs ==
    ASSUME NEW H, NEW r, NEW o, NEW s, NEW end, NEW h, NEW G, Typed(H), Sound(H), r \in Reps,
           o = Owner(H, r), s \in Seq(Chars), EndOf(H, r, end), WritesBehind(H, r, s, end, h, G)
    PROVE  /\ Replaces(H, o, G.rep[o], G) /\ G.table = H.table
           /\ WrittenAt(H.rep[o], G.rep[o], end, s) /\ G.rep[o].usedCapacity >= end + Len(s)
           /\ Replaces(H, o, h.rep[o], h) /\ h.table = H.table /\ Extends(H.rep[o], h.rep[o])
  <1>1. PICK R, B, T : R = H.rep[r] /\ B = H.rep[o] /\ T = h.rep[o]
    OBVIOUS
  <1>2. R \in RepType /\ B \in RepType /\ o \in Reps /\ Buffer(B) /\ Window(R, B) /\ B.base = NoBase
    BY <1>1, RepTypes, OwnerSound
  <1>3. PICK k, n, j, i : k = R.offset /\ n = R.len /\ j = Len(s) /\ i = end + j
    OBVIOUS
  <1>4. k \in Int /\ n \in Nat /\ j \in Nat /\ end = k + n /\ end \in Int /\ i \in Int
    <2>1. k \in Int /\ n \in Nat
      BY <1>2, <1>3 DEF RepType
    <2>2. j \in Nat
      BY <1>3
    <2>3. end = k + n /\ i = end + j
      BY <1>1, <1>3 DEF EndOf
    <2> QED
      BY ONLY <2>1, <2>2, <2>3
  <1>5. h = expandCapacity(H, r, i) /\ G = Written(h, r, end, s)
    BY <1>3 DEF WritesBehind
  <1>6. /\ Replaces(H, o, Grown(B, i), h) /\ h.table = H.table
        /\ Extends(B, T) /\ T.usedCapacity >= i
    BY <1>1, <1>4, <1>5, ExpandIs
  <1>7. Replaces(H, o, T, h) /\ Typed(h)
    BY <1>1, <1>6 DEF Replaces
  <1>8. T \in RepType /\ SameHead(B, T) /\ Buffer(T) /\ T.usedPreCapacity >= B.usedPreCapacity
    BY <1>6 DEF Extends
  <1>9. Owner(h, r) = o
    BY <1>1, <1>7, <1>8, OwnerKept
  <1>10. Replaces(h, o, Overwritten(T, end, s), G) /\ G.table = h.table
    BY <1>1, <1>2, <1>4, <1>5, <1>7, <1>8, <1>9, WrittenIs
  <1>11. PICK S : S = G.rep[o]
    OBVIOUS
  <1>12. S = Overwritten(T, end, s) /\ Replaces(H, o, S, G)
    BY <1>7, <1>10, <1>11 DEF Replaces
  <1>13. 0 <= end + T.preCapacity /\ i <= T.capacity
    <2>1. PICK u, v, p, q : RepFields(T, u, v, p, q)
      BY <1>8, FieldsOf
    <2>2. u <= q /\ v <= p /\ u >= i
      BY <1>6, <1>8, <2>1 DEF Buffer, RepFields
    <2>3. PICK w : w = B.usedPreCapacity
      OBVIOUS
    <2>4. w \in Nat /\ v >= w /\ 0 <= k + w
      BY <1>2, <1>3, <1>8, <2>1, <2>3 DEF RepType, Window, RepFields
    <2>5. u \in Nat /\ v \in Nat /\ p \in Nat /\ q \in Nat /\ p = T.preCapacity /\ q = T.capacity
      BY <2>1 DEF RepFields
    <2>6. 0 <= end + p /\ i <= q
      BY ONLY <1>4, <2>2, <2>4, <2>5
    <2> QED
      BY <2>5, <2>6
  <1>14. WrittenAt(B, S, end, s) /\ S.usedCapacity = T.usedCapacity
    <2>1. end + Len(s) <= T.capacity
      BY <1>3, <1>13
    <2> QED
      BY <1>2, <1>4, <1>6, <1>12, <1>13, <2>1, GrowWrite
  <1>15. S.usedCapacity >= end + Len(s)
    BY <1>3, <1>6, <1>14
  <1> QED
    BY <1>1, <1>6, <1>7, <1>10, <1>11, <1>12, <1>14, <1>15

LEMMA PrependedIs ==
    ASSUME NEW H, NEW r, NEW o, NEW s, NEW begin, NEW h, NEW G, Typed(H), Sound(H), r \in Reps,
           o = Owner(H, r), s \in Seq(Chars), BeginOf(H, r, s, begin),
           WritesInFront(H, r, s, begin, h, G)
    PROVE  /\ Replaces(H, o, G.rep[o], G) /\ G.table = H.table
           /\ WrittenAt(H.rep[o], G.rep[o], begin, s) /\ G.rep[o].usedPreCapacity >= -begin
           /\ Replaces(H, o, h.rep[o], h) /\ h.table = H.table /\ Extends(H.rep[o], h.rep[o])
  <1>1. PICK R, B, T : R = H.rep[r] /\ B = H.rep[o] /\ T = h.rep[o]
    OBVIOUS
  <1>2. R \in RepType /\ B \in RepType /\ o \in Reps /\ Buffer(B) /\ Window(R, B) /\ B.base = NoBase
    BY <1>1, RepTypes, OwnerSound
  <1>3. PICK k, n, j, i : k = R.offset /\ n = R.len /\ j = Len(s) /\ i = -begin
    OBVIOUS
  <1>4. k \in Int /\ n \in Nat /\ j \in Nat /\ begin = k - j /\ begin \in Int /\ i \in Int /\ i = -begin
    <2>1. k \in Int /\ n \in Nat
      BY <1>2, <1>3 DEF RepType
    <2>2. j \in Nat
      BY <1>3
    <2>3. begin = k - j /\ i = -begin
      BY <1>1, <1>3 DEF BeginOf
    <2> QED
      BY ONLY <2>1, <2>2, <2>3
  <1>5. h = expandPreCapacity(H, r, i) /\ G = Written(h, r, begin, s)
    BY <1>3 DEF WritesInFront
  <1>6. /\ Replaces(H, o, PreGrown(B, i), h) /\ h.table = H.table
        /\ Extends(B, T) /\ T.usedPreCapacity >= i
    BY <1>1, <1>4, <1>5, PreExpandIs
  <1>7. Replaces(H, o, T, h) /\ Typed(h)
    BY <1>1, <1>6 DEF Replaces
  <1>8. T \in RepType /\ SameHead(B, T) /\ Buffer(T) /\ T.usedCapacity >= B.usedCapacity
    BY <1>6 DEF Extends
  <1>9. Owner(h, r) = o
    BY <1>1, <1>7, <1>8, OwnerKept
  <1>10. Replaces(h, o, Overwritten(T, begin, s), G) /\ G.table = h.table
    BY <1>1, <1>2, <1>4, <1>5, <1>7, <1>8, <1>9, WrittenIs
  <1>11. PICK S : S = G.rep[o]
    OBVIOUS
  <1>12. S = Overwritten(T, begin, s) /\ Replaces(H, o, S, G)
    BY <1>7, <1>10, <1>11 DEF Replaces
  <1>13. 0 <= begin + T.preCapacity /\ begin + j <= T.capacity
    <2>1. PICK u, v, p, q : RepFields(T, u, v, p, q)
      BY <1>8, FieldsOf
    <2>2. u <= q /\ v <= p /\ v >= i
      BY <1>6, <1>8, <2>1 DEF Buffer, RepFields
    <2>3. PICK w : w = B.usedCapacity
      OBVIOUS
    <2>4. w \in Nat /\ u >= w /\ k + n <= w
      BY <1>2, <1>3, <1>8, <2>1, <2>3 DEF RepType, Window, RepFields
    <2>5. u \in Nat /\ v \in Nat /\ p \in Nat /\ q \in Nat /\ p = T.preCapacity /\ q = T.capacity
      BY <2>1 DEF RepFields
    <2>6. 0 <= begin + p /\ begin + j <= q
      BY ONLY <1>4, <2>2, <2>4, <2>5
    <2> QED
      BY <2>5, <2>6
  <1>14. WrittenAt(B, S, begin, s) /\ S.usedPreCapacity = T.usedPreCapacity
    <2>1. begin + Len(s) <= T.capacity
      BY <1>3, <1>13
    <2> QED
      BY <1>2, <1>4, <1>6, <1>12, <1>13, <2>1, GrowWrite
  <1>15. S.usedPreCapacity >= -begin
    BY <1>3, <1>6, <1>14
  <1> QED
    BY <1>1, <1>6, <1>7, <1>10, <1>11, <1>12, <1>14, <1>15

\* The new window, on the string and what was written behind it.
LEMMA ShowsBehind ==
    ASSUME NEW R, NEW B, NEW S, NEW t, NEW s, NEW at, NEW g, R \in RepType, B \in RepType,
           Buffer(B), Window(R, B), Reads(t, R, B), t \in Seq(Chars), s \in Seq(Chars),
           at = R.offset + R.len, WrittenAt(B, S, at, s), S.usedCapacity >= at + Len(s), g = t \o s
    PROVE  Shows(S, R.offset, R.len + Len(s), g)
  <1>1. PICK k, n, j, u, w : /\ k = R.offset /\ n = R.len /\ j = Len(s)
                             /\ u = B.usedPreCapacity /\ w = S.usedPreCapacity
    OBVIOUS
  <1>2. k \in Int /\ n \in Nat /\ u \in Nat /\ w \in Nat /\ w >= u /\ 0 <= k + u
    <2>1. k \in Int /\ n \in Nat /\ u \in Nat
      BY <1>1 DEF RepType
    <2>2. w \in Nat /\ w >= u
      BY <1>1 DEF RepType, WrittenAt
    <2>3. 0 <= k + u
      BY <1>1 DEF Window
    <2> QED
      BY <2>1, <2>2, <2>3
  <1>3. j \in Nat /\ at = k + n /\ S.usedCapacity >= at + j
    BY <1>1
  <1>4. g \in Seq(Chars) /\ JoinOf(g, t, s)
    BY Joined
  <1>5. Len(t) = n /\ \A i \in 1 .. n : t[i] = At(B, k + i)
    BY <1>1 DEF Reads
  <1>6. /\ Len(g) = n + j
        /\ \A i \in 1 .. n : g[i] = t[i]
        /\ \A i \in 1 .. j : g[i + n] = s[i]
    BY <1>1, <1>4, <1>5 DEF JoinOf
  <1>7. ASSUME NEW i \in 1 .. n + j PROVE g[i] = At(S, k + i)
    <2>1. CASE i \in 1 .. n
      <3>1. k + i \in 1 - B.preCapacity .. B.capacity
        BY <1>1, <2>1, InBuffer
      <3>2. (k + i) - at \notin 1 .. Len(s)
        <4>1. (k + i) - at \notin 1 .. j
          BY ONLY <1>2, <1>3, <2>1
        <4> QED
          BY <1>1, <4>1
      <3>3. At(S, k + i) = At(B, k + i)
        BY <3>1, <3>2 DEF WrittenAt
      <3> QED
        BY <1>5, <1>6, <2>1, <3>3
    <2>2. CASE i \notin 1 .. n
      <3>1. PICK l : l = i - n
        OBVIOUS
      <3>2. l \in 1 .. j /\ l + n = i /\ at + l = k + i
        BY ONLY <1>2, <1>3, <2>2, <3>1
      <3>3. At(S, at + l) = s[l]
        BY <1>1, <3>2 DEF WrittenAt
      <3> QED
        BY <1>6, <3>2, <3>3
    <2> QED
      BY <2>1, <2>2
  <1>8. 0 <= k + w /\ k + (n + j) <= S.usedCapacity
    BY <1>2, <1>3
  <1> QED
    BY <1>1, <1>4, <1>6, <1>7, <1>8 DEF Shows

LEMMA ShowsInFront ==
    ASSUME NEW R, NEW B, NEW S, NEW t, NEW s, NEW at, NEW g, R \in RepType, B \in RepType,
           Buffer(B), Window(R, B), Reads(t, R, B), t \in Seq(Chars), s \in Seq(Chars),
           at = R.offset - Len(s), WrittenAt(B, S, at, s), S.usedPreCapacity >= -at, g = s \o t
    PROVE  Shows(S, at, Len(s) + R.len, g)
  <1>1. PICK k, n, j, u, w, v : /\ k = R.offset /\ n = R.len /\ j = Len(s)
                                /\ u = B.usedCapacity /\ w = S.usedCapacity
                                /\ v = S.usedPreCapacity
    OBVIOUS
  <1>2. k \in Int /\ n \in Nat /\ u \in Nat /\ w \in Nat /\ v \in Nat /\ w >= u /\ k + n <= u
    <2>1. k \in Int /\ n \in Nat /\ u \in Nat
      BY <1>1 DEF RepType
    <2>2. w \in Nat /\ v \in Nat /\ w >= u
      BY <1>1 DEF RepType, WrittenAt
    <2>3. k + n <= u
      BY <1>1 DEF Window
    <2> QED
      BY <2>1, <2>2, <2>3
  <1>3. j \in Nat /\ at = k - j /\ v >= -at
    BY <1>1
  <1>4. g \in Seq(Chars) /\ JoinOf(g, s, t)
    BY Joined
  <1>5. Len(t) = n /\ \A i \in 1 .. n : t[i] = At(B, k + i)
    BY <1>1 DEF Reads
  <1>6. /\ Len(g) = j + n
        /\ \A i \in 1 .. j : g[i] = s[i]
        /\ \A i \in 1 .. n : g[i + j] = t[i]
    BY <1>1, <1>4, <1>5 DEF JoinOf
  <1>7. ASSUME NEW i \in 1 .. j + n PROVE g[i] = At(S, at + i)
    <2>1. CASE i \in 1 .. j
      BY <1>1, <1>6, <2>1 DEF WrittenAt
    <2>2. CASE i \notin 1 .. j
      <3>1. PICK l : l = i - j
        OBVIOUS
      <3>2. l \in 1 .. n /\ l + j = i /\ k + l = at + i /\ (k + l) - at = l + j
        BY ONLY <1>2, <1>3, <2>2, <3>1
      <3>3. k + l \in 1 - B.preCapacity .. B.capacity
        BY <1>1, <3>2, InBuffer
      <3>4. (k + l) - at \notin 1 .. Len(s)
        BY <1>1, <1>3, <3>2
      <3>5. At(S, k + l) = At(B, k + l)
        BY <3>3, <3>4 DEF WrittenAt
      <3> QED
        BY <1>5, <1>6, <3>2, <3>5
    <2> QED
      BY <2>1, <2>2
  <1>8. 0 <= at + v /\ at + (j + n) <= w
    BY <1>2, <1>3
  <1> QED
    BY <1>1, <1>4, <1>6, <1>7, <1>8 DEF Shows

\* What a new Rep on the written buffer of r reads.
ShowsAppended(H, r, s, G) ==
    Shows(G.rep[Owner(G, r)], G.rep[r].offset, H.rep[r].len + Len(s), Content(H, r) \o s)
ShowsPrepended(H, r, s, G) ==
    Shows(G.rep[Owner(G, r)], G.rep[r].offset + -Len(s), Len(s) + H.rep[r].len, s \o Content(H, r))

\* A string that ends where the used part of its buffer ends is appended to.
LEMMA SharedAppend ==
    ASSUME NEW H, NEW c, NEW r, NEW s, NEW end, NEW h, NEW G, Good(H, c), r \in Reps,
           H.rep[r].len # 0, EndsBuffer(H, r), s \in Seq(Chars), EndOf(H, r, end),
           WritesBehind(H, r, s, end, h, G)
    PROVE  Good(G, c) /\ Same(H, G) /\ Same(H, h) /\ ShowsAppended(H, r, s, G)
  <1>1. PICK o, R, B, S, t : /\ o = Owner(H, r) /\ R = H.rep[r] /\ B = H.rep[o] /\ S = G.rep[o]
                             /\ t = Content(H, r)
    OBVIOUS
  <1>2. Typed(H) /\ Sound(H)
    BY DEF Good
  <1>3. /\ R \in RepType /\ B \in RepType /\ o \in Reps /\ Buffer(B) /\ Window(R, B)
        /\ B.base = NoBase /\ B.len # 0
    BY <1>1, <1>2, RepTypes, OwnerSound, OwnerHasRoom
  <1>4. /\ Replaces(H, o, S, G) /\ G.table = H.table /\ WrittenAt(B, S, end, s)
        /\ S.usedCapacity >= end + Len(s)
        /\ Replaces(H, o, h.rep[o], h) /\ h.table = H.table /\ Extends(B, h.rep[o])
    BY <1>1, <1>2, AppendedIs
  <1>5. Same(H, h)
    BY <1>1, <1>2, <1>3, <1>4, RoomIsSame
  <1>6. end \in Int /\ end = R.offset + R.len
    <2>1. R.offset \in Int /\ R.len \in Nat
      BY <1>3 DEF RepType
    <2>2. end = R.offset + R.len
      BY <1>1 DEF EndOf
    <2> QED
      BY ONLY <2>1, <2>2
  <1>7. Clear(H, o, end, Len(s))
    <2>1. R.offset + R.len = B.usedCapacity
      <3>1. r # Empty
        BY RepsPositive
      <3> QED
        BY <1>1, <3>1 DEF EndsBuffer, Size, usedCapacity
    <2>2. end = B.usedCapacity
      BY ONLY <1>6, <2>1
    <2>3. ASSUME NEW x \in Reps, Owner(H, x) = o PROVE H.rep[x].offset + H.rep[x].len <= end
      <3>1. Window(H.rep[x], B)
        BY <1>1, <1>2, <2>3, OwnerSound
      <3> QED
        BY ONLY <2>2, <3>1 DEF Window
    <2> QED
      BY <2>3 DEF Clear
  <1>8. Typed(G) /\ Sound(G) /\ Same(H, G)
    BY <1>1, <1>2, <1>3, <1>4, <1>6, <1>7, SharedWrite
  <1>9. Good(G, c)
    BY <1>8, SameGood
  <1>10. t \in Seq(Chars) /\ Reads(t, R, B)
    BY <1>1, <1>2, ContentReads
  <1>11. Shows(S, R.offset, R.len + Len(s), t \o s)
    <2>1. PICK g : g = t \o s
      OBVIOUS
    <2>2. s \in Seq(Chars)
      OBVIOUS
    <2>3. Shows(S, R.offset, R.len + Len(s), g)
      BY ONLY <1>3, <1>4, <1>6, <1>10, <2>1, <2>2, ShowsBehind
    <2> QED
      BY <2>1, <2>3
  <1>12. Owner(G, r) = o
    <2>1. SameHead(H.rep[o], S)
      BY <1>1, <1>4 DEF WrittenAt
    <2> QED
      BY <1>1, <1>4, <2>1, OwnerKept
  <1>13. G.rep[r].offset = R.offset
    BY <1>1, <1>8 DEF Same, SameHead
  <1>14. ShowsAppended(H, r, s, G)
    BY <1>1, <1>11, <1>12, <1>13, Zenon DEF ShowsAppended
  <1> QED
    BY <1>5, <1>8, <1>9, <1>14

LEMMA SharedPrepend ==
    ASSUME NEW H, NEW c, NEW r, NEW s, NEW begin, NEW h, NEW G, Good(H, c), r \in Reps,
           H.rep[r].len # 0, BeginsBuffer(H, r), s \in Seq(Chars), BeginOf(H, r, s, begin),
           WritesInFront(H, r, s, begin, h, G)
    PROVE  Good(G, c) /\ Same(H, G) /\ Same(H, h) /\ ShowsPrepended(H, r, s, G)
  <1>1. PICK o, R, B, S, t : /\ o = Owner(H, r) /\ R = H.rep[r] /\ B = H.rep[o] /\ S = G.rep[o]
                             /\ t = Content(H, r)
    OBVIOUS
  <1>2. Typed(H) /\ Sound(H)
    BY DEF Good
  <1>3. /\ R \in RepType /\ B \in RepType /\ o \in Reps /\ Buffer(B) /\ Window(R, B)
        /\ B.base = NoBase /\ B.len # 0
    BY <1>1, <1>2, RepTypes, OwnerSound, OwnerHasRoom
  <1>4. /\ Replaces(H, o, S, G) /\ G.table = H.table /\ WrittenAt(B, S, begin, s)
        /\ S.usedPreCapacity >= -begin
        /\ Replaces(H, o, h.rep[o], h) /\ h.table = H.table /\ Extends(B, h.rep[o])
    BY <1>1, <1>2, PrependedIs
  <1>5. Same(H, h)
    BY <1>1, <1>2, <1>3, <1>4, RoomIsSame
  <1>6. begin \in Int /\ begin = R.offset - Len(s) /\ R.offset \in Int /\ Len(s) \in Nat
    <2>1. R.offset \in Int
      BY <1>3 DEF RepType
    <2>2. Len(s) \in Nat
      OBVIOUS
    <2>3. begin = R.offset - Len(s)
      BY <1>1 DEF BeginOf
    <2> QED
      BY ONLY <2>1, <2>2, <2>3
  <1>7. Clear(H, o, begin, Len(s))
    <2>1. -R.offset = B.usedPreCapacity
      <3>1. r # Empty
        BY RepsPositive
      <3> QED
        BY <1>1, <3>1 DEF BeginsBuffer, usedPreCapacity
    <2>2. ASSUME NEW x \in Reps, Owner(H, x) = o PROVE begin + Len(s) <= H.rep[x].offset
      <3>1. PICK k : k = H.rep[x].offset
        OBVIOUS
      <3>2. k \in Int /\ 0 <= k + B.usedPreCapacity
        BY <1>1, <1>2, <2>2, <3>1, OwnerSound, RepTypes DEF Window, RepType
      <3>3. begin + Len(s) <= k
        BY ONLY <1>6, <2>1, <3>2
      <3> QED
        BY <3>1, <3>3
    <2> QED
      BY <2>2 DEF Clear
  <1>8. Typed(G) /\ Sound(G) /\ Same(H, G)
    BY <1>1, <1>2, <1>3, <1>4, <1>6, <1>7, SharedWrite
  <1>9. Good(G, c)
    BY <1>8, SameGood
  <1>10. t \in Seq(Chars) /\ Reads(t, R, B)
    BY <1>1, <1>2, ContentReads
  <1>11. Shows(S, begin, Len(s) + R.len, s \o t)
    <2>1. PICK g : g = s \o t
      OBVIOUS
    <2>2. s \in Seq(Chars)
      OBVIOUS
    <2>3. Shows(S, begin, Len(s) + R.len, g)
      BY ONLY <1>3, <1>4, <1>6, <1>10, <2>1, <2>2, ShowsInFront
    <2> QED
      BY <2>1, <2>3
  <1>12. Owner(G, r) = o
    <2>1. SameHead(H.rep[o], S)
      BY <1>1, <1>4 DEF WrittenAt
    <2> QED
      BY <1>1, <1>4, <2>1, OwnerKept
  <1>13. G.rep[r].offset + -Len(s) = begin
    <2>1. G.rep[r].offset = R.offset
      BY <1>1, <1>8 DEF Same, SameHead
    <2> QED
      BY ONLY <1>6, <2>1
  <1>14. ShowsPrepended(H, r, s, G)
    BY <1>1, <1>11, <1>12, <1>13, Zenon DEF ShowsPrepended
  <1> QED
    BY <1>5, <1>8, <1>9, <1>14

------------------------------------------------------------------------------
(* The functions of UString.                                               *)

Live(H, r) == r \in Reps => H.rep[r].rc # 0

LEMMA CopiedYields ==
    ASSUME NEW H, NEW c, NEW r, NEW m, Good(H, c), r \in Pointers, m = Copied(H, r)
    PROVE  Yields(H, c, m, Content(H, r))
  <1>1. PICK G : G = Ref(H, r)
    OBVIOUS
  <1>2. m = [h |-> G, r |-> r] /\ m.h = G /\ m.r = r /\ IsResult(m)
    <2>1. m = [h |-> G, r |-> r]
      BY <1>1 DEF Copied
    <2> QED
      BY <2>1 DEF IsResult
  <1>3. CASE r \in Reps
    <2>1. Good(G, Plus(c, r)) /\ CountOnly(H, r, G)
      BY <1>1, <1>3, RefGood
    <2>2. Content(G, r) = Content(H, r) /\ Keeps(H, G)
      BY <1>3, <2>1 DEF CountOnly, Unchanged, Keeps
    <2> QED
      BY <1>2, <1>3, <2>1, <2>2 DEF Yields
  <1>4. CASE r = Empty
    <2>1. G = H
      BY <1>1, <1>4 DEF Ref
    <2>2. Plus(c, r) = c
      <3>1. c \in [Reps -> Nat] /\ Empty \notin Reps
        BY RepsPositive DEF Good
      <3>2. \A x \in Reps : Plus(c, r)[x] = c[x]
        BY <1>4, <3>1 DEF Plus
      <3>3. Plus(c, r) = [x \in Reps |-> Plus(c, r)[x]] /\ c = [x \in Reps |-> c[x]]
        BY <3>1 DEF Plus
      <3> QED
        BY <3>2, <3>3
    <2>3. Keeps(H, G)
      BY <2>1 DEF Keeps
    <2> QED
      BY <1>2, <1>4, <2>1, <2>2, <2>3 DEF Yields
  <1> QED
    BY <1>3, <1>4 DEF Pointers

LEMMA SameYields ==
    ASSUME NEW H, NEW G, NEW c, NEW m, NEW s, Same(H, G), Yields(G, c, m, s)
    PROVE  Yields(H, c, m, s)
  <1>1. Keeps(G, m.h)
    BY DEF Yields
  <1>2. Keeps(H, m.h)
    BY <1>1 DEF Keeps, Same, SameHead
  <1> QED
    BY <1>2 DEF Yields

LEMMA SameFree ==
    ASSUME NEW H, NEW G, Same(H, G)
    PROVE  Free(G) = Free(H)
  BY DEF Free, Same, SameHead

\* n is the length of two strings together.
Together(H, r, s, n) == n = H.rep[r].len + Len(s)

LEMMA TogetherType ==
    ASSUME NEW H, NEW c, NEW r, NEW s, NEW n, Good(H, c), r \in Reps, s \in Seq(Chars),
           Together(H, r, s, n)
    PROVE  n \in Nat /\ n = Len(s) + H.rep[r].len
  <1>1. PICK k, j : k = H.rep[r].len /\ j = Len(s)
    OBVIOUS
  <1>2. k \in Nat /\ j \in Nat
    BY <1>1, GoodParts DEF RepType
  <1>3. n = k + j
    BY <1>1 DEF Together
  <1>4. n \in Nat /\ n = j + k
    BY ONLY <1>2, <1>3
  <1> QED
    BY <1>1, <1>4

\* The new Rep on the appended, and on the prepended, buffer.
LEMMA AppendYields ==
    ASSUME NEW H, NEW c, NEW r, NEW s, NEW end, NEW h, NEW G, NEW n, NEW m, NEW t, Good(H, c),
           Free(H) # {}, r \in Reps, H.rep[r].rc # 0, H.rep[r].len # 0, EndsBuffer(H, r),
           s \in Seq(Chars), EndOf(H, r, end), Together(H, r, s, n), n <= MaxLen,
           WritesBehind(H, r, s, end, h, G), m = CreateShared(G, r, 0, n), t = Content(H, r) \o s
    PROVE  Yields(H, c, m, t)
  <1>1. Good(G, c) /\ Same(H, G) /\ ShowsAppended(H, r, s, G)
    BY SharedAppend
  <1>2. PICK at, z : at = G.rep[r].offset /\ z = 0
    OBVIOUS
  <1>3. Shows(G.rep[Owner(G, r)], at, n, t)
    BY <1>1, <1>2, Zenon DEF ShowsAppended, Together
  <1>4. at = G.rep[r].offset + z
    <2>1. at \in Int
      BY <1>1, <1>2, GoodParts DEF RepType
    <2> QED
      BY ONLY <1>2, <2>1
  <1>5. G.rep[r].rc # 0 /\ Free(G) # {}
    BY <1>1, SameFree DEF Same, SameHead
  <1>6. n \in Nat
    BY TogetherType
  <1>7. z \in Int /\ m = CreateShared(G, r, z, n)
    BY <1>2
  <1>8. Yields(G, c, m, t)
    BY <1>1, <1>3, <1>4, <1>5, <1>6, <1>7, CreateSharedYields
  <1> QED
    BY <1>1, <1>8, SameYields

LEMMA PrependYields ==
    ASSUME NEW H, NEW c, NEW r, NEW s, NEW begin, NEW h, NEW G, NEW n, NEW m, NEW t, Good(H, c),
           Free(H) # {}, r \in Reps, H.rep[r].rc # 0, H.rep[r].len # 0, BeginsBuffer(H, r),
           s \in Seq(Chars), BeginOf(H, r, s, begin), Together(H, r, s, n), n <= MaxLen,
           WritesInFront(H, r, s, begin, h, G), m = CreateShared(G, r, -Len(s), n),
           t = s \o Content(H, r)
    PROVE  Yields(H, c, m, t)
  <1>1. Good(G, c) /\ Same(H, G) /\ ShowsPrepended(H, r, s, G)
    BY SharedPrepend
  <1>2. PICK at, z : at = G.rep[r].offset + -Len(s) /\ z = -Len(s)
    OBVIOUS
  <1>3. n \in Nat /\ n = Len(s) + H.rep[r].len
    BY TogetherType
  <1>4. Shows(G.rep[Owner(G, r)], at, n, t)
    BY <1>1, <1>2, <1>3, Zenon DEF ShowsPrepended
  <1>5. G.rep[r].rc # 0 /\ Free(G) # {}
    BY <1>1, SameFree DEF Same, SameHead
  <1>6. z \in Int /\ at = G.rep[r].offset + z /\ m = CreateShared(G, r, z, n)
    BY <1>2
  <1>7. Yields(G, c, m, t)
    BY <1>1, <1>3, <1>4, <1>5, <1>6, CreateSharedYields
  <1> QED
    BY <1>1, <1>7, SameYields

LEMMA NothingJoined ==
    ASSUME NEW s, NEW t, s \in Seq(Chars), t \in Seq(Chars)
    PROVE  /\ Len(s) = 0 => s \o t = t
           /\ Len(t) = 0 => s \o t = s
  <1>1. PICK g : g = s \o t
    OBVIOUS
  <1>2. g \in Seq(Chars) /\ JoinOf(g, s, t)
    BY <1>1, Joined
  <1>3. Len(s) \in Nat /\ Len(t) \in Nat
    OBVIOUS
  <1>4. ASSUME Len(s) = 0 PROVE g = t
    <2>1. Len(g) = Len(t) /\ \A n \in 1 .. Len(t) : g[n] = t[n]
      <3>1. \A n \in 1 .. Len(t) : n + Len(s) = n
        BY <1>3, <1>4
      <3> QED
        BY <1>2, <1>3, <1>4, <3>1 DEF JoinOf
    <2> QED
      BY <1>2, <2>1, SameSeq DEF Part
  <1>5. ASSUME Len(t) = 0 PROVE g = s
    <2>1. Len(g) = Len(s) /\ \A n \in 1 .. Len(s) : g[n] = s[n]
      BY <1>2, <1>3, <1>5 DEF JoinOf
    <2> QED
      BY <1>2, <2>1, SameSeq DEF Part
  <1> QED
    BY <1>1, <1>4, <1>5

LEMMA ConcatenatedYields ==
    ASSUME NEW H, NEW c, NEW a, NEW b, NEW m, Good(H, c), Free(H) # {},
           a \in Pointers, b \in Pointers, Live(H, a), Live(H, b),
           Size(H, a) + Size(H, b) <= MaxLen, m = Concatenated(H, a, b)
    PROVE  Yields(H, c, m, Content(H, a) \o Content(H, b))
  <1>1. PICK s, t, j, k : /\ s = Content(H, a) /\ t = Content(H, b)
                          /\ j = Size(H, a) /\ k = Size(H, b)
    OBVIOUS
  <1>2. /\ Typed(H) /\ Sound(H) /\ s \in Seq(Chars) /\ t \in Seq(Chars)
        /\ j = Len(s) /\ k = Len(t) /\ j \in Nat /\ k \in Nat /\ j + k <= MaxLen
    BY <1>1, SizeIs DEF Good, Pointers
  <1>3. CASE j = 0
    <2>1. m = Copied(H, b)
      BY <1>1, <1>3 DEF Concatenated
    <2>2. s \o t = t
      BY <1>2, <1>3, NothingJoined
    <2> QED
      BY <1>1, <2>1, <2>2, CopiedYields
  <1>4. CASE j # 0 /\ k = 0
    <2>1. m = Copied(H, a)
      BY <1>1, <1>4 DEF Concatenated
    <2>2. s \o t = s
      BY <1>2, <1>4, NothingJoined
    <2> QED
      BY <1>1, <2>1, <2>2, CopiedYields
  <1>5. CASE j # 0 /\ k # 0
    <2>1. /\ a \in Reps /\ b \in Reps /\ H.rep[a].len = j /\ H.rep[b].len = k
          /\ H.rep[a].rc # 0 /\ H.rep[b].rc # 0
      BY <1>1, <1>5 DEF Size, Pointers, Live
    <2>2. PICK end, begin : end = H.rep[a].offset + j /\ begin = H.rep[b].offset - j
      OBVIOUS
    <2>3. PICK h, g : h = expandCapacity(H, a, end + k) /\ g = expandPreCapacity(H, b, -begin)
      OBVIOUS
    <2>4. \/ /\ EndsBuffer(H, a)
             /\ m = CreateShared(Written(h, a, end, Content(h, b)), a, 0, j + k)
          \/ /\ BeginsBuffer(H, b)
             /\ m = CreateShared(Written(g, b, begin, Content(g, a)), b, -j, j + k)
          \/ m = Create(H, s \o t, expandedSize(j + k, 0))
      BY <1>1, <1>5, <2>2, <2>3, Zenon DEF Concatenated
    <2>5. CASE /\ EndsBuffer(H, a)
               /\ m = CreateShared(Written(h, a, end, Content(h, b)), a, 0, j + k)
      <3>1. PICK G, n : G = Written(h, a, end, t) /\ n = j + k
        OBVIOUS
      <3>2. /\ h = expandCapacity(H, a, end + Len(t)) /\ end = H.rep[a].offset + H.rep[a].len
            /\ n = H.rep[a].len + Len(t) /\ H.rep[a].len # 0 /\ n <= MaxLen
        BY <1>2, <1>5, <2>1, <2>2, <2>3, <3>1
      <3>3. Same(H, h)
        <4>1. PICK i, u : i = end + k /\ u = H.rep[a].offset
          OBVIOUS
        <4>2. u \in Int /\ j \in Nat /\ k \in Nat
          BY <1>2, <2>1, <4>1, GoodParts DEF RepType
        <4>3. end = u + j
          BY <2>2, <4>1
        <4>4. i \in Int
          BY ONLY <4>1, <4>2, <4>3
        <4>5. h = expandCapacity(H, a, i) /\ H.rep[a].len # 0
          BY <1>5, <2>1, <2>3, <4>1
        <4> QED
          BY <2>1, <4>4, <4>5, RoomKeeps
      <3>4. Content(h, b) = t
        BY <1>1, <3>3, SameContent
      <3>5. m = CreateShared(G, a, 0, n)
        BY <2>5, <3>1, <3>4
      <3>6. EndOf(H, a, end) /\ Together(H, a, t, n) /\ WritesBehind(H, a, t, end, h, G)
        BY <3>1, <3>2, Zenon DEF EndOf, Together, WritesBehind
      <3>7. Good(H, c) /\ Free(H) # {}
        OBVIOUS
      <3>8. PICK q : q = Content(H, a) \o t
        OBVIOUS
      <3>9. Yields(H, c, m, q)
        BY ONLY <1>2, <2>1, <2>5, <3>2, <3>5, <3>6, <3>7, <3>8, AppendYields
      <3> QED
        BY <1>1, <3>8, <3>9
    <2>6. CASE /\ BeginsBuffer(H, b)
               /\ m = CreateShared(Written(g, b, begin, Content(g, a)), b, -j, j + k)
      <3>1. PICK G, n : G = Written(g, b, begin, s) /\ n = j + k
        OBVIOUS
      <3>2. /\ g = expandPreCapacity(H, b, -begin) /\ begin = H.rep[b].offset - Len(s)
            /\ n = Len(s) + H.rep[b].len /\ H.rep[b].len # 0 /\ n <= MaxLen
        BY <1>2, <1>5, <2>1, <2>2, <2>3, <3>1
      <3>8. /\ Good(H, c) /\ Free(H) # {} /\ b \in Reps /\ BeginsBuffer(H, b) /\ s \in Seq(Chars)
            /\ H.rep[b].rc # 0
        BY <1>2, <2>1, <2>6
      <3>6. BeginOf(H, b, s, begin) /\ WritesInFront(H, b, s, begin, g, G)
        BY <3>1, <3>2, Zenon DEF BeginOf, WritesInFront
      <3>9. Together(H, b, s, n)
        BY <1>2, <2>1, <3>1 DEF Together
      <3>3. Same(H, g)
        BY ONLY <3>2, <3>6, <3>8, SharedPrepend
      <3>4. Content(g, a) = s
        BY <1>1, <3>3, SameContent
      <3>5. m = CreateShared(G, b, -Len(s), n)
        BY <1>2, <2>6, <3>1, <3>4
      <3>10. PICK q : q = s \o Content(H, b)
        OBVIOUS
      <3>7. Yields(H, c, m, q)
        BY ONLY <3>2, <3>5, <3>6, <3>8, <3>9, <3>10, PrependYields
      <3> QED
        BY <1>1, <3>7, <3>10
    <2>7. CASE m = Create(H, s \o t, expandedSize(j + k, 0))
      <3>1. PICK q, n, l : q = s \o t /\ l = j + k /\ n = expandedSize(l, 0)
        OBVIOUS
      <3>2. l \in Nat /\ l <= MaxLen /\ l # 0
        BY <1>2, <1>5, <3>1
      <3>3. n \in Nat /\ n >= l
        <4>1. n \in Nat /\ n > l + 0
          BY <3>1, <3>2, Expanded
        <4> QED
          BY <3>2, <4>1
      <3>4. q \in Seq(Chars) /\ Len(q) = l
        BY <1>2, <3>1
      <3>5. q # <<>>
        BY <3>2, <3>4
      <3>6. m = Create(H, q, n)
        BY <2>7, <3>1
      <3>7. Yields(H, c, m, q)
        BY <3>2, <3>3, <3>4, <3>5, <3>6, CreateYields
      <3> QED
        BY <1>1, <3>1, <3>7
    <2> QED
      BY <2>4, <2>5, <2>6, <2>7
  <1> QED
    BY <1>3, <1>4, <1>5

------------------------------------------------------------------------------
(* Changes in place.                                                       *)

\* One variable refers to the Rep at r, and no window: only its characters
\* and its hash change.
Alters(H, r, R, G) ==
    /\ Replaces(H, r, R, G) /\ G.table = H.table
    /\ R.rc = 1 /\ R.base = NoBase /\ R.len <= MaxLen /\ (Careful => R.hash = NoHash)
    /\ R.isIdentifier = H.rep[r].isIdentifier
    /\ Window(R, R) /\ Buffer(R) /\ Roomless(R)

\* No identifier is the Rep at r.
Unnamed(H, r) == Careful => ~H.rep[r].isIdentifier

LEMMA AlteredResult ==
    ASSUME NEW H, NEW c, NEW r, NEW R, NEW G, NEW m, Good(H, c), r \in Reps, c[r] # 0,
           Alterable(H, r), Alters(H, r, R, G), Unnamed(H, r),
           m = [h |-> G, r |-> r]
    PROVE  Result(H, c, r, m, Content(G, r))
  <1>1. /\ Typed(H) /\ Sound(H) /\ H.rep[r].rc = 1 /\ H.rep[r].base = NoBase
        /\ c \in [Reps -> Nat] /\ c[r] = 1 /\ Windows(H, r) = {}
    <2>1. PICK k, n : k = c[r] /\ n = Cardinality(Windows(H, r))
      OBVIOUS
    <2>2. H.rep[r].rc = 1 /\ H.rep[r].base = NoBase
      BY DEF Alterable
    <2>3. k \in Nat /\ n \in Nat /\ 1 = k + n /\ k # 0
      BY <2>1, <2>2, GoodParts
    <2>4. k = 1 /\ n = 0
      BY ONLY <2>3
    <2> QED
      BY <2>1, <2>2, <2>4, WindowsType DEF Good
  <1>2. Replaces(H, r, R, G) /\ Typed(G) /\ G.rep[r] = R /\ Owner(G, r) = r
    BY DEF Alters, Replaces, Owner
  <1>3. SoundRep(G, r)
    BY <1>2 DEF Alters, SoundRep, Unheld
  <1>4. Sound(G) /\ Elsewhere(H, r, G)
    BY <1>1, <1>2, <1>3, ReplaceSound
  <1>5. Counted(G, c)
    <2>1. ASSUME NEW x \in Reps PROVE G.rep[x].rc = c[x] + Cardinality(Windows(G, x))
      <3>1. Windows(G, x) = Windows(H, x)
        BY <1>1, <1>2 DEF Windows, Replaces, Alters
      <3>2. G.rep[x].rc = H.rep[x].rc
        BY <1>1, <1>2 DEF Replaces, Alters
      <3> QED
        BY <3>1, <3>2 DEF Good, Counted
    <2> QED
      BY <2>1 DEF Counted
  <1>6. ASSUME Careful PROVE Named(G)
    <2>1. Named(H) /\ G.table = H.table
      BY <1>6 DEF Good, Alters
    <2>2. \A x \in Reps : x # r => Unchanged(H, G, x)
      BY <1>2, <1>4 DEF Elsewhere, Replaces, Unchanged
    <2>3. Nameless(H, G, r)
      BY <1>2, <1>6 DEF Alters, Nameless, Unnamed
    <2> QED
      BY <2>1, <2>2, <2>3, NamedKeeps
  <1>7. Good(G, c)
    BY <1>1, <1>2, <1>4, <1>5, <1>6 DEF Good
  <1>8. Moved(c, r, r) = c
    <2>1. ASSUME NEW x \in Reps PROVE c[x] - One(r, x) + One(r, x) = c[x]
      BY <1>1 DEF One
    <2>2. c = [x \in Reps |-> c[x]]
      BY <1>1
    <2> QED
      BY <2>1, <2>2 DEF Moved
  <1>9. Others(c, r, H, G)
    <2>1. Minus(c, r)[r] = 0
      BY <1>1 DEF Minus
    <2>2. \A x \in Reps : Minus(c, r)[x] # 0 => x # r
      BY <2>1
    <2> QED
      BY <1>2, <1>4, <2>2 DEF Others, Elsewhere, Replaces
  <1> QED
    BY <1>7, <1>8, <1>9 DEF Result, Pointers

\* The head of a Rep changes.
Resized(S, n) == [S EXCEPT !.len = n, !.hash = NoHash]
Resize(K, r, n) == [K EXCEPT !.rep[r].len = n, !.rep[r].hash = NoHash]

LEMMA ResizedIs ==
    ASSUME NEW K, NEW r, NEW n, NEW G, Typed(K), r \in Reps, n \in Nat,
           G = Resize(K, r, n)
    PROVE  Replaces(K, r, Resized(K.rep[r], n), G) /\ G.table = K.table
  <1>1. PICK S, T : S = K.rep[r] /\ T = Resized(S, n)
    OBVIOUS
  <1>2. S \in RepType /\ NoHash \in Seq(Chars)
    BY <1>1, RepTypes DEF NoHash
  <1>3. T \in RepType
    BY <1>1, <1>2 DEF Resized, RepType
  <1>4. G = [K EXCEPT !.rep[r] = T]
    <2>1. K = [rep |-> K.rep, table |-> K.table] /\ K.rep \in [Reps -> RepType]
      BY DEF Typed
    <2>2. G = [K EXCEPT !.rep = [K.rep EXCEPT ![r] = T]]
      BY <1>1, <2>1 DEF Resized, Resize
    <2> QED
      BY <2>1, <2>2
  <1>5. Replaces(K, r, T, G) /\ G.table = K.table
    BY <1>3, <1>4, PutIs
  <1> QED
    BY <1>1, <1>5

LEMMA ReplacesTwice ==
    ASSUME NEW H, NEW r, NEW S, NEW K, NEW R, NEW G, Replaces(H, r, S, K), Replaces(K, r, R, G)
    PROVE  Replaces(H, r, R, G)
  BY DEF Replaces

\* K is H where the characters s follow those of r, up to the length n.
Appends(H, r, s, end, n, K) ==
    EndOf(H, r, end) /\ Together(H, r, s, n) /\ \E h : WritesBehind(H, r, s, end, h, K)

\* The Rep that its one string appends to.
LEMMA ExtendedInPlace ==
    ASSUME NEW H, NEW c, NEW r, NEW s, NEW end, NEW n, NEW K, NEW G, Good(H, c), r \in Reps,
           Alterable(H, r), H.rep[r].len # 0, s \in Seq(Chars),
           Appends(H, r, s, end, n, K), n <= MaxLen, G = Resize(K, r, n)
    PROVE  Alters(H, r, G.rep[r], G) /\ Content(G, r) = Content(H, r) \o s
  <1>1. PICK B, S, T, t : B = H.rep[r] /\ S = K.rep[r] /\ T = G.rep[r] /\ t = Content(H, r)
    OBVIOUS
  <1>2. /\ Typed(H) /\ Sound(H) /\ Owner(H, r) = r /\ B \in RepType /\ Buffer(B) /\ Window(B, B)
        /\ B.base = NoBase /\ B.rc = 1 /\ t \in Seq(Chars) /\ Reads(t, B, B)
    <2>1. Typed(H) /\ Sound(H) /\ B.base = NoBase /\ B.rc = 1
      BY <1>1 DEF Good, Alterable
    <2>2. Owner(H, r) = r
      BY <1>1, <2>1 DEF Owner
    <2> QED
      BY <1>1, <2>1, <2>2, OwnerSound, ContentReads
  <1>3. /\ Replaces(H, r, S, K) /\ K.table = H.table /\ WrittenAt(B, S, end, s)
        /\ S.usedCapacity >= end + Len(s)
    <2>1. PICK h : WritesBehind(H, r, s, end, h, K)
      BY DEF Appends
    <2>2. r = Owner(H, r) /\ Typed(H) /\ Sound(H)
      BY <1>2
    <2>3. r \in Reps /\ s \in Seq(Chars) /\ EndOf(H, r, end)
      BY DEF Appends
    <2>4. /\ Replaces(H, r, K.rep[r], K) /\ K.table = H.table /\ WrittenAt(H.rep[r], K.rep[r], end, s)
          /\ K.rep[r].usedCapacity >= end + Len(s)
      BY ONLY <2>1, <2>2, <2>3, AppendedIs
    <2> QED
      BY <1>1, <2>4
  <1>4. B.len \in Nat /\ Len(s) \in Nat /\ n \in Nat /\ n # 0
    <2>1. PICK k, j : k = B.len /\ j = Len(s)
      OBVIOUS
    <2>2. k \in Nat /\ j \in Nat /\ k # 0 /\ n = k + j
      BY <1>1, <1>2, <2>1 DEF RepType, Appends, Together
    <2>3. n \in Nat /\ n # 0
      BY ONLY <2>2
    <2> QED
      BY <2>1, <2>2, <2>3
  <1>5. Replaces(K, r, Resized(S, n), G) /\ G.table = K.table
    <2>1. Typed(K)
      BY <1>3 DEF Replaces
    <2>2. Replaces(K, r, Resized(K.rep[r], n), G) /\ G.table = K.table
      BY <1>4, <2>1, ResizedIs
    <2> QED
      BY <1>1, <2>2
  <1>6. Replaces(H, r, T, G) /\ T = Resized(S, n)
    BY <1>1, <1>3, <1>5, ReplacesTwice DEF Replaces
  <1>7. S \in RepType /\ SameHead(B, S) /\ Buffer(S)
    BY <1>3 DEF WrittenAt
  <1>8. /\ T.len = n /\ T.hash = NoHash /\ T.offset = B.offset /\ T.rc = 1 /\ T.base = NoBase
        /\ T.isIdentifier = B.isIdentifier /\ T.buf = S.buf
        /\ T.preCapacity = S.preCapacity /\ T.capacity = S.capacity
        /\ T.usedCapacity = S.usedCapacity /\ T.usedPreCapacity = S.usedPreCapacity
    BY <1>2, <1>6, <1>7 DEF Resized, RepType, SameHead
  <1>9. PICK g : g = t \o s
    OBVIOUS
  <1>10. Shows(S, B.offset, B.len + Len(s), g)
    <2>1. end = B.offset + B.len /\ s \in Seq(Chars)
      BY <1>1 DEF Appends, EndOf
    <2> QED
      BY ONLY <1>2, <1>3, <1>9, <2>1, ShowsBehind
  <1>11. Shows(S, B.offset, n, g)
    BY <1>1, <1>10 DEF Appends, Together
  <1>12. /\ 0 <= T.offset + T.usedPreCapacity /\ T.offset + T.len <= T.usedCapacity
         /\ g \in Seq(Chars) /\ Len(g) = n /\ \A i \in 1 .. n : g[i] = At(T, T.offset + i)
    BY <1>8, <1>11 DEF Shows, At
  <1>13. Reads(g, T, T) /\ Window(T, T)
    <2>1. \A i \in 1 .. n : g[i] \in Chars
      BY <1>12
    <2> QED
      BY <1>8, <1>12, <2>1 DEF Reads, Window
  <1>14. Buffer(T) /\ Roomless(T)
    BY <1>4, <1>7, <1>8 DEF Buffer, Roomless
  <1>15. Alters(H, r, T, G)
    BY <1>1, <1>3, <1>5, <1>6, <1>8, <1>13, <1>14 DEF Alters
  <1>16. Content(G, r) = g
    <2>1. Typed(G) /\ G.rep[r] = T /\ Owner(G, r) = r
      BY <1>6, <1>8 DEF Replaces, Owner
    <2> QED
      BY <1>12, <1>13, <1>14, <2>1, OneReads
  <1> QED
    BY <1>1, <1>9, <1>15, <1>16

LEMMA ExtendedResult ==
    ASSUME NEW H, NEW c, NEW r, NEW s, NEW m, Good(H, c), Free(H) # {}, r \in Reps, c[r] # 0,
           H.rep[r].len # 0, s \in Seq(Chars), s # <<>>, H.rep[r].len + Len(s) <= MaxLen,
           Careful /\ Alterable(H, r) => ~H.rep[r].isIdentifier, m = Extended(H, r, s)
    PROVE  Result(H, c, r, m, Content(H, r) \o s)
  <1>1. PICK end, n, h, K, t :
            /\ end = H.rep[r].offset + H.rep[r].len /\ n = H.rep[r].len + Len(s)
            /\ h = expandCapacity(H, r, end + Len(s)) /\ K = Written(h, r, end, s)
            /\ t = Content(H, r) \o s
    OBVIOUS
  <1>2. Size(H, r) = H.rep[r].len
    BY RepsPositive DEF Size
  <1>3. n <= MaxLen /\ H.rep[r].rc # 0 /\ r \in Pointers
    BY <1>1, LiveByCount DEF Pointers
  <1>7. EndOf(H, r, end) /\ Together(H, r, s, n) /\ WritesBehind(H, r, s, end, h, K)
    BY <1>1, Zenon DEF EndOf, Together, WritesBehind
  <1>4. CASE Alterable(H, r)
    <2>1. PICK G : G = Resize(K, r, n)
      OBVIOUS
    <2>2. m = [h |-> G, r |-> r]
      BY <1>1, <1>2, <1>4, <2>1, Zenon DEF Extended, Resize
    <2>3. Alters(H, r, G.rep[r], G) /\ Content(G, r) = Content(H, r) \o s
      <3>1. /\ Good(H, c) /\ r \in Reps /\ H.rep[r].len # 0 /\ s \in Seq(Chars)
            /\ Appends(H, r, s, end, n, K)
        BY <1>7 DEF Appends
      <3> QED
        BY ONLY <1>3, <1>4, <2>1, <3>1, ExtendedInPlace
    <2> QED
      BY <1>1, <1>4, <2>2, <2>3, AlteredResult DEF Unnamed
  <1>5. CASE ~Alterable(H, r) /\ EndsBuffer(H, r)
    <2>1. PICK k : k = CreateShared(K, r, 0, n)
      OBVIOUS
    <2>2. m = [k EXCEPT !.h = Deref(@, r)]
      BY <1>1, <1>2, <1>5, <2>1, Zenon DEF Extended
    <2>3. Yields(H, c, k, t)
      <3>1. Good(H, c) /\ Free(H) # {} /\ r \in Reps /\ H.rep[r].len # 0 /\ s \in Seq(Chars)
        OBVIOUS
      <3>2. t = Content(H, r) \o s
        BY <1>1
      <3> QED
        BY ONLY <1>3, <1>5, <1>7, <2>1, <3>1, <3>2, AppendYields
    <2> QED
      BY <1>1, <1>3, <2>2, <2>3, TakenResult
  <1>6. CASE ~Alterable(H, r) /\ ~EndsBuffer(H, r)
    <2>1. PICK q, k : q = expandedSize(n, 0) /\ k = Create(H, t, q)
      OBVIOUS
    <2>2. m = [k EXCEPT !.h = Deref(@, r)]
      BY <1>1, <1>2, <1>6, <2>1, Zenon DEF Extended
    <2>3. n \in Nat /\ n # 0 /\ t \in Seq(Chars) /\ Len(t) = n
      <3>1. PICK i, j, x : i = H.rep[r].len /\ j = Len(s) /\ x = Content(H, r)
        OBVIOUS
      <3>2. i \in Nat /\ j \in Nat /\ i # 0 /\ n = i + j /\ x \in Seq(Chars) /\ Len(x) = i
        BY <1>1, <3>1, GoodParts, ContentReads DEF RepType
      <3>3. s \in Seq(Chars) /\ t = x \o s
        BY <1>1, <3>1
      <3>4. t \in Seq(Chars) /\ Len(t) = i + j
        BY ONLY <3>1, <3>2, <3>3, Joined DEF JoinOf
      <3> QED
        BY <3>2, <3>4
    <2>4. q \in Nat /\ q > n + 0
      BY <2>1, <2>3, Expanded
    <2>5. Len(t) <= q /\ Len(t) <= MaxLen /\ t # <<>>
      BY <1>3, <2>3, <2>4
    <2>6. Yields(H, c, k, t)
      BY <2>1, <2>3, <2>4, <2>5, CreateYields
    <2> QED
      BY <1>1, <1>3, <2>2, <2>6, TakenResult
  <1> QED
    BY <1>4, <1>5, <1>6

\* The part of a string that substr takes.
TakesPart(H, r, pos, len, p, l) ==
    LET size == Size(H, r)
    IN  /\ p = IF pos >= size THEN size ELSE pos
        /\ l = IF p + len >= size THEN size - p ELSE len

LEMMA TakesPartIs ==
    ASSUME NEW H, NEW r, NEW pos, NEW len, NEW p, NEW l, TakesPart(H, r, pos, len, p, l),
           Size(H, r) \in Nat, pos \in Nat, len \in Nat
    PROVE  p \in Nat /\ l \in Nat /\ p + l <= Size(H, r)
  <1>1. PICK n : n = Size(H, r)
    OBVIOUS
  <1>2. p \in Nat /\ p <= n /\ n \in Nat
    BY <1>1 DEF TakesPart
  <1>3. l = IF p + len >= n THEN n - p ELSE len
    BY <1>1 DEF TakesPart
  <1> QED
    BY <1>1, <1>2, <1>3

LEMMA ShowsPart ==
    ASSUME NEW R, NEW B, NEW s, NEW p, NEW l, NEW at, NEW g, R \in RepType, B \in RepType,
           Window(R, B), Reads(s, R, B), s \in Seq(Chars), p \in Nat, l \in Nat, p + l <= Len(s),
           at = R.offset + p, g = SubSeq(s, p + 1, p + l)
    PROVE  Shows(B, at, l, g)
  <1>1. PICK o, n, u, v : o = R.offset /\ n = R.len /\ u = B.usedCapacity /\ v = B.usedPreCapacity
    OBVIOUS
  <1>2. o \in Int /\ n \in Nat /\ u \in Nat /\ v \in Nat
    BY <1>1 DEF RepType
  <1>3. 0 <= o + v /\ o + n <= u /\ Len(s) = n /\ \A i \in 1 .. n : s[i] = At(B, o + i)
    BY <1>1 DEF Window, Reads
  <1>4. g \in Seq(Chars) /\ Part(g, s, p, l)
    BY Piece
  <1>5. at = o + p /\ p + l <= n
    BY <1>1, <1>3
  <1>6. 0 <= at + v /\ at + l <= u
    <2>1. p \in Nat /\ l \in Nat
      OBVIOUS
    <2> QED
      BY ONLY <1>2, <1>3, <1>5, <2>1
  <1>7. ASSUME NEW i \in 1 .. l PROVE g[i] = At(B, at + i)
    <2>1. p + i \in 1 .. n /\ o + (p + i) = at + i
      BY <1>2, <1>5
    <2>2. g[i] = s[p + i]
      BY <1>4 DEF Part
    <2>3. s[p + i] = At(B, o + (p + i))
      BY <1>3, <2>1
    <2> QED
      BY <2>1, <2>2, <2>3
  <1> QED
    BY <1>1, <1>4, <1>6, <1>7 DEF Shows, Part

LEMMA SubstringYields ==
    ASSUME NEW H, NEW c, NEW r, NEW pos, NEW len, NEW m, Good(H, c), Free(H) # {}, r \in Pointers,
           Live(H, r), pos \in Nat, len \in Nat, m = Substring(H, r, pos, len)
    PROVE  \E p, l \in Nat : /\ p + l <= Len(Content(H, r))
                            /\ Yields(H, c, m, SubSeq(Content(H, r), p + 1, p + l))
  <1>1. PICK p, l : TakesPart(H, r, pos, len, p, l)
    BY DEF TakesPart
  <1>2. PICK s : s = Content(H, r)
    OBVIOUS
  <1>3. Typed(H) /\ Sound(H)
    BY DEF Good
  <1>4. s \in Seq(Chars) /\ Size(H, r) = Len(s) /\ Len(s) \in Nat
    BY <1>2, <1>3, SizeIs DEF Pointers
  <1>5. p \in Nat /\ l \in Nat /\ p + l <= Len(s)
    BY <1>1, <1>4, TakesPartIs
  <1>6. PICK g : g = SubSeq(s, p + 1, p + l)
    OBVIOUS
  <1>7. g \in Seq(Chars) /\ Part(g, s, p, l)
    BY <1>4, <1>5, <1>6, Piece
  <1>8. \/ p = 0 /\ l = Len(s) /\ m = Copied(H, r)
        \/ ~(p = 0 /\ l = Len(s)) /\ m = CreateShared(H, r, p, l)
    BY <1>1, <1>4, Zenon DEF Substring, TakesPart
  <1>9. CASE p = 0 /\ l = Len(s) /\ m = Copied(H, r)
    <2>1. g = s
      BY <1>4, <1>7, <1>9, SameSeq
    <2>2. Yields(H, c, m, s)
      BY <1>2, <1>9, CopiedYields
    <2> QED
      BY <1>2, <1>5, <1>6, <2>1, <2>2
  <1>10. CASE ~(p = 0 /\ l = Len(s)) /\ m = CreateShared(H, r, p, l)
    <2>1. r \in Reps
      <3>1. r = Empty => Len(s) = 0
        BY <1>4, EmptyContent
      <3>2. Len(s) = 0 => p = 0 /\ l = 0
        BY <1>4, <1>5
      <3> QED
        BY <1>10, <3>1, <3>2 DEF Pointers
    <2>2. PICK R, B, at : R = H.rep[r] /\ B = H.rep[Owner(H, r)] /\ at = H.rep[r].offset + p
      OBVIOUS
    <2>3. R \in RepType /\ B \in RepType /\ Window(R, B) /\ Reads(s, R, B)
      BY <1>2, <1>3, <2>1, <2>2, RepTypes, OwnerSound, ContentReads
    <2>4. Shows(B, at, l, g)
      BY <1>4, <1>5, <1>6, <2>2, <2>3, ShowsPart
    <2>5. R.rc # 0 /\ l <= MaxLen
      <3>1. R.rc # 0
        BY <2>1, <2>2 DEF Live
      <3>2. R.len <= MaxLen /\ R.len = Len(s)
        BY <1>3, <2>1, <2>2, <2>3 DEF Sound, SoundRep, Reads
      <3>3. MaxLen \in Nat
        BY StringsAssumption
      <3> QED
        BY <1>4, <1>5, <3>1, <3>2, <3>3
    <2>6. p \in Int
      BY <1>5
    <2>7. Yields(H, c, m, g)
      BY <1>5, <1>10, <2>1, <2>2, <2>4, <2>5, <2>6, CreateSharedYields
    <2> QED
      BY <1>2, <1>5, <1>6, <2>7
  <1> QED
    BY <1>8, <1>9, <1>10

\* Characters of a string that nobody shares are changed in place.
LEMMA OverwrittenAlters ==
    ASSUME NEW B, NEW at, NEW s, NEW S, B \in RepType, Buffer(B), Window(B, B), Roomless(B),
           at \in Int, s \in Seq(Chars), S = Overwritten(B, at, s)
    PROVE  /\ S \in RepType /\ SameHead(B, S) /\ Buffer(S) /\ Roomless(S) /\ Window(S, S)
           /\ at = B.offset /\ Len(s) = B.len => Reads(s, S, S)
  <1>1. /\ S \in RepType /\ SameHead(B, S) /\ Buffer(S)
        /\ S.usedCapacity = B.usedCapacity /\ S.usedPreCapacity = B.usedPreCapacity
        /\ S.preCapacity = B.preCapacity /\ S.capacity = B.capacity
        /\ \A n \in 1 - B.preCapacity .. B.capacity :
               At(S, n) = IF n - at \in 1 .. Len(s) THEN s[n - at] ELSE At(B, n)
    BY OverwrittenIs
  <1>2. S.offset = B.offset /\ S.len = B.len /\ B.offset \in Int /\ B.len \in Nat
    BY <1>1 DEF SameHead, RepType
  <1>3. Roomless(S)
    BY <1>1, <1>2 DEF Roomless
  <1>4. ASSUME NEW i \in 1 .. B.len
        PROVE  /\ At(S, B.offset + i) \in Chars
               /\ at = B.offset /\ Len(s) = B.len => At(S, B.offset + i) = s[i]
    <2>1. PICK n : n = B.offset + i
      OBVIOUS
    <2>2. n \in 1 - B.preCapacity .. B.capacity
      BY <2>1, InBuffer
    <2>3. At(S, n) = IF n - at \in 1 .. Len(s) THEN s[n - at] ELSE At(B, n)
      BY <1>1, <2>2
    <2>4. At(B, n) \in Chars /\ \A j \in 1 .. Len(s) : s[j] \in Chars
      BY <2>1 DEF Window
    <2>5. at = B.offset => n - at = i
      BY <1>2, <2>1
    <2> QED
      BY <2>1, <2>3, <2>4, <2>5
  <1>5. Window(S, S)
    <2>1. 0 <= S.offset + S.usedPreCapacity /\ S.offset + S.len <= S.usedCapacity
      BY <1>1, <1>2 DEF Window
    <2> QED
      BY <1>2, <1>4, <2>1 DEF Window
  <1>6. at = B.offset /\ Len(s) = B.len => Reads(s, S, S)
    BY <1>2, <1>4 DEF Reads
  <1> QED
    BY <1>1, <1>3, <1>5, <1>6

LEMMA OverwrittenInPlace ==
    ASSUME NEW H, NEW c, NEW r, NEW at, NEW s, NEW K, Good(H, c), r \in Reps, Alterable(H, r),
           at \in Int, s \in Seq(Chars), K = Written(H, r, at, s)
    PROVE  /\ Replaces(H, r, K.rep[r], K) /\ K.table = H.table
           /\ SameHead(H.rep[r], K.rep[r]) /\ Buffer(K.rep[r]) /\ Roomless(K.rep[r])
           /\ Window(K.rep[r], K.rep[r])
           /\ at = H.rep[r].offset /\ Len(s) = H.rep[r].len => Content(K, r) = s
  <1>1. PICK B, S : B = H.rep[r] /\ S = Overwritten(B, at, s)
    OBVIOUS
  <1>2. /\ Typed(H) /\ Sound(H) /\ Owner(H, r) = r /\ B \in RepType /\ Buffer(B) /\ Window(B, B)
        /\ B.base = NoBase /\ Roomless(B)
    <2>1. Typed(H) /\ Sound(H) /\ B.base = NoBase
      BY <1>1 DEF Good, Alterable
    <2>2. Owner(H, r) = r
      BY <1>1, <2>1 DEF Owner
    <2> QED
      BY <1>1, <2>1, <2>2, OwnerSound
  <1>3. Replaces(H, r, S, K) /\ K.table = H.table
    <2>1. r = Owner(H, r)
      BY <1>2
    <2>2. Replaces(H, r, Overwritten(H.rep[r], at, s), K) /\ K.table = H.table
      BY <1>1, <1>2, <2>1, WrittenIs
    <2> QED
      BY <1>1, <2>2
  <1>4. /\ S \in RepType /\ SameHead(B, S) /\ Buffer(S) /\ Roomless(S) /\ Window(S, S)
        /\ at = B.offset /\ Len(s) = B.len => Reads(s, S, S)
    BY <1>1, <1>2, OverwrittenAlters
  <1>5. K.rep[r] = S /\ Typed(K)
    BY <1>3 DEF Replaces
  <1>6. Owner(K, r) = r
    BY <1>2, <1>4, <1>5 DEF Owner, SameHead
  <1>7. ASSUME Reads(s, S, S) PROVE Content(K, r) = s
    BY <1>4, <1>5, <1>6, <1>7, OneReads
  <1> QED
    BY <1>1, <1>3, <1>4, <1>5, <1>7

Unhashed(S) == [S EXCEPT !.hash = NoHash]
Unhash(K, r) == [K EXCEPT !.rep[r].hash = NoHash]

LEMMA UnhashIs ==
    ASSUME NEW K, NEW r, NEW G, Typed(K), r \in Reps, G = Unhash(K, r)
    PROVE  Replaces(K, r, Unhashed(K.rep[r]), G) /\ G.table = K.table
  <1>1. PICK S, T : S = K.rep[r] /\ T = Unhashed(S)
    OBVIOUS
  <1>2. S \in RepType /\ NoHash \in Seq(Chars)
    BY <1>1, RepTypes DEF NoHash
  <1>3. T \in RepType
    BY <1>1, <1>2 DEF Unhashed, RepType
  <1>4. G = [K EXCEPT !.rep[r] = T]
    <2>1. K = [rep |-> K.rep, table |-> K.table] /\ K.rep \in [Reps -> RepType]
      BY DEF Typed
    <2>2. G = [K EXCEPT !.rep = [K.rep EXCEPT ![r] = T]]
      BY <1>1, <2>1 DEF Unhashed, Unhash
    <2> QED
      BY <2>1, <2>2
  <1>5. Replaces(K, r, T, G) /\ G.table = K.table
    BY <1>3, <1>4, PutIs
  <1> QED
    BY <1>1, <1>5

LEMMA AssignedInPlace ==
    ASSUME NEW H, NEW c, NEW r, NEW s, NEW K, NEW G, Good(H, c), r \in Reps, Alterable(H, r),
           s \in Seq(Chars), K = Written(H, r, 0, s), G = Unhash(K, r)
    PROVE  Alters(H, r, G.rep[r], G) /\ G.rep[r].len = H.rep[r].len
  <1>1. PICK z, B, S, T : z = 0 /\ B = H.rep[r] /\ S = K.rep[r] /\ T = G.rep[r]
    OBVIOUS
  <1>2. /\ Replaces(H, r, S, K) /\ K.table = H.table /\ SameHead(B, S) /\ Buffer(S)
        /\ Roomless(S) /\ Window(S, S)
    <2>1. K = Written(H, r, z, s) /\ z \in Int
      BY <1>1
    <2>2. /\ Replaces(H, r, K.rep[r], K) /\ K.table = H.table
          /\ SameHead(H.rep[r], K.rep[r]) /\ Buffer(K.rep[r]) /\ Roomless(K.rep[r])
          /\ Window(K.rep[r], K.rep[r])
      BY <2>1, OverwrittenInPlace
    <2> QED
      BY <1>1, <2>2
  <1>3. Typed(K) /\ S \in RepType
    BY <1>1, <1>2, RepTypes DEF Replaces
  <1>4. Replaces(K, r, Unhashed(S), G) /\ G.table = K.table
    <2>1. Replaces(K, r, Unhashed(K.rep[r]), G) /\ G.table = K.table
      BY <1>3, UnhashIs
    <2> QED
      BY <1>1, <2>1
  <1>5. T = Unhashed(S)
    BY <1>1, <1>4 DEF Replaces
  <1>6. Replaces(H, r, T, G)
    BY <1>2, <1>4, <1>5, ReplacesTwice
  <1>7. /\ T.len = S.len /\ T.hash = NoHash /\ T.offset = S.offset /\ T.rc = S.rc /\ T.base = S.base
        /\ T.isIdentifier = S.isIdentifier /\ T.buf = S.buf
        /\ T.preCapacity = S.preCapacity /\ T.capacity = S.capacity
        /\ T.usedCapacity = S.usedCapacity /\ T.usedPreCapacity = S.usedPreCapacity
    BY <1>3, <1>5 DEF Unhashed, RepType
  <1>8. Window(T, T) /\ Buffer(T) /\ Roomless(T)
    BY <1>2, <1>7 DEF Window, Buffer, Roomless, At
  <1>9. B.rc = 1 /\ B.base = NoBase /\ B.len <= MaxLen
    BY <1>1 DEF Good, Sound, SoundRep, Alterable
  <1> QED
    BY <1>1, <1>2, <1>4, <1>6, <1>7, <1>8, <1>9 DEF Alters, SameHead

LEMMA AssignedResult ==
    ASSUME NEW H, NEW c, NEW r, NEW s, NEW m, Good(H, c), Free(H) # {}, r \in Pointers,
           r \in Reps => c[r] # 0, s \in Seq(Chars), Len(s) <= MaxLen,
           Careful => Size(H, r) = 0, m = AssignedChars(H, r, s)
    PROVE  /\ Result(H, c, r, m, Content(m.h, m.r))
           /\ Size(H, r) = 0 => Content(m.h, m.r) = s
  <1>1. PICK k, K, G, n : /\ K = Written(H, r, 0, s) /\ G = Unhash(K, r)
                          /\ n = Len(s) /\ k = Create(H, s, n)
    OBVIOUS
  <1>2. \/ Alterable(H, r) /\ n <= H.rep[r].capacity /\ m = [h |-> G, r |-> r]
        \/ m = [k EXCEPT !.h = Deref(@, r)]
    BY <1>1, Zenon DEF AssignedChars, Unhash
  <1>3. CASE Alterable(H, r) /\ n <= H.rep[r].capacity /\ m = [h |-> G, r |-> r]
    <2>1. r \in Reps /\ Size(H, r) = H.rep[r].len /\ m.h = G /\ m.r = r
      BY <1>3 DEF Alterable, Pointers, Size
    <2>2. Alters(H, r, G.rep[r], G) /\ G.rep[r].len = H.rep[r].len
      BY <1>1, <1>3, <2>1, AssignedInPlace
    <2>3. Typed(H) /\ Sound(H) /\ H.rep[r].base = NoBase /\ Roomless(H.rep[r])
      BY <1>3, <2>1 DEF Good, Alterable, Sound, SoundRep
    <2>4. ASSUME Careful PROVE ~H.rep[r].isIdentifier
      <3>1. Named(H) /\ Content(H, r) = <<>>
        BY <2>1, <2>3, <2>4, SizeIs DEF Good
      <3> QED
        BY <2>1, <3>1 DEF Named
    <2>5. Result(H, c, r, m, Content(G, r))
      BY <1>3, <2>1, <2>2, <2>4, AlteredResult DEF Unnamed
    <2>6. ASSUME Size(H, r) = 0 PROVE Content(G, r) = s
      <3>1. H.rep[r].capacity = 0
        BY <2>1, <2>3, <2>6 DEF Roomless
      <3>2. s = <<>>
        BY <1>1, <1>3, <3>1
      <3>3. Good(G, Moved(c, r, r)) /\ G.rep[r].len = 0
        BY <2>1, <2>2, <2>5, <2>6 DEF Result
      <3>4. Content(G, r) \in Seq(Chars) /\ Len(Content(G, r)) = 0
        BY <2>1, <3>3, ContentReads DEF Good
      <3> QED
        BY <3>2, <3>4
    <2> QED
      BY <2>1, <2>5, <2>6
  <1>4. CASE m = [k EXCEPT !.h = Deref(@, r)]
    <2>1. n \in Nat /\ n <= n /\ (s = <<>> => n = 0)
      BY <1>1
    <2>2. Yields(H, c, k, s)
      BY <1>1, <2>1, CreateYields
    <2>3. Result(H, c, r, m, s)
      BY <1>4, <2>2, TakenResult
    <2>4. Content(m.h, m.r) = s
      BY <2>3 DEF Result
    <2> QED
      BY <2>3, <2>4
  <1> QED
    BY <1>2, <1>3, <1>4

Unshared(G, q) ==
    /\ Alterable(G, q)
    /\ Unnamed(G, q)
    /\ Careful => G.rep[q].hash = NoHash

\* A copy is not shared.
LEMMA CopyAlterable ==
    ASSUME NEW H, NEW c, NEW r, NEW k, NEW G, NEW q, NEW d, NEW s, Good(H, c), r \in Pointers,
           r \in Reps => c[r] # 0, Yields(H, c, k, s), NewCopy(H, k), k.r = q,
           Survives(k.h, G), G.rep[q].rc # 0, d = Moved(c, r, q), Good(G, d)
    PROVE  Unshared(G, q) /\ d[q] # 0 /\ c[q] = 0 /\ q # r
  <1>10. q \in Reps /\ Fresh(k.h.rep[q]) /\ H.rep[q].rc = 0
    BY DEF NewCopy
  <1>1. c \in [Reps -> Nat] /\ c[q] = 0
    <2>1. c \in [Reps -> Nat]
      BY DEF Good
    <2> QED
      BY <1>10, <2>1, LiveByCount
  <1>2. q # r /\ d[q] = 1
    <2>1. q # r
      BY <1>1, <1>10
    <2>2. d[q] = c[q] - One(r, q) + One(q, q)
      BY <1>10 DEF Moved
    <2> QED
      BY <1>1, <2>1, <2>2 DEF One
  <1>3. PICK K, e : K = k.h /\ e = Plus(c, q)
    OBVIOUS
  <1>4. Good(K, e) /\ Fresh(K.rep[q]) /\ e[q] = 1
    BY <1>1, <1>3, <1>10 DEF Yields, Plus
  <1>5. Windows(K, q) = {}
    <2>1. PICK n : n = Cardinality(Windows(K, q))
      OBVIOUS
    <2>2. n \in Nat /\ 1 = 1 + n
      BY <1>4, <1>10, <2>1, GoodParts DEF Fresh
    <2>3. n = 0
      BY ONLY <2>2
    <2> QED
      BY <2>1, <2>3, WindowsType
  <1>6. G.rep[q].base = NoBase /\ G.rep[q].hash = NoHash /\ ~G.rep[q].isIdentifier
    BY <1>3, <1>4, <1>10 DEF Survives, Unchanged, Fresh
  <1>7. Windows(G, q) = {}
    <2>1. ASSUME NEW x \in Reps, G.rep[x].base = q PROVE FALSE
      <3>1. q # NoBase
        BY <1>10, RepsPositive
      <3>2. SoundRep(G, x)
        BY DEF Good, Sound
      <3>3. G.rep[x].rc # 0
        BY <2>1, <3>1, <3>2 DEF SoundRep, Unheld
      <3>4. K.rep[x].base = q
        BY <1>3, <2>1, <3>3 DEF Survives
      <3> QED
        BY <1>5, <3>4 DEF Windows
    <2> QED
      BY <2>1 DEF Windows
  <1>8. G.rep[q].rc = 1
    BY <1>2, <1>7, <1>10, GoodParts, WindowsType
  <1>9. q # Empty
    BY <1>10, RepsPositive
  <1> QED
    BY <1>1, <1>2, <1>6, <1>8, <1>9 DEF Alterable, Unshared, Unnamed

\* A result that is altered.
LEMMA AlteredAgain ==
    ASSUME NEW H, NEW c, NEW r, NEW q, NEW m, NEW w, NEW d, NEW s, NEW t, c \in [Reps -> Nat],
           q \in Reps, q # r, c[q] = 0, m.r = q, d = Moved(c, r, q), Result(H, c, r, m, s),
           Result(m.h, d, q, w, t), w.r = q
    PROVE  Result(H, c, r, w, t)
  <1>1. /\ Good(w.h, Moved(d, q, q)) /\ Content(w.h, q) = t /\ Others(d, q, m.h, w.h)
        /\ Others(c, r, H, m.h) /\ Good(m.h, d)
    BY DEF Result
  <1>2. Moved(d, q, q) = d
    <2>1. d \in [Reps -> Nat]
      BY <1>1 DEF Good
    <2>2. ASSUME NEW x \in Reps PROVE d[x] - One(q, x) + One(q, x) = d[x]
      BY <2>1 DEF One
    <2>3. d = [x \in Reps |-> d[x]]
      BY <2>1
    <2> QED
      BY <2>2, <2>3 DEF Moved
  <1>3. ASSUME NEW x \in Reps, Minus(c, r)[x] # 0 PROVE Minus(d, q)[x] # 0
    <2>1. x # q
      BY <1>3 DEF Minus
    <2>2. Minus(d, q)[x] = d[x] /\ d[x] = c[x] - One(r, x) + One(q, x)
      BY <2>1 DEF Minus, Moved
    <2>3. Minus(c, r)[x] = IF x = r THEN c[x] - 1 ELSE c[x]
      BY DEF Minus
    <2> QED
      BY <1>3, <2>1, <2>2, <2>3 DEF One
  <1>4. Others(c, r, H, w.h)
    BY <1>1, <1>3 DEF Others
  <1> QED
    BY <1>1, <1>2, <1>4 DEF Result, Pointers

Writes(m, g) == [m EXCEPT !.h = Written(@, m.r, m.h.rep[m.r].offset, g)]
LowerCase(s) == [n \in DOMAIN s |-> Lower[s[n]]]

LEMMA LowerCaseType ==
    ASSUME NEW s, s \in Seq(Chars)
    PROVE  LowerCase(s) \in Seq(Chars) /\ Len(LowerCase(s)) = Len(s)
  <1>1. PICK n : n = Len(s)
    OBVIOUS
  <1>2. n \in Nat /\ DOMAIN s = 1 .. n /\ \A i \in 1 .. n : s[i] \in Chars
    BY <1>1
  <1>3. \A i \in 1 .. n : Lower[s[i]] \in Chars
    BY <1>2, StringsAssumption
  <1>4. LowerCase(s) = [i \in 1 .. n |-> Lower[s[i]]]
    BY <1>2 DEF LowerCase
  <1>5. LowerCase(s) \in [1 .. n -> Chars]
    BY <1>3, <1>4
  <1> QED
    BY <1>1, <1>2, <1>5

\* All characters of a string that is not shared are changed.
LEMMA WrittenResult ==
    ASSUME NEW G, NEW d, NEW q, NEW m, NEW g, NEW w, Good(G, d), q \in Reps, d[q] # 0,
           Unshared(G, q), m = [h |-> G, r |-> q], g \in Seq(Chars),
           Len(g) = Len(Content(G, q)), w = Writes(m, g)
    PROVE  Result(G, d, q, w, g) /\ w.r = q
  <1>1. PICK at, K : at = G.rep[q].offset /\ K = Written(G, q, at, g)
    OBVIOUS
  <1>2. w = [h |-> K, r |-> q]
    BY <1>1 DEF Writes
  <1>3. /\ Typed(G) /\ Sound(G) /\ G.rep[q] \in RepType /\ SoundRep(G, q)
        /\ Len(g) = G.rep[q].len
    BY GoodParts, ContentReads
  <1>4. at \in Int
    BY <1>1, <1>3 DEF RepType
  <1>5. /\ Replaces(G, q, K.rep[q], K) /\ K.table = G.table
        /\ SameHead(G.rep[q], K.rep[q]) /\ Buffer(K.rep[q]) /\ Roomless(K.rep[q])
        /\ Window(K.rep[q], K.rep[q])
        /\ at = G.rep[q].offset /\ Len(g) = G.rep[q].len => Content(K, q) = g
    BY <1>1, <1>4, OverwrittenInPlace DEF Unshared
  <1>6. Alters(G, q, K.rep[q], K)
    <2>1. PICK R, S : R = G.rep[q] /\ S = K.rep[q]
      OBVIOUS
    <2>2. R.rc = 1 /\ R.base = NoBase /\ R.len <= MaxLen /\ (Careful => R.hash = NoHash)
      BY <1>3, <2>1 DEF SoundRep, Alterable, Unshared
    <2>3. /\ S.rc = 1 /\ S.base = NoBase /\ S.len <= MaxLen /\ (Careful => S.hash = NoHash)
          /\ S.isIdentifier = R.isIdentifier
      BY <1>5, <2>1, <2>2 DEF SameHead
    <2> QED
      BY <1>5, <2>1, <2>3 DEF Alters
  <1>7. Result(G, d, q, w, Content(K, q))
    <2>1. Alterable(G, q) /\ Unnamed(G, q)
      BY DEF Unshared
    <2> QED
      BY <1>2, <1>6, <2>1, AlteredResult
  <1>8. Content(K, q) = g
    <2>1. at = G.rep[q].offset /\ Len(g) = G.rep[q].len
      BY <1>1, <1>3
    <2>2. at = G.rep[q].offset /\ Len(g) = G.rep[q].len => Content(K, q) = g
      BY <1>5
    <2> QED
      BY ONLY <2>1, <2>2
  <1>9. w.r = q
    BY <1>2
  <1> QED
    BY <1>7, <1>8, <1>9

LEMMA LoweredResult ==
    ASSUME NEW H, NEW c, NEW r, NEW s, NEW m, NEW w, Good(H, c), Free(H) # {}, r \in Pointers,
           r \in Reps => c[r] # 0, Careful => ~Alterable(H, r), m = CopiedForWriting(H, r),
           s = Content(m.h, m.r), w = Writes(m, LowerCase(s))
    PROVE  Result(H, c, r, w, LowerCase(Content(H, r)))
  <1>1. PICK t, g : t = Content(H, r) /\ g = LowerCase(t)
    OBVIOUS
  <1>2. Typed(H) /\ Sound(H) /\ c \in [Reps -> Nat]
    BY DEF Good
  <1>3. t \in Seq(Chars) /\ Size(H, r) = Len(t) /\ g \in Seq(Chars) /\ Len(g) = Len(t)
    BY <1>1, <1>2, SizeIs, LowerCaseType DEF Pointers
  <1>4. CASE Alterable(H, r)
    <2>1. m = [h |-> H, r |-> r] /\ m.h = H /\ m.r = r /\ r \in Reps
      BY <1>4 DEF CopiedForWriting, Alterable, Pointers
    <2>2. w = Writes(m, g)
      BY <1>1, <2>1
    <2>4. Unshared(H, r)
      BY <1>4 DEF Unshared, Unnamed
    <2>3. Result(H, c, r, w, g)
      BY <1>1, <1>3, <1>4, <2>1, <2>2, <2>4, WrittenResult
    <2> QED
      BY <1>1, <2>3
  <1>5. CASE ~Alterable(H, r)
    <2>1. PICK k, n : n = Len(t) /\ k = Create(H, t, n)
      OBVIOUS
    <2>2. m = [k EXCEPT !.h = Deref(@, r)]
      BY <1>1, <1>3, <1>5, <2>1, Zenon DEF CopiedForWriting
    <2>3. n \in Nat /\ n <= MaxLen /\ (t = <<>> => n = 0)
      <3>1. CASE r = Empty
        BY <1>1, <1>3, <2>1, <3>1, EmptyContent, StringsAssumption
      <3>2. CASE r \in Reps
        <4>1. Len(t) = H.rep[r].len
          BY <1>1, <1>2, <3>2, ContentReads
        <4>2. H.rep[r].len \in Nat /\ H.rep[r].len <= MaxLen
          BY <3>2, GoodParts DEF SoundRep, RepType
        <4>3. t = <<>> => Len(t) = 0
          OBVIOUS
        <4> QED
          BY <2>1, <4>1, <4>2, <4>3
      <3> QED
        BY <3>1, <3>2 DEF Pointers
    <2>4. Yields(H, c, k, t) /\ NewCopy(H, k)
      <3>1. Len(t) <= MaxLen /\ Len(t) <= n /\ Good(H, c) /\ Free(H) # {} /\ t \in Seq(Chars)
        BY <1>3, <2>1, <2>3
      <3> QED
        BY ONLY <2>1, <2>3, <3>1, CreateYields
    <2>5. /\ Result(H, c, r, m, t) /\ m.r = k.r /\ m.h = Deref(k.h, r) /\ Survives(k.h, m.h)
          /\ m.h.rep[m.r].rc # 0
      BY <2>2, <2>4, TakenResult DEF NewCopy
    <2>6. PICK G, q, d : G = m.h /\ q = m.r /\ d = Moved(c, r, q)
      OBVIOUS
    <2>7. m = [h |-> G, r |-> q]
      <3>1. IsResult(k)
        BY <2>4 DEF Yields
      <3> QED
        BY <2>2, <2>5, <2>6, <3>1 DEF IsResult
    <2>8. Good(G, d) /\ Content(G, q) = t
      BY <2>5, <2>6 DEF Result
    <2>9. Unshared(G, q) /\ d[q] # 0 /\ c[q] = 0 /\ q # r
      <3>1. /\ k.r = q /\ NewCopy(H, k) /\ Survives(k.h, G) /\ G.rep[q].rc # 0
        BY <2>4, <2>5, <2>6
      <3>2. Yields(H, c, k, t) /\ Good(H, c) /\ r \in Pointers /\ (r \in Reps => c[r] # 0)
        BY <2>4
      <3> QED
        BY ONLY <2>6, <2>8, <3>1, <3>2, CopyAlterable
    <2>10. w = Writes(m, g) /\ q \in Reps
      BY <1>1, <2>4, <2>5, <2>6, <2>8 DEF NewCopy
    <2>11. Result(G, d, q, w, g) /\ w.r = q
      BY <1>3, <2>7, <2>8, <2>9, <2>10, WrittenResult
    <2>12. Result(H, c, r, w, g)
      BY <1>2, <2>5, <2>6, <2>9, <2>10, <2>11, AlteredAgain
    <2> QED
      BY <1>1, <2>12
  <1> QED
    BY <1>4, <1>5

------------------------------------------------------------------------------
(* Identifiers.                                                            *)

\* Two heaps that differ in hashes, marks of identifiers and the table.
SameButLabels(R, S) == SameText(R, S) /\ S.rc = R.rc
Relabels(H, G) ==
    /\ Typed(G)
    /\ \A x \in Reps : SameButLabels(H.rep[x], G.rep[x]) /\ Unheld(G.rep[x])
    /\ \A x \in Reps : H.rep[x].isIdentifier => G.rep[x].isIdentifier

LEMMA RelabelGood ==
    ASSUME NEW H, NEW c, NEW G, Good(H, c), Relabels(H, G), Careful => Named(G)
    PROVE  Good(G, c) /\ Keeps(H, G) /\ \A x \in Reps : Content(G, x) = Content(H, x)
  <1>1. /\ Typed(H) /\ Sound(H) /\ Typed(G)
        /\ \A x \in Reps : SameText(H.rep[x], G.rep[x]) /\ Unheld(G.rep[x])
    BY DEF Good, Relabels, SameButLabels
  <1>2. Sound(G) /\ \A x \in Reps : Content(G, x) = Content(H, x)
    BY <1>1, TextsSound
  <1>3. Counted(G, c)
    <2>1. ASSUME NEW x \in Reps PROVE G.rep[x].rc = c[x] + Cardinality(Windows(G, x))
      <3>1. Windows(G, x) = Windows(H, x)
        BY <1>1 DEF Windows, SameText
      <3>2. G.rep[x].rc = H.rep[x].rc
        BY DEF Relabels, SameButLabels
      <3> QED
        BY <3>1, <3>2 DEF Good, Counted
    <2> QED
      BY <2>1 DEF Counted
  <1>4. Keeps(H, G)
    BY <1>2 DEF Keeps, Relabels
  <1> QED
    BY <1>1, <1>2, <1>3, <1>4 DEF Good

\* The hash of a string is computed.
Labelled(R, hash, name) == [R EXCEPT !.hash = hash, !.isIdentifier = name]

LEMMA LabelledIs ==
    ASSUME NEW R, NEW hash, NEW name, NEW S, R \in RepType, hash \in Seq(Chars),
           name \in BOOLEAN, S = Labelled(R, hash, name)
    PROVE  /\ S \in RepType /\ SameButLabels(R, S) /\ S.hash = hash /\ S.isIdentifier = name
  BY DEF Labelled, RepType, SameButLabels, SameText

LEMMA HashIs ==
    ASSUME NEW H, NEW c, NEW r, Good(H, c), r \in Reps
    PROVE  Hash(H, r) \in Seq(Chars) /\ (Careful => Hash(H, r) = Content(H, r))
  <1>1. H.rep[r].hash \in Seq(Chars) /\ Content(H, r) \in Seq(Chars)
    BY GoodParts, ContentReads DEF RepType
  <1>2. Careful => H.rep[r].hash = NoHash \/ H.rep[r].hash = Content(H, r)
    BY DEF Good, Named
  <1> QED
    BY <1>1, <1>2 DEF Hash

SetHash(H, r, hash) == [H EXCEPT !.rep[r].hash = hash]

Hashed(H, h) ==
    /\ Keeps(H, h) /\ h.table = H.table
    /\ \A x \in Reps : Content(h, x) = Content(H, x) /\ h.rep[x].rc = H.rep[x].rc

LEMMA HashedIs ==
    ASSUME NEW H, NEW c, NEW r, NEW hash, NEW h, Good(H, c), r \in Reps, ~H.rep[r].isIdentifier,
           hash = Hash(H, r), h = SetHash(H, r, hash)
    PROVE  Good(h, c) /\ Hashed(H, h)
  <1>1. PICK R, S, no : R = H.rep[r] /\ no = FALSE /\ S = Labelled(R, hash, no)
    OBVIOUS
  <1>2. /\ Typed(H) /\ Sound(H) /\ SoundRep(H, r) /\ R \in RepType /\ R.isIdentifier = FALSE
        /\ hash \in Seq(Chars) /\ (Careful => hash = Content(H, r))
    BY <1>1, GoodParts, HashIs DEF RepType
  <1>3. S \in RepType /\ SameButLabels(R, S) /\ S.hash = hash /\ S.isIdentifier = FALSE
    <2>1. no \in BOOLEAN
      BY <1>1
    <2>2. S \in RepType /\ SameButLabels(R, S) /\ S.hash = hash /\ S.isIdentifier = no
      BY <1>1, <1>2, <2>1, LabelledIs
    <2> QED
      BY <1>1, <2>2
  <1>4. S = [R EXCEPT !.hash = hash]
    BY <1>1, <1>2 DEF Labelled, RepType
  <1>5. h = [H EXCEPT !.rep[r] = S]
    BY <1>1, <1>4 DEF SetHash
  <1>6. Replaces(H, r, S, h) /\ h.table = H.table
    BY <1>2, <1>3, <1>5, PutIs
  <1>8. Relabels(H, h)
    <2>1. ASSUME NEW x \in Reps
          PROVE  /\ SameButLabels(H.rep[x], h.rep[x]) /\ Unheld(h.rep[x])
                 /\ h.rep[x].isIdentifier = H.rep[x].isIdentifier
      <3>1. CASE x = r
        BY <1>1, <1>2, <1>3, <1>6, <3>1
           DEF Replaces, SameButLabels, SameText, SoundRep, Unheld
      <3>2. CASE x # r
        <4>1. h.rep[x] = H.rep[x] /\ SoundRep(H, x)
          BY <1>2, <1>6, <3>2 DEF Replaces, Sound
        <4> QED
          BY <4>1 DEF SameButLabels, SameText, SoundRep
      <3> QED
        BY <3>1, <3>2
    <2> QED
      BY <1>6, <2>1 DEF Relabels, Replaces
  <1>9. \A x \in Reps : Content(h, x) = Content(H, x)
    BY <1>2, <1>8, TextsSound DEF Relabels, SameButLabels
  <1>10. ASSUME Careful PROVE Named(h)
    <2>1. /\ Named(H) /\ \A x \in Reps : x # r => Unchanged(H, h, x)
      BY <1>6, <1>9, <1>10 DEF Good, Unchanged, Replaces
    <2>2. h.rep[r].hash = Content(h, r) /\ ~h.rep[r].isIdentifier
      BY <1>2, <1>3, <1>6, <1>9, <1>10 DEF Replaces
    <2>3. \A x \in Reps : h.rep[x].isIdentifier <=> H.rep[x].isIdentifier
      BY <1>1, <1>2, <2>1, <2>2 DEF Unchanged
    <2>4. DOMAIN h.table = {x \in Reps : h.rep[x].isIdentifier}
      BY <1>6, <2>1, <2>3 DEF Named
    <2>5. \A x \in Reps : h.rep[x].hash = NoHash \/ h.rep[x].hash = Content(h, x)
      BY <2>1, <2>2 DEF Named, Unchanged
    <2>6. \A k \in DOMAIN H.table : k \in Reps /\ k # r
      BY <2>1 DEF Named
    <2>7. ASSUME NEW k \in DOMAIN H.table
          PROVE  /\ Content(h, k) # <<>> /\ h.rep[k].hash = Content(h, k) /\ h.table[k] = Content(h, k)
                 /\ \A j \in DOMAIN H.table : Content(h, j) = Content(h, k) => j = k
      BY <1>6, <2>1, <2>6 DEF Named, Unchanged
    <2> QED
      BY <1>6, <2>4, <2>5, <2>7 DEF Named
  <1> QED
    BY <1>6, <1>8, <1>9, <1>10, RelabelGood DEF Relabels, SameButLabels, Hashed

\* The Rep at r becomes the key for its characters.
KeyTable(t, r, hash) == [x \in DOMAIN t \cup {r} |-> IF x = r THEN hash ELSE t[x]]

Table(t) == DOMAIN t \subseteq Reps /\ t \in [DOMAIN t -> Seq(Chars)]
Keyed(t, r, hash, u) ==
    /\ DOMAIN u = DOMAIN t \cup {r} /\ u[r] = hash
    /\ \A x \in DOMAIN t : x # r => u[x] = t[x]

LEMMA KeyTableIs ==
    ASSUME NEW t, NEW r, NEW hash, NEW u, Table(t), r \in Reps, hash \in Seq(Chars),
           u = KeyTable(t, r, hash)
    PROVE  Table(u) /\ Keyed(t, r, hash, u)
  <1>1. DOMAIN u = DOMAIN t \cup {r}
    BY DEF KeyTable
  <1>2. \A x \in DOMAIN u : u[x] = IF x = r THEN hash ELSE t[x]
    BY DEF KeyTable
  <1>3. \A x \in DOMAIN u : u[x] \in Seq(Chars)
    BY <1>1, <1>2 DEF Table
  <1>4. u = [x \in DOMAIN u |-> u[x]]
    BY DEF KeyTable
  <1>5. u \in [DOMAIN u -> Seq(Chars)]
    BY <1>3, <1>4
  <1> QED
    BY <1>1, <1>2, <1>5 DEF Table, Keyed

NewName(H, r) ==
    Content(H, r) # <<>> /\ \A j \in DOMAIN H.table : Content(H, j) # Content(H, r)

WithKey(H, r, G) ==
    /\ Keeps(H, G) /\ G.rep[r].isIdentifier
    /\ \A x \in Reps : /\ Content(G, x) = Content(H, x) /\ G.rep[x].rc = H.rep[x].rc
                       /\ H.rep[x].isIdentifier => G.rep[x].isIdentifier

LEMMA KeyAdded ==
    ASSUME NEW H, NEW c, NEW r, NEW hash, NEW G, Good(H, c), r \in Reps, H.rep[r].rc # 0,
           hash \in Seq(Chars), ~H.rep[r].isIdentifier,
           Careful => hash = Content(H, r) /\ NewName(H, r), G = AddKey(H, r, hash)
    PROVE  Good(G, c) /\ WithKey(H, r, G)
  <1>1. PICK R, S, yes : R = H.rep[r] /\ yes = TRUE /\ S = Labelled(R, hash, yes)
    OBVIOUS
  <1>2. PICK f, g, t, u : /\ f = H.rep /\ t = H.table /\ g = [f EXCEPT ![r] = S]
                          /\ u = KeyTable(t, r, hash)
    OBVIOUS
  <1>3. Typed(H) /\ Sound(H) /\ SoundRep(H, r) /\ R \in RepType
    BY <1>1, GoodParts
  <1>4. /\ S \in RepType /\ SameButLabels(R, S) /\ S.hash = hash /\ S.isIdentifier = TRUE
    <2>1. yes \in BOOLEAN
      BY <1>1
    <2>2. S \in RepType /\ SameButLabels(R, S) /\ S.hash = hash /\ S.isIdentifier = yes
      <3>1. hash \in Seq(Chars) /\ R \in RepType /\ S = Labelled(R, hash, yes)
        BY <1>1, <1>3
      <3> QED
        BY ONLY <2>1, <3>1, LabelledIs
    <2> QED
      BY <1>1, <2>2
  <1>5. G = [rep |-> g, table |-> u]
    <2>1. [f EXCEPT ![r].hash = hash, ![r].isIdentifier = TRUE] = g
      <3>1. f \in [Reps -> RepType] /\ f[r] = R
        BY <1>1, <1>2, <1>3 DEF Typed
      <3> QED
        BY <1>1, <1>2, <3>1 DEF Labelled
    <2> QED
      BY <1>2, <2>1 DEF AddKey, KeyTable
  <1>6. f \in [Reps -> RepType] /\ DOMAIN t \subseteq Reps /\ t \in [DOMAIN t -> Seq(Chars)]
    BY <1>2, <1>3 DEF Typed
  <1>7. /\ DOMAIN u = DOMAIN t \cup {r} /\ DOMAIN u \subseteq Reps /\ u \in [DOMAIN u -> Seq(Chars)]
        /\ u[r] = hash /\ \A x \in DOMAIN t : x # r => u[x] = t[x]
    <2>1. u = KeyTable(t, r, hash) /\ r \in Reps /\ hash \in Seq(Chars)
      BY <1>2
    <2>2. Table(u) /\ Keyed(t, r, hash, u)
      BY <1>6, <2>1, KeyTableIs DEF Table
    <2> QED
      BY <2>2 DEF Table, Keyed
  <1>8. g \in [Reps -> RepType] /\ g[r] = S /\ \A x \in Reps : x # r => g[x] = f[x]
    BY <1>2, <1>4, <1>6
  <1>9. G.rep = g /\ G.table = u
    BY <1>5
  <1>10. Typed(G)
    BY <1>5, <1>7, <1>8, <1>9 DEF Typed
  <1>11. \A x \in Reps : x # r => G.rep[x] = H.rep[x]
    BY <1>2, <1>8, <1>9
  <1>12. G.rep[r] = S
    BY <1>8, <1>9
  <1>13. Relabels(H, G)
    <2>1. ASSUME NEW x \in Reps
          PROVE  /\ SameButLabels(H.rep[x], G.rep[x]) /\ Unheld(G.rep[x])
                 /\ H.rep[x].isIdentifier => G.rep[x].isIdentifier
      <3>1. CASE x = r
        <4>1. R.rc # 0 /\ S.rc = R.rc
          BY <1>1, <1>4 DEF SameButLabels
        <4> QED
          BY <1>1, <1>4, <1>12, <3>1, <4>1 DEF Unheld
      <3>2. CASE x # r
        <4>1. G.rep[x] = H.rep[x] /\ SoundRep(H, x)
          BY <1>3, <1>11, <3>2 DEF Sound
        <4> QED
          BY <4>1 DEF SameButLabels, SameText, SoundRep
      <3> QED
        BY <3>1, <3>2
    <2> QED
      BY <1>10, <2>1 DEF Relabels
  <1>14. \A x \in Reps : Content(G, x) = Content(H, x)
    BY <1>3, <1>13, TextsSound DEF Relabels, SameButLabels
  <1>15. ASSUME Careful PROVE Named(G)
    <2>1. Named(H) /\ hash = Content(G, r) /\ NewName(H, r)
      BY <1>14, <1>15 DEF Good
    <2>2. \A x \in Reps : x # r => Unchanged(H, G, x)
      BY <1>11, <1>14 DEF Unchanged
    <2>3. G.rep[r].hash = Content(G, r) /\ G.rep[r].isIdentifier
      BY <1>4, <1>12, <2>1
    <2>4. DOMAIN G.table = DOMAIN H.table \cup {r}
      BY <1>2, <1>7, <1>9
    <2>5. DOMAIN G.table = {x \in Reps : G.rep[x].isIdentifier}
      BY <2>1, <2>2, <2>3, <2>4 DEF Named, Unchanged
    <2>6. \A x \in Reps : G.rep[x].hash = NoHash \/ G.rep[x].hash = Content(G, x)
      BY <2>1, <2>2, <2>3 DEF Named, Unchanged
    <2>7. \A k \in DOMAIN H.table : k \in Reps /\ k # r
      BY <2>1 DEF Named
    <2>8. ASSUME NEW k \in DOMAIN H.table
          PROVE  /\ Content(G, k) # <<>> /\ Content(G, k) # Content(G, r)
                 /\ G.rep[k].hash = Content(G, k) /\ G.table[k] = Content(G, k)
                 /\ \A j \in DOMAIN H.table : Content(G, j) = Content(G, k) => j = k
      <3>1. G.table[k] = H.table[k]
        BY <1>2, <1>7, <1>9, <2>7
      <3>2. Content(G, k) # Content(G, r)
        BY <1>14, <2>1, <2>7 DEF NewName
      <3> QED
        BY <2>1, <2>2, <2>7, <3>1, <3>2 DEF Named, Unchanged
    <2>9. Content(G, r) # <<>> /\ G.table[r] = Content(G, r)
      BY <1>7, <1>9, <1>14, <2>1 DEF NewName
    <2>10. ASSUME NEW k \in DOMAIN G.table
           PROVE  /\ Content(G, k) # <<>>
                  /\ G.rep[k].hash = Content(G, k) /\ G.table[k] = Content(G, k)
                  /\ \A j \in DOMAIN G.table : Content(G, j) = Content(G, k) => j = k
      BY <2>3, <2>4, <2>8, <2>9
    <2> QED
      BY <2>5, <2>6, <2>10 DEF Named
  <1> QED
    BY <1>4, <1>12, <1>13, <1>14, <1>15, RelabelGood DEF Relabels, SameButLabels, WithKey

IsName(m) == Careful => m.r = Empty \/ m.h.rep[m.r].isIdentifier

LEMMA CopiedEmpty ==
    ASSUME NEW H, NEW c, NEW m, Good(H, c), m = Copied(H, Empty)
    PROVE  Yields(H, c, m, <<>>) /\ IsName(m)
  <1>1. PICK e : e = Empty
    OBVIOUS
  <1>2. Content(H, e) = <<>>
    BY <1>1, EmptyContent
  <1>3. Yields(H, c, m, Content(H, e))
    BY <1>1, CopiedYields DEF Pointers
  <1>4. m.r = Empty
    BY DEF Copied
  <1> QED
    BY <1>2, <1>3, <1>4 DEF IsName

\* A reference to an identifier.
LEMMA CopiedName ==
    ASSUME NEW H, NEW c, NEW r, NEW m, Good(H, c), r \in Reps, Careful => H.rep[r].isIdentifier,
           m = Copied(H, r)
    PROVE  Yields(H, c, m, Content(H, r)) /\ IsName(m)
  <1>1. PICK G : G = Ref(H, r)
    OBVIOUS
  <1>2. m.h = G /\ m.r = r
    BY <1>1 DEF Copied
  <1>3. CountOnly(H, r, G)
    BY <1>1, RefGood
  <1>4. G.rep[r].isIdentifier <=> H.rep[r].isIdentifier
    BY <1>3 DEF CountOnly, Unchanged
  <1>5. Yields(H, c, m, Content(H, r))
    BY CopiedYields DEF Pointers
  <1> QED
    BY <1>2, <1>4, <1>5 DEF IsName

LEMMA KeepsYields ==
    ASSUME NEW H, NEW G, NEW c, NEW m, NEW s, Keeps(H, G), Yields(G, c, m, s),
           \A x \in Reps : H.rep[x].rc # 0 => G.rep[x].rc # 0
    PROVE  Yields(H, c, m, s)
  <1>1. Keeps(H, m.h)
    BY KeepsTrans DEF Yields
  <1> QED
    BY <1>1 DEF Yields

LEMMA InternedYields ==
    ASSUME NEW H, NEW c, NEW r, NEW m, Good(H, c), r \in Pointers, Live(H, r), m = Interned(H, r)
    PROVE  Yields(H, c, m, Content(H, r)) /\ IsName(m)
  <1>1. Typed(H) /\ Sound(H)
    BY DEF Good
  <1>2. PICK s : s = Content(H, r)
    OBVIOUS
  <1>3. s \in Seq(Chars) /\ (Size(H, r) = 0 <=> s = <<>>)
    BY <1>1, <1>2, SizeIs DEF Pointers
  <1>4. CASE Size(H, r) = 0
    <2>1. m = Copied(H, Empty)
      BY <1>4 DEF Interned
    <2> QED
      BY <1>2, <1>3, <1>4, <2>1, CopiedEmpty
  <1>5. CASE Size(H, r) # 0 /\ H.rep[r].isIdentifier
    <2>1. m = Copied(H, r)
      BY <1>5, Zenon DEF Interned
    <2>2. r \in Reps
      BY <1>5 DEF Size, Pointers
    <2> QED
      BY <1>5, <2>1, <2>2, CopiedName
  <1>6. CASE Size(H, r) # 0 /\ ~H.rep[r].isIdentifier
    <2>1. r \in Reps /\ H.rep[r].rc # 0
      BY <1>6 DEF Size, Pointers, Live
    <2>2. PICK hash, h, found, k, G :
             /\ hash = Hash(H, r) /\ h = SetHash(H, r, hash) /\ found = Keys(h, hash, Content(h, r))
             /\ k = (CHOOSE x \in found : TRUE) /\ G = AddKey(H, r, hash)
      OBVIOUS
    <2>10. Good(h, c) /\ Hashed(H, h)
      BY ONLY Good(H, c), <1>6, <2>1, <2>2, HashedIs
    <2>3. /\ Good(h, c) /\ Keeps(H, h) /\ h.table = H.table
          /\ \A x \in Reps : Content(h, x) = Content(H, x) /\ h.rep[x].rc = H.rep[x].rc
      BY <2>10 DEF Hashed
    <2>4. hash \in Seq(Chars) /\ (Careful => hash = s)
      BY <1>2, <2>1, <2>2, HashIs
    <2>7. \/ found # {} /\ m = Copied(h, k)
          \/ found = {} /\ m = Copied(G, r)
      BY <1>6, <2>2, Zenon DEF Interned, SetHash
    <2>8. CASE found # {} /\ m = Copied(h, k)
      <3>1. k \in found
        BY <2>2, <2>8
      <3>2. k \in DOMAIN h.table /\ Content(h, k) = Content(h, r)
        BY <2>2, <3>1 DEF Keys
      <3>3. k \in Reps /\ Content(h, k) = s
        BY <1>2, <2>1, <2>3, <3>2 DEF Good, Typed
      <3>4. Careful => h.rep[k].isIdentifier
        BY <2>3, <3>2 DEF Good, Named
      <3>5. Yields(h, c, m, s) /\ IsName(m)
        BY <2>3, <2>8, <3>3, <3>4, CopiedName
      <3>6. \A x \in Reps : H.rep[x].rc # 0 => h.rep[x].rc # 0
        BY <2>3
      <3> QED
        BY <1>2, <2>3, <3>5, <3>6, KeepsYields
    <2>9. CASE found = {} /\ m = Copied(G, r)
      <3>1. Careful => NewName(H, r)
        <4>1. ASSUME Careful, NEW j \in DOMAIN H.table, Content(H, j) = Content(H, r) PROVE FALSE
          <5>1. H.table[j] = Content(H, j) /\ j \in Reps
            BY <1>1, <4>1 DEF Good, Named, Typed
          <5>2. h.table[j] = hash /\ Content(h, j) = Content(h, r) /\ j \in DOMAIN h.table
            BY <1>2, <2>1, <2>3, <2>4, <4>1, <5>1
          <5> QED
            BY <2>2, <2>9, <5>2 DEF Keys
        <4> QED
          BY <1>2, <1>3, <1>6, <4>1 DEF NewName
      <3>2. Good(G, c) /\ WithKey(H, r, G)
        BY <1>2, <1>6, <2>1, <2>2, <2>4, <3>1, KeyAdded
      <3>3. Content(G, r) = s /\ Keeps(H, G)
        BY <1>2, <2>1, <3>2 DEF WithKey
      <3>4. Yields(G, c, m, s) /\ IsName(m)
        BY <2>1, <2>9, <3>2, <3>3, CopiedName DEF WithKey
      <3>5. \A x \in Reps : H.rep[x].rc # 0 => G.rep[x].rc # 0
        BY <3>2 DEF WithKey
      <3> QED
        BY <1>2, <3>3, <3>4, <3>5, KeepsYields
    <2> QED
      BY <2>7, <2>8, <2>9
  <1> QED
    BY <1>4, <1>5, <1>6

\* A key that is found is live and has the characters that were looked for.
LEMMA FoundIs ==
    ASSUME NEW H, NEW c, NEW s, NEW k, Good(H, c), k \in Keys(H, s, s)
    PROVE  k \in Reps /\ Content(H, k) = s /\ (Careful => H.rep[k].isIdentifier)
  <1>1. k \in DOMAIN H.table /\ Content(H, k) = s
    BY DEF Keys
  <1>2. k \in Reps
    BY <1>1 DEF Good, Typed
  <1> QED
    BY <1>1, <1>2 DEF Good, Named

\* A key with other characters is still what it was when a Rep was made.
LEMMA StillNew ==
    ASSUME NEW H, NEW c, NEW s, NEW G, NEW r, Good(H, c), Named(H), Keys(H, s, s) = {},
           Keeps(H, G), G.table = H.table, s # <<>>, Content(G, r) = s
    PROVE  NewName(G, r)
  <1>1. ASSUME NEW j \in DOMAIN H.table PROVE Content(G, j) # s
    <2>1. j \in Reps /\ H.rep[j].isIdentifier /\ H.table[j] = Content(H, j)
      BY <1>1 DEF Named
    <2>2. H.rep[j].rc # 0
      BY <2>1 DEF Good, Sound, SoundRep, Unheld
    <2>3. Content(G, j) = Content(H, j)
      BY <2>1, <2>2 DEF Keeps
    <2>4. Content(H, j) # s
      BY <1>1, <2>1 DEF Keys
    <2> QED
      BY <2>3, <2>4
  <1> QED
    BY <1>1 DEF NewName

LEMMA InternedCharsYields ==
    ASSUME NEW H, NEW c, NEW s, NEW m, Good(H, c), Free(H) # {}, s \in Seq(Chars),
           Len(s) <= MaxLen, m = InternedChars(H, s)
    PROVE  Yields(H, c, m, s) /\ IsName(m)
  <1>1. PICK found, k, n, G : /\ found = Keys(H, s, s) /\ k = (CHOOSE x \in found : TRUE)
                              /\ n = Create(H, s, Len(s)) /\ G = AddKey(n.h, n.r, s)
    OBVIOUS
  <1>2. \/ s = <<>> /\ m = Copied(H, Empty)
        \/ s # <<>> /\ found # {} /\ m = Copied(H, k)
        \/ s # <<>> /\ found = {} /\ m = [r |-> n.r, h |-> G]
    BY <1>1, Zenon DEF InternedChars
  <1>3. CASE s = <<>> /\ m = Copied(H, Empty)
    BY <1>3, CopiedEmpty
  <1>4. CASE found # {} /\ m = Copied(H, k)
    <2>1. k \in Keys(H, s, s)
      BY <1>1, <1>4
    <2>2. k \in Reps /\ Content(H, k) = s /\ (Careful => H.rep[k].isIdentifier)
      BY <2>1, FoundIs
    <2>3. Yields(H, c, m, Content(H, k)) /\ IsName(m)
      BY <1>4, <2>2, CopiedName
    <2> QED
      BY <2>2, <2>3
  <1>5. CASE s # <<>> /\ found = {} /\ m = [r |-> n.r, h |-> G]
    <2>1. Yields(H, c, n, s) /\ NewCopy(H, n)
      <3>1. PICK capacity : capacity = Len(s)
        OBVIOUS
      <3>2. capacity \in Nat /\ Len(s) <= capacity
        BY <3>1
      <3>3. n = Create(H, s, capacity) /\ s # <<>>
        BY <1>1, <1>5, <3>1
      <3> QED
        BY ONLY Good(H, c), Free(H) # {}, s \in Seq(Chars), Len(s) <= MaxLen, <3>2, <3>3,
                CreateYields
    <2>2. PICK h, r, d : h = n.h /\ r = n.r /\ d = Plus(c, n.r)
      OBVIOUS
    <2>3. Good(h, d) /\ Content(h, r) = s /\ Keeps(H, h)
      BY <2>1, <2>2 DEF Yields
    <2>4. r \in Reps /\ H.rep[r].rc = 0 /\ Fresh(h.rep[r]) /\ h.table = H.table
      BY <2>1, <2>2 DEF NewCopy
    <2>5. h.rep[r].rc # 0 /\ ~h.rep[r].isIdentifier
      BY <2>4 DEF Fresh
    <2>6. Careful => s = Content(h, r) /\ NewName(h, r)
      <3>1. ASSUME Careful PROVE NewName(h, r)
        <4>1. Named(H)
          BY <3>1 DEF Good
        <4> QED
          BY <1>1, <1>5, <2>3, <2>4, <4>1, StillNew
      <3> QED
        BY <2>3, <3>1
    <2>7. G = AddKey(h, r, s)
      BY <1>1, <2>2
    <2>8. Good(G, d) /\ WithKey(h, r, G)
      BY <2>3, <2>4, <2>5, <2>6, <2>7, KeyAdded
    <2>9. m.h = G /\ m.r = r /\ IsResult(m)
      BY <1>5, <2>2 DEF IsResult
    <2>10. Content(G, r) = s /\ G.rep[r].isIdentifier
      BY <2>3, <2>4, <2>8 DEF WithKey
    <2>11. Keeps(H, G)
      BY <2>3, <2>8 DEF Keeps, WithKey
    <2> QED
      BY <2>2, <2>4, <2>8, <2>9, <2>10, <2>11 DEF Yields, IsName
  <1> QED
    BY <1>2, <1>3, <1>4, <1>5

------------------------------------------------------------------------------
(* The actions.                                                            *)

\* A variable refers to what has a count, and so does what a program names.
LEMMA VarLive ==
    ASSUME IInv, NEW v \in Vars, NEW c, c = Counts(var, ident)
    PROVE  /\ Good(heap, c) /\ var[v] \in Pointers /\ (var[v] \in Reps => c[var[v]] # 0)
           /\ Live(heap, var[v])
  <1>1. Good(heap, c) /\ var[v] \in Pointers
    BY DEF IInv, Pointers
  <1>2. var[v] \in Reps => c[var[v]] # 0
    BY CountsType
  <1> QED
    BY <1>1, <1>2, LiveByCount DEF Live

LEMMA IdentLive ==
    ASSUME IInv, NEW i \in Idents, NEW c, c = Counts(var, ident)
    PROVE  /\ Good(heap, c) /\ ident[i] \in Pointers /\ (ident[i] \in Reps => c[ident[i]] # 0)
           /\ Live(heap, ident[i])
  <1>1. Good(heap, c) /\ ident[i] \in Pointers
    BY DEF IInv, Pointers
  <1>2. ident[i] \in Reps => c[ident[i]] # 0
    BY CountsType
  <1> QED
    BY <1>1, <1>2, LiveByCount DEF Live

LEMMA StringLive ==
    ASSUME IInv, NEW w \in Strings
    PROVE  w \in Pointers /\ Live(heap, w) /\ Content(heap, w) \in Values!Strings
  <1>1. PICK c : c = Counts(var, ident)
    OBVIOUS
  <1>2. ASSUME NEW v \in Vars, w = var[v]
        PROVE  w \in Pointers /\ Live(heap, w) /\ Content(heap, w) \in Values!Strings
    <2>1. [x \in Vars |-> Content(heap, var[x])][v] = Content(heap, w)
      BY <1>2
    <2> QED
      BY <1>1, <1>2, <2>1, VarLive DEF Values!Strings
  <1>3. ASSUME NEW i \in Idents, w = ident[i]
        PROVE  w \in Pointers /\ Live(heap, w) /\ Content(heap, w) \in Values!Strings
    <2>1. [x \in Idents |-> Content(heap, ident[x])][i] = Content(heap, w)
      BY <1>3
    <2> QED
      BY <1>1, <1>3, <2>1, IdentLive DEF Values!Strings
  <1> QED
    BY <1>2, <1>3 DEF Strings

LEMMA Altered ==
    ASSUME IInv, NEW v \in Vars, NEW m, NEW s, AlterString(v, m),
           Result(heap, Counts(var, ident), var[v], m, s)
    PROVE  IInv' /\ Values!SetString(v, s)
  <1>1. var' = [var EXCEPT ![v] = m.r] /\ heap' = Forgotten(m.h) /\ ident' = ident
    BY DEF AlterString
  <1> QED
    BY <1>1, AlterStep

LEMMA Taken ==
    ASSUME IInv, NEW v \in Vars, NEW n, NEW s, TakeString(v, n),
           Yields(heap, Counts(var, ident), n, s)
    PROVE  IInv' /\ Values!SetString(v, s)
  <1>1. PICK c, r, m : c = Counts(var, ident) /\ r = var[v] /\ m = [n EXCEPT !.h = Deref(@, r)]
    OBVIOUS
  <1>2. AlterString(v, m)
    BY <1>1 DEF TakeString
  <1>3. Good(heap, c) /\ r \in Pointers /\ (r \in Reps => c[r] # 0)
    BY <1>1, VarLive
  <1>4. Yields(heap, c, n, s)
    BY <1>1
  <1>5. Result(heap, c, r, m, s)
    BY <1>1, <1>3, <1>4, TakenResult
  <1>6. Result(heap, Counts(var, ident), var[v], m, s)
    BY <1>1, <1>5
  <1> QED
    BY <1>2, <1>6, Altered

LEMMA NameTaken ==
    ASSUME IInv, NEW i \in Idents, NEW n, NEW s, TakeName(i, n),
           Yields(heap, Counts(var, ident), n, s), IsName(n)
    PROVE  IInv' /\ Values!SetName(i, s)
  <1>1. PICK c, r, m : c = Counts(var, ident) /\ r = ident[i] /\ m = [n EXCEPT !.h = Deref(@, r)]
    OBVIOUS
  <1>2. Good(heap, c) /\ r \in Pointers /\ (r \in Reps => c[r] # 0)
    BY <1>1, IdentLive
  <1>3. Yields(heap, c, n, s)
    BY <1>1
  <1>4. /\ Result(heap, c, r, m, s) /\ m.r = n.r /\ m.h = Deref(n.h, r) /\ Survives(n.h, m.h)
        /\ m.r \in Reps => m.h.rep[m.r].rc # 0
    BY <1>1, <1>2, <1>3, TakenResult
  <1>5. Result(heap, Counts(var, ident), ident[i], m, s)
    BY <1>1, <1>4
  <1>6. n.r \in Pointers
    BY <1>3 DEF Yields, Pointers
  <1>7. Careful => m.r = Empty \/ m.h.rep[m.r].isIdentifier
    BY <1>4, <1>6 DEF IsName, Survives, Unchanged, Pointers
  <1>8. ident' = [ident EXCEPT ![i] = m.r] /\ heap' = Forgotten(m.h) /\ var' = var
    BY <1>1, <1>4 DEF TakeName
  <1> QED
    BY <1>5, <1>7, <1>8, NameStep

\* The steps of StringValues, with the characters of what a program names.
LEMMA ValueOf ==
    ASSUME NEW v \in Vars
    PROVE  [x \in Vars |-> Content(heap, var[x])][v] = Content(heap, var[v])
  OBVIOUS

LEMMA SetsLiteral ==
    ASSUME NEW v \in Vars, NEW s \in Literals, Values!SetString(v, s)
    PROVE  Values!Next
  BY Zenon DEF Values!Next

LEMMA AppendsLiteral ==
    ASSUME NEW v \in Vars, NEW s \in Literals, NEW t, t = Content(heap, var[v]) \o s,
           Values!SetString(v, t)
    PROVE  Values!Next
  <1>1. Values!SetString(v, [x \in Vars |-> Content(heap, var[x])][v] \o s)
    BY ValueOf
  <1> QED
    BY <1>1, Zenon DEF Values!Next

LEMMA AppendsChar ==
    ASSUME NEW v \in Vars, NEW a \in Chars, NEW t, t = Append(Content(heap, var[v]), a),
           Values!SetString(v, t)
    PROVE  Values!Next
  <1>1. Values!SetString(v, Append([x \in Vars |-> Content(heap, var[x])][v], a))
    BY ValueOf
  <1> QED
    BY <1>1, Zenon DEF Values!Next

LEMMA Lowers ==
    ASSUME NEW v \in Vars, NEW t, t = LowerCase(Content(heap, var[v])), Values!SetString(v, t)
    PROVE  Values!Next
  <1>1. t = Values!Lowered([x \in Vars |-> Content(heap, var[x])][v])
    BY ValueOf DEF LowerCase, Values!Lowered
  <1>2. Values!SetString(v, Values!Lowered([x \in Vars |-> Content(heap, var[x])][v]))
    BY <1>1
  <1> QED
    BY <1>2, Zenon DEF Values!Next

LEMMA SetsString ==
    ASSUME NEW v \in Vars, NEW s \in Values!Strings, Values!SetString(v, s)
    PROVE  Values!Next
  BY Zenon DEF Values!Next

LEMMA AppendsString ==
    ASSUME NEW v \in Vars, NEW s \in Values!Strings, NEW t, t = Content(heap, var[v]) \o s,
           Values!SetString(v, t)
    PROVE  Values!Next
  <1>1. Values!SetString(v, [x \in Vars |-> Content(heap, var[x])][v] \o s)
    BY ValueOf
  <1> QED
    BY <1>1, Zenon DEF Values!Next

LEMMA SetsPart ==
    ASSUME NEW v \in Vars, NEW s \in Values!Strings, s \in Seq(Chars),
           NEW p \in Nat, NEW l \in Nat, p + l <= Len(s), NEW t, t = SubSeq(s, p + 1, p + l),
           Values!SetString(v, t)
    PROVE  Values!Next
  <1>1. p + 1 \in 1 .. Len(s) + 1 /\ p + l \in 0 .. Len(s)
    OBVIOUS
  <1>2. t \in Values!Substrings(s)
    BY <1>1 DEF Values!Substrings
  <1> QED
    BY <1>2, Zenon DEF Values!Next

LEMMA SetsJoin ==
    ASSUME NEW v \in Vars, NEW s \in Values!Strings, NEW t \in Values!Strings,
           Values!SetString(v, s \o t)
    PROVE  Values!Next
  BY Zenon DEF Values!Next

LEMMA SetsName ==
    ASSUME NEW i \in Idents, NEW s \in Values!Strings \cup Literals, Values!SetName(i, s)
    PROVE  Values!Next
  BY Zenon DEF Values!Next

LEMMA LiteralType ==
    ASSUME NEW s \in Literals
    PROVE  s \in Seq(Chars) /\ Len(s) \in Nat /\ Len(s) <= MaxLen
  BY StringsAssumption

LEMMA NewStep ==
    ASSUME IInv, NEW v \in Vars, NEW s \in Literals, New(v, s)
    PROVE  IInv' /\ Values!Next
  <1>1. PICK H, c, n : /\ H = heap /\ c = Counts(var, ident)
                       /\ n = IF s = <<>> THEN Copied(H, Empty) ELSE Create(H, s, Len(s))
    OBVIOUS
  <1>2. Free(H) # {} /\ TakeString(v, n)
    BY <1>1 DEF New, CanMake
  <1>3. Good(H, c)
    BY <1>1, VarLive
  <1>4. Yields(H, c, n, s)
    <2>1. CASE s = <<>>
      BY <1>1, <1>3, <2>1, CopiedEmpty
    <2>2. CASE s # <<>>
      <3>1. PICK capacity : capacity = Len(s)
        OBVIOUS
      <3>2. s \in Seq(Chars) /\ Len(s) <= MaxLen /\ capacity \in Nat /\ Len(s) <= capacity
        BY <3>1, LiteralType
      <3>3. n = Create(H, s, capacity)
        BY <1>1, <2>2, <3>1
      <3> QED
        BY ONLY <1>2, <1>3, <2>2, <3>2, <3>3, CreateYields
    <2> QED
      BY <2>1, <2>2
  <1>5. IInv' /\ Values!SetString(v, s)
    BY <1>1, <1>2, <1>4, Taken
  <1> QED
    BY <1>5, SetsLiteral

LEMMA StepOfAssign ==
    ASSUME IInv, NEW v \in Vars, NEW w \in Strings, Assign(v, w)
    PROVE  IInv' /\ Values!Next
  <1>1. PICK H, c, n, s : /\ H = heap /\ c = Counts(var, ident) /\ n = Copied(H, w)
                          /\ s = Content(H, w)
    OBVIOUS
  <1>2. TakeString(v, n)
    BY <1>1 DEF Assign
  <1>3. Good(H, c)
    BY <1>1, VarLive
  <1>4. w \in Pointers /\ s \in Values!Strings
    BY <1>1, StringLive
  <1>5. Yields(H, c, n, s)
    BY <1>1, <1>3, <1>4, CopiedYields
  <1>6. IInv' /\ Values!SetString(v, s)
    BY <1>1, <1>2, <1>5, Taken
  <1> QED
    BY <1>4, <1>6, SetsString

LEMMA StepOfConcat ==
    ASSUME IInv, NEW v \in Vars, NEW a \in Strings, NEW b \in Strings, Concat(v, a, b)
    PROVE  IInv' /\ Values!Next
  <1>1. PICK H, c, n, s, t : /\ H = heap /\ c = Counts(var, ident) /\ n = Concatenated(H, a, b)
                             /\ s = Content(H, a) /\ t = Content(H, b)
    OBVIOUS
  <1>2. TakeString(v, n) /\ Free(H) # {} /\ Size(H, a) + Size(H, b) <= MaxLen
    BY <1>1 DEF Concat, CanMake
  <1>3. Good(H, c)
    BY <1>1, VarLive
  <1>4. /\ a \in Pointers /\ Live(H, a) /\ s \in Values!Strings
        /\ b \in Pointers /\ Live(H, b) /\ t \in Values!Strings
    BY <1>1, StringLive
  <1>5. Yields(H, c, n, s \o t)
    BY <1>1, <1>2, <1>3, <1>4, ConcatenatedYields
  <1>6. IInv' /\ Values!SetString(v, s \o t)
    BY <1>1, <1>2, <1>5, Taken
  <1> QED
    BY <1>4, <1>6, SetsJoin

\* append to a string that is not empty.
LEMMA StepOfExtended ==
    ASSUME IInv, NEW v \in Vars, NEW s, s \in Seq(Chars), s # <<>>, CanMake,
           Size(heap, var[v]) # 0, Size(heap, var[v]) + Len(s) <= MaxLen,
           MayAlter(var[v]), AlterString(v, Extended(heap, var[v], s))
    PROVE  IInv' /\ Values!SetString(v, Content(heap, var[v]) \o s)
  <1>1. PICK H, c, r, m : /\ H = heap /\ c = Counts(var, ident) /\ r = var[v]
                          /\ m = Extended(H, r, s)
    OBVIOUS
  <1>2. Good(H, c) /\ r \in Pointers /\ (r \in Reps => c[r] # 0)
    BY <1>1, VarLive
  <1>3. r # Empty /\ Size(H, r) = H.rep[r].len
    BY <1>1 DEF Size
  <1>4. r \in Reps /\ c[r] # 0 /\ H.rep[r].len # 0 /\ H.rep[r].len + Len(s) <= MaxLen
    BY <1>1, <1>2, <1>3 DEF Pointers
  <1>5. Free(H) # {} /\ (Careful /\ Alterable(H, r) => ~H.rep[r].isIdentifier)
    BY <1>1 DEF CanMake, MayAlter
  <1>6. Result(H, c, r, m, Content(H, r) \o s)
    BY ONLY s \in Seq(Chars), s # <<>>, <1>1, <1>2, <1>4, <1>5, ExtendedResult
  <1>7. AlterString(v, m)
    BY <1>1
  <1> QED
    BY <1>1, <1>6, <1>7, Altered

LEMMA StepOfAppendString ==
    ASSUME IInv, NEW v \in Vars, NEW w \in Strings, AppendString(v, w)
    PROVE  IInv' /\ Values!Next
  <1>1. PICK H, c, n, s : /\ H = heap /\ c = Counts(var, ident) /\ n = Copied(H, w)
                          /\ s = Content(H, w)
    OBVIOUS
  <1>2. /\ CanMake /\ s # <<>> /\ Size(heap, var[v]) + Len(s) <= MaxLen
        /\ \/ TakeString(v, n)
           \/ /\ Size(heap, var[v]) # 0 /\ MayAlter(var[v])
              /\ AlterString(v, Extended(heap, var[v], s))
    BY <1>1 DEF AppendString
  <1>3. Good(H, c)
    BY <1>1, VarLive
  <1>4. w \in Pointers /\ s \in Values!Strings
    BY <1>1, StringLive
  <1>5. CASE TakeString(v, n)
    <2>1. Yields(H, c, n, s)
      BY <1>1, <1>3, <1>4, CopiedYields
    <2>2. IInv' /\ Values!SetString(v, s)
      BY <1>1, <1>5, <2>1, Taken
    <2> QED
      BY <1>4, <2>2, SetsString
  <1>6. CASE /\ Size(heap, var[v]) # 0 /\ MayAlter(var[v])
             /\ AlterString(v, Extended(heap, var[v], s))
    <2>1. s \in Seq(Chars)
      BY <1>1, <1>3, <1>4, SizeIs DEF Good, Pointers
    <2>2. IInv' /\ Values!SetString(v, Content(heap, var[v]) \o s)
      BY <1>2, <1>6, <2>1, StepOfExtended
    <2> QED
      BY <1>4, <2>2, AppendsString
  <1> QED
    BY <1>2, <1>5, <1>6

\* An assignment of characters in place.
LEMMA StepOfAssigned ==
    ASSUME IInv, NEW v \in Vars, NEW s, s \in Seq(Chars), Len(s) <= MaxLen, CanMake,
           Careful => Size(heap, var[v]) = 0, AlterString(v, AssignedChars(heap, var[v], s))
    PROVE  IInv' /\ (Size(heap, var[v]) = 0 => Values!SetString(v, s))
  <1>1. PICK H, c, r, m, t : /\ H = heap /\ c = Counts(var, ident) /\ r = var[v]
                             /\ m = AssignedChars(H, r, s) /\ t = Content(m.h, m.r)
    OBVIOUS
  <1>2. Good(H, c) /\ r \in Pointers /\ (r \in Reps => c[r] # 0)
    BY <1>1, VarLive
  <1>3. Free(H) # {} /\ (Careful => Size(H, r) = 0) /\ AlterString(v, m)
    BY <1>1 DEF CanMake
  <1>4. Result(H, c, r, m, t) /\ (Size(H, r) = 0 => t = s)
    BY ONLY s \in Seq(Chars), Len(s) <= MaxLen, <1>1, <1>2, <1>3, AssignedResult
  <1>5. IInv' /\ Values!SetString(v, t)
    BY <1>1, <1>3, <1>4, Altered
  <1> QED
    BY <1>1, <1>4, <1>5

LEMMA StepOfAppendChars ==
    ASSUME IInv, NEW v \in Vars, NEW s \in Literals, AppendChars(v, s)
    PROVE  IInv' /\ Values!Next
  <1>1. s \in Seq(Chars) /\ Len(s) <= MaxLen
    BY LiteralType
  <1>2. /\ CanMake /\ s # <<>> /\ Size(heap, var[v]) + Len(s) <= MaxLen
        /\ \/ Size(heap, var[v]) = 0 /\ AlterString(v, AssignedChars(heap, var[v], s))
           \/ /\ Size(heap, var[v]) # 0 /\ MayAlter(var[v])
              /\ AlterString(v, Extended(heap, var[v], s))
    BY DEF AppendChars
  <1>3. CASE Size(heap, var[v]) = 0 /\ AlterString(v, AssignedChars(heap, var[v], s))
    <2>1. IInv' /\ Values!SetString(v, s)
      BY <1>1, <1>2, <1>3, StepOfAssigned
    <2> QED
      BY <2>1, SetsLiteral
  <1>4. CASE /\ Size(heap, var[v]) # 0 /\ MayAlter(var[v])
             /\ AlterString(v, Extended(heap, var[v], s))
    <2>1. IInv' /\ Values!SetString(v, Content(heap, var[v]) \o s)
      BY <1>1, <1>2, <1>4, StepOfExtended
    <2> QED
      BY <2>1, AppendsLiteral
  <1> QED
    BY <1>2, <1>3, <1>4

LEMMA StepOfAssignChars ==
    ASSUME IInv, NEW v \in Vars, NEW s \in Literals, AssignChars(v, s)
    PROVE  IInv' /\ (Careful => Values!Next)
  <1>1. s \in Seq(Chars) /\ Len(s) <= MaxLen
    BY LiteralType
  <1>2. /\ CanMake /\ (Careful => Size(heap, var[v]) = 0)
        /\ AlterString(v, AssignedChars(heap, var[v], s))
    BY DEF AssignChars
  <1>3. IInv' /\ (Size(heap, var[v]) = 0 => Values!SetString(v, s))
    BY <1>1, <1>2, StepOfAssigned
  <1> QED
    BY <1>2, <1>3, SetsLiteral

LEMMA JoinsOne ==
    ASSUME NEW s \in Seq(Chars), NEW a \in Chars
    PROVE  /\ s \o <<a>> = Append(s, a) /\ <<a>> \in Seq(Chars) /\ Len(<<a>>) = 1
           /\ s = <<>> => Append(s, a) = <<a>>
  <1>1. s \o <<a>> = Append(s, a)
    BY AppendIsConcat
  <1>2. <<a>> \in Seq(Chars) /\ Len(<<a>>) = 1
    OBVIOUS
  <1>3. Append(<<>>, a) = <<a>>
    OBVIOUS
  <1> QED
    BY <1>1, <1>2, <1>3

LEMMA StepOfAppendChar ==
    ASSUME IInv, NEW v \in Vars, NEW a \in Chars, AppendChar(v, a)
    PROVE  IInv' /\ Values!Next
  <1>1. PICK H, c, n, s, t, capacity :
            /\ H = heap /\ c = Counts(var, ident) /\ s = <<a>> /\ t = Content(H, var[v])
            /\ capacity = expandedSize(1, 0) /\ n = Create(H, s, capacity)
    OBVIOUS
  <1>2. /\ CanMake /\ Size(heap, var[v]) < MaxLen
        /\ \/ Size(heap, var[v]) = 0 /\ TakeString(v, n)
           \/ /\ Size(heap, var[v]) # 0 /\ MayAlter(var[v])
              /\ AlterString(v, Extended(heap, var[v], s))
    BY <1>1 DEF AppendChar
  <1>3. Good(H, c) /\ var[v] \in Pointers
    BY <1>1, VarLive
  <1>4. t \in Seq(Chars) /\ Size(heap, var[v]) \in Nat /\ (Size(heap, var[v]) = 0 => t = <<>>)
    BY <1>1, <1>3, SizeIs DEF Good, Pointers
  <1>5. /\ t \o s = Append(t, a) /\ s \in Seq(Chars) /\ Len(s) = 1
        /\ t = <<>> => Append(t, a) = s
    BY <1>1, <1>4, JoinsOne
  <1>6. s # <<>>
    BY <1>1
  <1>7. Size(heap, var[v]) + Len(s) <= MaxLen /\ Len(s) <= MaxLen
    BY <1>2, <1>4, <1>5, StringsAssumption
  <1>8. CASE Size(heap, var[v]) = 0 /\ TakeString(v, n)
    <2>1. capacity \in Nat /\ Len(s) <= capacity
      <3>1. PICK one, none : one = 1 /\ none = 0
        OBVIOUS
      <3>2. one \in Nat /\ none \in Nat /\ capacity = expandedSize(one, none)
        BY <1>1, <3>1
      <3>3. capacity \in Nat /\ capacity > one + none
        BY <3>2, Expanded
      <3> QED
        BY <1>5, <3>1, <3>3
    <2>2. Yields(H, c, n, s)
      <3>1. Free(H) # {} /\ n = Create(H, s, capacity)
        BY <1>1, <1>2 DEF CanMake
      <3> QED
        BY ONLY <1>3, <1>5, <1>6, <1>7, <2>1, <3>1, CreateYields
    <2>3. IInv' /\ Values!SetString(v, s)
      BY <1>1, <1>8, <2>2, Taken
    <2>4. s = Append(Content(heap, var[v]), a)
      BY <1>1, <1>4, <1>5, <1>8
    <2> QED
      BY <2>3, <2>4, AppendsChar
  <1>9. CASE /\ Size(heap, var[v]) # 0 /\ MayAlter(var[v])
             /\ AlterString(v, Extended(heap, var[v], s))
    <2>1. IInv' /\ Values!SetString(v, Content(heap, var[v]) \o s)
      BY <1>2, <1>5, <1>6, <1>7, <1>9, StepOfExtended
    <2>2. PICK u : u = Content(heap, var[v]) \o s
      OBVIOUS
    <2>3. u = Append(Content(heap, var[v]), a)
      BY <1>1, <1>5, <2>2
    <2> QED
      BY <2>1, <2>2, <2>3, AppendsChar
  <1> QED
    BY <1>2, <1>8, <1>9

LEMMA StepOfSubstr ==
    ASSUME IInv, NEW v \in Vars, NEW w \in Strings, NEW cut \in Cuts,
           Substr(v, w, cut[1], cut[2])
    PROVE  IInv' /\ Values!Next
  <1>1. PICK H, c, pos, len, n, s :
            /\ H = heap /\ c = Counts(var, ident) /\ pos = cut[1] /\ len = cut[2]
            /\ n = Substring(H, w, pos, len) /\ s = Content(H, w)
    OBVIOUS
  <1>2. pos \in Nat /\ len \in Nat
    BY <1>1, StringsAssumption
  <1>3. TakeString(v, n) /\ Free(H) # {}
    BY <1>1 DEF Substr, CanMake
  <1>4. Good(H, c)
    BY <1>1, VarLive
  <1>5. w \in Pointers /\ Live(H, w) /\ s \in Values!Strings
    BY <1>1, StringLive
  <1>6. s \in Seq(Chars)
    BY <1>1, <1>4, <1>5, SizeIs DEF Good, Pointers
  <1>7. PICK p \in Nat, l \in Nat : p + l <= Len(s) /\ Yields(H, c, n, SubSeq(s, p + 1, p + l))
    BY <1>1, <1>2, <1>3, <1>4, <1>5, SubstringYields
  <1>8. PICK t : t = SubSeq(s, p + 1, p + l)
    OBVIOUS
  <1>9. IInv' /\ Values!SetString(v, t)
    BY <1>1, <1>3, <1>7, <1>8, Taken
  <1> QED
    BY <1>5, <1>6, <1>7, <1>8, <1>9, SetsPart

LEMMA StepOfMakeLower ==
    ASSUME IInv, NEW v \in Vars, MakeLower(v)
    PROVE  IInv' /\ Values!Next
  <1>1. PICK H, c, r, m : /\ H = heap /\ c = Counts(var, ident) /\ r = var[v]
                          /\ m = CopiedForWriting(H, r)
    OBVIOUS
  <1>2. PICK s : s = Content(m.h, m.r)
    OBVIOUS
  <1>3. PICK w : w = Writes(m, LowerCase(s))
    OBVIOUS
  <1>4. Free(H) # {} /\ (Careful => ~Alterable(H, r)) /\ AlterString(v, w)
    BY <1>1, <1>2, <1>3, Zenon DEF MakeLower, CanMake, Writes, LowerCase
  <1>5. Good(H, c) /\ r \in Pointers /\ (r \in Reps => c[r] # 0)
    BY <1>1, VarLive
  <1>6. Result(H, c, r, w, LowerCase(Content(H, r)))
    BY <1>3, <1>4, <1>5, <1>1, <1>2, LoweredResult
  <1>7. PICK t : t = LowerCase(Content(heap, var[v]))
    OBVIOUS
  <1>8. IInv' /\ Values!SetString(v, t)
    BY <1>4, <1>6, <1>7, <1>1, Altered
  <1> QED
    BY <1>7, <1>8, Lowers

LEMMA StepOfName ==
    ASSUME IInv, NEW i \in Idents, NEW w \in Strings, Name(i, w)
    PROVE  IInv' /\ Values!Next
  <1>1. PICK H, c, n, s : /\ H = heap /\ c = Counts(var, ident) /\ n = Interned(H, w)
                          /\ s = Content(H, w)
    OBVIOUS
  <1>2. TakeName(i, n)
    BY <1>1 DEF Name
  <1>3. Good(H, c)
    BY <1>1, IdentLive
  <1>4. w \in Pointers /\ Live(H, w) /\ s \in Values!Strings
    BY <1>1, StringLive
  <1>5. Yields(H, c, n, s) /\ IsName(n)
    BY <1>1, <1>3, <1>4, InternedYields
  <1>6. IInv' /\ Values!SetName(i, s)
    BY <1>1, <1>2, <1>5, NameTaken
  <1> QED
    BY <1>4, <1>6, SetsName

LEMMA StepOfNameChars ==
    ASSUME IInv, NEW i \in Idents, NEW s \in Literals, NameChars(i, s)
    PROVE  IInv' /\ Values!Next
  <1>1. PICK H, c, n : H = heap /\ c = Counts(var, ident) /\ n = InternedChars(H, s)
    OBVIOUS
  <1>2. TakeName(i, n) /\ Free(H) # {}
    BY <1>1 DEF NameChars, CanMake
  <1>3. Good(H, c)
    BY <1>1, IdentLive
  <1>4. s \in Seq(Chars) /\ Len(s) <= MaxLen
    BY LiteralType
  <1>5. Yields(H, c, n, s) /\ IsName(n)
    BY <1>1, <1>2, <1>3, <1>4, InternedCharsYields
  <1>6. IInv' /\ Values!SetName(i, s)
    BY <1>1, <1>2, <1>5, NameTaken
  <1> QED
    BY <1>6, SetsName

\* Each action keeps the invariant and is an operation on the values.
LEMMA NextStep ==
    ASSUME IInv, Next
    PROVE  IInv' /\ (Careful => Values!Next)
  <1>1. CASE \E v \in Vars, s \in Literals : New(v, s) \/ AppendChars(v, s) \/ AssignChars(v, s)
    BY <1>1, NewStep, StepOfAppendChars, StepOfAssignChars
  <1>2. CASE \E v \in Vars, a \in Chars : AppendChar(v, a)
    BY <1>2, StepOfAppendChar
  <1>3. CASE \E v \in Vars : MakeLower(v)
    BY <1>3, StepOfMakeLower
  <1>4. CASE \E v \in Vars, w \in Strings : Assign(v, w) \/ AppendString(v, w)
    BY <1>4, StepOfAssign, StepOfAppendString
  <1>5. CASE \E v \in Vars, w \in Strings, cut \in Cuts : Substr(v, w, cut[1], cut[2])
    BY <1>5, StepOfSubstr
  <1>6. CASE \E v \in Vars, a, b \in Strings : Concat(v, a, b)
    BY <1>6, StepOfConcat
  <1>7. CASE \E i \in Idents, w \in Strings : Name(i, w)
    BY <1>7, StepOfName
  <1>8. CASE \E i \in Idents, s \in Literals : NameChars(i, s)
    BY <1>8, StepOfNameChars
  <1> QED
    BY <1>1, <1>2, <1>3, <1>4, <1>5, <1>6, <1>7, <1>8 DEF Next

------------------------------------------------------------------------------
(* The theorems.                                                           *)

LEMMA NoHandles ==
    ASSUME NEW f \in [Vars -> {Empty}], NEW g \in [Idents -> {Empty}]
    PROVE  Counts(f, g) = [r \in Reps |-> 0]
  <1>1. ASSUME NEW r \in Reps PROVE Counts(f, g)[r] = 0
    <2>1. HandlesAt(Vars, f, r) = {} /\ HandlesAt(Idents, g, r) = {}
      BY RepsPositive DEF HandlesAt
    <2>2. Cardinality(HandlesAt(Vars, f, r)) = 0 /\ Cardinality(HandlesAt(Idents, g, r)) = 0
      BY <2>1, FS_EmptySet
    <2> QED
      BY <2>2 DEF Counts
  <1> QED
    BY <1>1 DEF Counts

LEMMA NothingMade ==
    ASSUME NEW H, H = [rep |-> [r \in Reps |-> Freed], table |-> <<>>],
           NEW c, c = [r \in Reps |-> 0]
    PROVE  Good(H, c)
  <1>1. \A r \in Reps : H.rep[r] = Freed
    OBVIOUS
  <1>2. \A r \in Reps : SoundRep(H, r) /\ Freed \in RepType
    BY <1>1, FreedSound
  <1>3. Freed.rc = 0 /\ Freed.base = NoBase /\ Freed.hash = NoHash /\ ~Freed.isIdentifier
    BY DEF Freed, RepOf
  <1>4. H.table = <<>> /\ DOMAIN H.table = {}
    OBVIOUS
  <1>5. H.table \in [DOMAIN H.table -> Seq(Chars)]
    BY <1>4
  <1>6. H.rep \in [Reps -> RepType]
    BY <1>2
  <1>7. Typed(H)
    BY <1>4, <1>5, <1>6 DEF Typed
  <1>8. Counted(H, c)
    <2>1. ASSUME NEW r \in Reps PROVE H.rep[r].rc = c[r] + Cardinality(Windows(H, r))
      <3>1. Windows(H, r) = {}
        BY <1>1, <1>3, RepsPositive DEF Windows
      <3>2. Cardinality(Windows(H, r)) = 0
        BY <3>1, FS_EmptySet
      <3> QED
        BY <1>1, <1>3, <3>2
    <2> QED
      BY <2>1 DEF Counted
  <1>9. Named(H)
    BY <1>1, <1>3, <1>4 DEF Named
  <1> QED
    BY <1>2, <1>7, <1>8, <1>9 DEF Good, Sound

LEMMA InitIsInv ==
    ASSUME Init
    PROVE  IInv
  <1>1. var \in [Vars -> {Empty}] /\ ident \in [Idents -> {Empty}]
    BY DEF Init
  <1>2. Counts(var, ident) = [r \in Reps |-> 0]
    BY <1>1, NoHandles
  <1>3. Good(heap, Counts(var, ident))
    BY <1>2, NothingMade DEF Init
  <1> QED
    BY <1>1, <1>3 DEF IInv

\* An allocated Rep.
LEMMA AllocatedIs ==
    ASSUME NEW r
    PROVE  r \in Allocated <=> r \in Reps /\ heap.rep[r].rc # 0
  BY DEF Allocated, Free

LEMMA InvIsTypeOK ==
    ASSUME IInv
    PROVE  TypeOK
  <1>1. PICK H, c : H = heap /\ c = Counts(var, ident)
    OBVIOUS
  <1>2. Typed(H) /\ Sound(H)
    BY <1>1 DEF IInv, Good
  <1>3. ASSUME NEW r \in Reps, NEW R, NEW B, R = H.rep[r], B = H.rep[Owner(H, r)]
        PROVE  /\ R.rc \in Nat
               /\ B.base = NoBase
               /\ Len(B.buf) = B.preCapacity + B.capacity
               /\ B.usedCapacity \in 0 .. B.capacity
               /\ B.usedPreCapacity \in 0 .. B.preCapacity
               /\ -R.offset <= B.usedPreCapacity
               /\ R.offset + R.len <= B.usedCapacity
               /\ R.len \in 0 .. MaxLen
               /\ \A n \in DOMAIN Content(H, r) : Content(H, r)[n] \in Chars
    <2>1. B \in RepType /\ B.base = NoBase /\ Buffer(B) /\ Window(R, B)
      BY <1>2, <1>3, OwnerSound
    <2>2. R \in RepType /\ R.len <= MaxLen
      BY <1>2, <1>3, RepTypes DEF Sound, SoundRep
    <2>3. /\ R.offset \in Int /\ R.len \in Nat /\ R.rc \in Nat
          /\ B.usedCapacity \in Nat /\ B.capacity \in Nat
          /\ B.usedPreCapacity \in Nat /\ B.preCapacity \in Nat
      BY <2>1, <2>2 DEF RepType
    <2>4. Len(B.buf) = B.preCapacity + B.capacity
      BY <2>1 DEF Buffer
    <2>5. B.usedCapacity \in 0 .. B.capacity /\ B.usedPreCapacity \in 0 .. B.preCapacity
      BY <2>1, <2>3 DEF Buffer
    <2>6. -R.offset <= B.usedPreCapacity /\ R.offset + R.len <= B.usedCapacity
      BY <2>1, <2>3 DEF Window
    <2>7. R.len \in 0 .. MaxLen
      BY <2>2, <2>3, StringsAssumption
    <2>8. Content(H, r) \in Seq(Chars)
      BY <1>2, ContentReads
    <2> QED
      BY <2>1, <2>3, <2>4, <2>5, <2>6, <2>7, <2>8
  <1>4. \A r \in Allocated : r \in Reps
    BY AllocatedIs
  <1>5. var \in [Vars -> Reps \cup {Empty}] /\ ident \in [Idents -> Reps \cup {Empty}]
    BY DEF IInv
  <1> QED
    BY <1>1, <1>3, <1>4, <1>5 DEF TypeOK

LEMMA InvIsRefCountsExact ==
    ASSUME IInv
    PROVE  RefCountsExact
  <1>1. PICK c : c = Counts(var, ident)
    OBVIOUS
  <1>2. Good(heap, c)
    BY <1>1 DEF IInv
  <1>3. \A x \in Reps : heap.rep[x].rc = 0 => heap.rep[x].base = NoBase
    BY <1>2 DEF Good, Sound, SoundRep, Unheld
  <1>4. ASSUME NEW r \in Allocated
        PROVE  heap.rep[r].rc = Handles(r) + Cardinality({x \in Allocated : heap.rep[x].base = r})
    <2>1. r \in Reps
      BY AllocatedIs
    <2>2. heap.rep[r].rc = c[r] + Cardinality(Windows(heap, r))
      BY <1>2, <2>1, GoodParts
    <2>3. Windows(heap, r) = {x \in Allocated : heap.rep[x].base = r}
      BY <1>3, <2>1, AllocatedIs, RepsPositive DEF Windows
    <2>4. c[r] = Handles(r)
      BY <1>1, <2>1 DEF Counts, Handles, HandlesAt
    <2> QED
      BY <2>2, <2>3, <2>4
  <1>5. \A v \in Vars : var[v] \in Allocated \cup {Empty}
    BY <1>1, VarLive, AllocatedIs DEF Pointers, Live
  <1>6. \A i \in Idents : ident[i] \in Allocated \cup {Empty}
    BY <1>1, IdentLive, AllocatedIs DEF Pointers, Live
  <1> QED
    BY <1>4, <1>5, <1>6 DEF RefCountsExact

LEMMA InvIsNamesUnique ==
    ASSUME IInv, Careful
    PROVE  NamesUnique
  <1>1. Named(heap) /\ Sound(heap)
    BY DEF IInv, Good
  <1>2. \A r \in Reps : heap.rep[r].isIdentifier => r \in Allocated
    BY <1>1, AllocatedIs DEF Sound, SoundRep, Unheld
  <1>3. DOMAIN heap.table = {r \in Reps : heap.rep[r].isIdentifier}
    BY <1>1 DEF Named
  <1>4. DOMAIN heap.table = {r \in Allocated : heap.rep[r].isIdentifier}
    BY <1>2, <1>3, AllocatedIs
  <1>5. ASSUME NEW k \in DOMAIN heap.table
        PROVE  /\ Keys(heap, Hash(heap, k), Content(heap, k)) = {k}
               /\ Hash(heap, k) = Content(heap, k)
    <2>1. /\ Content(heap, k) # <<>>
          /\ heap.rep[k].hash = Content(heap, k) /\ heap.table[k] = Content(heap, k)
          /\ \A j \in DOMAIN heap.table : Content(heap, j) = Content(heap, k) => j = k
      BY <1>1 DEF Named
    <2>2. Hash(heap, k) = Content(heap, k)
      BY <2>1 DEF Hash, NoHash
    <2> QED
      BY <2>1, <2>2 DEF Keys
  <1>6. \A i \in Idents : ident[i] \in DOMAIN heap.table \cup {Empty}
    BY <1>3 DEF IInv
  <1> QED
    BY <1>4, <1>5, <1>6 DEF NamesUnique

LEMMA StepKeeps ==
    ASSUME IInv, [Next]_vars
    PROVE  IInv'
  <1>1. CASE Next
    BY <1>1, NextStep
  <1>2. CASE UNCHANGED vars
    BY <1>2, Zenon DEF IInv, vars
  <1> QED
    BY <1>1, <1>2

\* Each state of the strings and of the table is as the lemmas above need it,
\* whether or not callers change identifiers in place.
THEOREM Invariance == Spec => []IInv
  <1>1. Init => IInv
    BY InitIsInv
  <1>2. IInv /\ [Next]_vars => IInv'
    BY StepKeeps
  <1> QED
    BY <1>1, <1>2, PTL DEF Spec

\* Each Rep is a window within the used part of a buffer, for any callers:
\* the assertions of Rep::create.
THEOREM TypeCorrect == Spec => []TypeOK
  <1>1. IInv => TypeOK
    BY InvIsTypeOK
  <1> QED
    BY <1>1, Invariance, PTL

\* ref() and deref() of strings that share buffers free each Rep with its
\* last reference, and none before, for any callers.
THEOREM RefCountsAreExact == Spec => []RefCountsExact
  <1>1. IInv => RefCountsExact
    BY InvIsRefCountsExact
  <1> QED
    BY <1>1, Invariance, PTL

\* Equal identifiers are the same Rep, if callers change no identifier in
\* place: the comparison of pointers in Identifier::operator==.
THEOREM NamesAreUnique ==
    ASSUME Careful
    PROVE  Spec => []NamesUnique
  <1>1. IInv => NamesUnique
    BY InvIsNamesUnique
  <1> QED
    BY <1>1, Invariance, PTL

\* Strings that share buffers, and Reps that are identifiers, are values: an
\* operation changes the variable it is called on and no other.
THEOREM StringsAreValues ==
    ASSUME Careful
    PROVE  Spec => ImplementsStringValues
  <1>1. Init => Values!Init
    BY EmptyContent DEF Init, Values!Init
  <1>2. IInv /\ [Next]_vars =>
            [Values!Next]_<<[v \in Vars |-> Content(heap, var[v])],
                            [i \in Idents |-> Content(heap, ident[i])]>>
    <2>1. CASE IInv /\ Next
      BY <2>1, NextStep
    <2>2. CASE UNCHANGED vars
      BY <2>2 DEF vars
    <2> QED
      BY <2>1, <2>2
  <1> QED
    BY <1>1, <1>2, Invariance, PTL DEF Spec, ImplementsStringValues, Values!Spec
=============================================================================
