---------------------------- MODULE ListsProofs -----------------------------
(***************************************************************************)
(* Reference counts, the free list of the pool, the heap list and the      *)
(* values of Lists are exact, and together they are the shared lists of    *)
(* SharedLists.tla, for any pool, any heap and any number of variables.    *)
(*                                                                         *)
(* The operations of Lists are functions of the heap.  Each is shown to    *)
(* keep the values of a ListImp (SoundImp), the two lists (Sound) and the  *)
(* counts (Counted), and the steps are put together from these.            *)
(***************************************************************************)
EXTENDS Lists, InductionLemmas

Vals == Values \cup {Junk}

\* The size of the array that values points to, when it is not inlineValues.
Room(capacity) == IF capacity > inlineValuesSize THEN capacity - inlineValuesSize ELSE 0

ImpType ==
    [state : {"unused", "pool", "heap"}, size : Nat, refCount : Nat, valueRefCount : Nat,
     capacity : Nat, values : [1 .. inlineValuesSize -> Vals], overflow : Seq(Vals),
     next : Nat, prev : Nat]

\* A ListImp has room for its values, and holds them.
SoundImp(I) ==
    /\ I \in ImpType
    /\ Len(I.overflow) = Room(I.capacity)
    /\ I.size <= inlineValuesSize \/ I.size <= I.capacity
    /\ \A n \in 1 .. I.size : ValueAt(I, n) \in Values

\* Two ListImps that differ in their values only, and two that differ in their
\* places on the lists only.
SameLinks(I, J) ==
    /\ J.state = I.state /\ J.refCount = I.refCount /\ J.valueRefCount = I.valueRefCount
    /\ J.next = I.next /\ J.prev = I.prev

------------------------------------------------------------------------------
(* Values.                                                                 *)

LEMMA FillType ==
    ASSUME NEW n \in Nat
    PROVE  /\ Fill(n) \in Seq(Vals) /\ Len(Fill(n)) = n
           /\ Fill(n) \in [1 .. n -> Vals] /\ \A i \in 1 .. n : Fill(n)[i] = Junk
  BY DEF Fill, Vals

\* What growing and storing do with the array of the values.
LEMMA Prefix ==
    ASSUME NEW S, NEW q \in Seq(S), NEW k \in 0 .. Len(q), NEW g, g = SubSeq(q, 1, k)
    PROVE  g \in Seq(S) /\ Len(g) = k /\ \A n \in 1 .. k : g[n] = q[n]
  OBVIOUS

LEMMA Rest ==
    ASSUME NEW S, NEW q \in Seq(S), NEW i \in 0 .. Len(q), NEW g, g = SubSeq(q, 2, i)
    PROVE  /\ i = 0 => g = <<>>
           /\ i # 0 => g \in Seq(S) /\ Len(g) = i - 1 /\ \A n \in 1 .. i - 1 : g[n] = q[n + 1]
  OBVIOUS

LEMMA TailOf ==
    ASSUME NEW S, NEW q \in Seq(S), Len(q) # 0, NEW g, g = Tail(q)
    PROVE  g \in Seq(S) /\ Len(g) = Len(q) - 1 /\ \A n \in 1 .. Len(q) - 1 : g[n] = q[n + 1]
  OBVIOUS

LEMMA Empty ==
    ASSUME NEW S, NEW q \in Seq(S), Len(q) = 0
    PROVE  q = <<>>
  OBVIOUS

LEMMA Joined ==
    ASSUME NEW S, NEW q \in Seq(S), NEW r \in Seq(S), NEW g, g = q \o r
    PROVE  /\ g \in Seq(S) /\ Len(g) = Len(q) + Len(r)
           /\ \A n \in 1 .. Len(q) : g[n] = q[n]
           /\ \A n \in 1 .. Len(r) : g[n + Len(q)] = r[n]
  OBVIOUS

Holds(g, q, r) ==
    /\ Len(g) = Len(q) + Len(r)
    /\ \A n \in 1 .. Len(q) : g[n] = q[n]
    /\ \A n \in 1 .. Len(r) : g[n + Len(q)] = r[n]

LEMMA JoinedIs ==
    ASSUME NEW S, NEW q \in Seq(S), NEW r \in Seq(S), NEW j, j = q \o r,
           NEW g \in Seq(S), Holds(g, q, r)
    PROVE  g = j
  <1> USE DEF Holds
  <1>1. /\ j \in Seq(S) /\ Len(j) = Len(q) + Len(r)
        /\ \A n \in 1 .. Len(q) : j[n] = q[n]
        /\ \A n \in 1 .. Len(r) : j[n + Len(q)] = r[n]
    BY Joined
  <1>2. ASSUME NEW n \in 1 .. Len(g) PROVE g[n] = j[n]
    <2>1. CASE n <= Len(q)
      BY <1>1, <2>1
    <2>2. CASE ~(n <= Len(q))
      <3>1. n - Len(q) \in 1 .. Len(r) /\ (n - Len(q)) + Len(q) = n
        BY <2>2
      <3> QED
        BY <1>1, <3>1
    <2> QED
      BY <2>1, <2>2
  <1> QED
    BY <1>1, <1>2

LEMMA Stored ==
    ASSUME NEW S, NEW q \in Seq(S), NEW k \in 1 .. Len(q), NEW v \in S
    PROVE  /\ [q EXCEPT ![k] = v] \in Seq(S) /\ Len([q EXCEPT ![k] = v]) = Len(q)
           /\ [q EXCEPT ![k] = v][k] = v
           /\ \A n \in 1 .. Len(q) : n # k => [q EXCEPT ![k] = v][n] = q[n]
  OBVIOUS

LEMMA ContentType ==
    ASSUME NEW I, SoundImp(I)
    PROVE  Content(I) \in Seq(Values) /\ Len(Content(I)) = I.size /\ I.size \in Nat
  <1>1. I.size \in Nat /\ \A n \in 1 .. I.size : ValueAt(I, n) \in Values
    BY DEF SoundImp, ImpType
  <1>2. Content(I) \in [1 .. I.size -> Values]
    BY <1>1 DEF Content
  <1> QED
    BY <1>1, <1>2

LEMMA Twice ==
    ASSUME NEW i \in Nat, NEW m \in Nat, i >= m, m > 0
    PROVE  i * 2 \in Nat /\ i * 2 - m = (i - m) + i /\ i * 2 > m
  OBVIOUS

\* Growing keeps the values that did not fit into inlineValues.
LEMMA GrowKeeps ==
    ASSUME NEW I, SoundImp(I), I.size >= inlineValuesSize, I.size >= I.capacity
    PROVE  LET G == Grow(I, I.size)
           IN  /\ G \in ImpType /\ SameLinks(I, G) /\ G.size = I.size /\ G.values = I.values
               /\ G.capacity = I.size * 2
               /\ Len(G.overflow) = Room(G.capacity)
               /\ I.size - inlineValuesSize < Len(G.overflow)
               /\ \A n \in 1 .. I.size - inlineValuesSize : G.overflow[n] = I.overflow[n]
  <1> DEFINE i == I.size
             k == i - inlineValuesSize
             G == Grow(I, i)
             q == SubSeq(I.overflow, 1, k)
  <1>1. /\ i \in Nat /\ I.capacity \in Nat /\ inlineValuesSize \in Nat /\ inlineValuesSize > 0
        /\ i >= inlineValuesSize /\ i >= I.capacity
        /\ I.overflow \in Seq(Vals) /\ Len(I.overflow) = Room(I.capacity)
        /\ I.size <= inlineValuesSize \/ I.size <= I.capacity
    BY ListsAssumption DEF SoundImp, ImpType
  <1>12. i * 2 \in Nat /\ i * 2 - inlineValuesSize = k + i /\ i * 2 > inlineValuesSize
    <2>1. i \in Nat /\ inlineValuesSize \in Nat /\ inlineValuesSize > 0 /\ i >= inlineValuesSize
      BY <1>1
    <2> QED
      BY ONLY <2>1, Twice DEF k
  <1>10. i > 0 /\ k \in Nat
    BY <1>1
  <1>11. k = Len(I.overflow)
    BY <1>1 DEF Room
  <1>2. k \in Nat /\ k \in 0 .. Len(I.overflow) /\ i * 2 \in Nat /\ Room(i * 2) = k + i
    <2>2. Room(i * 2) = i * 2 - inlineValuesSize
      BY <1>12, Zenon DEF Room
    <2> HIDE DEF k, i
    <2> QED
      BY <1>10, <1>11, <1>12, <2>2
  <1> HIDE DEF k, i
  <1>3. q \in Seq(Vals) /\ Len(q) = k /\ \A n \in 1 .. k : q[n] = I.overflow[n]
    <2>1. I.overflow \in Seq(Vals) /\ k \in 0 .. Len(I.overflow)
      BY <1>1, <1>2
    <2>2. q = SubSeq(I.overflow, 1, k)
      OBVIOUS
    <2> HIDE DEF q
    <2> QED
      BY <2>1, <2>2, Prefix
  <1> DEFINE f == Fill(i)
  <1>4. f \in Seq(Vals) /\ Len(f) = i
    BY <1>1, FillType
  <1> HIDE DEF q, f
  <1>5. /\ q \o f \in Seq(Vals) /\ Len(q \o f) = k + i
        /\ \A n \in 1 .. k : (q \o f)[n] = I.overflow[n]
    <2> DEFINE g == q \o f
    <2>1. /\ g \in Seq(Vals) /\ Len(g) = Len(q) + Len(f)
          /\ \A n \in 1 .. Len(q) : g[n] = q[n]
      <3>1. g = q \o f
        OBVIOUS
      <3> HIDE DEF g
      <3> QED
        BY <1>3, <1>4, <3>1, Joined
    <2> HIDE DEF g
    <2>2. g \in Seq(Vals) /\ Len(g) = k + i /\ \A n \in 1 .. k : g[n] = I.overflow[n]
      BY <1>3, <1>4, <2>1
    <2> QED
      BY <2>2 DEF g
  <1>6. G = [I EXCEPT !.overflow = q \o f, !.capacity = i * 2]
    BY DEF Grow, q, k, f
  <1>7. I \in ImpType
    BY DEF SoundImp
  <1> HIDE DEF G
  <1>8. /\ G \in ImpType /\ SameLinks(I, G) /\ G.size = i /\ G.values = I.values
        /\ G.capacity = i * 2 /\ G.overflow = q \o f
    BY <1>2, <1>5, <1>6, <1>7 DEF ImpType, SameLinks, i
  <1>9. k < k + i
    BY <1>1, <1>2
  <1> QED
    BY <1>2, <1>5, <1>8, <1>9 DEF G, k, i

\* List::append puts the value behind the others, and grows when it must.
LEMMA AppendedKeeps ==
    ASSUME NEW I, SoundImp(I), NEW v \in Values
    PROVE  /\ SoundImp(Appended(I, v)) /\ SameLinks(I, Appended(I, v))
           /\ Content(Appended(I, v)) = Append(Content(I), v)
  <1> DEFINE i == I.size
             J == Appended(I, v)
  <1>1. /\ I \in ImpType /\ i \in Nat /\ inlineValuesSize \in Nat /\ inlineValuesSize > 0
        /\ Len(I.overflow) = Room(I.capacity) /\ I.capacity \in Nat
        /\ I.size <= inlineValuesSize \/ I.size <= I.capacity
        /\ \A n \in 1 .. i : ValueAt(I, n) \in Values
        /\ v \in Vals
    BY ListsAssumption DEF SoundImp, ImpType, Vals
  <1>2. /\ J \in ImpType /\ SameLinks(I, J) /\ J.size = i + 1
        /\ Len(J.overflow) = Room(J.capacity)
        /\ J.size <= inlineValuesSize \/ J.size <= J.capacity
        /\ ValueAt(J, i + 1) = v
        /\ \A n \in 1 .. i : ValueAt(J, n) = ValueAt(I, n)
    <2>1. CASE i < inlineValuesSize
      <3>1. J = [I EXCEPT !.size = i + 1, !.values[i + 1] = v]
        BY <2>1 DEF Appended
      <3>2. i + 1 \in 1 .. inlineValuesSize /\ i + 1 \in Nat /\ i + 1 <= inlineValuesSize
        BY <1>1, <2>1
      <3> HIDE DEF i, J
      <3>3. /\ J \in ImpType /\ SameLinks(I, J) /\ J.size = i + 1
            /\ J.overflow = I.overflow /\ J.capacity = I.capacity
            /\ J.values = [I.values EXCEPT ![i + 1] = v]
        BY <1>1, <3>1, <3>2 DEF ImpType, SameLinks
      <3>4. I.values \in [1 .. inlineValuesSize -> Vals]
        BY <1>1 DEF ImpType
      <3>5. J.values[i + 1] = v /\ \A n \in 1 .. i : J.values[n] = I.values[n]
        BY <1>1, <3>2, <3>3, <3>4
      <3>6. ValueAt(J, i + 1) = v
        BY <3>2, <3>5 DEF ValueAt
      <3>7. \A n \in 1 .. i : ValueAt(J, n) = ValueAt(I, n)
        <4>1. \A n \in 1 .. i : n <= inlineValuesSize
          BY <1>1, <3>2
        <4> QED
          BY <3>5, <4>1 DEF ValueAt
      <3> QED
        BY <1>1, <3>2, <3>3, <3>6, <3>7
    <2>2. CASE ~(i < inlineValuesSize)
      <3> DEFINE G == IF i >= inlineValuesSize /\ i >= I.capacity THEN Grow(I, i) ELSE I
                 k == i - inlineValuesSize
      <3>1. J = [G EXCEPT !.size = i + 1, !.overflow[i + 1 - inlineValuesSize] = v]
        BY <2>2 DEF Appended
      <3>2. /\ G \in ImpType /\ SameLinks(I, G) /\ G.values = I.values
            /\ Len(G.overflow) = Room(G.capacity) /\ k < Len(G.overflow)
            /\ \A n \in 1 .. k : G.overflow[n] = I.overflow[n]
        <4>1. CASE i >= I.capacity
          <5>1. i >= inlineValuesSize
            BY <1>1, <2>2
          <5>2. G = Grow(I, I.size)
            BY <4>1, <5>1
          <5> QED
            BY <4>1, <5>1, <5>2, GrowKeeps
        <4>2. CASE ~(i >= I.capacity)
          <5>1. G = I
            BY <4>2
          <5>2. k < Room(I.capacity)
            BY <1>1, <2>2, <4>2 DEF Room
          <5> QED
            BY <1>1, <5>1, <5>2 DEF SameLinks
        <4> QED
          BY <4>1, <4>2
      <3> HIDE DEF G, J
      <3>3. k \in Nat /\ i + 1 - inlineValuesSize = k + 1 /\ i = k + inlineValuesSize
        BY <1>1, <2>2
      <3>4. G.overflow \in Seq(Vals) /\ Len(G.overflow) \in Nat /\ k + 1 \in 1 .. Len(G.overflow)
        <4>1. G.overflow \in Seq(Vals)
          BY <3>2 DEF ImpType
        <4>2. Len(G.overflow) \in Nat
          BY <4>1
        <4> QED
          BY <3>2, <3>3, <4>1, <4>2
      <3> HIDE DEF i, k
      <3> DEFINE q == [G.overflow EXCEPT ![k + 1] = v]
      <3>5. /\ q \in Seq(Vals) /\ Len(q) = Len(G.overflow) /\ q[k + 1] = v
            /\ \A n \in 1 .. k : q[n] = G.overflow[n]
        <4>1. \A n \in 1 .. k : n \in 1 .. Len(G.overflow) /\ n # k + 1
          BY ONLY <3>3, <3>4
        <4> QED
          BY <1>1, <3>4, <4>1, Stored
      <3>6. J = [G EXCEPT !.size = i + 1, !.overflow = q]
        <4>1. i + 1 - inlineValuesSize = k + 1
          BY <3>3
        <4> QED
          BY <3>1, <3>2, <4>1, Zenon DEF ImpType
      <3> HIDE DEF q
      <3>7. /\ J \in ImpType /\ SameLinks(I, J) /\ J.size = i + 1
            /\ J.overflow = q /\ J.capacity = G.capacity /\ J.values = I.values
        <4>1. G \in ImpType /\ i + 1 \in Nat /\ q \in Seq(Vals)
          BY <1>1, <3>2, <3>5
        <4>2. J \in ImpType /\ SameLinks(G, J) /\ J.size = i + 1
              /\ J.overflow = q /\ J.capacity = G.capacity /\ J.values = G.values
          BY <3>6, <4>1 DEF ImpType, SameLinks
        <4> QED
          BY <3>2, <4>2 DEF SameLinks
      <3>8. J.size <= J.capacity
        <4>1. G.capacity \in Nat /\ k < Room(G.capacity)
          BY <3>2 DEF ImpType
        <4>2. k < G.capacity - inlineValuesSize
          BY <3>3, <4>1 DEF Room
        <4> QED
          BY <1>1, <3>3, <3>7, <4>1, <4>2
      <3>9. ValueAt(J, i + 1) = v
        <4>1. ~(i + 1 <= inlineValuesSize)
          BY <1>1, <3>3
        <4>2. ValueAt(J, i + 1) = J.overflow[(i + 1) - inlineValuesSize]
          BY <4>1 DEF ValueAt
        <4>3. (i + 1) - inlineValuesSize = k + 1
          BY <1>1, <3>3
        <4> QED
          BY ONLY <3>5, <3>7, <4>2, <4>3
      <3>10. ASSUME NEW n \in 1 .. i PROVE ValueAt(J, n) = ValueAt(I, n)
        <4>1. CASE n <= inlineValuesSize
          BY <3>7, <4>1 DEF ValueAt
        <4>2. CASE ~(n <= inlineValuesSize)
          <5>1. n - inlineValuesSize \in 1 .. k
            BY <1>1, <3>3, <4>2
          <5> QED
            BY <3>2, <3>5, <3>7, <4>2, <5>1 DEF ValueAt
        <4> QED
          BY <4>1, <4>2
      <3> QED
        BY <3>2, <3>5, <3>7, <3>8, <3>9, <3>10
    <2> QED
      BY <2>1, <2>2
  <1> HIDE DEF J, i
  <1>3. \A n \in 1 .. J.size : ValueAt(J, n) \in Values
    <2>1. \A n \in 1 .. i + 1 : n = i + 1 \/ n \in 1 .. i
      BY <1>1
    <2> QED
      BY <1>1, <1>2, <2>1
  <1>4. SoundImp(J)
    BY <1>2, <1>3 DEF SoundImp
  <1>5. Content(J) = Append(Content(I), v)
    <2>1. /\ Content(I) \in Seq(Values) /\ Len(Content(I)) = i
          /\ Content(J) \in Seq(Values) /\ Len(Content(J)) = i + 1
      BY <1>2, <1>4, ContentType DEF i
    <2>2. \A n \in 1 .. i : Content(J)[n] = Content(I)[n]
      <3>1. /\ \A n \in 1 .. i : Content(I)[n] = ValueAt(I, n)
            /\ \A n \in 1 .. i + 1 : Content(J)[n] = ValueAt(J, n)
        BY <1>2 DEF Content, i
      <3>2. \A n \in 1 .. i : n \in 1 .. i + 1
        BY <1>1
      <3> QED
        BY <1>2, <3>1, <3>2
    <2>3. Content(J)[i + 1] = v
      <3>1. i + 1 \in 1 .. i + 1
        BY <1>1
      <3> QED
        BY <1>2, <3>1 DEF Content
    <2>4. Append(Content(I), v) \in Seq(Values) /\ Len(Append(Content(I), v)) = i + 1
      BY <2>1
    <2>5. \A n \in 1 .. i + 1 : Content(J)[n] = Append(Content(I), v)[n]
      BY <1>1, <2>1, <2>2, <2>3
    <2> QED
      BY <2>1, <2>4, <2>5
  <1> QED
    BY <1>2, <1>4, <1>5 DEF J

\* After n values of s: they follow those of I, which are as they were.
Follows(I, s, n, J) ==
    /\ SoundImp(J) /\ SameLinks(I, J) /\ J.size = I.size + n
    /\ \A m \in 1 .. I.size : Content(J)[m] = Content(I)[m]
    /\ \A m \in 1 .. n : Content(J)[I.size + m] = s[m]

LEMMA FollowsOn ==
    ASSUME NEW I, SoundImp(I), NEW s \in Seq(Values), NEW n \in 0 .. Len(s) - 1,
           NEW J, Follows(I, s, n, J)
    PROVE  Follows(I, s, n + 1, Appended(J, s[n + 1]))
  <1> DEFINE K == Appended(J, s[n + 1])
             v == s[n + 1]
  <1>1. n + 1 \in 1 .. Len(s) /\ v \in Values /\ SoundImp(J) /\ n \in Nat
    BY DEF Follows
  <1>2. SoundImp(K) /\ SameLinks(J, K) /\ Content(K) = Append(Content(J), v)
    BY <1>1, AppendedKeeps
  <1> HIDE DEF K, v
  <1>3. /\ Content(J) \in Seq(Values) /\ Len(Content(J)) = J.size
        /\ Content(K) \in Seq(Values) /\ Len(Content(K)) = K.size
        /\ I.size \in Nat /\ J.size = I.size + n
    BY <1>1, <1>2, ContentType DEF Follows
  <1> DEFINE c == Content(J)
             d == Content(K)
             i == I.size
  <1>4. c \in Seq(Values) /\ Len(c) = i + n /\ i \in Nat /\ d = Append(c, v)
    BY <1>2, <1>3
  <1>5. /\ \A m \in 1 .. i : c[m] = Content(I)[m]
        /\ \A m \in 1 .. n : c[i + m] = s[m]
    BY DEF Follows
  <1>6. Len(d) = K.size
    BY <1>3
  <1> HIDE DEF c, d, i
  <1>7. Len(d) = i + (n + 1) /\ d[i + (n + 1)] = v /\ \A m \in 1 .. i + n : d[m] = c[m]
    BY <1>1, <1>4
  <1>8. \A m \in 1 .. i : d[m] = Content(I)[m]
    BY <1>1, <1>4, <1>5, <1>7
  <1>9. ASSUME NEW m \in 1 .. n + 1 PROVE d[i + m] = s[m]
    <2>1. CASE m = n + 1
      BY <1>7, <2>1 DEF v
    <2>2. CASE m # n + 1
      <3>1. m \in 1 .. n /\ i + m \in 1 .. i + n
        BY <1>1, <1>4, <2>2
      <3> QED
        BY <1>5, <1>7, <3>1
    <2> QED
      BY <2>1, <2>2
  <1>10. SameLinks(I, K)
    BY <1>2 DEF Follows, SameLinks
  <1> QED
    BY <1>2, <1>6, <1>7, <1>8, <1>9, <1>10 DEF Follows, d, i, K, v

\* List::copyFrom puts the values behind the others.
LEMMA AppendedAllKeeps ==
    ASSUME NEW I, SoundImp(I), NEW s \in Seq(Values)
    PROVE  /\ SoundImp(AppendedAll(I, s)) /\ SameLinks(I, AppendedAll(I, s))
           /\ Content(AppendedAll(I, s)) = Content(I) \o s
  <1> DEFINE N == Len(s)
             A == {J \in ImpType : SoundImp(J)}
             step == [n \in 1 .. N |-> [J \in A |-> Appended(J, s[n])]]
             after[n \in 0 .. N] == IF n = 0 THEN I ELSE Appended(after[n - 1], s[n])
  <1>1. N \in Nat /\ I \in A /\ \A n \in 1 .. N : s[n] \in Values
    BY DEF SoundImp
  <1>2. step \in [1 .. N -> [A -> A]]
    <2>1. ASSUME NEW n \in 1 .. N, NEW J \in A PROVE Appended(J, s[n]) \in A
      BY <1>1, AppendedKeeps DEF SoundImp
    <2> HIDE DEF A
    <2> QED
      BY <2>1
  <1>3. PICK f : Run(N, A, I, step, f)
    <2> HIDE DEF A, step, N
    <2> QED
      BY <1>1, <1>2, Recursion
  <1>4. f = [n \in 0 .. N |-> IF n = 0 THEN I ELSE Appended(f[n - 1], s[n])]
    <2>1. \A n \in 1 .. N : f[n] = Appended(f[n - 1], s[n])
      <3>1. ASSUME NEW n \in 1 .. N PROVE f[n - 1] \in A /\ f[n] = step[n][f[n - 1]]
        <4>1. n - 1 \in 0 .. N
          BY <1>1
        <4> HIDE DEF A, step
        <4> QED
          BY <1>3, <4>1 DEF Run
      <3> QED
        BY <3>1
    <2>2. f \in [0 .. N -> A] /\ f[0] = I
      BY <1>3 DEF Run
    <2>3. \A n \in 0 .. N : n = 0 \/ n \in 1 .. N
      BY <1>1
    <2> HIDE DEF A, N
    <2> QED
      BY <2>1, <2>2, <2>3
  <1>5. after = [n \in 0 .. N |-> IF n = 0 THEN I ELSE Appended(after[n - 1], s[n])]
    <2> HIDE DEF N
    <2> QED
      BY <1>4, Zenon
  <1>6. AppendedAll(I, s) = after[N]
    BY DEF AppendedAll
  <1> HIDE DEF after
  <1> DEFINE S == {n \in 0 .. N : Follows(I, s, n, after[n])}
  <1>7. 0 \in S
    <2>1. after[0] = I /\ 0 \in 0 .. N
      BY <1>1, <1>5
    <2>2. I.size \in Nat
      BY ContentType
    <2> QED
      BY <2>1, <2>2 DEF Follows, SameLinks
  <1>8. ASSUME NEW n \in 0 .. N - 1, n \in S PROVE n + 1 \in S
    <2>1. n + 1 \in 0 .. N /\ n + 1 # 0 /\ (n + 1) - 1 = n
      BY <1>1
    <2>2. after[n + 1] = Appended(after[n], s[n + 1])
      BY <1>5, <2>1
    <2>3. Follows(I, s, n, after[n])
      BY <1>8
    <2> QED
      BY <2>1, <2>2, <2>3, FollowsOn
  <1>9. N \in S
    <2> HIDE DEF S
    <2>1. 0 .. N \subseteq S
      BY <1>1, <1>7, <1>8, IntervalInduction
    <2> QED
      BY <1>1, <2>1
  <1> DEFINE J == AppendedAll(I, s)
  <1>10. Follows(I, s, N, J)
    BY <1>6, <1>9
  <1> HIDE DEF J
  <1>11. Content(J) = Content(I) \o s
    <2> DEFINE c == Content(I)
               d == Content(J)
    <2>1. /\ c \in Seq(Values) /\ Len(c) = I.size /\ d \in Seq(Values)
          /\ Len(d) = I.size + Len(s)
      BY <1>10, ContentType DEF Follows
    <2>2. /\ \A m \in 1 .. Len(c) : d[m] = c[m]
          /\ \A m \in 1 .. Len(s) : d[m + Len(c)] = s[m]
      <3>1. /\ \A m \in 1 .. I.size : Content(J)[m] = Content(I)[m]
            /\ \A m \in 1 .. N : Content(J)[I.size + m] = s[m]
        BY <1>10 DEF Follows
      <3>2. \A m \in 1 .. N : I.size + m = m + Len(c)
        BY <2>1
      <3> QED
        BY <2>1, <3>1, <3>2
    <2> DEFINE j == c \o s
    <2>3. j = c \o s
      OBVIOUS
    <2> HIDE DEF c, d, j
    <2>5. c \in Seq(Values) /\ d \in Seq(Values) /\ s \in Seq(Values)
      BY <2>1
    <2>6. Holds(d, c, s)
      BY <2>1, <2>2 DEF Holds
    <2>4. d = j
      BY ONLY <2>3, <2>5, <2>6, JoinedIs
    <2> QED
      BY <2>4 DEF c, d, j
  <1> QED
    BY <1>10, <1>11 DEF Follows, J

------------------------------------------------------------------------------
(* The two lists.                                                          *)

HeapType == [imp : [Addresses -> ImpType], free : Nat, used : Nat, list : Nat]

PoolFree(H) == {a \in Pool : H.imp[a].state # "pool"}
PoolFirst(H) == IF H.free # Null THEN H.free ELSE 1
PoolNext(H) == [a \in Pool |-> IF H.imp[a].next # Null THEN H.imp[a].next ELSE a + 1]

\* The free entries of the pool are a chain that ends one past the last, and
\* the others are counted.  There is no first one as long as none was taken.
PoolExact(H) ==
    /\ \E n, s : OnList(n, s, PoolFree(H), PoolFirst(H), PoolNext(H), PoolSize + 1)
    /\ H.used = PoolSize - Cardinality(PoolFree(H))
    /\ H.free = Null => PoolFree(H) = Pool

HeapUsed(H) == {a \in HeapAddresses : H.imp[a].state = "heap"}
HeapNext(H) == [a \in HeapAddresses |-> H.imp[a].next]

\* The ListImps of the heap that are in use are a list in both directions.
BothWays(H, n, s) ==
    /\ OnList(n, s, HeapUsed(H), H.list, HeapNext(H), Null)
    /\ \A i \in 1 .. n : H.imp[s[i]].prev = IF i = 1 THEN Null ELSE s[i - 1]
HeapExact(H) == \E n, s : BothWays(H, n, s)

SamePool(H, G) ==
    /\ G.free = H.free /\ G.used = H.used
    /\ \A a \in Pool : G.imp[a].state = H.imp[a].state /\ G.imp[a].next = H.imp[a].next

SameHeap(H, G) ==
    /\ G.list = H.list
    /\ \A a \in HeapAddresses : /\ G.imp[a].state = H.imp[a].state
                                /\ G.imp[a].next = H.imp[a].next
                                /\ G.imp[a].prev = H.imp[a].prev

LEMMA AddressTypes ==
    /\ Pool \subseteq Nat /\ HeapAddresses \subseteq Nat /\ Addresses \subseteq Nat
    /\ PoolSize \in Nat /\ PoolSize + 1 \in Nat
    /\ Null \notin Addresses /\ PoolSize + 1 \notin Addresses
    /\ Pool \subseteq Addresses /\ HeapAddresses \subseteq Addresses
    /\ \A a \in HeapAddresses : a \notin Pool
    /\ \A a \in Pool : a + 1 \in Pool \/ a + 1 = PoolSize + 1
  BY ListsAssumption DEF Pool, Addresses, Null

\* The lists depend on the states and the links only.
LEMMA PoolKeeps ==
    ASSUME NEW H, NEW G, PoolExact(H), SamePool(H, G)
    PROVE  PoolExact(G)
  <1>1. PoolFree(G) = PoolFree(H) /\ PoolFirst(G) = PoolFirst(H) /\ PoolNext(G) = PoolNext(H)
    BY DEF SamePool, PoolFree, PoolFirst, PoolNext
  <1> QED
    BY <1>1 DEF PoolExact, SamePool

LEMMA HeapKeeps ==
    ASSUME NEW H, NEW G, HeapExact(H), SameHeap(H, G)
    PROVE  HeapExact(G)
  <1>1. HeapUsed(G) = HeapUsed(H) /\ HeapNext(G) = HeapNext(H) /\ G.list = H.list
    BY DEF SameHeap, HeapUsed, HeapNext
  <1>2. PICK n, s : BothWays(H, n, s)
    BY DEF HeapExact
  <1>3. \A i \in 1 .. n : s[i] \in HeapAddresses
    BY <1>2 DEF BothWays, OnList, HeapUsed
  <1>4. \A i \in 1 .. n : G.imp[s[i]].prev = H.imp[s[i]].prev
    BY <1>3 DEF SameHeap
  <1>5. BothWays(G, n, s)
    BY <1>1, <1>2, <1>4 DEF BothWays
  <1> QED
    BY <1>5 DEF HeapExact

\* The number of free entries.
LEMMA PoolCount ==
    ASSUME NEW H, PoolExact(H)
    PROVE  /\ IsFiniteSet(PoolFree(H)) /\ Cardinality(PoolFree(H)) \in 0 .. PoolSize
           /\ H.used = 0 => PoolFree(H) = Pool
           /\ H.used < PoolSize => PoolFree(H) # {}
  <1>1. IsFiniteSet(Pool) /\ Cardinality(Pool) = PoolSize
    <2>1. 1 \in Int /\ PoolSize \in Int /\ PoolSize >= 1
      BY ListsAssumption
    <2>2. PoolSize - 1 + 1 = PoolSize
      BY <2>1
    <2> QED
      BY <2>1, <2>2, FS_Interval DEF Pool
  <1>2. PoolFree(H) \subseteq Pool
    BY DEF PoolFree
  <1>3. /\ IsFiniteSet(PoolFree(H)) /\ Cardinality(PoolFree(H)) <= Cardinality(Pool)
        /\ (Cardinality(PoolFree(H)) = Cardinality(Pool) => PoolFree(H) = Pool)
    BY <1>1, <1>2, FS_Subset
  <1>4. Cardinality(PoolFree(H)) \in Nat
    BY <1>3, FS_CardinalityType
  <1>5. H.used = PoolSize - Cardinality(PoolFree(H))
    BY DEF PoolExact
  <1>6. PoolFree(H) = {} => Cardinality(PoolFree(H)) = 0
    BY FS_EmptySet
  <1> QED
    BY <1>1, <1>3, <1>4, <1>5, <1>6, AddressTypes

TakesFromPool(H, a, G) ==
    /\ G.free = PoolNext(H)[a] /\ G.used = H.used + 1 /\ G.imp[a].state = "pool"
    /\ \A x \in Pool \ {a} :
          G.imp[x].state = H.imp[x].state /\ G.imp[x].next = H.imp[x].next

\* allocateListImp takes the first entry of the chain.
LEMMA PoolTaken ==
    ASSUME NEW H, PoolExact(H), H.used < PoolSize, NEW a, a = PoolFirst(H), NEW G, TakesFromPool(H, a, G),
           \A x \in Pool : H.imp[x].next \in Nat
    PROVE  a \in PoolFree(H) /\ PoolExact(G)
  <1> USE DEF TakesFromPool
  <1> DEFINE F == PoolFree(H)
             after == PoolNext(H)
             end == PoolSize + 1
  <1>1. PICK n, s : OnList(n, s, F, a, after, end)
    BY DEF PoolExact
  <1>2. /\ n \in Nat /\ s \in [1 .. n -> F] /\ F = {s[i] : i \in 1 .. n}
        /\ \A i, j \in 1 .. n : s[i] = s[j] => i = j
        /\ a = IF n = 0 THEN end ELSE s[1]
        /\ IsFiniteSet(F) /\ Cardinality(F) \in Nat /\ F # {}
    <2>1. IsFiniteSet(F) /\ Cardinality(F) \in Nat /\ F # {}
      BY PoolCount
    <2> HIDE DEF F, after
    <2> QED
      BY <1>1, <2>1 DEF OnList
  <1>3. n # 0 /\ 1 \in 1 .. n /\ s[1] = a /\ a \in F
    <2>1. n # 0
      BY <1>2
    <2> QED
      BY <1>2, <2>1
  <1>4. a \in Pool /\ a \in Nat /\ a # Null
    BY <1>3, AddressTypes DEF PoolFree, Null, Pool
  <1>5. PoolFree(G) = F \ {a}
    BY DEF PoolFree
  <1>6. after[a] \in Nat /\ after[a] # Null
    BY <1>4 DEF PoolNext, Null
  <1>7. PoolFirst(G) = after[a]
    BY <1>6 DEF PoolFirst
  <1> HIDE DEF F, after, end
  <1>8. OnList(n - 1, Past(n, s, 1), F \ {a}, after[a], after, end)
    <2>1. Skips(n, s, 1, a, after, after[a], after)
      <3>1. \A i \in 1 .. n : i + 1 # 1
        BY <1>2
      <3> QED
        BY <1>3, <3>1 DEF Skips
    <2> QED
      BY <1>1, <1>3, <2>1, OnListUnlink
  <1>9. \A x \in F \ {a} : PoolNext(G)[x] = after[x]
    BY DEF F, after, PoolNext, PoolFree
  <1>10. OnList(n - 1, Past(n, s, 1), F \ {a}, after[a], PoolNext(G), end)
    BY <1>8, <1>9, OnListKeeps
  <1>11. G.used = PoolSize - Cardinality(F \ {a})
    <2>1. Cardinality(F \ {a}) = Cardinality(F) - 1
      BY <1>2, <1>3, FS_RemoveElement
    <2>2. H.used = PoolSize - Cardinality(F)
      BY DEF PoolExact, F
    <2> QED
      BY <1>2, <2>1, <2>2, AddressTypes
  <1>12. \E m, q : OnList(m, q, PoolFree(G), PoolFirst(G), PoolNext(G), PoolSize + 1)
    BY <1>5, <1>7, <1>10 DEF end
  <1>13. G.free # Null
    BY <1>6 DEF after
  <1> QED
    BY <1>3, <1>5, <1>11, <1>12, <1>13 DEF PoolExact, F

ReturnsToPool(H, a, G) ==
    /\ G.free = a /\ G.used = H.used - 1
    /\ G.imp[a].state # "pool" /\ G.imp[a].next = H.free
    /\ \A x \in Pool \ {a} :
          G.imp[x].state = H.imp[x].state /\ G.imp[x].next = H.imp[x].next

\* List::release puts an entry in front.
LEMMA PoolReturned ==
    ASSUME NEW H, PoolExact(H), NEW a \in Pool, H.imp[a].state = "pool", NEW G,
           ReturnsToPool(H, a, G)
    PROVE  PoolExact(G)
  <1> USE DEF ReturnsToPool
  <1> DEFINE F == PoolFree(H)
             first == PoolFirst(H)
             end == PoolSize + 1
  <1>1. PICK n, s : OnList(n, s, F, first, PoolNext(H), end)
    BY DEF PoolExact
  <1>2. a \notin F /\ IsFiniteSet(F) /\ Cardinality(F) \in Nat /\ a # Null
    BY PoolCount, AddressTypes DEF PoolFree
  <1>3. H.free # Null /\ first = H.free
    BY DEF PoolExact, PoolFirst, PoolFree
  <1>4. PoolFree(G) = F \cup {a}
    BY DEF PoolFree
  <1>5. PoolFirst(G) = a
    BY <1>2 DEF PoolFirst
  <1>6. PoolNext(G)[a] = first /\ \A x \in F : PoolNext(G)[x] = PoolNext(H)[x]
    BY <1>2, <1>3 DEF PoolNext, PoolFree
  <1> HIDE DEF F, first, end
  <1>7. OnList(n, s, F, first, PoolNext(G), end)
    BY <1>1, <1>6, OnListKeeps
  <1>8. OnList(n + 1, InFront(n, s, a), F \cup {a}, a, PoolNext(G), end)
    BY <1>2, <1>6, <1>7, OnListPush
  <1>9. G.used = PoolSize - Cardinality(F \cup {a})
    <2>1. Cardinality(F \cup {a}) = Cardinality(F) + 1
      BY <1>2, FS_AddElement
    <2>2. H.used = PoolSize - Cardinality(F)
      BY DEF PoolExact, F
    <2> QED
      BY <1>2, <2>1, <2>2, AddressTypes
  <1>10. \E m, q : OnList(m, q, PoolFree(G), PoolFirst(G), PoolNext(G), PoolSize + 1)
    BY <1>4, <1>5, <1>8 DEF end
  <1> QED
    BY <1>2, <1>4, <1>9, <1>10 DEF PoolExact

TakesOnHeap(H, a, G) ==
    /\ G.list = a
    /\ G.imp[a].state = "heap" /\ G.imp[a].next = H.list /\ G.imp[a].prev = Null
    /\ \A x \in HeapAddresses \ {a} :
          /\ G.imp[x].state = H.imp[x].state /\ G.imp[x].next = H.imp[x].next
          /\ G.imp[x].prev = IF x = H.list THEN a ELSE H.imp[x].prev

\* allocateListImp puts a ListImp of the heap in front.
LEMMA HeapTaken ==
    ASSUME NEW H, HeapExact(H), NEW a \in HeapAddresses, a \notin HeapUsed(H), NEW G,
           TakesOnHeap(H, a, G)
    PROVE  HeapExact(G)
  <1> USE DEF TakesOnHeap
  <1> DEFINE F == HeapUsed(H)
             first == H.list
             q(n, s) == InFront(n, s, a)
  <1>1. PICK n, s : BothWays(H, n, s)
    BY DEF HeapExact
  <1>2. OnList(n, s, F, first, HeapNext(H), Null)
    BY <1>1 DEF BothWays
  <1>3. /\ n \in Nat /\ s \in [1 .. n -> F]
        /\ \A i, j \in 1 .. n : s[i] = s[j] => i = j
        /\ first = IF n = 0 THEN Null ELSE s[1]
    BY <1>2 DEF OnList
  <1>4. HeapUsed(G) = F \cup {a} /\ a \notin F /\ F \subseteq HeapAddresses
    BY DEF HeapUsed
  <1>5. HeapNext(G)[a] = first /\ \A x \in F : HeapNext(G)[x] = HeapNext(H)[x]
    BY DEF HeapNext, HeapUsed
  <1>6. \A x \in F : G.imp[x].prev = IF x = first THEN a ELSE H.imp[x].prev
    BY <1>4
  <1> HIDE DEF F, first
  <1>7. OnList(n, s, F, first, HeapNext(G), Null)
    BY <1>2, <1>5, OnListKeeps
  <1>8. OnList(n + 1, InFront(n, s, a), F \cup {a}, a, HeapNext(G), Null)
    BY <1>4, <1>5, <1>7, OnListPush
  <1>9. ASSUME NEW i \in 1 .. n + 1
        PROVE  G.imp[InFront(n, s, a)[i]].prev = IF i = 1 THEN Null ELSE InFront(n, s, a)[i - 1]
    <2>1. CASE i = 1
      <3>1. InFront(n, s, a)[1] = a
        BY <1>3 DEF InFront
      <3> QED
        BY <2>1, <3>1
    <2>2. CASE i # 1
      <3> DEFINE j == i - 1
      <3>1. j \in 1 .. n /\ i - 1 \in 1 .. n + 1
        BY <1>3, <2>2
      <3>2. InFront(n, s, a)[i] = s[j] /\ s[j] \in F
        BY <1>3, <2>2, <3>1 DEF InFront
      <3>3. H.imp[s[j]].prev = IF j = 1 THEN Null ELSE s[j - 1]
        BY <1>1, <3>1 DEF BothWays
      <3>4. InFront(n, s, a)[i - 1] = IF j = 1 THEN a ELSE s[j - 1]
        BY <3>1 DEF InFront
      <3>5. s[j] = first <=> j = 1
        <4>1. n # 0 /\ 1 \in 1 .. n
          BY <1>3, <3>1
        <4> QED
          BY <1>3, <3>1, <4>1
      <3> HIDE DEF j
      <3> QED
        BY <1>6, <2>2, <3>2, <3>3, <3>4, <3>5
    <2> QED
      BY <2>1, <2>2
  <1>10. BothWays(G, n + 1, InFront(n, s, a))
    BY <1>4, <1>8, <1>9 DEF BothWays
  <1> QED
    BY <1>10 DEF HeapExact

ReturnsToHeap(H, a, I, G) ==
    /\ G.list = IF I.prev = Null THEN I.next ELSE H.list
    /\ G.imp[a].state # "heap"
    /\ \A x \in HeapAddresses \ {a} :
          /\ G.imp[x].state = H.imp[x].state
          /\ G.imp[x].next = IF x = I.prev THEN I.next ELSE H.imp[x].next
          /\ G.imp[x].prev = IF x = I.next THEN I.prev ELSE H.imp[x].prev

\* List::release takes it out in both directions.
LEMMA HeapReturned ==
    ASSUME NEW H, HeapExact(H), NEW a \in HeapUsed(H), NEW I, I = H.imp[a], NEW G,
           ReturnsToHeap(H, a, I, G)
    PROVE  HeapExact(G)
  <1> USE DEF ReturnsToHeap
  <1> DEFINE F == HeapUsed(H)
             first == H.list
             after == HeapNext(H)
             after2 == [x \in HeapAddresses |-> IF x = I.prev THEN I.next ELSE H.imp[x].next]
  <1>1. PICK n, s : BothWays(H, n, s)
    BY DEF HeapExact
  <1>2. OnList(n, s, F, first, after, Null)
    BY <1>1 DEF BothWays
  <1>3. /\ n \in Nat /\ s \in [1 .. n -> F] /\ F = {s[i] : i \in 1 .. n}
        /\ \A i, j \in 1 .. n : s[i] = s[j] => i = j
        /\ first = IF n = 0 THEN Null ELSE s[1]
        /\ \A i \in 1 .. n : after[s[i]] = IF i = n THEN Null ELSE s[i + 1]
    <2> HIDE DEF F, first, after
    <2> QED
      BY <1>2 DEF OnList
  <1>4. \A i \in 1 .. n : H.imp[s[i]].prev = IF i = 1 THEN Null ELSE s[i - 1]
    BY <1>1 DEF BothWays
  <1>5. PICK k \in 1 .. n : a = s[k]
    BY <1>3
  <1>6. F \subseteq HeapAddresses /\ HeapUsed(G) = F \ {a}
    BY DEF HeapUsed
  <1>7. \A i \in 1 .. n : s[i] \in HeapAddresses /\ s[i] # Null
    BY <1>3, <1>6, AddressTypes
  <1>8. I.prev = IF k = 1 THEN Null ELSE s[k - 1]
    BY <1>4, <1>5
  <1>9. I.next = IF k = n THEN Null ELSE s[k + 1]
    BY <1>3, <1>5, <1>7 DEF HeapNext
  <1>10. \A x \in F : after[x] = H.imp[x].next
    BY <1>6 DEF HeapNext
  <1>11. \A x \in F \ {a} : HeapNext(G)[x] = after2[x]
    BY <1>6 DEF HeapNext
  <1>12. \A x \in F : after2[x] = IF x = I.prev THEN I.next ELSE after[x]
    BY <1>6, <1>10
  <1>13. \A x \in F \ {a} : G.imp[x].prev = IF x = I.next THEN I.prev ELSE H.imp[x].prev
    BY <1>6
  <1>14. n # 0 /\ k - 1 \in Nat /\ k \in Nat
    BY <1>3
  <1>15. \A i \in 1 .. n : s[i] = I.prev <=> i + 1 = k
    <2> SUFFICES ASSUME NEW i \in 1 .. n PROVE s[i] = I.prev <=> i + 1 = k
      OBVIOUS
    <2>1. CASE k = 1
      <3>1. i + 1 # k
        BY <1>3, <2>1
      <3> QED
        BY <1>7, <1>8, <2>1, <3>1
    <2>2. CASE k # 1
      <3>1. k - 1 \in 1 .. n /\ (i + 1 = k <=> i = k - 1)
        BY <1>3, <2>2
      <3> QED
        BY <1>3, <1>8, <2>2, <3>1
    <2> QED
      BY <2>1, <2>2
  <1>16. \A i \in 1 .. n : s[i] = I.next <=> i = k + 1
    <2> SUFFICES ASSUME NEW i \in 1 .. n PROVE s[i] = I.next <=> i = k + 1
      OBVIOUS
    <2>1. CASE k = n
      <3>1. i # k + 1
        BY <1>3, <2>1
      <3> QED
        BY <1>7, <1>9, <2>1, <3>1
    <2>2. CASE k # n
      <3>1. k + 1 \in 1 .. n
        BY <1>3, <2>2
      <3> QED
        BY <1>3, <1>9, <2>2, <3>1
    <2> QED
      BY <2>1, <2>2
  <1> HIDE DEF F, first, after, after2
  <1>17. Skips(n, s, k, first, after, G.list, after2)
    <2>1. \A i \in 1 .. n : after2[s[i]] = IF i + 1 = k THEN after[s[k]] ELSE after[s[i]]
      <3>1. after[s[k]] = I.next
        BY <1>3, <1>5, <1>9
      <3> QED
        BY <1>3, <1>12, <1>15, <3>1
    <2>2. G.list = IF k = 1 THEN after[s[1]] ELSE first
      <3>1. k # 1 => I.prev # Null
        <4>1. k # 1 => k - 1 \in 1 .. n
          BY <1>3
        <4> QED
          BY <1>7, <1>8, <4>1
      <3>2. k = 1 => after[s[1]] = I.next /\ I.prev = Null
        BY <1>3, <1>5, <1>8, <1>9
      <3> QED
        BY <3>1, <3>2 DEF first
    <2> QED
      BY <2>1, <2>2 DEF Skips
  <1> DEFINE q == Past(n, s, k)
  <1>18. OnList(n - 1, q, F \ {s[k]}, G.list, after2, Null)
    BY <1>2, <1>17, OnListUnlink
  <1>19. OnList(n - 1, q, F \ {a}, G.list, HeapNext(G), Null)
    BY <1>5, <1>11, <1>18, OnListKeeps
  <1>20. \A i \in 1 .. n - 1 : q[i] = IF i < k THEN s[i] ELSE s[i + 1]
    BY DEF Past
  <1>21. \A i \in 1 .. n - 1 : q[i] \in F \ {a}
    BY <1>19 DEF OnList
  <1> HIDE DEF q
  <1>22. ASSUME NEW i \in 1 .. n - 1
         PROVE  G.imp[q[i]].prev = IF i = 1 THEN Null ELSE q[i - 1]
    <2>1. /\ i \in 1 .. n /\ i + 1 \in 1 .. n /\ i \in Nat /\ i + 1 # 1 /\ (i + 1) - 1 = i
          /\ (i # 1 => i - 1 \in 1 .. n - 1 /\ (i - 1) + 1 = i)
      BY <1>3
    <2>2. CASE i < k
      <3>1. i # k + 1 /\ i - 1 < k
        BY <1>14, <2>1, <2>2
      <3>2. q[i] = s[i] /\ q[i] # I.next
        BY <1>16, <1>20, <2>1, <2>2, <3>1
      <3>3. G.imp[q[i]].prev = IF i = 1 THEN Null ELSE s[i - 1]
        BY <1>4, <1>13, <1>21, <2>1, <3>2
      <3> QED
        BY <1>20, <2>1, <3>1, <3>3
    <2>3. CASE i = k
      <3>1. q[i] = s[i + 1] /\ q[i] = I.next
        BY <1>14, <1>16, <1>20, <2>1, <2>3
      <3>2. G.imp[q[i]].prev = IF k = 1 THEN Null ELSE s[k - 1]
        BY <1>8, <1>13, <1>21, <3>1
      <3>3. i - 1 < k
        BY <1>14, <2>3
      <3> QED
        BY <1>20, <2>1, <2>3, <3>2, <3>3
    <2>4. CASE i > k
      <3>1. ~(i < k) /\ i + 1 # k + 1 /\ ~(i - 1 < k) /\ i # 1
        BY ONLY <1>14, <2>1, <2>4, <1>3
      <3>2. q[i] = s[i + 1] /\ q[i] # I.next
        BY <1>16, <1>20, <2>1, <3>1
      <3>3. G.imp[q[i]].prev = s[i]
        BY <1>4, <1>13, <1>21, <2>1, <3>2
      <3>4. q[i - 1] = s[i]
        BY <1>20, <2>1, <3>1
      <3> QED
        BY <3>1, <3>3, <3>4
    <2> QED
      BY <1>14, <2>1, <2>2, <2>3, <2>4
  <1>23. BothWays(G, n - 1, q)
    BY <1>6, <1>19, <1>22 DEF BothWays
  <1> QED
    BY <1>23 DEF HeapExact

------------------------------------------------------------------------------
(* The operations on the heap.                                             *)

SameValues(I, J) ==
    /\ J.size = I.size /\ J.capacity = I.capacity
    /\ J.values = I.values /\ J.overflow = I.overflow

LEMMA ValuesKeep ==
    ASSUME NEW I, SoundImp(I), NEW J \in ImpType, SameValues(I, J)
    PROVE  SoundImp(J) /\ Content(J) = Content(I)
  <1>1. \A n : ValueAt(J, n) = ValueAt(I, n)
    BY DEF SameValues, ValueAt
  <1>2. Content(J) = Content(I)
    BY <1>1 DEF SameValues, Content
  <1> QED
    BY <1>1, <1>2 DEF SameValues, SoundImp

LEMMA NothingIn ==
    ASSUME NEW I, I.size = 0
    PROVE  Content(I) = <<>>
  BY DEF Content

LEMMA UnusedSound ==
    ASSUME NEW n \in Nat
    PROVE  /\ SoundImp(Unused(n)) /\ Unused(n).state = "unused" /\ Unused(n).size = 0
           /\ Unused(n).refCount = 0 /\ Unused(n).valueRefCount = 0
           /\ Unused(n).next = n /\ Unused(n).prev = Null
  <1> DEFINE f == Fill(inlineValuesSize)
             U == Unused(n)
  <1>1. inlineValuesSize \in Nat /\ f \in [1 .. inlineValuesSize -> Vals]
    BY FillType, ListsAssumption
  <1>2. U = [state |-> "unused", size |-> 0, refCount |-> 0, valueRefCount |-> 0, capacity |-> 0,
             values |-> f, overflow |-> <<>>, next |-> n, prev |-> 0]
    BY DEF Unused, Null
  <1> HIDE DEF f, U
  <1>3. U \in ImpType
    <2>1. <<>> \in Seq(Vals)
      OBVIOUS
    <2> QED
      BY <1>1, <1>2, <2>1 DEF ImpType
  <1>4. Len(U.overflow) = Room(U.capacity) /\ U.size = 0 /\ U.size <= inlineValuesSize
    BY <1>1, <1>2 DEF Room
  <1>5. SoundImp(U)
    BY <1>3, <1>4 DEF SoundImp
  <1> QED
    BY <1>2, <1>5 DEF U, Null

LEMMA NewImpSound ==
    ASSUME NEW state \in {"pool", "heap"}, NEW v \in Nat, NEW n \in Nat
    PROVE  LET J == NewImp(state, v, n)
           IN  /\ SoundImp(J) /\ J.state = state /\ J.size = 0
               /\ J.refCount = 1 /\ J.valueRefCount = v /\ J.next = n /\ J.prev = Null
  <1> DEFINE U == Unused(n)
             J == NewImp(state, v, n)
  <1>1. SoundImp(U) /\ U.size = 0 /\ U.next = n /\ U.prev = Null
    BY UnusedSound
  <1>2. J = [U EXCEPT !.state = state, !.refCount = 1, !.valueRefCount = v]
    BY DEF NewImp
  <1>3. U \in ImpType
    BY <1>1 DEF SoundImp
  <1> HIDE DEF U, J
  <1>4. /\ J \in ImpType /\ SameValues(U, J) /\ J.state = state /\ J.refCount = 1
        /\ J.valueRefCount = v /\ J.next = U.next /\ J.prev = U.prev
    BY <1>2, <1>3 DEF ImpType, SameValues
  <1>5. SoundImp(J)
    BY <1>1, <1>4, ValuesKeep
  <1> QED
    BY <1>1, <1>4, <1>5 DEF J, SameValues

\* The entries of the pool are in the pool, the others are not.
Places(H) ==
    \A a \in Addresses :
        H.imp[a].state = "unused" \/ H.imp[a].state = IF a \in Pool THEN "pool" ELSE "heap"

Sound(H) ==
    /\ H \in HeapType /\ \A a \in Addresses : SoundImp(H.imp[a])
    /\ Places(H) /\ PoolExact(H) /\ HeapExact(H)

\* Each ListImp is counted r times, m times for marking, and is in use as long
\* as it is.
CountedAs(I, r, m) ==
    /\ I.refCount = r /\ I.valueRefCount = m
    /\ I.state = "unused" <=> r = 0
    /\ r = 0 => I.size = 0
Counted(H, r, m) == \A a \in Addresses : CountedAs(H.imp[a], r[a], m[a])

Good(H, r, m) == Sound(H) /\ Counted(H, r, m)

\* Another ListImp at a, on the same place of its list.
InPlace(I, J) == J.state = I.state /\ J.next = I.next /\ J.prev = I.prev
Put(H, a, J) == [H EXCEPT !.imp[a] = J]

LEMMA SoundKeeps ==
    ASSUME NEW H, Sound(H), NEW a \in Addresses, NEW J, SoundImp(J),
           InPlace(H.imp[a], J), NEW G, G = Put(H, a, J)
    PROVE  Sound(G) /\ G.imp[a] = J /\ \A x \in Addresses : x # a => G.imp[x] = H.imp[x]
  <1>1. H \in HeapType /\ J \in ImpType
    BY DEF Sound, SoundImp
  <1>2. /\ G \in HeapType /\ G.imp[a] = J /\ G.free = H.free /\ G.used = H.used
        /\ G.list = H.list /\ \A x \in Addresses : x # a => G.imp[x] = H.imp[x]
    BY <1>1 DEF HeapType, Put
  <1>3. \A x \in Addresses : SoundImp(G.imp[x])
    BY <1>2 DEF Sound
  <1>4. \A x \in Addresses : InPlace(H.imp[x], G.imp[x])
    BY <1>2 DEF InPlace
  <1>5. PoolExact(G) /\ HeapExact(G)
    <2>1. SamePool(H, G) /\ SameHeap(H, G)
      BY <1>2, <1>4, AddressTypes DEF SamePool, SameHeap, InPlace
    <2> QED
      BY <2>1, PoolKeeps, HeapKeeps DEF Sound
  <1>6. Places(G)
    BY <1>4 DEF Sound, Places, InPlace
  <1> QED
    BY <1>2, <1>3, <1>5, <1>6 DEF Sound

\* A change of the values.
LEMMA ChangeKeeps ==
    ASSUME NEW H, NEW r, NEW m, Good(H, r, m), NEW a \in Addresses, r[a] # 0,
           NEW J, SoundImp(J), SameLinks(H.imp[a], J), NEW G, G = Put(H, a, J)
    PROVE  Good(G, r, m) /\ G.imp[a] = J /\ \A x \in Addresses : x # a => G.imp[x] = H.imp[x]
  <1>1. Sound(H) /\ Counted(H, r, m)
    BY DEF Good
  <1>2. Sound(G) /\ G.imp[a] = J /\ \A x \in Addresses : x # a => G.imp[x] = H.imp[x]
    <2>1. InPlace(H.imp[a], J)
      BY DEF SameLinks, InPlace
    <2> QED
      BY <1>1, <2>1, SoundKeeps
  <1>3. CountedAs(J, r[a], m[a])
    <2>1. CountedAs(H.imp[a], r[a], m[a])
      BY <1>1 DEF Counted
    <2> QED
      BY <2>1 DEF CountedAs, SameLinks
  <1>4. Counted(G, r, m)
    BY <1>1, <1>2, <1>3 DEF Counted
  <1> QED
    BY <1>2, <1>4 DEF Good

\* One count more at a, and the others as they were.
Apart(f, g, a) == \A x \in Addresses : x # a => g[x] = f[x]

More(r, m, a, needsMarking, r2, m2) ==
    /\ Apart(r, r2, a) /\ Apart(m, m2, a)
    /\ r2[a] = r[a] + 1 /\ m2[a] = IF needsMarking THEN m[a] ELSE m[a] + 1

\* The ListImps that are still referred to hold the same values.
SameContent(r, f, g) == \A x \in Addresses : r[x] # 0 => Content(g[x]) = Content(f[x])

LEMMA RefKeeps ==
    ASSUME NEW H, NEW r, NEW m, Good(H, r, m), NEW a \in Addresses, r[a] # 0,
           NEW needsMarking \in BOOLEAN, NEW r2, NEW m2, More(r, m, a, needsMarking, r2, m2),
           NEW G, G = Ref(H, a, needsMarking)
    PROVE  Good(G, r2, m2) /\ \A q : SameContent(q, H.imp, G.imp)
  <1> USE DEF More
  <1> DEFINE I == H.imp[a]
             J == [I EXCEPT !.refCount = @ + 1,
                            !.valueRefCount = IF needsMarking THEN @ ELSE @ + 1]
  <1>1. Sound(H) /\ Counted(H, r, m) /\ H \in HeapType
    BY DEF Good, Sound
  <1>2. I \in ImpType /\ SoundImp(I) /\ I.refCount = r[a] /\ I.valueRefCount = m[a]
    BY <1>1 DEF Sound, SoundImp, Counted, CountedAs
  <1>3. G = Put(H, a, J)
    BY <1>1 DEF Ref, HeapType, Put
  <1> HIDE DEF I
  <1>4. /\ J \in ImpType /\ SameValues(I, J) /\ J.refCount = r2[a] /\ J.valueRefCount = m2[a]
        /\ InPlace(I, J)
    <2>1. r2[a] = I.refCount + 1 /\ r2[a] \in Nat
      BY <1>2 DEF ImpType
    <2>2. m2[a] = (IF needsMarking THEN I.valueRefCount ELSE I.valueRefCount + 1) /\ m2[a] \in Nat
      BY <1>2 DEF ImpType
    <2>3. J = [I EXCEPT !.refCount = r2[a], !.valueRefCount = m2[a]]
      BY <2>1, <2>2
    <2> HIDE DEF J
    <2> QED
      BY <1>2, <2>1, <2>2, <2>3 DEF ImpType, SameValues, InPlace
  <1> HIDE DEF J
  <1>5. SoundImp(J) /\ Content(J) = Content(I)
    BY <1>2, <1>4, ValuesKeep
  <1>6. Sound(G) /\ G.imp[a] = J /\ \A x \in Addresses : x # a => G.imp[x] = H.imp[x]
    BY <1>1, <1>3, <1>4, <1>5, SoundKeeps DEF I
  <1>7. r2[a] # 0 /\ I.state # "unused"
    <2>1. r[a] \in Nat
      BY <1>2 DEF ImpType
    <2>2. r2[a] # 0
      BY <2>1
    <2> QED
      BY <1>1, <2>2 DEF Counted, CountedAs, I
  <1>8. Counted(G, r2, m2)
    <2>1. CountedAs(J, r2[a], m2[a])
      BY <1>4, <1>7 DEF CountedAs, InPlace
    <2> QED
      BY <1>1, <1>6, <2>1 DEF Counted, Apart
  <1>9. \A x \in Addresses : Content(G.imp[x]) = Content(H.imp[x])
    BY <1>5, <1>6 DEF I
  <1> QED
    BY <1>6, <1>8, <1>9 DEF Good, SameContent

\* What releasing one ListImp leaves alone in another.
SameUse(I, J) ==
    /\ SameValues(I, J) /\ J.state = I.state
    /\ J.refCount = I.refCount /\ J.valueRefCount = I.valueRefCount

\* List::release.
LEMMA ReleasedKeeps ==
    ASSUME NEW D, Sound(D), NEW a \in Addresses, D.imp[a].state # "unused",
           NEW G, G = Released(D, a)
    PROVE  /\ Sound(G) /\ CountedAs(G.imp[a], 0, 0)
           /\ \A x \in Addresses : x # a => SameUse(D.imp[x], G.imp[x])
  <1> DEFINE I == D.imp[a]
  <1>1. D \in HeapType /\ PoolExact(D) /\ HeapExact(D) /\ Places(D)
    BY DEF Sound
  <1>2. \A x \in Addresses : SoundImp(D.imp[x]) /\ D.imp[x] \in ImpType
    BY DEF Sound, SoundImp
  <1>3. CASE I.state = "pool"
    <2>1. a \in Pool
      BY <1>1, <1>3 DEF Places
    <2>2. G = [D EXCEPT !.imp[a] = Unused(D.free), !.free = a, !.used = @ - 1]
      BY <1>3 DEF Released
    <2>3. D.free \in Nat /\ D.used \in Nat /\ a \in Nat
      BY <1>1, AddressTypes DEF HeapType
    <2>4. D.used - 1 \in Nat
      <3>1. PoolFree(D) # Pool
        BY <1>3, <2>1 DEF PoolFree
      <3>2. D.used # 0
        BY <1>1, <3>1, PoolCount
      <3> QED
        BY <2>3, <3>2
    <2> DEFINE U == Unused(D.free)
    <2>5. SoundImp(U) /\ U.state = "unused" /\ U.next = D.free /\ CountedAs(U, 0, 0)
      BY <2>3, UnusedSound DEF CountedAs
    <2>6. U \in ImpType
      BY <2>5 DEF SoundImp
    <2> HIDE DEF U
    <2>7. /\ G.imp = [D.imp EXCEPT ![a] = U] /\ G.free = a /\ G.used = D.used - 1
          /\ G.list = D.list /\ G \in HeapType
      <3>1. G = [D EXCEPT !.imp = [D.imp EXCEPT ![a] = U], !.free = a, !.used = D.used - 1]
        BY <1>1, <2>2 DEF HeapType, U
      <3>2. [D.imp EXCEPT ![a] = U] \in [Addresses -> ImpType]
        BY <1>1, <2>6 DEF HeapType
      <3> QED
        BY <1>1, <2>3, <2>4, <3>1, <3>2 DEF HeapType
    <2>8. G.imp[a] = U /\ \A x \in Addresses : x # a => G.imp[x] = D.imp[x]
      BY <1>1, <2>7 DEF HeapType
    <2>9. \A x \in Addresses : SoundImp(G.imp[x])
      BY <1>2, <2>5, <2>8
    <2>10. Places(G)
      BY <1>1, <2>5, <2>8 DEF Places
    <2>11. \A x \in Pool \ {a} : G.imp[x].state = D.imp[x].state /\ G.imp[x].next = D.imp[x].next
      BY <2>8, AddressTypes
    <2>12. PoolExact(G)
      <3>1. ReturnsToPool(D, a, G)
        BY <2>5, <2>7, <2>8, <2>11 DEF ReturnsToPool
      <3> QED
        BY <1>1, <1>3, <2>1, <3>1, PoolReturned
    <2>13. SameHeap(D, G)
      BY <2>1, <2>7, <2>8, AddressTypes DEF SameHeap
    <2>14. HeapExact(G)
      BY <1>1, <2>13, HeapKeeps
    <2>15. \A x \in Addresses : x # a => SameUse(D.imp[x], G.imp[x])
      BY <2>8 DEF SameUse, SameValues
    <2> QED
      BY <2>5, <2>7, <2>8, <2>9, <2>10, <2>12, <2>14, <2>15 DEF Sound
  <1>4. CASE I.state # "pool"
    <2>1. I.state = "heap" /\ a \in HeapAddresses /\ a \in HeapUsed(D)
      BY <1>1, <1>4 DEF Places, Addresses, HeapUsed
    <2> DEFINE Unlinked(x) == [D.imp[x] EXCEPT !.next = IF x = I.prev THEN I.next ELSE @,
                                               !.prev = IF x = I.next THEN I.prev ELSE @]
               U == Unused(Null)
               list == IF I.prev = Null THEN I.next ELSE D.list
               f == [x \in Addresses |->
                       IF x = a THEN U
                       ELSE IF x \in HeapAddresses THEN Unlinked(x) ELSE D.imp[x]]
    <2>2. G = [D EXCEPT !.imp = f, !.list = list]
      BY <1>1, <1>4 DEF Released, HeapType
    <2>3. Null \in Nat /\ I.next \in Nat /\ I.prev \in Nat /\ D.list \in Nat
      BY <1>1, <1>2 DEF HeapType, ImpType, Null
    <2>4. SoundImp(U) /\ U.state = "unused" /\ CountedAs(U, 0, 0) /\ U \in ImpType
      BY <2>3, UnusedSound DEF CountedAs, SoundImp
    <2>5. ASSUME NEW x \in Addresses
          PROVE  /\ Unlinked(x) \in ImpType /\ SameUse(D.imp[x], Unlinked(x))
                 /\ SoundImp(Unlinked(x))
                 /\ Unlinked(x).next = IF x = I.prev THEN I.next ELSE D.imp[x].next
                 /\ Unlinked(x).prev = IF x = I.next THEN I.prev ELSE D.imp[x].prev
      <3> DEFINE next == IF x = I.prev THEN I.next ELSE D.imp[x].next
                 prev == IF x = I.next THEN I.prev ELSE D.imp[x].prev
                 J == D.imp[x]
                 K == Unlinked(x)
      <3>1. J \in ImpType /\ SoundImp(J) /\ next \in Nat /\ prev \in Nat
        BY <1>2, <2>3 DEF ImpType
      <3>2. K = [J EXCEPT !.next = next, !.prev = prev]
        OBVIOUS
      <3> HIDE DEF K, J, next, prev
      <3>3. K \in ImpType /\ SameUse(J, K) /\ K.next = next /\ K.prev = prev
        BY <3>1, <3>2 DEF ImpType, SameUse, SameValues
      <3>4. SoundImp(K)
        BY <3>1, <3>3, ValuesKeep DEF SameUse
      <3> QED
        BY <3>3, <3>4 DEF K, J, next, prev
    <2> HIDE DEF Unlinked, U, list, I
    <2>6. f \in [Addresses -> ImpType]
      BY <1>2, <2>4, <2>5
    <2>7. list \in Nat
      BY <2>3 DEF list
    <2> HIDE DEF f
    <2>8. G.imp = f /\ G.list = list /\ G.free = D.free /\ G.used = D.used /\ G \in HeapType
      BY <1>1, <2>2, <2>6, <2>7 DEF HeapType
    <2>9. /\ G.imp[a] = U
          /\ \A x \in HeapAddresses \ {a} : G.imp[x] = Unlinked(x)
          /\ \A x \in Pool : G.imp[x] = D.imp[x]
      BY <2>1, <2>8, AddressTypes DEF f
    <2>10. \A x \in Addresses : x = a \/ x \in HeapAddresses \ {a} \/ x \in Pool
      BY DEF Addresses
    <2>11. \A x \in Addresses : x # a => SameUse(D.imp[x], G.imp[x])
      BY <2>5, <2>9, <2>10, AddressTypes DEF SameUse, SameValues
    <2>12. \A x \in Addresses : SoundImp(G.imp[x])
      BY <1>2, <2>4, <2>5, <2>9, <2>10, AddressTypes
    <2>13. Places(G)
      BY <1>1, <2>4, <2>9, <2>11 DEF Places, SameUse
    <2>14. SamePool(D, G)
      BY <2>8, <2>9 DEF SamePool
    <2>15. PoolExact(G)
      BY <1>1, <2>14, PoolKeeps
    <2>16. HeapExact(G)
      <3>1. \A x \in HeapAddresses \ {a} :
               /\ G.imp[x].state = D.imp[x].state
               /\ G.imp[x].next = IF x = I.prev THEN I.next ELSE D.imp[x].next
               /\ G.imp[x].prev = IF x = I.next THEN I.prev ELSE D.imp[x].prev
        BY <2>5, <2>9, AddressTypes DEF SameUse
      <3>2. I = D.imp[a] /\ G.imp[a].state # "heap"
            /\ G.list = IF I.prev = Null THEN I.next ELSE D.list
        BY <2>4, <2>8, <2>9 DEF I, list
      <3>3. ReturnsToHeap(D, a, I, G)
        BY <3>1, <3>2 DEF ReturnsToHeap
      <3> QED
        BY <1>1, <2>1, <3>2, <3>3, HeapReturned
    <2> QED
      BY <2>4, <2>8, <2>9, <2>11, <2>12, <2>13, <2>15, <2>16 DEF Sound
  <1> QED
    BY <1>3, <1>4

\* One count less at a.
Less(r, m, a, needsMarking, r2, m2) ==
    /\ Apart(r, r2, a) /\ Apart(m, m2, a)
    /\ r2[a] = r[a] - 1 /\ m2[a] = IF needsMarking THEN m[a] ELSE m[a] - 1
    /\ m2[a] \in Nat /\ (r2[a] = 0 => m2[a] = 0)

\* List::deref: the last one releases.
LEMMA DerefKeeps ==
    ASSUME NEW H, NEW r, NEW m, Good(H, r, m), NEW l, NEW a \in Addresses, a = l.imp,
           r[a] # 0, NEW r2, NEW m2, Less(r, m, a, l.needsMarking, r2, m2),
           NEW G, G = Deref(H, l)
    PROVE  Good(G, r2, m2) /\ SameContent(r2, H.imp, G.imp)
  <1> USE DEF Less
  <1> DEFINE I == H.imp[a]
             J == [I EXCEPT !.refCount = @ - 1,
                            !.valueRefCount = IF l.needsMarking THEN @ ELSE @ - 1]
             D == Put(H, a, J)
  <1>1. Sound(H) /\ Counted(H, r, m) /\ H \in HeapType
    BY DEF Good, Sound
  <1>2. I \in ImpType /\ SoundImp(I) /\ I.refCount = r[a] /\ I.valueRefCount = m[a]
    BY <1>1 DEF Sound, SoundImp, Counted, CountedAs
  <1>3. I.state # "unused"
    BY <1>1 DEF Counted, CountedAs
  <1>4. G = IF D.imp[a].refCount = 0 THEN Released(D, a) ELSE D
    BY Zenon DEF Deref, Put
  <1> HIDE DEF I
  <1>5. /\ J \in ImpType /\ SameValues(I, J) /\ J.refCount = r2[a] /\ J.valueRefCount = m2[a]
        /\ InPlace(I, J)
    <2>1. r2[a] = I.refCount - 1 /\ r2[a] \in Nat
      BY <1>2 DEF ImpType
    <2>2. m2[a] = IF l.needsMarking THEN I.valueRefCount ELSE I.valueRefCount - 1
      BY <1>2
    <2>3. J = [I EXCEPT !.refCount = r2[a], !.valueRefCount = m2[a]]
      BY <2>1, <2>2
    <2> HIDE DEF J
    <2>4. J \in ImpType /\ J.refCount = r2[a] /\ J.valueRefCount = m2[a]
      BY ONLY <1>2, <2>1, <2>3, m2[a] \in Nat DEF ImpType
    <2>5. SameValues(I, J) /\ InPlace(I, J)
      BY ONLY <1>2, <2>3 DEF ImpType, SameValues, InPlace
    <2> QED
      BY ONLY <2>4, <2>5
  <1> HIDE DEF J
  <1>6. SoundImp(J) /\ Content(J) = Content(I)
    BY <1>2, <1>5, ValuesKeep
  <1> HIDE DEF D
  <1>7. Sound(D) /\ D.imp[a] = J /\ \A x \in Addresses : x # a => D.imp[x] = H.imp[x]
    BY <1>1, <1>5, <1>6, SoundKeeps DEF I, D
  <1>8. CASE r2[a] = 0
    <2>1. G = Released(D, a)
      BY <1>4, <1>5, <1>7, <1>8
    <2>2. D.imp[a].state # "unused"
      BY <1>3, <1>5, <1>7 DEF InPlace
    <2>3. /\ Sound(G) /\ CountedAs(G.imp[a], 0, 0)
          /\ \A x \in Addresses : x # a => SameUse(D.imp[x], G.imp[x])
      BY <1>7, <2>1, <2>2, ReleasedKeeps
    <2>4. ASSUME NEW x \in Addresses, x # a
          PROVE  /\ CountedAs(G.imp[x], r2[x], m2[x])
                 /\ Content(G.imp[x]) = Content(H.imp[x])
      <3>1. CountedAs(H.imp[x], r[x], m[x]) /\ SameUse(H.imp[x], G.imp[x]) /\ SoundImp(H.imp[x])
        BY <1>1, <1>7, <2>3, <2>4 DEF Counted, Sound
      <3>2. r2[x] = r[x] /\ m2[x] = m[x]
        BY <2>4 DEF Apart
      <3>3. G.imp[x] \in ImpType
        BY <2>3 DEF Sound, SoundImp
      <3>4. CountedAs(G.imp[x], r2[x], m2[x])
        BY <3>1, <3>2 DEF CountedAs, SameUse, SameValues
      <3>5. Content(G.imp[x]) = Content(H.imp[x])
        BY <3>1, <3>3, ValuesKeep DEF SameUse
      <3> QED
        BY <3>4, <3>5
    <2>5. Counted(G, r2, m2)
      BY <1>8, <2>3, <2>4 DEF Counted
    <2> QED
      BY <1>8, <2>3, <2>4, <2>5 DEF Good, SameContent
  <1>9. CASE r2[a] # 0
    <2>1. G = D
      BY <1>4, <1>5, <1>7, <1>9
    <2>2. CountedAs(J, r2[a], m2[a])
      BY <1>3, <1>5, <1>9 DEF CountedAs, InPlace
    <2>3. Counted(D, r2, m2)
      BY <1>1, <1>7, <2>2 DEF Counted, Apart
    <2> QED
      BY <1>6, <1>7, <2>1, <2>3 DEF Good, SameContent, I
  <1> QED
    BY <1>8, <1>9

Counts(r, m, a, v, r2, m2) ==
    Apart(r, r2, a) /\ Apart(m, m2, a) /\ r2[a] = 1 /\ m2[a] = v

\* allocateListImp, from the pool or on the heap.
LEMMA AllocatedKeeps ==
    ASSUME NEW H, H = Heap, NEW r, NEW m, Good(H, r, m), CanAllocate, NEW v \in 0 .. 1,
           NEW a, a = Fresh, NEW r2, NEW m2, Counts(r, m, a, v, r2, m2),
           NEW G, G = Allocated(H, v)
    PROVE  /\ a \in Addresses /\ r[a] = 0 /\ Good(G, r2, m2)
           /\ Content(G.imp[a]) = <<>>
           /\ \A x \in Addresses : x # a => Content(G.imp[x]) = Content(H.imp[x])
  <1> USE DEF Counts
  <1>1. /\ Sound(H) /\ Counted(H, r, m) /\ H \in HeapType /\ Places(H)
        /\ PoolExact(H) /\ HeapExact(H)
    BY DEF Good, Sound
  <1>2. H.imp = imp /\ H.free = poolFreeList /\ H.used = poolUsed /\ H.list = heapList
    BY DEF Heap
  <1>3. \A x \in Addresses : SoundImp(H.imp[x]) /\ H.imp[x] \in ImpType
    BY <1>1 DEF Sound, SoundImp
  <1>4. H.free \in Nat /\ H.used \in Nat /\ H.list \in Nat /\ Null \in Nat /\ v \in Nat
    BY <1>1 DEF HeapType, Null
  <1>5. ASSUME Sound(G), a \in Addresses, H.imp[a].state = "unused", G.imp[a].state # "unused",
               G.imp[a].size = 0, G.imp[a].refCount = 1, G.imp[a].valueRefCount = v,
               \A x \in Addresses : x # a => SameUse(H.imp[x], G.imp[x])
        PROVE  /\ a \in Addresses /\ r[a] = 0 /\ Good(G, r2, m2) /\ Content(G.imp[a]) = <<>>
               /\ \A x \in Addresses : x # a => Content(G.imp[x]) = Content(H.imp[x])
    <2>1. r[a] = 0
      BY <1>1, <1>5 DEF Counted, CountedAs
    <2>2. CountedAs(G.imp[a], r2[a], m2[a])
      BY <1>5 DEF CountedAs
    <2>3. ASSUME NEW x \in Addresses, x # a
          PROVE  /\ CountedAs(G.imp[x], r2[x], m2[x])
                 /\ Content(G.imp[x]) = Content(H.imp[x])
      <3>1. CountedAs(H.imp[x], r[x], m[x]) /\ SameUse(H.imp[x], G.imp[x]) /\ SoundImp(H.imp[x])
        BY <1>1, <1>3, <1>5, <2>3 DEF Counted
      <3>2. r2[x] = r[x] /\ m2[x] = m[x]
        BY <2>3 DEF Apart
      <3>3. G.imp[x] \in ImpType
        BY <1>5 DEF Sound, SoundImp
      <3>4. CountedAs(G.imp[x], r2[x], m2[x])
        BY <3>1, <3>2 DEF CountedAs, SameUse, SameValues
      <3>5. Content(G.imp[x]) = Content(H.imp[x])
        BY <3>1, <3>3, ValuesKeep DEF SameUse
      <3> QED
        BY <3>4, <3>5
    <2>4. Counted(G, r2, m2)
      BY <2>2, <2>3 DEF Counted
    <2>5. Content(G.imp[a]) = <<>>
      BY <1>5, NothingIn
    <2> QED
      BY <1>5, <2>1, <2>3, <2>4, <2>5 DEF Good
  <1>6. CASE H.used < PoolSize
    <2>1. a = PoolFirst(H)
      BY <1>2, <1>6 DEF Fresh, Head1, PoolFirst
    <2> DEFINE next == H.imp[a].next
               J == NewImp("pool", v, Null)
               free == IF next # Null THEN next ELSE a + 1
    <2>2. G = [H EXCEPT !.free = free, !.imp[a] = J, !.used = @ + 1]
      BY <1>6 DEF Allocated, AllocatedFromPool
    <2>3. SoundImp(J) /\ J.state = "pool" /\ J.size = 0 /\ J.refCount = 1 /\ J.valueRefCount = v
      BY <1>4, NewImpSound
    <2>4. J \in ImpType
      BY <2>3 DEF SoundImp
    <2>5. ASSUME a \in Pool
          PROVE  /\ free \in Nat /\ G \in HeapType /\ G.imp[a] = J
                 /\ G.free = free /\ G.used = H.used + 1 /\ G.list = H.list
                 /\ \A x \in Addresses : x # a => G.imp[x] = H.imp[x]
      <3>1. a \in Addresses /\ a \in Nat
        BY <2>5, AddressTypes
      <3>2. next \in Nat
        BY <1>3, <3>1 DEF ImpType
      <3>3. free \in Nat
        BY <3>1, <3>2
      <3> HIDE DEF free, J
      <3> DEFINE f == [H.imp EXCEPT ![a] = J]
      <3>4. f \in [Addresses -> ImpType]
        BY <1>1, <2>4 DEF HeapType
      <3>5. G = [H EXCEPT !.free = free, !.imp = f, !.used = H.used + 1]
        BY <1>1, <2>2 DEF HeapType
      <3>7. \A x \in Addresses : f[x] = IF x = a THEN J ELSE H.imp[x]
        BY <1>1 DEF HeapType
      <3> HIDE DEF f
      <3>6. /\ G.imp = f /\ G \in HeapType
            /\ G.free = free /\ G.used = H.used + 1 /\ G.list = H.list
        <4>1. H.used + 1 \in Nat
          BY <1>4
        <4>2. H \in [imp : [Addresses -> ImpType], free : Nat, used : Nat, list : Nat]
          BY <1>1 DEF HeapType
        <4> QED
          BY ONLY <3>3, <3>4, <3>5, <4>1, <4>2 DEF HeapType
      <3> QED
        BY <3>1, <3>3, <3>6, <3>7
    <2>6. a \in Pool /\ H.imp[a].state = "unused"
      <3>1. PoolFree(H) # {}
        BY <1>1, <1>6, PoolCount
      <3>2. a \in PoolFree(H)
        <4>1. PICK n, s : OnList(n, s, PoolFree(H), a, PoolNext(H), PoolSize + 1)
          BY <1>1, <2>1 DEF PoolExact
        <4>2. n \in Nat /\ n # 0 /\ s \in [1 .. n -> PoolFree(H)] /\ a = s[1]
          <5>1. n = 0 => PoolFree(H) = {}
            BY <4>1 DEF OnList
          <5> QED
            BY <3>1, <4>1, <5>1 DEF OnList
        <4> QED
          BY <4>2
      <3> QED
        BY <1>1, <3>2, AddressTypes DEF PoolFree, Places
    <2>7. TakesFromPool(H, a, G)
      <3>1. G.free = PoolNext(H)[a]
        BY <2>5, <2>6 DEF PoolNext
      <3>2. \A x \in Pool \ {a} : G.imp[x] = H.imp[x]
        BY <2>5, <2>6, AddressTypes
      <3> HIDE DEF J
      <3> QED
        BY <2>3, <2>5, <2>6, <3>1, <3>2 DEF TakesFromPool
    <2>8. PoolExact(G)
      <3>1. \A x \in Pool : H.imp[x].next \in Nat
        BY <1>3, AddressTypes DEF ImpType
      <3> QED
        BY <1>1, <1>6, <2>1, <2>7, <3>1, PoolTaken
    <2> HIDE DEF J, free
    <2>9. HeapExact(G)
      <3>1. SameHeap(H, G)
        BY <2>5, <2>6, AddressTypes DEF SameHeap
      <3> QED
        BY <1>1, <3>1, HeapKeeps
    <2>10. Places(G)
      BY <1>1, <2>3, <2>5, <2>6 DEF Places
    <2>11. Sound(G)
      BY <1>3, <2>3, <2>5, <2>6, <2>8, <2>9, <2>10 DEF Sound
    <2>12. \A x \in Addresses : x # a => SameUse(H.imp[x], G.imp[x])
      BY <2>5, <2>6 DEF SameUse, SameValues
    <2>13. a \in Addresses
      BY <2>6, AddressTypes
    <2> QED
      BY <1>5, <2>3, <2>5, <2>6, <2>11, <2>12, <2>13
  <1>7. CASE ~(H.used < PoolSize)
    <2>1. a \in HeapAddresses /\ H.imp[a].state = "unused"
      <3>1. OnHeap # {} /\ OnHeap \subseteq Nat
        BY <1>2, <1>7, AddressTypes DEF CanAllocate, OnHeap
      <3>2. \E x \in OnHeap : \A y \in OnHeap : x <= y
        BY <3>1, LeastNumber
      <3>3. Min(OnHeap) \in OnHeap
        BY <3>2 DEF Min
      <3>4. a = Min(OnHeap)
        BY <1>2, <1>7 DEF Fresh
      <3> QED
        BY <1>2, <3>3, <3>4 DEF OnHeap
    <2>2. a \in Addresses /\ a \in Nat /\ a # Null /\ a \notin Pool
      BY <2>1, AddressTypes
    <2> DEFINE J == NewImp("heap", v, H.list)
               K(x) == [H.imp[x] EXCEPT !.prev = a]
               f == [x \in Addresses |-> IF x = a THEN J ELSE IF x = H.list THEN K(x)
                                         ELSE H.imp[x]]
    <2>3. G = [H EXCEPT !.imp = f, !.list = a]
      BY <1>7 DEF Allocated, AllocatedOnHeap
    <2>4. /\ SoundImp(J) /\ J.state = "heap" /\ J.size = 0 /\ J.refCount = 1
          /\ J.valueRefCount = v /\ J.next = H.list /\ J.prev = Null
      BY <1>4, NewImpSound
    <2>5. J \in ImpType
      BY <2>4 DEF SoundImp
    <2>6. ASSUME NEW x \in Addresses
          PROVE  /\ K(x) \in ImpType /\ SoundImp(K(x)) /\ SameUse(H.imp[x], K(x))
                 /\ K(x).next = H.imp[x].next /\ K(x).prev = a
      <3> DEFINE I == H.imp[x]
                 L == K(x)
      <3>1. I \in ImpType /\ SoundImp(I) /\ L = [I EXCEPT !.prev = a]
        BY <1>3
      <3> HIDE DEF I, L
      <3>2. L \in ImpType /\ SameUse(I, L) /\ L.next = I.next /\ L.prev = a
        BY <2>2, <3>1 DEF ImpType, SameUse, SameValues
      <3>3. SoundImp(L)
        BY <3>1, <3>2, ValuesKeep DEF SameUse
      <3> QED
        BY <3>2, <3>3 DEF I, L
    <2> HIDE DEF J, K
    <2>7. f \in [Addresses -> ImpType]
      BY <1>3, <2>5, <2>6
    <2> HIDE DEF f
    <2>8. G.imp = f /\ G.list = a /\ G.free = H.free /\ G.used = H.used /\ G \in HeapType
      BY <1>1, <2>2, <2>3, <2>7 DEF HeapType
    <2>9. G.imp[a] = J /\ \A x \in Addresses : x # a => G.imp[x] = IF x = H.list THEN K(x) ELSE H.imp[x]
      BY <2>2, <2>8 DEF f
    <2>10. H.list \notin Pool
      <3>1. PICK n, s : OnList(n, s, HeapUsed(H), H.list, HeapNext(H), Null)
        BY <1>1 DEF HeapExact, BothWays
      <3>2. n \in Nat /\ s \in [1 .. n -> HeapUsed(H)] /\ H.list = IF n = 0 THEN Null ELSE s[1]
        BY <3>1 DEF OnList
      <3>3. H.list = Null \/ H.list \in HeapUsed(H)
        BY <3>2
      <3> QED
        BY <3>3, AddressTypes DEF HeapUsed
    <2>11. \A x \in Addresses : x # a => SameUse(H.imp[x], G.imp[x])
      BY <2>6, <2>9 DEF SameUse, SameValues
    <2>12. \A x \in Addresses : SoundImp(G.imp[x])
      BY <1>3, <2>4, <2>6, <2>9
    <2>13. Places(G)
      BY <1>1, <2>2, <2>4, <2>9, <2>11 DEF Places, SameUse
    <2>14. PoolExact(G)
      <3>1. \A x \in Pool : G.imp[x] = H.imp[x]
        BY <2>2, <2>9, <2>10, AddressTypes
      <3>2. SamePool(H, G)
        BY <2>8, <3>1 DEF SamePool
      <3> QED
        BY <1>1, <3>2, PoolKeeps
    <2>15. HeapExact(G)
      <3>1. \A x \in HeapAddresses \ {a} :
               /\ G.imp[x].state = H.imp[x].state /\ G.imp[x].next = H.imp[x].next
               /\ G.imp[x].prev = IF x = H.list THEN a ELSE H.imp[x].prev
        BY <2>6, <2>9, AddressTypes DEF SameUse
      <3>2. TakesOnHeap(H, a, G)
        BY <2>4, <2>8, <2>9, <3>1 DEF TakesOnHeap
      <3>3. a \notin HeapUsed(H)
        BY <2>1 DEF HeapUsed
      <3> QED
        BY <1>1, <2>1, <3>2, <3>3, HeapTaken
    <2>16. Sound(G)
      BY <2>8, <2>12, <2>13, <2>14, <2>15 DEF Sound
    <2> QED
      BY <1>5, <2>1, <2>2, <2>4, <2>9, <2>11, <2>16
  <1> QED
    BY <1>6, <1>7

------------------------------------------------------------------------------
(* The Lists.                                                              *)

HandleType == [imp : Addresses \cup {Null}, needsMarking : BOOLEAN]

Refs(f, a) == {h \in Handles : f[h].imp = a}
Marks(f, a) == {h \in Handles : f[h].imp = a /\ ~f[h].needsMarking}
RefCounts(f) == [a \in Addresses |-> Cardinality(Refs(f, a))]
MarkCounts(f) == [a \in Addresses |-> Cardinality(Marks(f, a))]

HandlesOK ==
    /\ handle \in [Handles -> HandleType]
    /\ \A h \in Handles : handle[h].imp = Null => handle[h] = NoHandle

IInv == HandlesOK /\ Good(Heap, RefCounts(handle), MarkCounts(handle))

\* Counts are those of finite sets.
LEMMA CountTypes ==
    ASSUME NEW f, NEW a \in Addresses
    PROVE  /\ RefCounts(f)[a] \in Nat /\ MarkCounts(f)[a] \in Nat
           /\ MarkCounts(f)[a] <= RefCounts(f)[a]
           /\ RefCounts(f)[a] = 0 <=> Refs(f, a) = {}
           /\ MarkCounts(f)[a] = 0 <=> Marks(f, a) = {}
  <1>1. IsFiniteSet(Handles) /\ Refs(f, a) \subseteq Handles /\ Marks(f, a) \subseteq Refs(f, a)
    BY ListsAssumption DEF Refs, Marks
  <1>2. IsFiniteSet(Refs(f, a))
    BY <1>1, FS_Subset
  <1>3. IsFiniteSet(Marks(f, a)) /\ Cardinality(Marks(f, a)) <= Cardinality(Refs(f, a))
    BY <1>1, <1>2, FS_Subset
  <1>4. /\ Cardinality(Refs(f, a)) \in Nat /\ Cardinality(Marks(f, a)) \in Nat
        /\ Cardinality(Refs(f, a)) = 0 <=> Refs(f, a) = {}
        /\ Cardinality(Marks(f, a)) = 0 <=> Marks(f, a) = {}
    BY <1>2, <1>3, FS_CardinalityType, FS_EmptySet
  <1>5. RefCounts(f)[a] = Cardinality(Refs(f, a)) /\ MarkCounts(f)[a] = Cardinality(Marks(f, a))
    BY DEF RefCounts, MarkCounts
  <1> QED
    BY <1>3, <1>4, <1>5

\* What one List adds to the counts of a.
Ones(l, a) == IF l.imp = a THEN 1 ELSE 0
MarkOnes(l, a) == IF l.imp = a /\ ~l.needsMarking THEN 1 ELSE 0

Retargeted(f, h, l) == [f EXCEPT ![h] = l]

LEMMA CountsMove ==
    ASSUME NEW f \in [Handles -> HandleType], NEW h \in Handles, NEW l \in HandleType,
           NEW g, g = Retargeted(f, h, l), NEW a \in Addresses
    PROVE  /\ RefCounts(g)[a] = RefCounts(f)[a] - Ones(f[h], a) + Ones(l, a)
           /\ MarkCounts(g)[a] = MarkCounts(f)[a] - MarkOnes(f[h], a) + MarkOnes(l, a)
  <1>1. IsFiniteSet(Refs(f, a)) /\ IsFiniteSet(Marks(f, a))
    <2>1. IsFiniteSet(Handles) /\ Refs(f, a) \subseteq Handles /\ Marks(f, a) \subseteq Handles
      BY ListsAssumption DEF Refs, Marks
    <2> QED
      BY <2>1, FS_Subset
  <1>2. g[h] = l /\ \A x \in Handles : x # h => g[x] = f[x]
    BY DEF Retargeted
  <1>3. /\ Beside(h, Refs(f, a), Refs(g, a))
        /\ (h \in Refs(f, a) <=> f[h].imp = a) /\ (h \in Refs(g, a) <=> l.imp = a)
    BY <1>2 DEF Refs, Beside
  <1>4. /\ Beside(h, Marks(f, a), Marks(g, a))
        /\ (h \in Marks(f, a) <=> f[h].imp = a /\ ~f[h].needsMarking)
        /\ (h \in Marks(g, a) <=> l.imp = a /\ ~l.needsMarking)
    BY <1>2 DEF Marks, Beside
  <1> DEFINE P == h \in Refs(f, a)
             Q == h \in Refs(g, a)
             p == Cardinality(Refs(f, a))
             q == Cardinality(Refs(g, a))
  <1>5. /\ p \in Nat /\ q \in Nat /\ ((P <=> Q) => q = p)
        /\ (~P /\ Q => q = p + 1) /\ (P /\ ~Q => q = p - 1)
    BY <1>1, <1>3, OneMoves
  <1>6. Ones(f[h], a) = (IF P THEN 1 ELSE 0) /\ Ones(l, a) = IF Q THEN 1 ELSE 0
    BY <1>3 DEF Ones
  <1> DEFINE MP == h \in Marks(f, a)
             MQ == h \in Marks(g, a)
             mp == Cardinality(Marks(f, a))
             mq == Cardinality(Marks(g, a))
  <1>7. /\ mp \in Nat /\ mq \in Nat /\ ((MP <=> MQ) => mq = mp)
        /\ (~MP /\ MQ => mq = mp + 1) /\ (MP /\ ~MQ => mq = mp - 1)
    BY <1>1, <1>4, OneMoves
  <1>8. MarkOnes(f[h], a) = (IF MP THEN 1 ELSE 0) /\ MarkOnes(l, a) = IF MQ THEN 1 ELSE 0
    BY <1>4 DEF MarkOnes
  <1> HIDE DEF P, Q, p, q, MP, MQ, mp, mq
  <1>9. q = p - Ones(f[h], a) + Ones(l, a)
    BY <1>5, <1>6
  <1>10. mq = mp - MarkOnes(f[h], a) + MarkOnes(l, a)
    BY <1>7, <1>8
  <1> QED
    BY <1>9, <1>10 DEF RefCounts, MarkCounts, p, q, mp, mq

LEMMA AliveTypes ==
    ASSUME HandlesOK, NEW h \in Alive
    PROVE  /\ h \in Handles /\ handle[h] \in HandleType /\ handle[h].imp \in Addresses
           /\ handle[h].imp # Null /\ handle[h].needsMarking \in BOOLEAN
           /\ RefCounts(handle)[handle[h].imp] # 0
           /\ ~handle[h].needsMarking => MarkCounts(handle)[handle[h].imp] # 0
  <1>1. h \in Handles /\ handle[h] # NoHandle
    BY DEF Alive
  <1>2. handle[h] \in HandleType /\ handle[h].imp # Null
    BY <1>1 DEF HandlesOK
  <1>3. handle[h].imp \in Addresses /\ handle[h].needsMarking \in BOOLEAN
    BY <1>2 DEF HandleType
  <1>4. h \in Refs(handle, handle[h].imp)
    BY <1>1 DEF Refs
  <1>5. ~handle[h].needsMarking => h \in Marks(handle, handle[h].imp)
    BY <1>1 DEF Marks
  <1> QED
    BY <1>1, <1>2, <1>3, <1>4, <1>5, CountTypes

\* A List more.
LEMMA NewCounts ==
    ASSUME HandlesOK, NEW h \in Handles, h \notin Alive, NEW a \in Addresses,
           NEW needsMarking \in BOOLEAN, SetHandle(h, a, needsMarking)
    PROVE  LET r == RefCounts(handle)
               m == MarkCounts(handle)
           IN  HandlesOK' /\ More(r, m, a, needsMarking, RefCounts(handle'), MarkCounts(handle'))
  <1> DEFINE l == [imp |-> a, needsMarking |-> needsMarking]
             g == [handle EXCEPT ![h] = l]
  <1>1. l \in HandleType /\ l.imp = a /\ l.needsMarking = needsMarking /\ a # Null
    BY AddressTypes DEF HandleType
  <1>2. handle[h].imp = Null /\ Null \notin Addresses /\ handle \in [Handles -> HandleType]
    BY AddressTypes DEF Alive, NoHandle, HandlesOK
  <1>3. handle' = g
    BY DEF SetHandle
  <1> HIDE DEF l
  <1>4. HandlesOK'
    BY <1>1, <1>2, <1>3 DEF HandlesOK
  <1>5. g = Retargeted(handle, h, l)
    BY DEF Retargeted
  <1> HIDE DEF g
  <1>6. ASSUME NEW x \in Addresses
        PROVE  /\ RefCounts(g)[x] = RefCounts(handle)[x] - Ones(handle[h], x) + Ones(l, x)
               /\ MarkCounts(g)[x] = MarkCounts(handle)[x] - MarkOnes(handle[h], x) + MarkOnes(l, x)
               /\ RefCounts(handle)[x] \in Nat /\ MarkCounts(handle)[x] \in Nat
               /\ Ones(handle[h], x) = 0 /\ MarkOnes(handle[h], x) = 0
    <2>1. Ones(handle[h], x) = 0 /\ MarkOnes(handle[h], x) = 0
      BY <1>2 DEF Ones, MarkOnes
    <2>2. RefCounts(handle)[x] \in Nat /\ MarkCounts(handle)[x] \in Nat
      BY CountTypes
    <2>3. handle \in [Handles -> HandleType] /\ h \in Handles /\ l \in HandleType
      BY <1>1, <1>2
    <2>4. /\ RefCounts(g)[x] = RefCounts(handle)[x] - Ones(handle[h], x) + Ones(l, x)
          /\ MarkCounts(g)[x] = MarkCounts(handle)[x] - MarkOnes(handle[h], x) + MarkOnes(l, x)
      BY ONLY <1>5, <2>3, x \in Addresses, CountsMove
    <2> QED
      BY <2>1, <2>2, <2>4
  <1>7. RefCounts(g)[a] = RefCounts(handle)[a] + 1
    <2>1. Ones(l, a) = 1
      BY <1>1 DEF Ones
    <2> QED
      BY <1>6, <2>1
  <1>8. MarkCounts(g)[a] = IF needsMarking THEN MarkCounts(handle)[a] ELSE MarkCounts(handle)[a] + 1
    <2>1. MarkOnes(l, a) = IF needsMarking THEN 0 ELSE 1
      BY <1>1 DEF MarkOnes
    <2> QED
      BY <1>6, <2>1
  <1>9. ASSUME NEW x \in Addresses, x # a
        PROVE  RefCounts(g)[x] = RefCounts(handle)[x] /\ MarkCounts(g)[x] = MarkCounts(handle)[x]
    <2>1. Ones(l, x) = 0 /\ MarkOnes(l, x) = 0
      BY <1>1, <1>9 DEF Ones, MarkOnes
    <2> QED
      BY <1>6, <2>1
  <1> QED
    BY <1>3, <1>4, <1>7, <1>8, <1>9 DEF Apart, More

\* A List less.
LEMMA GoneCounts ==
    ASSUME HandlesOK, NEW h \in Alive, NEW a, a = handle[h].imp,
           handle' = [handle EXCEPT ![h] = NoHandle]
    PROVE  LET r == RefCounts(handle)
               m == MarkCounts(handle)
           IN  /\ HandlesOK'
               /\ Less(r, m, a, handle[h].needsMarking, RefCounts(handle'), MarkCounts(handle'))
  <1> DEFINE l == NoHandle
             g == [handle EXCEPT ![h] = l]
  <1>1. l \in HandleType /\ l.imp = Null /\ l.needsMarking = FALSE
    BY DEF HandleType, NoHandle
  <1>2. /\ h \in Handles /\ Null \notin Addresses /\ handle \in [Handles -> HandleType]
        /\ a \in Addresses
    BY AddressTypes, AliveTypes DEF HandlesOK
  <1>3. handle' = g
    OBVIOUS
  <1>4. HandlesOK'
    BY <1>1, <1>2, <1>3 DEF HandlesOK
  <1> HIDE DEF l
  <1>5. g = Retargeted(handle, h, l)
    BY DEF Retargeted
  <1> HIDE DEF g
  <1>6. ASSUME NEW x \in Addresses
        PROVE  /\ RefCounts(g)[x] = RefCounts(handle)[x] - Ones(handle[h], x) + Ones(l, x)
               /\ MarkCounts(g)[x] = MarkCounts(handle)[x] - MarkOnes(handle[h], x) + MarkOnes(l, x)
               /\ RefCounts(handle)[x] \in Nat /\ MarkCounts(handle)[x] \in Nat
               /\ Ones(l, x) = 0 /\ MarkOnes(l, x) = 0
    <2>1. Ones(l, x) = 0 /\ MarkOnes(l, x) = 0
      BY <1>1, <1>2 DEF Ones, MarkOnes
    <2>2. RefCounts(handle)[x] \in Nat /\ MarkCounts(handle)[x] \in Nat
      BY CountTypes
    <2>3. handle \in [Handles -> HandleType] /\ h \in Handles /\ l \in HandleType
      BY <1>1, <1>2
    <2>4. /\ RefCounts(g)[x] = RefCounts(handle)[x] - Ones(handle[h], x) + Ones(l, x)
          /\ MarkCounts(g)[x] = MarkCounts(handle)[x] - MarkOnes(handle[h], x) + MarkOnes(l, x)
      BY ONLY <1>5, <2>3, x \in Addresses, CountsMove
    <2> QED
      BY <2>1, <2>2, <2>4
  <1>7. RefCounts(g)[a] = RefCounts(handle)[a] - 1
    <2>1. Ones(handle[h], a) = 1
      BY DEF Ones
    <2> QED
      BY <1>2, <1>6, <2>1
  <1>8. MarkCounts(g)[a] = IF handle[h].needsMarking THEN MarkCounts(handle)[a]
                           ELSE MarkCounts(handle)[a] - 1
    <2>1. MarkOnes(handle[h], a) = IF handle[h].needsMarking THEN 0 ELSE 1
      BY DEF MarkOnes
    <2> QED
      BY <1>2, <1>6, <2>1
  <1>9. ASSUME NEW x \in Addresses, x # a
        PROVE  RefCounts(g)[x] = RefCounts(handle)[x] /\ MarkCounts(g)[x] = MarkCounts(handle)[x]
    <2>1. Ones(handle[h], x) = 0 /\ MarkOnes(handle[h], x) = 0
      BY <1>9 DEF Ones, MarkOnes
    <2> QED
      BY <1>6, <2>1
  <1>10. MarkCounts(g)[a] \in Nat /\ (RefCounts(g)[a] = 0 => MarkCounts(g)[a] = 0)
    BY <1>2, CountTypes
  <1> QED
    BY <1>3, <1>4, <1>7, <1>8, <1>9, <1>10 DEF Apart, Less

LEMMA HeapIs ==
    ASSUME NEW G, SetHeap(G), G \in HeapType
    PROVE  Heap' = G
  BY DEF SetHeap, Heap, HeapType

------------------------------------------------------------------------------
(* The steps.                                                              *)

\* The constructors that make a list of their own.
LEMMA ConstructStep ==
    ASSUME IInv, NEW h \in Handles, NEW needsMarking \in BOOLEAN, NEW s \in Seq(Values),
           ConstructWith(h, needsMarking, s)
    PROVE  IInv' /\ Shared!Create(h, s)
  <1> DEFINE r == RefCounts(handle)
             m == MarkCounts(handle)
             r2 == RefCounts(handle')
             m2 == MarkCounts(handle')
             a == Fresh
             v == IF needsMarking THEN 0 ELSE 1
             H == Heap
             B == Allocated(H, v)
             J == AppendedAll(B.imp[a], s)
             G == Put(B, a, J)
  <1>1. HandlesOK /\ Good(H, r, m)
    BY DEF IInv
  <1>2. h \notin Alive /\ CanAllocate /\ SetHeap(G) /\ SetHandle(h, a, needsMarking)
    BY DEF ConstructWith, Put
  <1>3. v \in 0 .. 1
    OBVIOUS
  <1>4. a \in Addresses /\ r[a] = 0 /\ m[a] = 0
    <2>1. \E q, n : Counts(r, m, a, v, q, n)
      <3> DEFINE A == Addresses \cup {a}
                 q == [x \in A |-> IF x = a THEN 1 ELSE r[x]]
                 n == [x \in A |-> IF x = a THEN v ELSE m[x]]
      <3>1. Counts(r, m, a, v, q, n)
        BY DEF Apart, Counts
      <3> HIDE DEF q, n
      <3> QED
        BY <3>1
    <2>3. H = Heap /\ a = Fresh /\ B = Allocated(H, v)
      OBVIOUS
    <2> HIDE DEF r, m, v, H, a, B
    <2>2. a \in Addresses /\ r[a] = 0
      <3>1. PICK q, n : Counts(r, m, a, v, q, n)
        BY <2>1
      <3>2. Good(H, r, m) /\ CanAllocate
        BY <1>1, <1>2
      <3> QED
        BY ONLY <1>3, <2>3, <3>1, <3>2, AllocatedKeeps
    <2> QED
      BY <2>2, CountTypes DEF r, m
  <1>5. HandlesOK' /\ More(r, m, a, needsMarking, r2, m2)
    <2> HIDE DEF a
    <2> QED
      BY <1>1, <1>2, <1>4, NewCounts
  <1>6. r2[a] = 1 /\ m2[a] = v
    BY <1>4, <1>5 DEF More
  <1>15. H = Heap /\ a = Fresh /\ B = Allocated(H, v)
    OBVIOUS
  <1> HIDE DEF r, m, r2, m2, a, v, H, B
  <1>7. /\ Good(B, r2, m2) /\ Content(B.imp[a]) = <<>>
        /\ \A x \in Addresses : x # a => Content(B.imp[x]) = Content(H.imp[x])
    <2>1. Good(H, r, m) /\ CanAllocate
      BY <1>1, <1>2
    <2>2. Counts(r, m, a, v, r2, m2)
      BY <1>5, <1>6 DEF Counts, More
    <2> QED
      BY ONLY <1>3, <1>15, <2>1, <2>2, AllocatedKeeps
  <1>8. SoundImp(B.imp[a])
    BY <1>4, <1>7 DEF Good, Sound
  <1> HIDE DEF J, G
  <1>9. SoundImp(J) /\ SameLinks(B.imp[a], J) /\ Content(J) = <<>> \o s
    BY <1>7, <1>8, AppendedAllKeeps DEF J
  <1>10. Content(J) = s
    BY <1>9
  <1>11. /\ Good(G, r2, m2) /\ G.imp[a] = J
         /\ \A x \in Addresses : x # a => G.imp[x] = B.imp[x]
    <2>1. r2[a] # 0
      BY <1>6
    <2> QED
      BY <1>4, <1>7, <1>9, <2>1, ChangeKeeps DEF G
  <1>12. Heap' = G
    BY <1>2, <1>11, HeapIs DEF Good, Sound
  <1>13. IInv'
    BY <1>5, <1>11, <1>12 DEF IInv, r2, m2
  <1>14. Shared!Create(h, s)
    <2> DEFINE of == [g \in Handles |-> handle[g].imp]
               content == [x \in Addresses |-> Content(imp[x])]
    <2>1. of[h] = Null
      BY <1>2 DEF Alive, NoHandle
    <2>2. [g \in Handles |-> handle'[g].imp] = [of EXCEPT ![h] = a]
      BY <1>1, <1>2 DEF SetHandle, HandlesOK
    <2>3. a \notin {of[g] : g \in Handles}
      <3>1. Refs(handle, a) = {}
        BY <1>4, CountTypes DEF r
      <3> QED
        BY <3>1 DEF Refs
    <2>4. [x \in Addresses |-> Content(imp'[x])] = [content EXCEPT ![a] = s]
      <3>1. imp' = G.imp /\ imp = H.imp
        BY <1>2 DEF SetHeap, H, Heap
      <3>2. \A x \in Addresses : Content(imp'[x]) = IF x = a THEN s ELSE Content(imp[x])
        BY <1>7, <1>10, <1>11, <3>1
      <3> QED
        BY <3>2
    <2> HIDE DEF of, content
    <2> QED
      BY <1>4, <2>1, <2>2, <2>3, <2>4 DEF Shared!Create, Shared!Referred, of, content
  <1> QED
    BY <1>13, <1>14

\* In every state of the invariant.
LEMMA InvFacts ==
    ASSUME IInv
    PROVE  /\ HandlesOK /\ Good(Heap, RefCounts(handle), MarkCounts(handle)) /\ Heap \in HeapType
           /\ Heap.imp = imp /\ imp \in [Addresses -> ImpType]
           /\ \A a \in Addresses : SoundImp(imp[a])
  <1>1. HandlesOK /\ Good(Heap, RefCounts(handle), MarkCounts(handle)) /\ Heap.imp = imp
    BY DEF IInv, Heap
  <1>2. Heap \in HeapType /\ \A a \in Addresses : SoundImp(imp[a])
    BY <1>1 DEF Good, Sound
  <1>3. imp \in [Addresses -> ImpType]
    BY <1>1, <1>2 DEF HeapType
  <1> QED
    BY <1>1, <1>2, <1>3

\* What is still referred to keeps its values, and the rest has none.
LEMMA ReferStep ==
    ASSUME HandlesOK, HandlesOK', NEW G, SetHeap(G),
           Good(G, RefCounts(handle'), MarkCounts(handle')),
           SameContent(RefCounts(handle'), imp, G.imp),
           NEW h \in Handles, NEW l \in HandleType, handle' = Retargeted(handle, h, l)
    PROVE  IInv' /\ Shared!Refer(h, l.imp)
  <1>1. Heap' = G /\ imp' = G.imp
    BY HeapIs DEF Good, Sound, SetHeap
  <1>2. IInv'
    BY <1>1 DEF IInv
  <1> DEFINE of == [g \in Handles |-> handle[g].imp]
             of2 == [g \in Handles |-> handle'[g].imp]
             content == [x \in Addresses |-> Content(imp[x])]
             content2 == [x \in Addresses |-> Content(imp'[x])]
  <1>3. of2 = [of EXCEPT ![h] = l.imp]
    BY DEF HandlesOK, Retargeted
  <1>4. content2 = [x \in Addresses |->
                      IF x \in {of2[g] : g \in Handles} \ {Null} THEN content[x] ELSE <<>>]
    <2>1. ASSUME NEW x \in Addresses
          PROVE  Content(imp'[x]) =
                    IF x \in {of2[g] : g \in Handles} \ {Null} THEN Content(imp[x]) ELSE <<>>
      <3>1. x # Null
        BY AddressTypes
      <3>2. x \in {of2[g] : g \in Handles} <=> Refs(handle', x) # {}
        BY DEF Refs
      <3>3. RefCounts(handle')[x] = 0 <=> Refs(handle', x) = {}
        BY CountTypes
      <3>4. RefCounts(handle')[x] = 0 => Content(G.imp[x]) = <<>>
        BY NothingIn DEF Good, Counted, CountedAs
      <3> HIDE DEF of2
      <3> QED
        BY <1>1, <3>1, <3>2, <3>3, <3>4 DEF SameContent
    <2> HIDE DEF of2
    <2> QED
      BY <2>1
  <1> HIDE DEF of, of2, content, content2
  <1>5. Shared!Refer(h, l.imp)
    BY <1>3, <1>4 DEF Shared!Refer, Shared!Kept, Shared!Referred, of, of2, content, content2
  <1> QED
    BY <1>2, <1>5

LEMMA DestroyStep ==
    ASSUME IInv, NEW h \in Alive, Destroy(h)
    PROVE  IInv' /\ Shared!Refer(h, Null)
  <1> DEFINE r == RefCounts(handle)
             m == MarkCounts(handle)
             r2 == RefCounts(handle')
             m2 == MarkCounts(handle')
             l == handle[h]
             a == l.imp
             H == Heap
             G == Deref(H, l)
  <1>1. HandlesOK /\ Good(H, r, m) /\ H.imp = imp
    BY InvFacts
  <1>2. SetHeap(G) /\ handle' = [handle EXCEPT ![h] = NoHandle]
    BY DEF Destroy
  <1>3. h \in Handles /\ a \in Addresses /\ r[a] # 0
    BY <1>1, AliveTypes
  <1>4. HandlesOK' /\ Less(r, m, a, l.needsMarking, r2, m2)
    BY <1>1, <1>2, GoneCounts
  <1>6. a = l.imp /\ G = Deref(H, l)
    OBVIOUS
  <1>7. NoHandle \in HandleType /\ NoHandle.imp = Null
    BY DEF HandleType, NoHandle
  <1>8. handle' = Retargeted(handle, h, NoHandle)
    BY <1>2 DEF Retargeted
  <1> HIDE DEF r, m, r2, m2, l, a, H, G
  <1>9. Good(G, r2, m2) /\ SameContent(r2, imp, G.imp)
    <2>1. Good(G, r2, m2) /\ SameContent(r2, H.imp, G.imp)
      BY ONLY <1>1, <1>3, <1>4, <1>6, DerefKeeps
    <2> QED
      BY <1>1, <2>1
  <1>10. IInv' /\ Shared!Refer(h, NoHandle.imp)
    BY <1>1, <1>2, <1>3, <1>4, <1>7, <1>8, <1>9, ReferStep DEF r2, m2
  <1> QED
    BY <1>7, <1>10

LEMMA CopyConstructStep ==
    ASSUME IInv, NEW h \in Handles, NEW g \in Alive, NEW a, a = handle[g].imp,
           CopyConstruct(h, g)
    PROVE  IInv' /\ Shared!Refer(h, a)
  <1> DEFINE r == RefCounts(handle)
             m == MarkCounts(handle)
             r2 == RefCounts(handle')
             m2 == MarkCounts(handle')
             l == [imp |-> a, needsMarking |-> FALSE]
             H == Heap
             G == Ref(H, a, FALSE)
  <1>1. HandlesOK /\ Good(H, r, m) /\ H.imp = imp
    BY InvFacts
  <1>2. h \notin Alive /\ SetHeap(G) /\ SetHandle(h, a, FALSE)
    BY DEF CopyConstruct
  <1>3. a \in Addresses /\ r[a] # 0
    BY <1>1, AliveTypes
  <1>4. HandlesOK' /\ More(r, m, a, FALSE, r2, m2)
    BY <1>1, <1>2, <1>3, NewCounts
  <1>5. l \in HandleType /\ l.imp = a
    BY <1>3 DEF HandleType
  <1>6. handle' = Retargeted(handle, h, l)
    BY <1>2 DEF Retargeted, SetHandle
  <1>7. G = Ref(H, a, FALSE) /\ FALSE \in BOOLEAN
    OBVIOUS
  <1> HIDE DEF r, m, r2, m2, l, H, G
  <1>8. Good(G, r2, m2) /\ SameContent(r2, imp, G.imp)
    <2>1. Good(G, r2, m2) /\ SameContent(r2, H.imp, G.imp)
      BY ONLY <1>1, <1>3, <1>4, <1>7, RefKeeps
    <2> QED
      BY <1>1, <2>1
  <1>9. IInv' /\ Shared!Refer(h, l.imp)
    BY <1>1, <1>2, <1>4, <1>5, <1>6, <1>8, ReferStep DEF r2, m2
  <1> QED
    BY <1>5, <1>9

LEMMA AssignStep ==
    ASSUME IInv, NEW h \in Alive, NEW g \in Alive, NEW k, k = handle[h],
           NEW b, b = handle[g].imp, Assign(h, g)
    PROVE  IInv' /\ Shared!Refer(h, b)
  <1> DEFINE r == RefCounts(handle)
             m == MarkCounts(handle)
             r2 == RefCounts(handle')
             m2 == MarkCounts(handle')
             a == k.imp
             needsMarking == k.needsMarking
             l == [imp |-> b, needsMarking |-> needsMarking]
             r1 == [x \in Addresses |-> IF x = b THEN r[x] + 1 ELSE r[x]]
             m1 == [x \in Addresses |-> IF x = b /\ ~needsMarking THEN m[x] + 1 ELSE m[x]]
             H == Heap
             B == Ref(H, b, needsMarking)
             G == Deref(B, k)
  <1>1. HandlesOK /\ Good(H, r, m) /\ H.imp = imp
    BY InvFacts
  <1>2. SetHeap(G) /\ handle' = [handle EXCEPT ![h] = l]
    BY DEF Assign, SetHandle
  <1>3. /\ h \in Handles /\ a \in Addresses /\ r[a] # 0 /\ needsMarking \in BOOLEAN
        /\ b \in Addresses /\ r[b] # 0 /\ b # Null
    BY <1>1, AliveTypes
  <1>4. l \in HandleType /\ l.imp = b /\ l.needsMarking = needsMarking
    BY <1>3 DEF HandleType
  <1>5. handle' = Retargeted(handle, h, l)
    BY <1>2 DEF Retargeted
  <1>6. HandlesOK'
    BY <1>1, <1>2, <1>3, <1>4 DEF HandlesOK
  <1>7. G = Deref(B, k) /\ B = Ref(H, b, needsMarking) /\ a = k.imp /\ needsMarking = k.needsMarking
    OBVIOUS
  <1>8. ASSUME NEW x \in Addresses
        PROVE  /\ r[x] \in Nat /\ m[x] \in Nat /\ r2[x] \in Nat /\ m2[x] \in Nat
               /\ m2[x] <= r2[x]
               /\ r2[x] = r[x] - Ones(k, x) + Ones(l, x)
               /\ m2[x] = m[x] - MarkOnes(k, x) + MarkOnes(l, x)
    <2>1. /\ r[x] \in Nat /\ m[x] \in Nat /\ r2[x] \in Nat /\ m2[x] \in Nat
          /\ m2[x] <= r2[x]
      BY CountTypes
    <2>2. handle \in [Handles -> HandleType]
      BY <1>1 DEF HandlesOK
    <2> HIDE DEF l
    <2>3. /\ r2[x] = r[x] - Ones(k, x) + Ones(l, x)
          /\ m2[x] = m[x] - MarkOnes(k, x) + MarkOnes(l, x)
      BY ONLY <1>3, <1>4, <1>5, <2>2, k = handle[h], x \in Addresses, CountsMove
    <2> QED
      BY <2>1, <2>3
  <1> HIDE DEF r, m, r2, m2, a, needsMarking, l, H, B, G
  <1>9. /\ r1[b] = r[b] + 1 /\ m1[b] = IF needsMarking THEN m[b] ELSE m[b] + 1
        /\ Apart(r, r1, b) /\ Apart(m, m1, b)
    BY <1>3 DEF Apart
  <1>17. More(r, m, b, needsMarking, r1, m1)
    BY <1>9 DEF More
  <1>10. ASSUME NEW x \in Addresses
         PROVE  /\ r2[x] = IF x = a THEN r1[x] - 1 ELSE r1[x]
                /\ m2[x] = IF x = a /\ ~needsMarking THEN m1[x] - 1 ELSE m1[x]
    <2>1. Ones(k, x) = (IF x = a THEN 1 ELSE 0) /\ Ones(l, x) = IF x = b THEN 1 ELSE 0
      BY <1>4, <1>7 DEF Ones
    <2>2. MarkOnes(k, x) = (IF x = a /\ ~needsMarking THEN 1 ELSE 0)
          /\ MarkOnes(l, x) = IF x = b /\ ~needsMarking THEN 1 ELSE 0
      BY <1>4, <1>7 DEF MarkOnes
    <2>3. r1[x] = (IF x = b THEN r[x] + 1 ELSE r[x])
          /\ m1[x] = IF x = b /\ ~needsMarking THEN m[x] + 1 ELSE m[x]
      OBVIOUS
    <2> HIDE DEF r1, m1
    <2>4. r2[x] = IF x = a THEN r1[x] - 1 ELSE r1[x]
      BY <1>8, <2>1, <2>3
    <2>5. m2[x] = IF x = a /\ ~needsMarking THEN m1[x] - 1 ELSE m1[x]
      <3>1. CASE needsMarking
        BY <1>8, <2>2, <2>3, <3>1
      <3>2. CASE ~needsMarking
        BY <1>8, <2>2, <2>3, <3>2
      <3> QED
        BY <3>1, <3>2
    <2> QED
      BY <2>4, <2>5
  <1>11. r1[a] # 0
    <2>1. CASE a = b
      BY <1>3, <1>8, <1>9, <2>1
    <2>2. CASE a # b
      BY <1>3, <1>9, <2>2 DEF Apart
    <2> QED
      BY <2>1, <2>2
  <1> HIDE DEF r1, m1
  <1>12. Good(B, r1, m1) /\ SameContent(r2, H.imp, B.imp)
    BY ONLY <1>1, <1>3, <1>7, <1>17, RefKeeps
  <1>13. Less(r1, m1, a, k.needsMarking, r2, m2)
    <2>1. Apart(r1, r2, a) /\ Apart(m1, m2, a)
      BY <1>10 DEF Apart
    <2>2. r2[a] = r1[a] - 1 /\ m2[a] = IF k.needsMarking THEN m1[a] ELSE m1[a] - 1
      BY <1>3, <1>7, <1>10
    <2>3. m2[a] \in Nat /\ (r2[a] = 0 => m2[a] = 0)
      BY <1>3, <1>8
    <2> QED
      BY <2>1, <2>2, <2>3 DEF Less
  <1>14. Good(G, r2, m2) /\ SameContent(r2, B.imp, G.imp)
    BY ONLY <1>3, <1>7, <1>11, <1>12, <1>13, DerefKeeps
  <1>15. SameContent(r2, imp, G.imp)
    BY <1>1, <1>12, <1>14 DEF SameContent
  <1>16. IInv' /\ Shared!Refer(h, l.imp)
    BY <1>1, <1>2, <1>3, <1>4, <1>5, <1>6, <1>14, <1>15, ReferStep DEF r2, m2
  <1> QED
    BY <1>4, <1>16

\* Other values in the list of h.
LEMMA ChangeStep ==
    ASSUME IInv, NEW h \in Alive, NEW a, a = handle[h].imp, NEW J, SoundImp(J),
           SameLinks(imp[a], J), Change(a, J)
    PROVE  IInv' /\ Shared!Change(h, Content(J))
  <1> DEFINE r == RefCounts(handle)
             m == MarkCounts(handle)
             H == Heap
             G == Put(H, a, J)
  <1>1. HandlesOK /\ Good(H, r, m) /\ H.imp = imp /\ H \in HeapType /\ imp \in [Addresses -> ImpType]
    BY InvFacts
  <1>2. /\ imp' = [imp EXCEPT ![a] = J] /\ poolFreeList' = poolFreeList /\ poolUsed' = poolUsed
        /\ heapList' = heapList /\ handle' = handle
    BY DEF Change
  <1>3. h \in Handles /\ a \in Addresses /\ r[a] # 0 /\ a # Null
    BY <1>1, AliveTypes
  <1>4. Heap' = G
    BY <1>1, <1>2 DEF Heap, Put
  <1>5. G = Put(H, a, J) /\ SameLinks(H.imp[a], J)
    BY <1>1
  <1> HIDE DEF H, r, m, G
  <1>6. Good(G, r, m)
    BY ONLY <1>1, <1>3, <1>5, SoundImp(J), ChangeKeeps
  <1>7. IInv'
    BY <1>1, <1>2, <1>4, <1>6 DEF IInv, HandlesOK, r, m
  <1> DEFINE of == [g \in Handles |-> handle[g].imp]
             content == [x \in Addresses |-> Content(imp[x])]
             content2 == [x \in Addresses |-> Content(imp'[x])]
  <1>8. of[h] = a /\ of' = of
    BY <1>2, <1>3
  <1>9. content2 = [content EXCEPT ![a] = Content(J)]
    <2>1. \A x \in Addresses : Content(imp'[x]) = IF x = a THEN Content(J) ELSE Content(imp[x])
      BY <1>1, <1>2, <1>3
    <2> QED
      BY <2>1
  <1>10. Shared!Change(h, Content(J))
    <2> HIDE DEF content, content2
    <2> QED
      BY <1>3, <1>8, <1>9 DEF Shared!Change, content, content2
  <1> QED
    BY <1>7, <1>10

LEMMA AppendStep ==
    ASSUME IInv, NEW h \in Alive, NEW a, a = handle[h].imp, NEW v \in Values, AppendValue(h, v)
    PROVE  \E s : s = Append(Content(imp[a]), v) /\ IInv' /\ Shared!Change(h, s)
  <1>1. SoundImp(imp[a]) /\ a \in Addresses
    BY InvFacts, AliveTypes
  <1>2. PICK J : J = Appended(imp[a], v)
    OBVIOUS
  <1>3. Change(a, J)
    BY <1>2 DEF AppendValue
  <1>4. SoundImp(J) /\ SameLinks(imp[a], J) /\ Content(J) = Append(Content(imp[a]), v)
    BY <1>1, <1>2, AppendedKeeps
  <1>5. IInv' /\ Shared!Change(h, Content(J))
    BY <1>3, <1>4, ChangeStep
  <1> QED
    BY <1>4, <1>5

LEMMA ClearStep ==
    ASSUME IInv, NEW h \in Alive, NEW a, a = handle[h].imp, Clear(h)
    PROVE  IInv' /\ Shared!Change(h, <<>>)
  <1>1. SoundImp(imp[a]) /\ a \in Addresses
    BY InvFacts, AliveTypes
  <1>2. PICK I : I = imp[a]
    OBVIOUS
  <1>3. PICK J : J = [I EXCEPT !.size = 0, !.values = Fill(inlineValuesSize),
                               !.overflow = Fill(Len(I.overflow))]
    OBVIOUS
  <1>4. Change(a, J)
    BY <1>2, <1>3 DEF Clear
  <1>5. I \in ImpType /\ Len(I.overflow) = Room(I.capacity) /\ Len(I.overflow) \in Nat
    <2>1. I \in ImpType /\ Len(I.overflow) = Room(I.capacity)
      BY <1>1, <1>2 DEF SoundImp
    <2>2. I.overflow \in Seq(Vals)
      BY ONLY <2>1 DEF ImpType
    <2>3. Len(I.overflow) \in Nat
      BY ONLY <2>2
    <2> QED
      BY ONLY <2>1, <2>3
  <1> DEFINE f == Fill(Len(I.overflow))
             e == Fill(inlineValuesSize)
  <1>6. f \in Seq(Vals) /\ Len(f) = Len(I.overflow) /\ e \in [1 .. inlineValuesSize -> Vals]
    BY <1>5, ListsAssumption, FillType
  <1>7. J = [I EXCEPT !.size = 0, !.values = e, !.overflow = f]
    BY <1>3
  <1> HIDE DEF e, f
  <1>8. J \in ImpType /\ SameLinks(I, J) /\ J.size = 0 /\ J.overflow = f /\ J.capacity = I.capacity
    BY <1>5, <1>6, <1>7 DEF ImpType, SameLinks
  <1>9. SoundImp(J)
    <2>1. J.size <= inlineValuesSize /\ \A n \in 1 .. J.size : FALSE
      BY ONLY <1>8, ListsAssumption
    <2>2. Len(J.overflow) = Room(J.capacity)
      BY ONLY <1>5, <1>6, <1>8
    <2> QED
      BY ONLY <1>8, <2>1, <2>2 DEF SoundImp
  <1>10. IInv' /\ Shared!Change(h, Content(J))
    BY <1>2, <1>4, <1>8, <1>9, ChangeStep
  <1>11. Content(J) = <<>>
    <2>1. J.size = 0
      BY ONLY <1>8
    <2> QED
      BY ONLY <2>1, NothingIn
  <1> QED
    BY <1>10, <1>11

Both(I, J) == Content(I) \o Content(J)

LEMMA CopyFromStep ==
    ASSUME IInv, NEW h \in Alive, NEW g \in Alive, NEW a, a = handle[h].imp,
           NEW b, b = handle[g].imp, CopyFrom(h, g)
    PROVE  \E s : s = Both(imp[a], imp[b]) /\ IInv' /\ Shared!Change(h, s)
  <1>1. SoundImp(imp[a]) /\ SoundImp(imp[b]) /\ a \in Addresses
    BY InvFacts, AliveTypes
  <1>2. Content(imp[b]) \in Seq(Values)
    BY <1>1, ContentType
  <1>3. PICK J : J = AppendedAll(imp[a], Content(imp[b]))
    OBVIOUS
  <1>4. Change(a, J)
    BY ONLY a = handle[h].imp, b = handle[g].imp, CopyFrom(h, g), <1>3 DEF CopyFrom, ContentOf
  <1>5. SoundImp(J) /\ SameLinks(imp[a], J) /\ Content(J) = Both(imp[a], imp[b])
    BY <1>1, <1>2, <1>3, AppendedAllKeeps DEF Both
  <1>6. IInv' /\ Shared!Change(h, Content(J))
    BY <1>4, <1>5, ChangeStep
  <1> QED
    BY <1>5, <1>6

LEMMA Shifted ==
    ASSUME NEW n \in Nat, NEW i \in 1 .. n, NEW k \in 1 .. n - i
    PROVE  k + (i - 1) \in 1 .. n - 1 /\ (k + (i - 1)) + 1 = i + k
  OBVIOUS

\* The two loops of copyTail.
Loops(I, i, d, e, s) ==
    /\ i = Min({I.size, inlineValuesSize})
    /\ d = SubSeq(I.values, 2, i) /\ e = SubSeq(I.overflow, 1, I.size - i)
    /\ s = d \o e

\* copyTail copies all values but the first.
LEMMA CopyTailContent ==
    ASSUME NEW I, SoundImp(I), NEW i, NEW d, NEW e, NEW s, Loops(I, i, d, e, s)
    PROVE  /\ I.size = 0 => s = <<>>
           /\ I.size # 0 => s = Tail(Content(I))
           /\ s \in Seq(Values)
  <1> DEFINE n == I.size
             c == Content(I)
             o == I.overflow
             q == I.values
             S == Vals
  <1>1. n \in Nat /\ inlineValuesSize \in Nat /\ inlineValuesSize > 0
    BY ListsAssumption DEF SoundImp, ImpType
  <1>2. q \in Seq(S) /\ Len(q) = inlineValuesSize /\ o \in Seq(S)
    BY <1>1 DEF SoundImp, ImpType
  <1>3. /\ Len(o) = Room(I.capacity) /\ I.capacity \in Nat
        /\ n <= inlineValuesSize \/ n <= I.capacity
    BY DEF SoundImp, ImpType
  <1>4. c \in Seq(Values) /\ Len(c) = n /\ \A k \in 1 .. n : c[k] = ValueAt(I, k)
    BY ContentType DEF Content
  <1>5. i \in Nat /\ i <= n /\ i <= inlineValuesSize /\ (i = n \/ i = inlineValuesSize)
    <2> HIDE DEF n
    <2>1. \E x \in {n, inlineValuesSize} : \A y \in {n, inlineValuesSize} : x <= y
      BY <1>1
    <2>2. /\ Min({n, inlineValuesSize}) \in {n, inlineValuesSize}
          /\ \A y \in {n, inlineValuesSize} : Min({n, inlineValuesSize}) <= y
      BY <2>1 DEF Min
    <2>3. i = Min({n, inlineValuesSize})
      BY DEF n, Loops
    <2> QED
      BY <1>1, <2>2, <2>3
  <1>6. n - i \in Nat /\ (n - i = 0 \/ n - i <= Room(I.capacity))
    <2> DEFINE p == I.capacity
    <2>1. p \in Nat /\ (n <= inlineValuesSize \/ n <= p)
      BY <1>3
    <2> HIDE DEF n, p
    <2>2. CASE i = n
      BY ONLY <1>1, <2>2
    <2>3. CASE i # n
      <3>1. i = inlineValuesSize /\ n > inlineValuesSize /\ n <= p
        BY ONLY <1>1, <1>5, <2>1, <2>3
      <3>2. Room(p) = p - inlineValuesSize
        BY ONLY <1>1, <2>1, <3>1 DEF Room
      <3>3. n - i \in Nat /\ n - i <= Room(p)
        BY ONLY <1>1, <2>1, <3>1, <3>2
      <3> QED
        BY ONLY <3>3 DEF p
    <2> QED
      BY ONLY <2>2, <2>3
  <1>7. i \in 0 .. Len(q) /\ n - i \in 0 .. Len(o)
    <2>1. Len(o) \in Nat
      BY <1>2
    <2> QED
      BY <1>2, <1>3, <1>5, <1>6, <2>1
  <1>8. e = SubSeq(o, 1, n - i) /\ d = SubSeq(q, 2, i) /\ s = d \o e
    BY DEF Loops
  <1> HIDE DEF n, c, o, q
  <1>9. e \in Seq(S) /\ Len(e) = n - i /\ \A k \in 1 .. n - i : e[k] = o[k]
    BY ONLY <1>2, <1>7, <1>8, Prefix
  <1>10. /\ i = 0 => d = <<>>
         /\ i # 0 => d \in Seq(S) /\ Len(d) = i - 1 /\ \A k \in 1 .. i - 1 : d[k] = q[k + 1]
    BY ONLY <1>2, <1>7, <1>8, Rest
  <1>11. \A k \in 1 .. i : c[k] = q[k]
    <2>1. \A k \in 1 .. i : k \in 1 .. n /\ k <= inlineValuesSize
      BY <1>1, <1>5
    <2> QED
      BY <1>4, <2>1 DEF ValueAt, q
  <1>12. \A k \in 1 .. n - i : e[k] = c[i + k]
    <2> SUFFICES ASSUME NEW k \in 1 .. n - i PROVE e[k] = c[i + k]
      OBVIOUS
    <2>1. i = inlineValuesSize /\ i + k \in 1 .. n /\ ~(i + k <= inlineValuesSize)
          /\ (i + k) - inlineValuesSize = k
      BY ONLY k \in 1 .. n - i, <1>1, <1>5
    <2>2. ValueAt(I, i + k) = o[(i + k) - inlineValuesSize]
      BY <2>1 DEF ValueAt, o
    <2> QED
      BY <1>4, <1>9, <2>1, <2>2
  <1>13. CASE n = 0
    <2>1. i = 0 /\ n - i = 0
      BY ONLY <1>1, <1>5, <1>13
    <2>2. d = <<>>
      BY <1>10, <2>1
    <2>3. e = <<>>
      BY <1>9, <2>1, Empty
    <2>4. s = <<>> /\ s \in Seq(Values)
      <3>1. s = d \o e
        BY ONLY <1>8
      <3> QED
        BY ONLY <2>2, <2>3, <3>1
    <2> QED
      BY <1>13, <2>4 DEF n
  <1>14. CASE n # 0
    <2>1. i # 0 /\ i \in Nat /\ n \in Nat /\ n - i \in Nat /\ i - 1 \in Nat /\ i <= n
      BY ONLY <1>1, <1>5, <1>14
    <2>2. d \in Seq(S) /\ Len(d) = i - 1 /\ \A k \in 1 .. i - 1 : d[k] = q[k + 1]
      BY <1>10, <2>1
    <2> DEFINE t == Tail(c)
    <2>3. t = Tail(c) /\ c \in Seq(Values) /\ Len(c) = n
      BY <1>4
    <2> HIDE DEF t
    <2>4. t \in Seq(Values) /\ Len(t) = n - 1 /\ \A k \in 1 .. n - 1 : t[k] = c[k + 1]
      BY <1>14, <2>3, TailOf
    <2>5. Holds(t, d, e)
      <3>1. n - 1 = (i - 1) + (n - i)
        BY ONLY <2>1
      <3>2. \A k \in 1 .. i - 1 : k \in 1 .. n - 1 /\ k + 1 \in 1 .. i
        BY ONLY <2>1
      <3>3. \A k \in 1 .. i - 1 : t[k] = d[k]
        BY ONLY <1>11, <2>2, <2>4, <3>2
      <3>4. ASSUME NEW k \in 1 .. n - i PROVE t[k + (i - 1)] = e[k]
        <4>1. i \in 1 .. n
          BY ONLY <2>1
        <4>2. k + (i - 1) \in 1 .. n - 1 /\ (k + (i - 1)) + 1 = i + k
          BY ONLY <2>1, <3>4, <4>1, Shifted
        <4>3. t[k + (i - 1)] = c[i + k]
          BY ONLY <2>4, <4>2
        <4> QED
          BY ONLY <1>12, <3>4, <4>3
      <3>5. Len(t) = Len(d) + Len(e)
        BY ONLY <1>9, <2>2, <2>4, <3>1
      <3>6. Len(d) = i - 1 /\ Len(e) = n - i
        BY ONLY <1>9, <2>2
      <3> QED
        BY ONLY <3>3, <3>4, <3>5, <3>6 DEF Holds
    <2>6. t \in Seq(S)
      BY <2>4 DEF Vals
    <2>7. t = s
      BY ONLY <1>8, <1>9, <2>2, <2>5, <2>6, JoinedIs
    <2>8. s = Tail(c) /\ s \in Seq(Values)
      BY <2>3, <2>4, <2>7
    <2> QED
      BY <1>14, <2>8 DEF n, c
  <1> QED
    BY <1>13, <1>14

-----------------------------------------------------------------------------
\* The initial states, and the steps.

LEMMA InitInv ==
    ASSUME Init
    PROVE  IInv /\ Shared!Init
  <1> DEFINE H == Heap
             r == RefCounts(handle)
             m == MarkCounts(handle)
  <1>1. /\ \A a \in Addresses : H.imp[a] = Unused(Null)
        /\ H.imp = imp /\ imp = [a \in Addresses |-> Unused(Null)]
        /\ H.free = Null /\ H.used = 0 /\ H.list = Null
        /\ DOMAIN imp = Addresses
    BY DEF Init, Heap
  <1>2. /\ SoundImp(Unused(Null)) /\ Unused(Null) \in ImpType
        /\ Unused(Null).state = "unused" /\ Unused(Null).size = 0
        /\ Unused(Null).refCount = 0 /\ Unused(Null).valueRefCount = 0
        /\ Unused(Null).next = Null
    BY UnusedSound DEF Null, SoundImp
  <1>3. H \in HeapType
    <2>1. imp \in [Addresses -> ImpType]
      BY <1>1, <1>2
    <2> QED
      BY <2>1 DEF Init, Heap, HeapType, Null
  <1>4. PoolFree(H) = Pool
    <2>1. \A a \in Pool : H.imp[a].state # "pool"
      BY <1>1, <1>2, AddressTypes
    <2> QED
      BY <2>1 DEF PoolFree
  <1>5. PoolExact(H)
    <2> DEFINE s == [i \in 1 .. PoolSize |-> i]
    <2>1. PoolSize \in Nat /\ PoolSize > 0
      BY ListsAssumption
    <2>2. \A a \in Pool : PoolNext(H)[a] = a + 1
      BY <1>1, <1>2, AddressTypes DEF PoolNext
    <2>3. OnList(PoolSize, s, Pool, 1, PoolNext(H), PoolSize + 1)
      <3>1. s \in [1 .. PoolSize -> Pool] /\ Pool = {s[i] : i \in 1 .. PoolSize}
        BY DEF Pool
      <3>2. \A i \in 1 .. PoolSize : s[i] = i /\ i \in Pool
        BY DEF Pool
      <3> HIDE DEF s
      <3>3. \A i \in 1 .. PoolSize : PoolNext(H)[s[i]] = IF i = PoolSize THEN PoolSize + 1 ELSE s[i + 1]
        BY <2>1, <2>2, <3>2
      <3>4. 1 = IF PoolSize = 0 THEN PoolSize + 1 ELSE s[1]
        BY <2>1, <3>2
      <3> QED
        BY <2>1, <3>1, <3>2, <3>3, <3>4 DEF OnList
    <2> HIDE DEF s
    <2>4. Cardinality(Pool) = PoolSize
      BY <2>3, OnListCardinality
    <2>5. PoolFirst(H) = 1
      BY <1>1 DEF PoolFirst
    <2>6. H.used = PoolSize - Cardinality(Pool)
      BY <1>1, <2>1, <2>4
    <2> QED
      BY <1>4, <2>3, <2>5, <2>6 DEF PoolExact
  <1>6. HeapExact(H)
    <2>1. HeapUsed(H) = {}
      <3>1. \A a \in HeapAddresses : H.imp[a].state # "heap"
        BY <1>1, <1>2, AddressTypes
      <3> QED
        BY <3>1 DEF HeapUsed
    <2> DEFINE s == [i \in 1 .. 0 |-> i]
    <2>2. OnList(0, s, {}, Null, HeapNext(H), Null)
      BY DEF OnList
    <2>3. BothWays(H, 0, s)
      BY <1>1, <2>1, <2>2 DEF BothWays
    <2> QED
      BY <2>3 DEF HeapExact
  <1>7. Sound(H)
    BY <1>1, <1>2, <1>3, <1>5, <1>6 DEF Sound, Places
  <1>8. \A a \in Addresses : r[a] = 0 /\ m[a] = 0
    <2> SUFFICES ASSUME NEW a \in Addresses PROVE r[a] = 0 /\ m[a] = 0
      OBVIOUS
    <2>1. \A h \in Handles : handle[h].imp # a
      BY AddressTypes DEF Init, NoHandle
    <2>2. Refs(handle, a) = {} /\ Marks(handle, a) = {}
      BY <2>1 DEF Refs, Marks
    <2> QED
      BY <2>2, CountTypes
  <1> HIDE DEF r, m
  <1>9. Counted(H, r, m)
    BY <1>1, <1>2, <1>8 DEF Counted, CountedAs
  <1>10. HandlesOK
    BY DEF HandlesOK, HandleType, Init, NoHandle
  <1>11. IInv
    BY <1>7, <1>9, <1>10 DEF IInv, Good, r, m
  <1>12. Shared!Init
    <2>1. [h \in Handles |-> handle[h].imp] = [h \in Handles |-> Null]
      BY DEF Init, NoHandle
    <2>2. Content(Unused(Null)) = <<>>
      BY <1>2, NothingIn
    <2>3. [a \in Addresses |-> Content(imp[a])] = [a \in Addresses |-> <<>>]
      BY <1>1, <2>2
    <2> QED
      BY <2>1, <2>3 DEF Shared!Init
  <1> QED
    BY <1>11, <1>12

\* What SharedLists sees of a List that is alive.
LEMMA SharedValues ==
    ASSUME HandlesOK, NEW g \in Alive, NEW a, a = handle[g].imp
    PROVE  /\ g \in Handles /\ g \in Shared!Alive
           /\ Shared!Content(g) = Content(imp[a])
           /\ [h \in Handles |-> handle[h].imp][g] = a
  <1>1. g \in Handles /\ a \in Addresses /\ a # Null
    BY AliveTypes
  <1>2. [h \in Handles |-> handle[h].imp][g] = a
    BY <1>1
  <1>3. g \in Shared!Alive
    BY <1>1, <1>2 DEF Shared!Alive
  <1>4. Shared!Content(g) = Content(imp[a])
    BY <1>1, <1>2 DEF Shared!Content
  <1> QED
    BY <1>1, <1>2, <1>3, <1>4

LEMMA CopyStep ==
    ASSUME IInv, NEW h \in Handles, NEW g \in Alive, NEW a, a = handle[g].imp, Copy(h, g)
    PROVE  \E s : s = Content(imp[a]) /\ IInv' /\ Shared!Create(h, s)
  <1>1. SoundImp(imp[a])
    BY InvFacts, AliveTypes
  <1>2. PICK s : s = Content(imp[a])
    OBVIOUS
  <1>3. s \in Seq(Values)
    BY <1>1, <1>2, ContentType
  <1>4. ConstructWith(h, FALSE, s)
    BY ONLY <1>2, Copy(h, g), a = handle[g].imp DEF Copy, ContentOf, ConstructWith
  <1>5. IInv' /\ Shared!Create(h, s)
    BY <1>3, <1>4, ConstructStep
  <1> QED
    BY <1>2, <1>5

LEMMA CopyTailStep ==
    ASSUME IInv, NEW h \in Handles, NEW g \in Alive, NEW a, a = handle[g].imp, CopyTail(h, g)
    PROVE  \E s : /\ s = <<>> \/ (Content(imp[a]) # <<>> /\ s = Tail(Content(imp[a])))
                  /\ IInv' /\ Shared!Create(h, s)
  <1>1. PICK I : I = imp[a]
    OBVIOUS
  <1>2. SoundImp(I)
    BY <1>1, InvFacts, AliveTypes
  <1>3. PICK i : i = Min({I.size, inlineValuesSize})
    OBVIOUS
  <1>4. PICK d : d = SubSeq(I.values, 2, i)
    OBVIOUS
  <1>5. PICK e : e = SubSeq(I.overflow, 1, I.size - i)
    OBVIOUS
  <1>6. PICK s : s = d \o e
    OBVIOUS
  <1>7. ConstructWith(h, FALSE, s)
    BY ONLY <1>1, <1>3, <1>4, <1>5, <1>6, CopyTail(h, g), a = handle[g].imp, Zenon
       DEF CopyTail, ConstructWith
  <1>8. /\ I.size = 0 => s = <<>>
        /\ I.size # 0 => s = Tail(Content(I))
        /\ s \in Seq(Values)
    <2>1. Loops(I, i, d, e, s)
      BY ONLY <1>3, <1>4, <1>5, <1>6 DEF Loops
    <2> QED
      BY ONLY <1>2, <2>1, CopyTailContent
  <1>9. IInv' /\ Shared!Create(h, s)
    BY <1>7, <1>8, ConstructStep
  <1>10. I.size # 0 => Content(I) # <<>>
    BY ONLY <1>2, ContentType
  <1>11. s = <<>> \/ (Content(imp[a]) # <<>> /\ s = Tail(Content(imp[a])))
    <2>1. PICK c : c = Content(I)
      OBVIOUS
    <2>2. s = <<>> \/ (c # <<>> /\ s = Tail(c))
      BY ONLY <1>8, <1>10, <2>1
    <2> QED
      BY ONLY <1>1, <2>1, <2>2
  <1> QED
    BY ONLY <1>9, <1>11

\* What a step is to SharedLists.
SharedVars == <<[h \in Handles |-> handle[h].imp], [a \in Addresses |-> Content(imp[a])]>>

LEMMA NextInv ==
    ASSUME IInv, [Next]_vars
    PROVE  IInv' /\ [Shared!Next]_SharedVars
  <1>1. HandlesOK
    BY DEF IInv
  <1>2. Alive \subseteq Handles
    BY DEF Alive
  <1>3. ASSUME NEW h \in Handles, NEW needsMarking \in BOOLEAN, Construct(h, needsMarking)
        PROVE  IInv' /\ Shared!Next
    <2>1. PICK s : s = <<>>
      OBVIOUS
    <2>2. ConstructWith(h, needsMarking, s) /\ s \in Seq(Values)
      BY <1>3, <2>1 DEF Construct
    <2>3. IInv' /\ Shared!Create(h, s)
      BY <2>2, ConstructStep, Zenon
    <2>4. IInv' /\ Shared!Create(h, <<>>)
      BY <2>1, <2>3
    <2> QED
      BY <2>4 DEF Shared!Next
  <1>4. ASSUME NEW h \in Handles, NEW g \in Alive,
               Copy(h, g) \/ CopyTail(h, g) \/ CopyConstruct(h, g)
        PROVE  IInv' /\ Shared!Next
    <2>1. PICK a : a = handle[g].imp
      OBVIOUS
    <2>2. /\ g \in Shared!Alive /\ Shared!Content(g) = Content(imp[a])
          /\ [x \in Handles |-> handle[x].imp][g] = a
      BY <1>1, <2>1, SharedValues
    <2>3. CASE Copy(h, g)
      <3>1. PICK s : s = Content(imp[a]) /\ IInv' /\ Shared!Create(h, s)
        BY <2>1, <2>3, CopyStep
      <3>2. Shared!Create(h, Shared!Content(g))
        BY <2>2, <3>1 DEF Shared!Create
      <3> QED
        BY <2>2, <3>1, <3>2 DEF Shared!Next
    <2>4. CASE CopyTail(h, g)
      <3>1. PICK s : /\ s = <<>> \/ (Content(imp[a]) # <<>> /\ s = Tail(Content(imp[a])))
                     /\ IInv' /\ Shared!Create(h, s)
        BY <2>1, <2>4, CopyTailStep
      <3>2. CASE s = <<>>
        BY <3>1, <3>2 DEF Shared!Next
      <3>3. CASE Content(imp[a]) # <<>> /\ s = Tail(Content(imp[a]))
        <4>1. Shared!Create(h, Tail(Shared!Content(g)))
          BY <2>2, <3>1, <3>3 DEF Shared!Create
        <4> QED
          BY <2>2, <3>1, <3>3, <4>1 DEF Shared!Next
      <3> QED
        BY <3>1, <3>2, <3>3
    <2>5. CASE CopyConstruct(h, g)
      <3>1. IInv' /\ Shared!Refer(h, a)
        BY <2>1, <2>5, CopyConstructStep
      <3>2. Shared!Refer(h, [x \in Handles |-> handle[x].imp][g])
        BY <2>2, <3>1 DEF Shared!Refer
      <3> QED
        BY <2>2, <3>1, <3>2 DEF Shared!Next, Shared!Refer
    <2> QED
      BY <1>4, <2>3, <2>4, <2>5
  <1>5. ASSUME NEW h \in Alive, NEW g \in Alive, Assign(h, g) \/ CopyFrom(h, g)
        PROVE  IInv' /\ Shared!Next
    <2>1. PICK a, b, k : a = handle[h].imp /\ b = handle[g].imp /\ k = handle[h]
      OBVIOUS
    <2>2. /\ g \in Shared!Alive /\ Shared!Content(g) = Content(imp[b])
          /\ [x \in Handles |-> handle[x].imp][g] = b
      BY <1>1, <2>1, SharedValues
    <2>3. h \in Shared!Alive /\ Shared!Content(h) = Content(imp[a])
      BY <1>1, <2>1, SharedValues
    <2>4. CASE Assign(h, g)
      <3>1. IInv' /\ Shared!Refer(h, b)
        BY <2>1, <2>4, AssignStep
      <3>2. Shared!Refer(h, [x \in Handles |-> handle[x].imp][g])
        BY <2>2, <3>1 DEF Shared!Refer
      <3> QED
        BY <1>2, <2>2, <3>1, <3>2 DEF Shared!Next, Shared!Refer
    <2>5. CASE CopyFrom(h, g)
      <3>1. PICK s : s = Both(imp[a], imp[b]) /\ IInv' /\ Shared!Change(h, s)
        BY <2>1, <2>5, CopyFromStep
      <3>2. Shared!Change(h, Shared!Content(h) \o Shared!Content(g))
        BY <2>2, <2>3, <3>1 DEF Shared!Change, Both
      <3> QED
        BY <2>2, <2>3, <3>1, <3>2 DEF Shared!Next
    <2> QED
      BY <1>5, <2>4, <2>5
  <1>6. ASSUME NEW h \in Alive, Destroy(h) \/ Clear(h)
        PROVE  IInv' /\ Shared!Next
    <2>1. PICK a : a = handle[h].imp
      OBVIOUS
    <2>2. h \in Shared!Alive
      BY <1>1, <2>1, SharedValues
    <2>3. CASE Destroy(h)
      <3>1. IInv' /\ Shared!Refer(h, Null)
        BY <2>3, DestroyStep
      <3> QED
        BY <1>2, <3>1 DEF Shared!Next
    <2>4. CASE Clear(h)
      <3>1. IInv' /\ Shared!Change(h, <<>>)
        BY <2>1, <2>4, ClearStep
      <3> QED
        BY <2>2, <3>1 DEF Shared!Next
    <2> QED
      BY <1>6, <2>3, <2>4
  <1>7. ASSUME NEW h \in Alive, NEW v \in Values, AppendValue(h, v)
        PROVE  IInv' /\ Shared!Next
    <2>1. PICK a : a = handle[h].imp
      OBVIOUS
    <2>2. h \in Shared!Alive /\ Shared!Content(h) = Content(imp[a])
      BY <1>1, <2>1, SharedValues
    <2>3. PICK s : s = Append(Content(imp[a]), v) /\ IInv' /\ Shared!Change(h, s)
      BY <1>7, <2>1, AppendStep
    <2>4. Shared!Change(h, Append(Shared!Content(h), v))
      BY <2>2, <2>3 DEF Shared!Change
    <2> QED
      BY <2>2, <2>3, <2>4 DEF Shared!Next
  <1>8. CASE UNCHANGED vars
    <2>1. imp' = imp /\ handle' = handle /\ Heap' = Heap
      BY <1>8 DEF vars, Heap
    <2>2. HandlesOK'
      BY <1>1, <2>1 DEF HandlesOK
    <2>3. IInv'
      BY <2>1, <2>2 DEF IInv
    <2> QED
      BY <2>1, <2>3 DEF SharedVars
  <1> QED
    BY <1>3, <1>4, <1>5, <1>6, <1>7, <1>8 DEF Next

\* Of every run: the inductive invariant holds.
THEOREM Invariance == Spec => []IInv
  <1>1. Init => IInv
    BY InitInv
  <1>2. IInv /\ [Next]_vars => IInv'
    BY NextInv
  <1> QED
    BY <1>1, <1>2, PTL DEF Spec

\* Taking a ListImp from the pool or the heap, giving it back and growing it
\* does not show (allocateListImp, List::release, ListImp::deref, List::append,
\* List::copyFrom, List::copyTail): every List keeps the values that were put
\* into the list it refers to.
THEOREM ListsRefine == Spec => ImplementsSharedLists
  <1>1. Init => Shared!Init
    BY InitInv
  <1>2. IInv /\ [Next]_vars => [Shared!Next]_SharedVars
    BY NextInv
  <1> QED
    BY <1>1, <1>2, Invariance, PTL DEF Spec, ImplementsSharedLists, Shared!Spec, SharedVars

-----------------------------------------------------------------------------
\* What the invariant says.

LEMMA MaxOf ==
    ASSUME NEW x \in Int, NEW y \in Int
    PROVE  Max({x, y}) = IF x > y THEN x ELSE y
  <1>1. \E z \in {x, y} : \A w \in {x, y} : z >= w
    OBVIOUS
  <1>2. /\ Max({x, y}) \in {x, y}
        /\ \A w \in {x, y} : Max({x, y}) >= w
    BY <1>1 DEF Max
  <1> QED
    BY <1>2

LEMMA PoolSizeIs == IsFiniteSet(Pool) /\ Cardinality(Pool) = PoolSize
  <1>1. 1 \in Int /\ PoolSize \in Int /\ PoolSize >= 1
    BY ListsAssumption
  <1>2. PoolSize - 1 + 1 = PoolSize
    BY <1>1
  <1> QED
    BY <1>1, <1>2, FS_Interval DEF Pool

\* The parts of the invariant, said of the variables.
LEMMA InvParts ==
    ASSUME IInv
    PROVE  LET F == PoolFree(Heap)
           IN  /\ DOMAIN imp = Addresses /\ imp \in [Addresses -> ImpType]
               /\ \E n, s : OnList(n, s, F, PoolFirst(Heap), PoolNext(Heap), PoolSize + 1)
               /\ IsFiniteSet(F) /\ F \subseteq Pool /\ Cardinality(F) \in 0 .. PoolSize
               /\ poolUsed = PoolSize - Cardinality(F)
               /\ \E n, s : BothWays(Heap, n, s)
               /\ Heap.free = poolFreeList /\ Heap.used = poolUsed /\ Heap.list = heapList
               /\ \A a \in Addresses :
                    /\ imp[a].refCount = Cardinality(Refs(handle, a))
                    /\ imp[a].valueRefCount = Cardinality(Marks(handle, a))
                    /\ imp[a].state = "unused" <=> imp[a].refCount = 0
                    /\ imp[a].state = "unused" \/ imp[a].state = IF a \in Pool THEN "pool" ELSE "heap"
  <1>1. HandlesOK /\ Good(Heap, RefCounts(handle), MarkCounts(handle)) /\ Heap.imp = imp
    BY InvFacts
  <1>2. /\ PoolExact(Heap) /\ HeapExact(Heap) /\ Places(Heap)
        /\ Counted(Heap, RefCounts(handle), MarkCounts(handle))
    BY <1>1 DEF Good, Sound
  <1>3. imp \in [Addresses -> ImpType] /\ DOMAIN imp = Addresses
    BY InvFacts
  <1>4. Heap.free = poolFreeList /\ Heap.used = poolUsed /\ Heap.list = heapList
    BY DEF Heap
  <1>5. /\ \E n, s : OnList(n, s, PoolFree(Heap), PoolFirst(Heap), PoolNext(Heap), PoolSize + 1)
        /\ poolUsed = PoolSize - Cardinality(PoolFree(Heap))
    BY <1>2, <1>4 DEF PoolExact
  <1>6. \E n, s : BothWays(Heap, n, s)
    BY <1>2 DEF HeapExact
  <1>7. /\ IsFiniteSet(PoolFree(Heap)) /\ PoolFree(Heap) \subseteq Pool
        /\ Cardinality(PoolFree(Heap)) \in 0 .. PoolSize
    <2>1. PoolFree(Heap) \subseteq Pool
      BY DEF PoolFree
    <2> QED
      BY <1>2, <2>1, PoolCount
  <1>8. ASSUME NEW a \in Addresses
        PROVE  /\ imp[a].refCount = Cardinality(Refs(handle, a))
               /\ imp[a].valueRefCount = Cardinality(Marks(handle, a))
               /\ imp[a].state = "unused" <=> imp[a].refCount = 0
    <2>1. CountedAs(imp[a], RefCounts(handle)[a], MarkCounts(handle)[a])
      BY <1>1, <1>2 DEF Counted
    <2> QED
      BY <2>1 DEF CountedAs, RefCounts, MarkCounts
  <1>9. \A a \in Addresses :
          imp[a].state = "unused" \/ imp[a].state = IF a \in Pool THEN "pool" ELSE "heap"
    BY <1>1, <1>2 DEF Places
  <1> QED
    BY <1>3, <1>4, <1>5, <1>6, <1>7, <1>8, <1>9

\* What ListsExact calls Used.
UsedAs(state) == {a \in Addresses : imp[a].state = state}

LEMMA UsedSets ==
    ASSUME IInv
    PROVE  /\ UsedAs("pool") = Pool \ PoolFree(Heap) /\ UsedAs("heap") = HeapUsed(Heap)
           /\ Pool \ UsedAs("pool") = PoolFree(Heap)
           /\ IsFiniteSet(UsedAs("pool")) /\ poolUsed = Cardinality(UsedAs("pool"))
  <1>1. Heap.imp = imp
    BY DEF Heap
  <1>2. /\ \A a \in Addresses :
              imp[a].state = "unused" \/ imp[a].state = IF a \in Pool THEN "pool" ELSE "heap"
        /\ poolUsed = PoolSize - Cardinality(PoolFree(Heap))
        /\ PoolFree(Heap) \subseteq Pool
    BY InvParts
  <1>3. UsedAs("pool") = Pool \ PoolFree(Heap)
    BY <1>1, <1>2, AddressTypes DEF UsedAs, PoolFree
  <1>4. UsedAs("heap") = HeapUsed(Heap)
    <2>1. \A a \in Addresses : a \in HeapAddresses <=> a \notin Pool
      BY AddressTypes DEF Addresses
    <2> QED
      BY <1>1, <1>2, <2>1, AddressTypes DEF UsedAs, HeapUsed
  <1>5. Pool \ UsedAs("pool") = PoolFree(Heap)
    BY <1>2, <1>3
  <1>6. Pool \cap PoolFree(Heap) = PoolFree(Heap)
    BY <1>2
  <1>7. IsFiniteSet(UsedAs("pool")) /\ Cardinality(UsedAs("pool")) = PoolSize - Cardinality(PoolFree(Heap))
    BY <1>3, <1>6, PoolSizeIs, FS_Difference
  <1> QED
    BY <1>2, <1>3, <1>4, <1>5, <1>7

LEMMA InvTypes ==
    ASSUME IInv
    PROVE  TypeOK
  <1>1. /\ DOMAIN imp = Addresses /\ imp \in [Addresses -> ImpType]
        /\ Cardinality(PoolFree(Heap)) \in 0 .. PoolSize
        /\ poolUsed = PoolSize - Cardinality(PoolFree(Heap))
        /\ PoolFree(Heap) \subseteq Pool
        /\ Heap.free = poolFreeList /\ Heap.list = heapList
    BY InvParts
  <1>2. ASSUME NEW a \in Addresses, NEW I, I = imp[a]
        PROVE  /\ I.state \in {"unused", "pool", "heap"}
               /\ I.valueRefCount \in 0 .. I.refCount
               /\ Len(I.overflow) = Max({0, I.capacity - inlineValuesSize})
               /\ I.size <= Max({inlineValuesSize, I.capacity})
               /\ \A n \in 1 .. I.size : ValueAt(I, n) \in Values
    <2>1. SoundImp(I)
      BY <1>2, InvFacts
    <2>2. I.refCount = Cardinality(Refs(handle, a)) /\ I.valueRefCount = Cardinality(Marks(handle, a))
      BY <1>2, InvParts
    <2>3. /\ RefCounts(handle)[a] \in Nat /\ MarkCounts(handle)[a] \in Nat
          /\ MarkCounts(handle)[a] <= RefCounts(handle)[a]
      BY CountTypes
    <2>4. I.valueRefCount \in 0 .. I.refCount
      BY <2>2, <2>3 DEF RefCounts, MarkCounts
    <2>5. /\ I.state \in {"unused", "pool", "heap"} /\ I.capacity \in Int /\ I.size \in Nat
          /\ Len(I.overflow) = Room(I.capacity)
          /\ I.size <= inlineValuesSize \/ I.size <= I.capacity
          /\ \A n \in 1 .. I.size : ValueAt(I, n) \in Values
      BY <2>1 DEF SoundImp, ImpType
    <2> DEFINE p == I.capacity
               z == I.size
    <2>6. Len(I.overflow) = Max({0, p - inlineValuesSize})
      <3>1. p \in Int /\ Len(I.overflow) = Room(p)
        BY <2>5
      <3> HIDE DEF p
      <3>2. inlineValuesSize \in Int /\ p - inlineValuesSize \in Int
        BY <3>1, ListsAssumption
      <3>3. Max({0, p - inlineValuesSize}) = IF 0 > p - inlineValuesSize THEN 0 ELSE p - inlineValuesSize
        BY <3>2, MaxOf
      <3> QED
        BY <3>1, <3>2, <3>3 DEF Room
    <2>7. z <= Max({inlineValuesSize, p})
      <3>1. p \in Int /\ z \in Nat /\ (z <= inlineValuesSize \/ z <= p)
        BY <2>5
      <3> HIDE DEF p, z
      <3>2. inlineValuesSize \in Int
        BY ListsAssumption
      <3>3. Max({inlineValuesSize, p}) = IF inlineValuesSize > p THEN inlineValuesSize ELSE p
        BY <3>1, <3>2, MaxOf
      <3> QED
        BY <3>1, <3>2, <3>3
    <2> QED
      BY <2>4, <2>5, <2>6, <2>7
  <1>3. poolUsed \in 0 .. PoolSize
    BY <1>1, AddressTypes
  <1>4. poolFreeList \in 0 .. PoolSize + 1
    <2>1. PICK n, s : OnList(n, s, PoolFree(Heap), PoolFirst(Heap), PoolNext(Heap), PoolSize + 1)
      BY InvParts
    <2>2. PoolFirst(Heap) \in Pool \cup {PoolSize + 1}
      BY <1>1, <2>1 DEF OnList
    <2>3. poolFreeList = Null \/ poolFreeList = PoolFirst(Heap)
      BY <1>1 DEF PoolFirst
    <2> QED
      BY <2>2, <2>3, AddressTypes DEF Null, Pool
  <1>5. heapList \in HeapAddresses \cup {Null}
    <2>1. PICK n, s : BothWays(Heap, n, s)
      BY InvParts
    <2>2. heapList \in HeapUsed(Heap) \cup {Null}
      BY <1>1, <2>1 DEF BothWays, OnList
    <2> QED
      BY <2>2 DEF HeapUsed
  <1>6. \A h \in Alive : handle[h].imp \in Addresses
    BY AliveTypes DEF IInv
  <1>7. \A a \in Addresses :
           LET I == imp[a]
           IN  /\ I.state \in {"unused", "pool", "heap"}
               /\ I.valueRefCount \in 0 .. I.refCount
               /\ Len(I.overflow) = Max({0, I.capacity - inlineValuesSize})
               /\ I.size <= Max({inlineValuesSize, I.capacity})
               /\ \A n \in 1 .. I.size : ValueAt(I, n) \in Values
    BY <1>2, Zenon
  <1> QED
    BY <1>1, <1>3, <1>4, <1>5, <1>6, <1>7, Zenon DEF TypeOK

\* The variables have their types, the array of a ListImp has the room that its
\* capacity says (List::append, List::expandPointerBuffer), and what it holds
\* are values.
THEOREM ListsTypes == Spec => []TypeOK
  BY Invariance, InvTypes, PTL

-----------------------------------------------------------------------------
\* The chains of the pool and of the heap.

LEMMA LinkTypes ==
    ASSUME IInv
    PROVE  poolFreeList \in Nat /\ heapList \in Nat
  <1>1. Heap \in HeapType
    BY InvFacts
  <1> QED
    BY <1>1 DEF HeapType, Heap

\* What PoolWalk does with an entry.
PoolStep(x) ==
    IF x \notin Pool THEN Null ELSE IF imp[x].next # Null THEN imp[x].next ELSE x + 1

LEMMA PoolWalkIs ==
    ASSUME IInv
    PROVE  /\ PoolWalk[0] = PoolFirst(Heap)
           /\ \A m \in 1 .. PoolSize :
                PoolWalk[m - 1] \in Pool => PoolWalk[m] = PoolNext(Heap)[PoolWalk[m - 1]]
  <1> DEFINE N == PoolSize
             step == [n \in 1 .. N |-> [x \in Nat |-> PoolStep(x)]]
             free[n \in 0 .. PoolSize] ==
                 IF n = 0 THEN Head1
                 ELSE IF free[n - 1] \notin Pool THEN Null
                 ELSE IF imp[free[n - 1]].next # Null THEN imp[free[n - 1]].next
                 ELSE free[n - 1] + 1
  <1>1. N \in Nat /\ Head1 = PoolFirst(Heap) /\ Head1 \in Nat
    <2>1. poolFreeList \in Nat
      BY LinkTypes
    <2> QED
      BY <2>1, AddressTypes DEF Head1, PoolFirst, Heap
  <1>2. \A x \in Nat : PoolStep(x) \in Nat
    <2>1. \A x \in Pool : imp[x].next \in Nat
      BY InvFacts, AddressTypes DEF ImpType
    <2> QED
      BY <2>1 DEF PoolStep, Null
  <1>3. step \in [1 .. N -> [Nat -> Nat]]
    BY <1>2
  <1>4. PICK f : Run(N, Nat, Head1, step, f)
    <2> HIDE DEF step, N
    <2> QED
      BY <1>1, <1>3, Recursion
  <1>5. f = [n \in 0 .. N |-> IF n = 0 THEN Head1 ELSE PoolStep(f[n - 1])]
    <2>1. \A n \in 1 .. N : f[n] = PoolStep(f[n - 1])
      <3>1. ASSUME NEW n \in 1 .. N PROVE f[n - 1] \in Nat /\ f[n] = step[n][f[n - 1]]
        <4>1. n - 1 \in 0 .. N
          BY <1>1
        <4> HIDE DEF step
        <4> QED
          BY <1>4, <4>1 DEF Run
      <3> QED
        BY <3>1
    <2>2. f \in [0 .. N -> Nat] /\ f[0] = Head1
      BY <1>4 DEF Run
    <2>3. \A n \in 0 .. N : n = 0 \/ n \in 1 .. N
      BY <1>1
    <2> HIDE DEF N
    <2> QED
      BY <2>1, <2>2, <2>3
  <1>6. free = [n \in 0 .. N |-> IF n = 0 THEN Head1 ELSE PoolStep(free[n - 1])]
    BY <1>5, Zenon DEF PoolStep
  <1>7. PoolWalk = free
    BY DEF PoolWalk
  <1> HIDE DEF free
  <1>8. PoolWalk[0] = Head1 /\ \A m \in 1 .. N : PoolWalk[m] = PoolStep(PoolWalk[m - 1])
    BY <1>1, <1>6, <1>7
  <1>9. \A x \in Pool : PoolStep(x) = PoolNext(Heap)[x]
    BY DEF PoolStep, PoolNext, Heap
  <1> QED
    BY <1>1, <1>8, <1>9

\* What Nth does with an element.
NthStep(x) == IF x \in Addresses THEN imp[x].next ELSE Null

\* The turns of Nth are those of one walk.
LEMMA NthIs ==
    ASSUME NEW W, NEW N \in Nat, W[0] = heapList,
           \A m \in 1 .. N : W[m] = NthStep(W[m - 1]), NEW n \in 0 .. N
    PROVE  Nth(heapList, n) = W[n]
  <1> DEFINE at[m \in 0 .. n] == IF m = 0 THEN heapList
                                 ELSE IF at[m - 1] \in Addresses THEN imp[at[m - 1]].next
                                 ELSE Null
             f == [m \in 0 .. n |-> W[m]]
  <1>1. n \in Nat /\ \A m \in 0 .. n : m = 0 \/ (m \in 1 .. N /\ m - 1 \in 0 .. n)
    OBVIOUS
  <1>2. f = [m \in 0 .. n |-> IF m = 0 THEN heapList ELSE NthStep(f[m - 1])]
    BY <1>1
  <1>3. at = [m \in 0 .. n |-> IF m = 0 THEN heapList ELSE NthStep(at[m - 1])]
    <2> HIDE DEF f
    <2> QED
      BY <1>2, Zenon DEF NthStep
  <1>4. Nth(heapList, n) = at[n]
    BY DEF Nth
  <1> HIDE DEF at, f
  <1> DEFINE S == {m \in 0 .. n : at[m] = W[m]}
  <1>5. 0 \in S
    BY <1>1, <1>3
  <1>6. ASSUME NEW m \in 0 .. n - 1, m \in S PROVE m + 1 \in S
    <2>1. m + 1 \in 0 .. n /\ m + 1 # 0 /\ (m + 1) - 1 = m /\ m + 1 \in 1 .. N
      BY <1>1
    <2>2. at[m + 1] = NthStep(at[m]) /\ W[m + 1] = NthStep(W[m])
      BY <1>3, <2>1
    <2> QED
      BY <1>6, <2>1, <2>2
  <1>7. n \in S
    <2> HIDE DEF S
    <2>1. 0 .. n \subseteq S
      BY <1>1, <1>5, <1>6, IntervalInduction
    <2> QED
      BY <1>1, <2>1
  <1> QED
    BY <1>4, <1>7

LEMMA NthExists ==
    ASSUME IInv, NEW N \in Nat
    PROVE  \E W : W[0] = heapList /\ \A m \in 1 .. N : W[m] = NthStep(W[m - 1])
  <1> DEFINE step == [n \in 1 .. N |-> [x \in Nat |-> NthStep(x)]]
  <1>1. heapList \in Nat
    BY LinkTypes
  <1>2. \A x \in Nat : NthStep(x) \in Nat
    <2>1. \A x \in Addresses : imp[x].next \in Nat
      BY InvFacts DEF ImpType
    <2> QED
      BY <2>1 DEF NthStep, Null
  <1>3. step \in [1 .. N -> [Nat -> Nat]]
    BY <1>2
  <1>4. \A n \in 1 .. N, x \in Nat : step[n][x] = NthStep(x)
    OBVIOUS
  <1> HIDE DEF step
  <1>5. PICK f : Run(N, Nat, heapList, step, f)
    BY <1>1, <1>3, Recursion
  <1>6. ASSUME NEW m \in 1 .. N PROVE f[m] = NthStep(f[m - 1])
    <2>1. m - 1 \in 0 .. N
      OBVIOUS
    <2>2. f[m - 1] \in Nat /\ f[m] = step[m][f[m - 1]]
      BY <1>5, <2>1 DEF Run
    <2> QED
      BY <1>4, <2>2
  <1> QED
    BY <1>5, <1>6 DEF Run

\* The heap list, element by element.
LEMMA NthWalk ==
    ASSUME IInv, NEW n, NEW s, BothWays(Heap, n, s)
    PROVE  /\ n \in Nat /\ n <= Cardinality(HeapAddresses) /\ Cardinality(HeapUsed(Heap)) = n
           /\ Cardinality(HeapAddresses) \in Nat
           /\ Nth(heapList, n) = Null
           /\ {Nth(heapList, m) : m \in 0 .. n - 1} = HeapUsed(Heap)
  <1> PICK F, first, after : F = HeapUsed(Heap) /\ first = heapList /\ after = HeapNext(Heap)
    OBVIOUS
  <1>1. Heap.list = first /\ Heap.imp = imp
    BY DEF Heap
  <1>2. OnList(n, s, F, first, after, Null)
    BY <1>1 DEF BothWays
  <1>3. F \subseteq HeapAddresses
    BY DEF HeapUsed
  <1>4. n \in Nat /\ Cardinality(F) = n
    <2>1. n \in Nat
      BY <1>2 DEF OnList
    <2> QED
      BY <1>2, <2>1, OnListCardinality
  <1>5. n <= Cardinality(HeapAddresses) /\ Cardinality(HeapAddresses) \in Nat
    BY <1>3, <1>4, ListsAssumption, FS_Subset, FS_CardinalityType
  <1>6. PICK W : W[0] = heapList /\ \A m \in 1 .. n : W[m] = NthStep(W[m - 1])
    BY <1>4, NthExists
  <1>7. \A x \in F : NthStep(x) = after[x]
    BY <1>1, <1>3, AddressTypes DEF NthStep, HeapNext
  <1>8. Walked(n, F, first, after, W)
    BY <1>6, <1>7 DEF Walked
  <1>9. /\ \A m \in 0 .. n : W[m] = IF m = n THEN Null ELSE s[m + 1]
        /\ {W[m] : m \in 0 .. n - 1} = F
    BY ONLY <1>2, <1>8, OnListWalk
  <1>10. \A m \in 0 .. n : Nth(heapList, m) = W[m]
    BY <1>4, <1>6, NthIs
  <1>11. {Nth(heapList, m) : m \in 0 .. n - 1} = {W[m] : m \in 0 .. n - 1}
    <2>1. \A m \in 0 .. n - 1 : m \in 0 .. n
      BY <1>4
    <2> QED
      BY <1>10, <2>1
  <1>12. Nth(heapList, n) = Null
    BY <1>4, <1>9, <1>10
  <1> QED
    BY <1>4, <1>5, <1>9, <1>11, <1>12

\* The element before a given one.
LEMMA PreviousIs ==
    ASSUME IInv, NEW n, NEW s, BothWays(Heap, n, s), NEW a \in HeapUsed(Heap)
    PROVE  imp[a].prev = IF a = heapList THEN Null
                         ELSE CHOOSE b \in HeapUsed(Heap) : imp[b].next = a
  <1> DEFINE F == HeapUsed(Heap)
             after == HeapNext(Heap)
  <1>1. Heap.list = heapList /\ Heap.imp = imp
    BY DEF Heap
  <1>2. /\ n \in Nat /\ s \in [1 .. n -> F] /\ F = {s[i] : i \in 1 .. n}
        /\ \A i, j \in 1 .. n : s[i] = s[j] => i = j
        /\ heapList = IF n = 0 THEN Null ELSE s[1]
        /\ \A i \in 1 .. n : after[s[i]] = IF i = n THEN Null ELSE s[i + 1]
        /\ \A i \in 1 .. n : imp[s[i]].prev = IF i = 1 THEN Null ELSE s[i - 1]
    BY <1>1 DEF BothWays, OnList
  <1>3. /\ \A x \in F : after[x] = imp[x].next /\ x # Null
        /\ a \in F
    BY <1>1, AddressTypes DEF HeapUsed, HeapNext
  <1> HIDE DEF F, after
  <1>4. PICK i \in 1 .. n : a = s[i]
    BY <1>2, <1>3
  <1>5. 1 \in 1 .. n /\ n # 0
    BY <1>2, <1>4
  <1>6. CASE i = 1
    BY <1>2, <1>4, <1>5, <1>6
  <1>7. CASE i # 1
    <2>1. i - 1 \in 1 .. n /\ i - 1 # n /\ (i - 1) + 1 = i
      BY <1>2, <1>7
    <2>2. a # heapList
      <3>1. heapList = s[1]
        BY ONLY <1>2, <1>5
      <3>2. s[i] # s[1]
        BY ONLY <1>2, <1>4, <1>5, <1>7
      <3> QED
        BY ONLY <1>4, <3>1, <3>2
    <2>3. s[i - 1] \in F /\ imp[s[i - 1]].next = a
      <3>1. s[i - 1] \in F
        BY ONLY <1>2, <2>1
      <3>2. after[s[i - 1]] = s[i]
        BY ONLY <1>2, <2>1
      <3> QED
        BY ONLY <1>3, <1>4, <3>1, <3>2
    <2>4. ASSUME NEW b \in F, imp[b].next = a PROVE b = s[i - 1]
      <3>1. PICK j \in 1 .. n : b = s[j]
        BY <1>2
      <3>2. after[s[j]] = a
        BY <1>3, <2>4, <3>1
      <3>3. j # n /\ s[j + 1] = a
        BY <1>2, <1>3, <3>2
      <3>4. j + 1 \in 1 .. n
        BY <1>2, <3>3
      <3>5. j + 1 = i
        BY <1>2, <1>4, <3>3, <3>4
      <3>6. j = i - 1
        BY <3>5
      <3> QED
        BY <3>1, <3>6
    <2>5. (CHOOSE b \in F : imp[b].next = a) = s[i - 1]
      BY <2>3, <2>4
    <2> QED
      BY <1>2, <1>4, <1>7, <2>2, <2>5 DEF F
  <1> QED
    BY <1>6, <1>7

LEMMA InvExact ==
    ASSUME IInv
    PROVE  ListsExact
  <1>1. \A a \in Addresses : imp[a].refCount = Cardinality({h \in Alive : handle[h].imp = a})
    <2> SUFFICES ASSUME NEW a \in Addresses
                 PROVE  imp[a].refCount = Cardinality({h \in Alive : handle[h].imp = a})
      OBVIOUS
    <2>1. {h \in Alive : handle[h].imp = a} = Refs(handle, a)
      BY AddressTypes DEF Alive, NoHandle, Refs
    <2> QED
      BY <2>1, InvParts
  <1>2. \A a \in Addresses : imp[a].state # "unused" <=> imp[a].refCount > 0
    <2> SUFFICES ASSUME NEW a \in Addresses
                 PROVE  imp[a].state # "unused" <=> imp[a].refCount > 0
      OBVIOUS
    <2>1. imp[a].refCount \in Nat
      BY InvFacts DEF ImpType
    <2>2. imp[a].state = "unused" <=> imp[a].refCount = 0
      BY InvParts
    <2> QED
      BY <2>1, <2>2
  <1> DEFINE F == PoolFree(Heap)
             k == Cardinality(F)
  <1>3. {PoolWalk[m] : m \in 0 .. k - 1} = F /\ PoolWalk[k] = PoolSize + 1
    <2> PICK G, first, after, W :
           G = F /\ first = PoolFirst(Heap) /\ after = PoolNext(Heap) /\ W = PoolWalk
      OBVIOUS
    <2>1. PICK n, s : OnList(n, s, G, first, after, PoolSize + 1)
      BY InvParts
    <2>2. G \subseteq Pool /\ Cardinality(G) \in 0 .. PoolSize
      BY InvParts
    <2>3. n = Cardinality(G) /\ n \in Nat
      <3>1. n \in Nat
        BY <2>1 DEF OnList
      <3> QED
        BY <2>1, <3>1, OnListCardinality
    <2>4. \A m \in 1 .. n : m \in 1 .. PoolSize
      BY <2>2, <2>3, AddressTypes
    <2>5. Walked(n, G, first, after, W)
      BY <2>2, <2>4, PoolWalkIs DEF Walked
    <2>6. /\ \A m \in 0 .. n : W[m] = IF m = n THEN PoolSize + 1 ELSE s[m + 1]
          /\ {W[m] : m \in 0 .. n - 1} = G
      BY ONLY <2>1, <2>5, OnListWalk
    <2>7. n \in 0 .. n
      BY <2>3
    <2> QED
      BY <2>3, <2>6, <2>7
  <1>4. PICK n, s : BothWays(Heap, n, s)
    BY InvParts
  <1>5. /\ n \in Nat /\ Cardinality(HeapUsed(Heap)) = n
        /\ {Nth(heapList, m) : m \in 0 .. n} = HeapUsed(Heap) \cup {Null}
    <2>1. /\ n \in Nat /\ Cardinality(HeapUsed(Heap)) = n
          /\ Nth(heapList, n) = Null
          /\ {Nth(heapList, m) : m \in 0 .. n - 1} = HeapUsed(Heap)
      BY <1>4, NthWalk
    <2>2. \A m : m \in 0 .. n <=> m = n \/ m \in 0 .. n - 1
      BY <2>1
    <2> QED
      BY <2>1, <2>2
  <1>6. \A a \in HeapUsed(Heap) :
          imp[a].prev = IF a = heapList THEN Null
                        ELSE CHOOSE b \in HeapUsed(Heap) : imp[b].next = a
    BY <1>4, PreviousIs
  <1>7. /\ UsedAs("heap") = HeapUsed(Heap) /\ Pool \ UsedAs("pool") = F
        /\ poolUsed = Cardinality(UsedAs("pool"))
    BY UsedSets
  <1>8. /\ {PoolWalk[m] : m \in 0 .. Cardinality(Pool \ UsedAs("pool")) - 1} = Pool \ UsedAs("pool")
        /\ PoolWalk[Cardinality(Pool \ UsedAs("pool"))] = PoolSize + 1
    BY <1>3, <1>7
  <1>9. /\ {Nth(heapList, m) : m \in 0 .. Cardinality(UsedAs("heap"))} = UsedAs("heap") \cup {Null}
        /\ \A a \in UsedAs("heap") :
             imp[a].prev = IF a = heapList THEN Null
                           ELSE CHOOSE b \in UsedAs("heap") : imp[b].next = a
    BY <1>5, <1>6, <1>7
  <1> QED
    BY <1>1, <1>2, <1>7, <1>8, <1>9, Zenon DEF ListsExact, UsedAs

\* A ListImp is in use as long as Lists refer to it; the free list of the pool
\* leads to each free entry once and then past the end, and the heap list leads
\* to each ListImp of the heap, in both directions (allocateListImp,
\* List::release).
THEOREM ListsAreExact == Spec => []ListsExact
  BY Invariance, InvExact, PTL

LEMMA InvMarked ==
    ASSUME IInv
    PROVE  ValuesMarked
  <1>1. ASSUME NEW a \in UsedAs("pool") PROVE a \in ScannedPool
    <2> DEFINE U == UsedAs("pool")
               T == {b \in Pool : b < a /\ imp[b].state = "pool"}
    <2>1. IsFiniteSet(U) /\ poolUsed = Cardinality(U) /\ a \in U /\ U \subseteq Pool
      BY UsedSets
    <2>2. T \in SUBSET U
      BY AddressTypes DEF UsedAs
    <2>3. a \notin T
      <3>1. a \in Nat
        BY <2>1, AddressTypes
      <3>2. ~(a < a)
        BY <3>1
      <3> QED
        BY <3>2
    <2>4. a \in Pool /\ imp[a].state = "pool"
      BY <2>1 DEF UsedAs
    <2> DEFINE c == Cardinality(T)
    <2> HIDE DEF U, T
    <2>5. c <= poolUsed /\ c # poolUsed /\ c \in Nat /\ poolUsed \in Nat
      BY <2>1, <2>2, <2>3, FS_Subset, FS_CardinalityType
    <2>6. c < poolUsed
      BY <2>5
    <2> QED
      BY <2>4, <2>6 DEF ScannedPool, T
  <1>2. HeapUsed(Heap) \subseteq ScannedHeap
    <2>1. PICK n, s : BothWays(Heap, n, s)
      BY InvParts
    <2>2. /\ n \in Nat /\ n <= Cardinality(HeapAddresses) /\ Cardinality(HeapAddresses) \in Nat
          /\ {Nth(heapList, m) : m \in 0 .. n - 1} = HeapUsed(Heap)
      BY <2>1, NthWalk
    <2>3. \A m \in 0 .. n - 1 : m \in 0 .. Cardinality(HeapAddresses)
      BY <2>2
    <2>4. Null \notin HeapUsed(Heap)
      BY AddressTypes DEF HeapUsed
    <2> QED
      BY <2>2, <2>3, <2>4 DEF ScannedHeap
  <1>3. \A a \in Addresses : imp[a].state # "unused" => a \in ScannedPool \cup ScannedHeap
    <2>1. \A a \in Addresses :
            imp[a].state # "unused" => a \in UsedAs("pool") \/ a \in UsedAs("heap")
      <3>1. \A a \in Addresses :
              imp[a].state = "unused" \/ imp[a].state = IF a \in Pool THEN "pool" ELSE "heap"
        BY InvParts
      <3> QED
        BY <3>1 DEF UsedAs
    <2>2. UsedAs("heap") = HeapUsed(Heap)
      BY UsedSets
    <2> QED
      BY <1>1, <1>2, <2>1, <2>2
  <1>4. ASSUME NEW h \in Alive, NEW a, a = handle[h].imp, imp[a].valueRefCount # 0
        PROVE  ToSet(Content(imp[a])) \subseteq markProtectedLists
    <2>1. a \in Addresses /\ h \in Handles /\ RefCounts(handle)[a] # 0
      BY <1>4, AliveTypes DEF IInv
    <2>2. imp[a].state # "unused" /\ imp[a].valueRefCount \in Nat
      <3>1. imp[a].refCount # 0
        BY <2>1, InvParts DEF RefCounts
      <3> QED
        BY <2>1, <3>1, InvParts, InvFacts DEF ImpType
    <2>3. a \in ScannedPool \cup ScannedHeap /\ imp[a].valueRefCount > 0
      BY <1>3, <1>4, <2>1, <2>2
    <2> QED
      BY <2>3 DEF markProtectedLists
  <1>5. ASSUME NEW h \in Alive, NEW a, a = handle[h].imp, imp[a].valueRefCount = 0
        PROVE  handle[h].needsMarking /\ MarkedByOwner(h) = ToSet(Content(imp[a]))
    <2>1. a \in Addresses /\ handle[h].needsMarking \in BOOLEAN
      BY <1>5, AliveTypes DEF IInv
    <2>2. ~handle[h].needsMarking => MarkCounts(handle)[a] # 0
      BY <1>5, AliveTypes DEF IInv
    <2>3. MarkCounts(handle)[a] = 0
      BY <1>5, <2>1, InvParts DEF MarkCounts
    <2>4. MarkedByOwner(h) = ToSet(Content(imp[a]))
      BY <1>5 DEF MarkedByOwner, ContentOf
    <2> QED
      BY <2>1, <2>2, <2>3, <2>4
  <1>6. ASSUME NEW h \in Alive
        PROVE  ToSet(ContentOf(h)) \subseteq
                   markProtectedLists \cup IF handle[h].needsMarking THEN MarkedByOwner(h) ELSE {}
    <2>1. PICK a : a = handle[h].imp
      OBVIOUS
    <2>2. ContentOf(h) = Content(imp[a])
      BY <2>1 DEF ContentOf
    <2>3. CASE imp[a].valueRefCount # 0
      BY <1>4, <2>1, <2>2, <2>3
    <2>4. CASE imp[a].valueRefCount = 0
      BY <1>5, <2>1, <2>2, <2>4
    <2> QED
      BY <2>3, <2>4
  <1> QED
    BY <1>6 DEF ValuesMarked

\* A value in a List is marked in every collection, by markProtectedLists or by
\* the owner of each List that refers to it (List::mark).
THEOREM ValuesAreMarked == Spec => []ValuesMarked
  BY Invariance, InvMarked, PTL
=============================================================================
