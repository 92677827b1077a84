------------------------- MODULE CollectorHeapProofs -------------------------
(***************************************************************************)
(* Proofs about CollectorHeap, for every number of addresses and of cells  *)
(* in a block, and all the factors and limits the assumptions admit.       *)
(*                                                                         *)
(* The invariant says of each block that its counter counts its cells and  *)
(* that its free list leads through its free cells in the order of some    *)
(* rank: this is what survives both the taking of the first cell and the   *)
(* sweep, which puts many in front.  During a sweep it says where the      *)
(* doomed cells still are, and how many empty blocks lie behind.           *)
(***************************************************************************)
EXTENDS CollectorHeap, SequenceTheorems, FiniteSetTheorems, InductionLemmas, TLAPS

------------------------------------------------------------------------------
(* Lemmas about numbers, arrays and finite sets.                           *)

LEMMA Twice ==
    ASSUME NEW n \in Nat, NEW g \in Nat, g >= 2
    PROVE  n * g >= n + n /\ n * g \in Nat
  OBVIOUS

LEMMA Quotients ==
    ASSUME NEW n \in Nat, NEW g \in Nat, NEW l \in Nat, g >= 2, l >= g
    PROVE  n \div l <= n \div g /\ n \div g <= n /\ n \div g \in Nat /\ n \div l \in Nat
  OBVIOUS

\* There is room for one more entry in an array that has been grown.
LEMMA GrownRoom ==
    ASSUME NEW n \in Nat, NEW used \in Nat, used <= n
    PROVE  Grown(n, used) \in Nat /\ used + 1 <= Grown(n, used)
  BY TunableAssumption, Twice DEF Grown

\* The entries that are left fit in an array that has been shrunk.
LEMMA ShrunkRoom ==
    ASSUME NEW n \in Nat, NEW used \in Nat, used <= n
    PROVE  Shrunk(n, used) \in Nat /\ used <= Shrunk(n, used)
  BY TunableAssumption, Quotients DEF Shrunk

Distinct(s) == \A i, j \in 1 .. Len(s) : s[i] = s[j] => i = j

\* A new entry at the end of an array.
LEMMA AppendFacts ==
    ASSUME NEW S, NEW s \in Seq(S), NEW e \in S, Distinct(s), e \notin InArray(s)
    PROVE  /\ Append(s, e) \in Seq(S) /\ Len(Append(s, e)) = Len(s) + 1
           /\ \A k \in 1 .. Len(s) : Append(s, e)[k] = s[k]
           /\ Append(s, e)[Len(s) + 1] = e
           /\ Distinct(Append(s, e))
           /\ InArray(Append(s, e)) = InArray(s) \cup {e}
  <1> DEFINE q == Append(s, e)
  <1>1. /\ q \in Seq(S) /\ Len(q) = Len(s) + 1 /\ q[Len(s) + 1] = e
        /\ \A k \in 1 .. Len(s) : q[k] = s[k]
        /\ Len(s) \in Nat /\ DOMAIN s = 1 .. Len(s) /\ DOMAIN q = 1 .. Len(s) + 1
    BY LenProperties
  <1> HIDE DEF q
  <1>2. \A k \in 1 .. Len(s) : s[k] # e
    BY <1>1 DEF InArray
  <1>3. Distinct(q)
    BY <1>1, <1>2 DEF Distinct
  <1>4. InArray(q) = InArray(s) \cup {e}
    <2>1. \A k \in 1 .. Len(s) + 1 : k \in 1 .. Len(s) \/ k = Len(s) + 1
      BY <1>1
    <2> QED
      BY <1>1, <2>1 DEF InArray
  <1> QED
    BY <1>1, <1>3, <1>4 DEF q

\* The last entry takes the place of the i-th.
LEMMA SwapOutFacts ==
    ASSUME NEW S, NEW s \in Seq(S), NEW i \in 1 .. Len(s), Distinct(s)
    PROVE  /\ SwapOut(s, i) \in Seq(S) /\ Len(SwapOut(s, i)) = Len(s) - 1
           /\ \A k \in 1 .. Len(s) - 1 : SwapOut(s, i)[k] = IF k = i THEN s[Len(s)] ELSE s[k]
           /\ Distinct(SwapOut(s, i))
           /\ InArray(SwapOut(s, i)) = InArray(s) \ {s[i]}
  <1> DEFINE m == [s EXCEPT ![i] = s[Len(s)]]
             q == SwapOut(s, i)
  <1>1. /\ Len(s) \in Nat /\ Len(s) >= 1 /\ DOMAIN s = 1 .. Len(s) /\ s[Len(s)] \in S
        /\ \A k \in 1 .. Len(s) : s[k] \in S
    BY LenProperties, ElementOfSeq
  <1>2. m \in Seq(S) /\ Len(m) = Len(s) /\ \A k \in 1 .. Len(s) : m[k] = IF k = i THEN s[Len(s)] ELSE s[k]
    BY <1>1, ExceptSeq
  <1>3. /\ q \in Seq(S) /\ Len(q) = Len(s) - 1
        /\ \A k \in 1 .. Len(s) - 1 : q[k] = m[k]
    <2> HIDE DEF m
    <2>1. q = SubSeq(m, 1, Len(s) - 1)
      BY DEF SwapOut, m
    <2>2. \A k \in 1 .. Len(s) - 1 : m[k] \in S
      BY <1>1, <1>2
    <2> HIDE DEF q
    <2> QED
      BY <1>1, <2>1, <2>2, SubSeqProperties
  <1>4. \A k \in 1 .. Len(s) - 1 : q[k] = IF k = i THEN s[Len(s)] ELSE s[k]
    BY <1>1, <1>2, <1>3
  <1> HIDE DEF m, q
  <1>5. DOMAIN q = 1 .. Len(s) - 1
    BY <1>3, LenProperties
  <1>6. Distinct(q)
    <2> DEFINE From(k) == IF k = i THEN Len(s) ELSE k
    <2> SUFFICES ASSUME NEW j \in 1 .. Len(s) - 1, NEW k \in 1 .. Len(s) - 1, q[j] = q[k]
                 PROVE  j = k
      BY <1>3 DEF Distinct
    <2>1. q[j] = s[From(j)] /\ q[k] = s[From(k)]
      BY <1>4
    <2>2. Len(s) \in Nat
      BY <1>1
    <2>3. From(j) \in 1 .. Len(s) /\ From(k) \in 1 .. Len(s)
      BY <2>2
    <2>4. j # Len(s) /\ k # Len(s)
      BY <2>2
    <2>5. From(j) = From(k)
      <3> HIDE DEF From
      <3> QED
        BY <2>1, <2>3 DEF Distinct
    <2> QED
      BY <2>4, <2>5
  <1>7. InArray(q) = InArray(s) \ {s[i]}
    <2>1. ASSUME NEW k \in 1 .. Len(s) - 1
          PROVE  q[k] \in InArray(s) /\ q[k] # s[i]
      BY <1>1, <1>4 DEF InArray, Distinct
    <2>2. ASSUME NEW k \in 1 .. Len(s), s[k] # s[i]
          PROVE  s[k] \in InArray(q)
      <3>1. CASE k = Len(s)
        <4>1. i \in 1 .. Len(s) - 1 /\ q[i] = s[k]
          BY <1>1, <1>4, <2>2, <3>1
        <4> QED
          BY <1>5, <4>1 DEF InArray
      <3>2. CASE k # Len(s)
        <4>1. k # i
          BY <2>2
        <4>2. k \in 1 .. Len(s) - 1
          <5>1. Len(s) \in Nat
            BY <1>1
          <5> QED
            BY <3>2, <5>1
        <4>3. q[k] = s[k]
          BY <1>4, <4>1, <4>2
        <4> QED
          BY <1>5, <4>2, <4>3 DEF InArray
      <3> QED
        BY <3>1, <3>2
    <2>3. InArray(q) \subseteq InArray(s) \ {s[i]}
      BY <1>5, <2>1 DEF InArray
    <2>4. InArray(s) \ {s[i]} \subseteq InArray(q)
      <3> SUFFICES ASSUME NEW x \in InArray(s), x # s[i] PROVE x \in InArray(q)
        OBVIOUS
      <3>1. PICK k \in 1 .. Len(s) : x = s[k]
        BY <1>1 DEF InArray
      <3> QED
        BY <2>2, <3>1
    <2> QED
      BY <2>3, <2>4
  <1> QED
    BY <1>3, <1>4, <1>6, <1>7 DEF q

\* Without repetitions there are as many entries as indices.
LEMMA DistinctCardinality ==
    ASSUME NEW S, NEW s \in Seq(S), Distinct(s)
    PROVE  IsFiniteSet(InArray(s)) /\ Cardinality(InArray(s)) = Len(s)
  <1>1. Len(s) \in Nat /\ DOMAIN s = 1 .. Len(s) /\ s \in [1 .. Len(s) -> S]
    BY LenProperties
  <1>2. s \in Bijection(1 .. Len(s), InArray(s))
    <2>1. s \in [1 .. Len(s) -> InArray(s)]
      BY <1>1 DEF InArray
    <2>2. s \in Injection(1 .. Len(s), InArray(s))
      BY <1>1, <2>1 DEF Injection, IsInjective, Distinct
    <2>3. s \in Surjection(1 .. Len(s), InArray(s))
      BY <1>1, <2>1 DEF Surjection, InArray
    <2> QED
      BY <2>2, <2>3 DEF Bijection
  <1>3. IsFiniteSet(1 .. Len(s)) /\ Cardinality(1 .. Len(s)) = Len(s)
    <2>1. 1 \in Int /\ Len(s) \in Int /\ Len(s) >= 0
      BY <1>1
    <2>2. /\ IsFiniteSet(1 .. Len(s))
          /\ Cardinality(1 .. Len(s)) = IF 1 > Len(s) THEN 0 ELSE Len(s) - 1 + 1
      BY <2>1, FS_Interval
    <2> QED
      BY <2>1, <2>2
  <1> QED
    BY <1>2, <1>3, FS_Bijection DEF ExistsBijection

\* A finite set of numbers has a greatest: the least of its upper parts has
\* one element.
LEMMA MaxFacts ==
    ASSUME NEW n \in Nat, NEW S, S \subseteq 1 .. n, S # {}
    PROVE  Max(S) \in S /\ \A y \in S : Max(S) >= y
  <1> DEFINE Upper(k) == {x \in S : x >= k}
             T == {Upper(k) : k \in S}
  <1>1. IsFiniteSet(S) /\ \A x \in S : x \in Nat
    <2>1. IsFiniteSet(1 .. n) /\ S \in SUBSET (1 .. n)
      BY FS_Interval
    <2>2. IsFiniteSet(S)
      BY <2>1, FS_Subset
    <2>3. \A x \in S : x \in Nat
      OBVIOUS
    <2> QED
      BY <2>2, <2>3
  <1>2. T \subseteq FiniteSubsetsOf(S) /\ T # {}
    <2>1. FiniteSubsetsOf(S) = SUBSET S
      BY <1>1, FS_FiniteSubsetsOfFinite
    <2>2. \A k \in S : Upper(k) \in SUBSET S
      OBVIOUS
    <2>3. T \subseteq SUBSET S
      BY <2>2
    <2>4. T # {}
      OBVIOUS
    <2> QED
      BY <2>1, <2>3, <2>4
  <1>3. PICK U \in T : \A V \in T : <<V, U>> \notin StrictSubsetOrdering(S)
    <2> HIDE DEF T
    <2> QED
      BY <1>2, FS_StrictSubsetOrderingWellFounded, WFMin
  <1>4. PICK m \in S : U = Upper(m)
    BY <1>3
  <1>5. \A y \in S : m >= y
    <2> SUFFICES ASSUME NEW y \in S, ~(m >= y) PROVE FALSE
      OBVIOUS
    <2>1. Upper(y) \subseteq Upper(m) /\ m \in Upper(m) /\ m \notin Upper(y)
      <3>1. y \in Nat /\ m \in Nat /\ y > m
        BY <1>1
      <3>2. ASSUME NEW x \in Upper(y) PROVE x \in Upper(m)
        BY <1>1, <3>1
      <3>3. m \in Upper(m) /\ m \notin Upper(y)
        BY <3>1
      <3> QED
        BY <3>2, <3>3
    <2>2. <<Upper(y), U>> \in StrictSubsetOrdering(S)
      BY <1>4, <2>1 DEF StrictSubsetOrdering
    <2> QED
      BY <1>3, <2>2
  <1> QED
    BY <1>5 DEF Max

\* A set of cells of one block is as large as that of their addresses.
LEMMA PairsCardinality ==
    ASSUME NEW b, NEW F, IsFiniteSet(F)
    PROVE  IsFiniteSet({<<b, i>> : i \in F}) /\ Cardinality({<<b, i>> : i \in F}) = Cardinality(F)
  <1> DEFINE P == {<<b, i>> : i \in F}
             f == [i \in F |-> <<b, i>>]
  <1>1. f \in Bijection(F, P)
    BY DEF Bijection, Injection, Surjection, IsInjective
  <1> HIDE DEF P, f
  <1>2. IsFiniteSet(P) /\ Cardinality(P) = Cardinality(F)
    BY <1>1, FS_Bijection DEF ExistsBijection
  <1> QED
    BY <1>2 DEF P

\* Cardinality after some elements were taken away.
LEMMA WithoutCardinality ==
    ASSUME NEW S, IsFiniteSet(S), NEW F, F \subseteq S
    PROVE  /\ IsFiniteSet(F) /\ IsFiniteSet(S \ F)
           /\ Cardinality(S) \in Nat /\ Cardinality(F) \in Nat
           /\ Cardinality(F) <= Cardinality(S)
           /\ Cardinality(S \ F) = Cardinality(S) - Cardinality(F)
           /\ Cardinality(S) = Cardinality(F) => S = F
  <1>1. IsFiniteSet(F) /\ Cardinality(F) <= Cardinality(S) /\ (Cardinality(S) = Cardinality(F) => S = F)
    BY FS_Subset
  <1>2. S \cap F = F
    OBVIOUS
  <1>3. IsFiniteSet(S \ F) /\ Cardinality(S \ F) = Cardinality(S) - Cardinality(F)
    <2>1. /\ IsFiniteSet(S \ F)
          /\ Cardinality(S \ F) = Cardinality(S) - Cardinality(S \cap F)
      BY FS_Difference
    <2> QED
      BY <1>2, <2>1
  <1> QED
    BY <1>1, <1>3, FS_CardinalityType

\* One more element is at most one more.
LEMMA AddCardinality ==
    ASSUME NEW S, IsFiniteSet(S), NEW x
    PROVE  /\ IsFiniteSet(S \cup {x}) /\ Cardinality(S) \in Nat
           /\ Cardinality(S \cup {x}) \in Nat /\ Cardinality(S \cup {x}) <= Cardinality(S) + 1
  <1>1. /\ IsFiniteSet(S \cup {x})
        /\ Cardinality(S \cup {x}) = IF x \in S THEN Cardinality(S) ELSE Cardinality(S) + 1
    BY FS_AddElement
  <1>2. Cardinality(S) \in Nat
    BY FS_CardinalityType
  <1> QED
    BY <1>1, <1>2

------------------------------------------------------------------------------
(* The invariant.                                                          *)

\* h is the cell of F with the highest rank, or lies past the end of the block
\* if F is empty.
Leads(h, F, r) == IF F = {} THEN h = NoCell ELSE h \in F /\ \A j \in F : r[j] <= r[h]

\* A free list with the head h and the links n holds the cells of F in the order
\* of their ranks.
ChainOf(F, h, n, r) ==
    /\ r \in [Cells -> Nat]
    /\ \A i, j \in F : r[i] = r[j] => i = j
    /\ Leads(h, F, r)
    /\ \A i \in F : Leads(n[i], {j \in F : r[j] < r[i]}, r)

Types ==
    /\ cell \in [Blocks -> [Cells -> CellStates]]
    /\ freeList \in [Blocks -> 1 .. NoCell]
    /\ nextFree \in [Blocks -> [Cells -> 0 .. NoCell]]
    /\ usedCells \in [Blocks -> Nat]
    /\ blocks \in Seq(Blocks) /\ numBlocks \in Nat /\ firstSpace \in Nat \ {0}
    /\ oversize \in Seq(Oversize) /\ numOversize \in Nat
    /\ overCell \in [Oversize -> CellStates]
    /\ numLive \in Nat /\ liveAtLast \in Nat /\ sweptLive \in Nat
    /\ phase \in {"idle", "blocks", "oversize"} /\ index \in Nat /\ empty \in Nat

Slots(b) == {i \in Cells : cell[b][i] # "free"}

\* Each block's counter and its free list fit its cells.
Slab ==
    \A b \in Blocks :
        /\ usedCells[b] = Cardinality(Slots(b))
        /\ \E r \in [Cells -> Nat] : ChainOf(FreeCells(b), freeList[b], nextFree[b], r)

UsedSlab == {c \in SlabCells : cell[c[1]][c[2]] # "free"}
UsedOver == {o \in Oversize : overCell[o] # "free"}

Arrays ==
    /\ Distinct(blocks) /\ Distinct(oversize)
    /\ Len(blocks) <= numBlocks /\ Len(oversize) <= numOversize
    /\ InArray(oversize) = UsedOver
    /\ \A b \in Blocks : usedCells[b] > 0 => b \in InArray(blocks)

Counters ==
    LET now == Cardinality(UsedSlab) + Cardinality(UsedOver)
    IN  IF phase = "idle" THEN numLive = now /\ liveAtLast <= numLive ELSE sweptLive = now

\* The doomed cells lie ahead of the sweep.
Ahead ==
    /\ phase = "idle" => doomed = {}
    /\ phase = "blocks" =>
        /\ index \in 1 .. Len(blocks) + 1
        /\ \A x \in doomed :
             \/ x \in UsedOver
             \/ \E k \in index .. Len(blocks), i \in Cells :
                  x = <<blocks[k], i>> /\ cell[blocks[k]][i] = "live"
    /\ phase = "oversize" =>
        /\ index \in 1 .. Len(oversize) + 1
        /\ \A x \in doomed : \E k \in index .. Len(oversize) : x = oversize[k]

\* The blocks that the sweep has dealt with, and those of B that are empty.
Behind == {blocks[k] : k \in 1 .. index - 1}
EmptyIn(B) == {b \in B : usedCells[b] = 0}

Spares ==
    IF phase = "blocks"
    THEN Cardinality(EmptyIn(Behind)) <= Spare /\ Cardinality(EmptyIn(Behind)) <= empty
    ELSE Cardinality(EmptyIn(InArray(blocks))) <= Spare

IInv == Types /\ Slab /\ Arrays /\ Counters /\ Ahead /\ Spares

------------------------------------------------------------------------------
(* Free lists.                                                             *)

\* A least element, by counting down from the greatest.
LEMMA MinFacts ==
    ASSUME NEW n \in Nat, NEW S, S \subseteq 1 .. n, S # {}
    PROVE  Min(S) \in S /\ \A y \in S : Min(S) <= y
  <1> DEFINE U == {n + 1 - x : x \in S}
  <1>1. U \subseteq 1 .. n /\ U # {} /\ \A x \in S : x \in Nat
    <2>1. \A x \in S : x \in Nat /\ n + 1 - x \in 1 .. n
      OBVIOUS
    <2>2. U # {}
      OBVIOUS
    <2> QED
      BY <2>1, <2>2
  <1>2. Max(U) \in U /\ \A y \in U : Max(U) >= y
    BY <1>1, MaxFacts
  <1>3. PICK m \in S : Max(U) = n + 1 - m
    BY <1>2
  <1>4. \A y \in S : m <= y
    <2> SUFFICES ASSUME NEW y \in S PROVE m <= y
      OBVIOUS
    <2>1. n + 1 - m >= n + 1 - y
      BY <1>2, <1>3
    <2> QED
      BY <1>1, <2>1
  <1> QED
    BY <1>4 DEF Min

\* The links of a zeroed block lead from each cell to the next.
LEMMA ZeroChain ==
    \E r \in [Cells -> Nat] : ChainOf(Cells, 1, ZeroLinks, r)
  <1> DEFINE r == [i \in Cells |-> CellsPerBlock - i]
  <1> USE TunableAssumption
  <1>1. r \in [Cells -> Nat]
    BY DEF Cells
  <1>2. Leads(1, Cells, r) /\ \A i, j \in Cells : r[i] = r[j] => i = j
    BY DEF Cells, Leads
  <1>3. ASSUME NEW i \in Cells
        PROVE  Leads(ZeroLinks[i], {j \in Cells : r[j] < r[i]}, r)
    <2>1. {j \in Cells : r[j] < r[i]} = i + 1 .. CellsPerBlock
      BY DEF Cells
    <2>2. ZeroLinks[i] = i + 1
      BY DEF ZeroLinks
    <2>3. CASE i = CellsPerBlock
      <3>1. i + 1 .. CellsPerBlock = {} /\ i + 1 = NoCell
        BY <2>3 DEF NoCell
      <3> HIDE DEF r
      <3> QED
        BY <2>1, <2>2, <3>1 DEF Leads
    <2>4. CASE i # CellsPerBlock
      <3>1. i + 1 \in i + 1 .. CellsPerBlock
        BY <2>4 DEF Cells
      <3>2. \A j \in i + 1 .. CellsPerBlock : r[j] <= r[i + 1]
        BY <2>4 DEF Cells
      <3> HIDE DEF r
      <3> QED
        BY <2>1, <2>2, <3>1, <3>2 DEF Leads
    <2> QED
      BY <2>3, <2>4
  <1> HIDE DEF r
  <1> QED
    BY <1>1, <1>2, <1>3 DEF ChainOf

\* Without its head a free list is one of the other cells.
LEMMA TakeChain ==
    ASSUME NEW F \in SUBSET Cells, NEW h, NEW n, NEW r \in [Cells -> Nat], ChainOf(F, h, n, r), F # {},
           NEW m, \A i \in F \ {h} : m[i] = n[i]
    PROVE  h \in F /\ ChainOf(F \ {h}, n[h], m, r)
  <1>1. h \in F /\ \A j \in F : r[j] <= r[h]
    BY DEF ChainOf, Leads
  <1>2. \A j \in F : r[j] \in Nat
    OBVIOUS
  <1>3. {j \in F : r[j] < r[h]} = F \ {h}
    BY <1>1, <1>2 DEF ChainOf
  <1>4. ASSUME NEW i \in F \ {h}
        PROVE  Leads(m[i], {j \in F \ {h} : r[j] < r[i]}, r)
    <2>1. {j \in F \ {h} : r[j] < r[i]} = {j \in F : r[j] < r[i]}
      BY <1>1, <1>2
    <2>2. Leads(n[i], {j \in F : r[j] < r[i]}, r)
      BY DEF ChainOf
    <2> QED
      BY <2>1, <2>2
  <1>5. Leads(n[h], F \ {h}, r)
    <2>1. Leads(n[h], {j \in F : r[j] < r[h]}, r)
      BY <1>1 DEF ChainOf
    <2> QED
      BY <1>3, <2>1
  <1> QED
    BY <1>1, <1>4, <1>5 DEF ChainOf

\* The links of the cells of G, put in front of h one after the other.
PutBefore(G, h, m) ==
    \A i \in G : LET B == {j \in G : j < i} IN m[i] = IF B = {} THEN h ELSE Max(B)

\* The cells of G, put in front of a free list one after the other, the last
\* in front.
LEMMA PutChain ==
    ASSUME NEW F \in SUBSET Cells, NEW h, NEW n, NEW r \in [Cells -> Nat], ChainOf(F, h, n, r),
           NEW G \in SUBSET Cells, F \cap G = {}, G # {},
           NEW m, \A i \in F : m[i] = n[i], PutBefore(G, h, m)
    PROVE  \E q \in [Cells -> Nat] : ChainOf(F \cup G, Max(G), m, q)
  <1> USE TunableAssumption
  <1> DEFINE top == IF F = {} THEN 0 ELSE r[h]
             q == [i \in Cells |-> IF i \in G THEN top + i ELSE r[i]]
             B(i) == {j \in G : j < i}
  <1>1. top \in Nat /\ \A j \in F : r[j] <= top /\ r[j] \in Nat
    BY DEF ChainOf, Leads
  <1> HIDE DEF top
  <1>2. \A i \in G : i \in Nat /\ i >= 1 /\ i \in Cells
    BY DEF Cells
  <1>3. /\ q \in [Cells -> Nat]
        /\ \A i \in G : q[i] = top + i
        /\ \A i \in F : q[i] = r[i]
    BY <1>1, <1>2
  <1> HIDE DEF q
  <1>4. \A i, j \in F \cup G : q[i] = q[j] => i = j
    <2> SUFFICES ASSUME NEW i \in F \cup G, NEW j \in F \cup G, q[i] = q[j] PROVE i = j
      OBVIOUS
    <2>1. CASE i \in F /\ j \in F
      BY <1>3, <2>1 DEF ChainOf
    <2>2. CASE i \in G /\ j \in G
      BY <1>1, <1>2, <1>3, <2>2
    <2>3. CASE i \in F /\ j \in G
      <3>1. r[i] = top + j /\ r[i] <= top
        BY <1>1, <1>3, <2>3
      <3> QED
        BY <1>1, <1>2, <2>3, <3>1
    <2>4. CASE i \in G /\ j \in F
      <3>1. r[j] = top + i /\ r[j] <= top
        BY <1>1, <1>3, <2>4
      <3> QED
        BY <1>1, <1>2, <2>4, <3>1
    <2> QED
      BY <2>1, <2>2, <2>3, <2>4
  <1>5. Max(G) \in G /\ \A y \in G : Max(G) >= y
    BY MaxFacts DEF Cells
  <1>6. Leads(Max(G), F \cup G, q)
    <2>1. \A j \in F : q[j] <= q[Max(G)]
      <3> SUFFICES ASSUME NEW j \in F PROVE q[j] <= q[Max(G)]
        OBVIOUS
      <3>1. q[j] = r[j] /\ r[j] <= top /\ r[j] \in Nat
        BY <1>1, <1>3
      <3>2. q[Max(G)] = top + Max(G) /\ Max(G) \in Nat
        BY <1>2, <1>3, <1>5
      <3> QED
        BY <1>1, <3>1, <3>2
    <2>2. \A j \in G : q[j] <= q[Max(G)]
      BY <1>1, <1>2, <1>3, <1>5
    <2> QED
      BY <1>5, <2>1, <2>2 DEF Leads
  <1>7. ASSUME NEW i \in F
        PROVE  Leads(m[i], {j \in F \cup G : q[j] < q[i]}, q)
    <2>1. {j \in F \cup G : q[j] < q[i]} = {j \in F : r[j] < r[i]}
      <3>1. q[i] = r[i] /\ r[i] <= top
        BY <1>1, <1>3
      <3>2. \A j \in G : ~(q[j] < q[i])
        BY <1>1, <1>2, <1>3, <3>1
      <3> QED
        BY <1>3, <3>1, <3>2
    <2>2. Leads(n[i], {j \in F : r[j] < r[i]}, r)
      BY DEF ChainOf
    <2> QED
      BY <1>3, <2>1, <2>2 DEF Leads
  <1>8. ASSUME NEW i \in G
        PROVE  Leads(m[i], {j \in F \cup G : q[j] < q[i]}, q)
    <2>1. {j \in F \cup G : q[j] < q[i]} = F \cup B(i)
      <3>1. q[i] = top + i
        BY <1>3
      <3>2. \A j \in F : q[j] < q[i]
        BY <1>1, <1>2, <1>3, <3>1
      <3>3. \A j \in G : q[j] < q[i] <=> j < i
        BY <1>1, <1>2, <1>3, <3>1
      <3> QED
        BY <3>2, <3>3
    <2>2. CASE B(i) = {}
      <3>1. m[i] = h
        BY <2>2 DEF PutBefore
      <3>2. Leads(h, F, q)
        BY <1>3 DEF ChainOf, Leads
      <3> QED
        BY <2>1, <2>2, <3>1, <3>2
    <2>3. CASE B(i) # {}
      <3>1. m[i] = Max(B(i))
        BY <2>3 DEF PutBefore
      <3>2. Max(B(i)) \in B(i) /\ \A y \in B(i) : Max(B(i)) >= y
        BY <2>3, MaxFacts DEF Cells
      <3>3. \A j \in B(i) : q[j] <= q[Max(B(i))]
        <4> SUFFICES ASSUME NEW j \in B(i) PROVE q[j] <= q[Max(B(i))]
          OBVIOUS
        <4>1. j \in G /\ Max(B(i)) \in G /\ Max(B(i)) >= j
          BY <3>2
        <4> HIDE DEF B
        <4> QED
          BY <1>1, <1>2, <1>3, <4>1
      <3>4. \A j \in F : q[j] <= q[Max(B(i))]
        <4> SUFFICES ASSUME NEW j \in F PROVE q[j] <= q[Max(B(i))]
          OBVIOUS
        <4>1. Max(B(i)) \in G
          BY <3>2
        <4> HIDE DEF B
        <4> QED
          BY <1>1, <1>2, <1>3, <4>1
      <3> HIDE DEF B
      <3> QED
        BY <2>1, <2>3, <3>1, <3>2, <3>3, <3>4 DEF Leads
    <2> QED
      BY <2>2, <2>3
  <1>9. ChainOf(F \cup G, Max(G), m, q)
    <2>1. \A i \in F \cup G : Leads(m[i], {j \in F \cup G : q[j] < q[i]}, q)
      BY <1>7, <1>8
    <2> QED
      BY <1>3, <1>4, <1>6, <2>1 DEF ChainOf
  <1> QED
    BY <1>3, <1>9

------------------------------------------------------------------------------
(* What the steps of the allocator and of the sweep do to a block.         *)

LEMMA CellsFinite ==
    /\ IsFiniteSet(Cells) /\ Cardinality(Cells) = CellsPerBlock
    /\ \A b \in Blocks : IsFiniteSet(Slots(b)) /\ Slots(b) \subseteq Cells
    /\ IsFiniteSet(UsedSlab) /\ IsFiniteSet(UsedOver)
  <1>1. IsFiniteSet(Cells) /\ Cardinality(Cells) = CellsPerBlock
    BY FS_Interval, TunableAssumption DEF Cells
  <1>2. IsFiniteSet(SlabCells)
    BY <1>1, FS_Product, AddressAssumption DEF SlabCells
  <1>3. IsFiniteSet(UsedSlab)
    BY <1>2, FS_Subset DEF UsedSlab
  <1>4. IsFiniteSet(UsedOver)
    BY AddressAssumption, FS_Subset DEF UsedOver
  <1>5. \A b \in Blocks : IsFiniteSet(Slots(b)) /\ Slots(b) \subseteq Cells
    BY <1>1, FS_Subset DEF Slots
  <1> QED
    BY <1>1, <1>3, <1>4, <1>5

\* Changes to one block leave the other blocks' lists and counters in order.
LEMMA OtherBlocks ==
    ASSUME Slab, NEW b \in Blocks,
           \A c \in Blocks \ {b} : /\ cell'[c] = cell[c] /\ freeList'[c] = freeList[c]
                                   /\ nextFree'[c] = nextFree[c] /\ usedCells'[c] = usedCells[c],
           usedCells'[b] = Cardinality(Slots(b)'),
           \E r \in [Cells -> Nat] : ChainOf(FreeCells(b)', freeList'[b], nextFree'[b], r)
    PROVE  Slab'
  <1> SUFFICES ASSUME NEW c \in Blocks \ {b}
               PROVE  /\ usedCells'[c] = Cardinality(Slots(c)')
                      /\ \E r \in [Cells -> Nat] : ChainOf(FreeCells(c)', freeList'[c], nextFree'[c], r)
    BY DEF Slab
  <1>1. Slots(c)' = Slots(c) /\ FreeCells(c)' = FreeCells(c)
    BY DEF Slots, FreeCells
  <1> QED
    BY <1>1 DEF Slab

\* The allocator takes a free cell, and no other block notices.
LEMMA TakeCellFacts ==
    ASSUME Types, Slab, NEW b \in Blocks, usedCells[b] # CellsPerBlock, TakeCell(b)
    PROVE  /\ freeList[b] \in Cells
           /\ cell' = [cell EXCEPT ![b][freeList[b]] = "raw"]
           /\ cell[b][freeList[b]] = "free"
           /\ cell' \in [Blocks -> [Cells -> CellStates]]
           /\ freeList' \in [Blocks -> 1 .. NoCell]
           /\ nextFree' \in [Blocks -> [Cells -> 0 .. NoCell]]
           /\ usedCells' = [usedCells EXCEPT ![b] = @ + 1]
           /\ usedCells' \in [Blocks -> Nat]
           /\ numLive' = numLive + 1
           /\ Slab'
           /\ UsedSlab' = UsedSlab \cup {<<b, freeList[b]>>}
           /\ <<b, freeList[b]>> \notin UsedSlab
  <1> USE TunableAssumption
  <1> DEFINE i == freeList[b]
  <1>1. FreeCells(b) # {}
    <2> SUFFICES ASSUME FreeCells(b) = {} PROVE FALSE
      OBVIOUS
    <2>1. Slots(b) = Cells
      BY DEF FreeCells, Slots
    <2> QED
      BY <2>1, CellsFinite DEF Slab
  <1>2. PICK r \in [Cells -> Nat] : ChainOf(FreeCells(b), i, nextFree[b], r)
    BY DEF Slab
  <1>3. i \in FreeCells(b)
    BY <1>1, <1>2 DEF ChainOf, Leads
  <1>4. i \in Cells /\ cell[b][i] = "free"
    BY <1>3 DEF FreeCells
  <1>5. nextFree[b][i] \in 1 .. NoCell
    <2>1. Leads(nextFree[b][i], {j \in FreeCells(b) : r[j] < r[i]}, r)
      BY <1>2, <1>3 DEF ChainOf
    <2>2. nextFree[b][i] = NoCell \/ nextFree[b][i] \in FreeCells(b)
      BY <2>1 DEF Leads
    <2>3. FreeCells(b) \subseteq 1 .. NoCell /\ NoCell \in 1 .. NoCell
      BY DEF FreeCells, Cells, NoCell
    <2> QED
      BY <2>2, <2>3
  <1>6. /\ cell' = [cell EXCEPT ![b][i] = "raw"]
        /\ freeList' = [freeList EXCEPT ![b] = nextFree[b][i]]
        /\ nextFree' = [nextFree EXCEPT ![b][i] = 0]
        /\ usedCells' = [usedCells EXCEPT ![b] = @ + 1]
        /\ numLive' = numLive + 1
    BY DEF TakeCell
  <1>7. /\ cell' \in [Blocks -> [Cells -> CellStates]]
        /\ usedCells' \in [Blocks -> Nat]
        /\ nextFree' \in [Blocks -> [Cells -> 0 .. NoCell]]
    <2>1. /\ cell \in [Blocks -> [Cells -> CellStates]] /\ usedCells \in [Blocks -> Nat]
          /\ nextFree \in [Blocks -> [Cells -> 0 .. NoCell]]
      BY DEF Types
    <2>2. cell' \in [Blocks -> [Cells -> CellStates]]
      BY <1>6, <2>1 DEF CellStates
    <2>3. usedCells' \in [Blocks -> Nat]
      BY <1>6, <2>1
    <2>4. nextFree' \in [Blocks -> [Cells -> 0 .. NoCell]]
      <3>1. 0 \in 0 .. NoCell
        BY DEF NoCell
      <3>2. [nextFree[b] EXCEPT ![i] = 0] \in [Cells -> 0 .. NoCell]
        BY <2>1, <3>1
      <3>3. nextFree' = [nextFree EXCEPT ![b] = [nextFree[b] EXCEPT ![i] = 0]]
        BY <1>6, <2>1
      <3> QED
        BY <2>1, <3>2, <3>3
    <2> QED
      BY <2>2, <2>3, <2>4
  <1>8. freeList' \in [Blocks -> 1 .. NoCell]
    BY <1>5, <1>6 DEF Types
  <1>9. /\ \A j \in Cells : cell'[b][j] = IF j = i THEN "raw" ELSE cell[b][j]
        /\ \A j \in Cells \ {i} : nextFree'[b][j] = nextFree[b][j]
        /\ freeList'[b] = nextFree[b][i] /\ usedCells'[b] = usedCells[b] + 1
        /\ \A c \in Blocks \ {b} : /\ cell'[c] = cell[c] /\ freeList'[c] = freeList[c]
                                   /\ nextFree'[c] = nextFree[c] /\ usedCells'[c] = usedCells[c]
    BY <1>4, <1>6 DEF Types
  <1>10. Slots(b)' = Slots(b) \cup {i} /\ i \notin Slots(b) /\ FreeCells(b)' = FreeCells(b) \ {i}
    BY <1>4, <1>9 DEF Slots, FreeCells
  <1>11. Slab'
    <2>1. usedCells'[b] = Cardinality(Slots(b)')
      <3>1. Cardinality(Slots(b) \cup {i}) = Cardinality(Slots(b)) + 1
        BY <1>10, CellsFinite, FS_AddElement
      <3> QED
        BY <1>9, <1>10, <3>1 DEF Slab
    <2>2. FreeCells(b) \in SUBSET Cells /\ \A j \in FreeCells(b) \ {i} : nextFree'[b][j] = nextFree[b][j]
      BY <1>9 DEF FreeCells
    <2>3. ChainOf(FreeCells(b) \ {i}, nextFree[b][i], nextFree'[b], r)
      BY <1>1, <1>2, <2>2, TakeChain
    <2>4. ChainOf(FreeCells(b)', freeList'[b], nextFree'[b], r)
      BY <1>9, <1>10, <2>3
    <2> QED
      BY <1>9, <2>1, <2>4, OtherBlocks
  <1>12. UsedSlab' = UsedSlab \cup {<<b, i>>} /\ <<b, i>> \notin UsedSlab
    <2>1. \A c \in Blocks, j \in Cells :
            cell'[c][j] # "free" <=> cell[c][j] # "free" \/ <<c, j>> = <<b, i>>
      BY <1>4, <1>9
    <2> QED
      BY <1>4, <2>1 DEF UsedSlab, SlabCells
  <1> QED
    BY <1>4, <1>6, <1>7, <1>8, <1>11, <1>12

\* A constructor runs in a cell that is counted already.
LEMMA ConstructFacts ==
    ASSUME Types, Slab, NEW b \in Blocks, NEW i \in Cells, cell[b][i] = "raw",
           cell' = [cell EXCEPT ![b][i] = "live"], UNCHANGED <<freeList, nextFree, usedCells>>
    PROVE  /\ cell' \in [Blocks -> [Cells -> CellStates]]
           /\ Slab' /\ UsedSlab' = UsedSlab
  <1>1. \A c \in Blocks, j \in Cells :
          cell'[c][j] = IF c = b /\ j = i THEN "live" ELSE cell[c][j]
    BY DEF Types
  <1>2. cell' \in [Blocks -> [Cells -> CellStates]]
    BY DEF Types, CellStates
  <1>3. \A c \in Blocks : Slots(c)' = Slots(c) /\ FreeCells(c)' = FreeCells(c)
    BY <1>1 DEF Slots, FreeCells
  <1>4. UsedSlab' = UsedSlab
    BY <1>1 DEF UsedSlab, SlabCells
  <1> QED
    BY <1>2, <1>3, <1>4 DEF Slab

\* The early end of the loop over a block that is not full passes by no
\* constructed cell, and only such cells are destroyed.
LEMMA FreedFacts ==
    ASSUME Types, Slab, NEW b \in Blocks
    PROVE  /\ Freed(b) \subseteq Slots(b) /\ IsFiniteSet(Freed(b))
           /\ \A i \in Freed(b) : cell[b][i] = "live" /\ <<b, i>> \in doomed
           /\ \A i \in Cells : cell[b][i] = "live" /\ <<b, i>> \in doomed => i \in Freed(b)
  <1>1. \A i \in Freed(b) : i \in Cells /\ cell[b][i] = "live" /\ <<b, i>> \in doomed
    BY DEF Freed, Visited
  <1>2. Freed(b) \subseteq Slots(b)
    BY <1>1 DEF Slots
  <1>3. IsFiniteSet(Slots(b)) /\ usedCells[b] = Cardinality(Slots(b))
    BY CellsFinite DEF Slab
  <1>4. IsFiniteSet(Freed(b))
    BY <1>2, <1>3, FS_Subset
  <1>5. ASSUME NEW i \in Cells, cell[b][i] = "live"
        PROVE  i \in Visited(b)
    <2> DEFINE L == {j \in 1 .. i - 1 : cell[b][j] = "live"}
    <2>1. i \in Slots(b) /\ L \subseteq Slots(b) \ {i}
      <3>1. \A j \in 1 .. i - 1 : j \in Cells /\ j # i
        BY TunableAssumption DEF Cells
      <3> QED
        BY <1>5, <3>1 DEF Slots
    <2>2. /\ IsFiniteSet(Slots(b) \ {i})
          /\ Cardinality(Slots(b) \ {i}) = Cardinality(Slots(b)) - 1
      BY <1>3, <2>1, FS_RemoveElement
    <2>3. Cardinality(L) <= Cardinality(Slots(b)) - 1 /\ Cardinality(L) \in Nat
      <3> HIDE DEF L
      <3>1. L \in SUBSET (Slots(b) \ {i})
        BY <2>1
      <3>2. IsFiniteSet(L) /\ Cardinality(L) <= Cardinality(Slots(b) \ {i})
        BY <2>2, <3>1, FS_Subset
      <3> QED
        BY <2>2, <3>2, FS_CardinalityType
    <2>4. Cardinality(L) < usedCells[b]
      <3> HIDE DEF L
      <3>1. Cardinality(Slots(b)) \in Nat
        BY <1>3, FS_CardinalityType
      <3> QED
        BY <1>3, <2>3, <3>1
    <2> QED
      BY <2>4 DEF Visited
  <1>6. \A i \in Cells : cell[b][i] = "live" /\ <<b, i>> \in doomed => i \in Freed(b)
    BY <1>5 DEF Freed
  <1> QED
    BY <1>1, <1>2, <1>4, <1>6

\* The cells F of b are free now.
LEMMA SlotsGone ==
    ASSUME Types, NEW b \in Blocks, NEW F \in SUBSET Slots(b), IsFiniteSet(F),
           \A c \in Blocks, j \in Cells :
              cell'[c][j] # "free" <=> cell[c][j] # "free" /\ ~(c = b /\ j \in F)
    PROVE  /\ Slots(b)' = Slots(b) \ F
           /\ \A c \in Blocks \ {b} : Slots(c)' = Slots(c)
           /\ UsedSlab' = UsedSlab \ {<<b, i>> : i \in F}
           /\ Cardinality(Slots(b)') = Cardinality(Slots(b)) - Cardinality(F)
           /\ Cardinality(UsedSlab') = Cardinality(UsedSlab) - Cardinality(F)
           /\ Cardinality(F) <= Cardinality(Slots(b)) /\ Cardinality(F) <= Cardinality(UsedSlab)
           /\ Cardinality(F) \in Nat /\ Cardinality(Slots(b)) \in Nat /\ Cardinality(UsedSlab) \in Nat
  <1> DEFINE P == {<<b, i>> : i \in F}
  <1>1. Slots(b)' = Slots(b) \ F /\ \A c \in Blocks \ {b} : Slots(c)' = Slots(c)
    BY DEF Slots
  <1>2. UsedSlab' = UsedSlab \ P
    <2>1. \A c \in Blocks, j \in Cells : <<c, j>> \in P <=> c = b /\ j \in F
      OBVIOUS
    <2> HIDE DEF P
    <2> QED
      BY <2>1 DEF UsedSlab, SlabCells
  <1>3. P \subseteq UsedSlab
    BY DEF UsedSlab, SlabCells, Slots
  <1>4. IsFiniteSet(P) /\ Cardinality(P) = Cardinality(F)
    BY PairsCardinality
  <1> HIDE DEF P
  <1>5. IsFiniteSet(Slots(b)) /\ IsFiniteSet(UsedSlab) /\ F \subseteq Slots(b)
    BY CellsFinite
  <1>6. /\ Cardinality(Slots(b) \ F) = Cardinality(Slots(b)) - Cardinality(F)
        /\ Cardinality(F) <= Cardinality(Slots(b))
        /\ Cardinality(F) \in Nat /\ Cardinality(Slots(b)) \in Nat
    BY <1>5, WithoutCardinality
  <1>7. /\ Cardinality(UsedSlab \ P) = Cardinality(UsedSlab) - Cardinality(F)
        /\ Cardinality(F) <= Cardinality(UsedSlab) /\ Cardinality(UsedSlab) \in Nat
    <2>1. /\ Cardinality(UsedSlab \ P) = Cardinality(UsedSlab) - Cardinality(P)
          /\ Cardinality(P) <= Cardinality(UsedSlab) /\ Cardinality(UsedSlab) \in Nat
      BY <1>3, <1>5, WithoutCardinality
    <2> QED
      BY <1>4, <2>1
  <1> QED
    BY <1>1, <1>2, <1>6, <1>7 DEF P

\* The sweep of a block that stays keeps its list and its counter.
LEMMA SweepCellsFacts ==
    ASSUME Types, Slab, NEW b \in Blocks, SweepCells(b)
    PROVE  /\ cell' \in [Blocks -> [Cells -> CellStates]]
           /\ freeList' \in [Blocks -> 1 .. NoCell]
           /\ nextFree' \in [Blocks -> [Cells -> 0 .. NoCell]]
           /\ usedCells' \in [Blocks -> Nat]
           /\ \A c \in Blocks \ {b} : usedCells'[c] = usedCells[c] /\ cell'[c] = cell[c]
           /\ usedCells'[b] = usedCells[b] - Cardinality(Freed(b))
           /\ \A c \in Blocks, j \in Cells :
                cell'[c][j] # "free" <=> cell[c][j] # "free" /\ ~(c = b /\ j \in Freed(b))
           /\ sweptLive' = sweptLive - Cardinality(Freed(b))
           /\ doomed' = doomed \ {<<b, i>> : i \in Freed(b)}
           /\ Slab'
  <1> USE TunableAssumption
  <1> DEFINE F == Freed(b)
             B(i) == {j \in F : j < i}
  <1>1. F \subseteq Slots(b) /\ IsFiniteSet(F) /\ F \subseteq Cells
    BY FreedFacts DEF Slots
  <1>2. F # {} => Max(F) \in F /\ Max(F) \in 1 .. NoCell
    BY <1>1, MaxFacts DEF Cells, NoCell
  <1>3. \A i \in F : B(i) # {} => Max(B(i)) \in 1 .. NoCell
    <2> SUFFICES ASSUME NEW i \in F, B(i) # {} PROVE Max(B(i)) \in 1 .. NoCell
      OBVIOUS
    <2>1. B(i) \subseteq 1 .. CellsPerBlock
      BY <1>1 DEF Cells
    <2>2. Max(B(i)) \in B(i)
      <3> HIDE DEF B
      <3> QED
        BY <2>1, MaxFacts
    <2> QED
      BY <2>1, <2>2 DEF NoCell
  <1>4. /\ cell' = [cell EXCEPT ![b] = [i \in Cells |-> IF i \in F THEN "free" ELSE @[i]]]
        /\ nextFree' = [nextFree EXCEPT ![b] =
                [i \in Cells |-> IF i \notin F THEN @[i]
                                 ELSE IF B(i) = {} THEN freeList[b] ELSE Max(B(i))]]
        /\ freeList' = [freeList EXCEPT ![b] = IF F = {} THEN @ ELSE Max(F)]
        /\ usedCells' = [usedCells EXCEPT ![b] = @ - Cardinality(F)]
        /\ sweptLive' = sweptLive - Cardinality(F)
        /\ doomed' = doomed \ {<<b, i>> : i \in F}
    BY DEF SweepCells
  <1> HIDE DEF F, B
  <1>5. cell' \in [Blocks -> [Cells -> CellStates]]
    BY <1>4 DEF Types, CellStates
  <1>6. freeList' \in [Blocks -> 1 .. NoCell]
    BY <1>2, <1>4 DEF Types
  <1>7. nextFree' \in [Blocks -> [Cells -> 0 .. NoCell]]
    <2>1. \A i \in Cells : (IF i \notin F THEN nextFree[b][i]
                            ELSE IF B(i) = {} THEN freeList[b] ELSE Max(B(i))) \in 0 .. NoCell
      BY <1>3 DEF Types, NoCell
    <2>2. \A n : 1 .. n \subseteq 0 .. n
      OBVIOUS
    <2> QED
      BY <1>4, <2>1 DEF Types
  <1>8. \A c \in Blocks, j \in Cells :
          cell'[c][j] # "free" <=> cell[c][j] # "free" /\ ~(c = b /\ j \in F)
    BY <1>4 DEF Types
  <1>9. /\ Slots(b)' = Slots(b) \ F
        /\ Cardinality(Slots(b)') = Cardinality(Slots(b)) - Cardinality(F)
        /\ Cardinality(F) <= Cardinality(Slots(b))
        /\ Cardinality(F) \in Nat /\ Cardinality(Slots(b)) \in Nat
    BY <1>1, <1>8, SlotsGone
  <1>10. usedCells[b] = Cardinality(Slots(b))
    BY DEF Slab
  <1>11. usedCells' \in [Blocks -> Nat]
    <2>1. usedCells[b] - Cardinality(F) \in Nat
      BY <1>9, <1>10
    <2> QED
      BY <1>4, <2>1 DEF Types
  <1>12. /\ \A c \in Blocks \ {b} : /\ cell'[c] = cell[c] /\ freeList'[c] = freeList[c]
                                    /\ nextFree'[c] = nextFree[c] /\ usedCells'[c] = usedCells[c]
         /\ usedCells'[b] = usedCells[b] - Cardinality(F)
         /\ freeList'[b] = IF F = {} THEN freeList[b] ELSE Max(F)
         /\ \A i \in Cells : nextFree'[b][i] =
                IF i \notin F THEN nextFree[b][i]
                ELSE IF B(i) = {} THEN freeList[b] ELSE Max(B(i))
    BY <1>4 DEF Types
  <1>13. FreeCells(b)' = FreeCells(b) \cup F /\ FreeCells(b) \cap F = {} /\ FreeCells(b) \in SUBSET Cells
    BY <1>1, <1>8 DEF FreeCells, Slots
  <1>14. \E r \in [Cells -> Nat] : ChainOf(FreeCells(b)', freeList'[b], nextFree'[b], r)
    <2>1. PICK r \in [Cells -> Nat] : ChainOf(FreeCells(b), freeList[b], nextFree[b], r)
      BY DEF Slab
    <2>2. CASE F = {}
      <3>1. /\ FreeCells(b)' = FreeCells(b) /\ freeList'[b] = freeList[b]
            /\ \A i \in Cells : nextFree'[b][i] = nextFree[b][i]
        BY <1>12, <1>13, <2>2
      <3>2. ChainOf(FreeCells(b), freeList[b], nextFree'[b], r)
        BY <1>13, <2>1, <3>1 DEF ChainOf
      <3> QED
        BY <3>1, <3>2
    <2>3. CASE F # {}
      <3>1. \A i \in FreeCells(b) : nextFree'[b][i] = nextFree[b][i]
        BY <1>12, <1>13
      <3>2. PutBefore(F, freeList[b], nextFree'[b])
        BY <1>1, <1>12 DEF B, PutBefore
      <3>3. \E q \in [Cells -> Nat] : ChainOf(FreeCells(b) \cup F, Max(F), nextFree'[b], q)
        <4>1. F \in SUBSET Cells
          BY <1>1
        <4> QED
          BY <1>13, <2>1, <2>3, <3>1, <3>2, <4>1, PutChain
      <3>4. freeList'[b] = Max(F)
        BY <1>12, <2>3
      <3> QED
        BY <1>13, <3>3, <3>4
    <2> QED
      BY <2>2, <2>3
  <1>15. Slab'
    BY <1>9, <1>10, <1>12, <1>14, OtherBlocks
  <1> QED
    BY <1>4, <1>5, <1>6, <1>7, <1>8, <1>11, <1>12, <1>15 DEF F

\* A block is given up only when all its cells are destroyed; those that are
\* not constructed yet, and are never destroyed, keep it.
LEMMA FreeBlockFacts ==
    ASSUME Types, Slab, NEW b \in Blocks, usedCells[b] = Cardinality(Freed(b)),
           cell' = [cell EXCEPT ![b] = ZeroCells],
           freeList' = [freeList EXCEPT ![b] = 1],
           nextFree' = [nextFree EXCEPT ![b] = ZeroLinks],
           usedCells' = [usedCells EXCEPT ![b] = 0]
    PROVE  /\ cell' \in [Blocks -> [Cells -> CellStates]]
           /\ freeList' \in [Blocks -> 1 .. NoCell]
           /\ nextFree' \in [Blocks -> [Cells -> 0 .. NoCell]]
           /\ usedCells' \in [Blocks -> Nat]
           /\ \A c \in Blocks \ {b} : usedCells'[c] = usedCells[c] /\ cell'[c] = cell[c]
           /\ usedCells'[b] = 0
           /\ \A c \in Blocks, j \in Cells :
                cell'[c][j] # "free" <=> cell[c][j] # "free" /\ ~(c = b /\ j \in Freed(b))
           /\ Slab'
  <1> USE TunableAssumption
  <1>1. Freed(b) = Slots(b)
    <2>1. Freed(b) \in SUBSET Slots(b) /\ IsFiniteSet(Slots(b)) /\ usedCells[b] = Cardinality(Slots(b))
      BY FreedFacts, CellsFinite DEF Slab
    <2> QED
      BY <2>1, FS_Subset
  <1>2. /\ cell' \in [Blocks -> [Cells -> CellStates]]
        /\ usedCells' \in [Blocks -> Nat]
    BY DEF Types, ZeroCells, CellStates
  <1>3. freeList' \in [Blocks -> 1 .. NoCell]
    BY DEF Types, NoCell
  <1>4. nextFree' \in [Blocks -> [Cells -> 0 .. NoCell]]
    <2>1. ZeroLinks \in [Cells -> 0 .. NoCell]
      BY DEF ZeroLinks, Cells, NoCell
    <2> QED
      BY <2>1 DEF Types
  <1>5. /\ \A c \in Blocks \ {b} : /\ cell'[c] = cell[c] /\ freeList'[c] = freeList[c]
                                   /\ nextFree'[c] = nextFree[c] /\ usedCells'[c] = usedCells[c]
        /\ usedCells'[b] = 0 /\ freeList'[b] = 1 /\ nextFree'[b] = ZeroLinks
        /\ \A j \in Cells : cell'[b][j] = "free"
    BY DEF Types, ZeroCells
  <1>6. \A c \in Blocks, j \in Cells :
          cell'[c][j] # "free" <=> cell[c][j] # "free" /\ ~(c = b /\ j \in Freed(b))
    BY <1>1, <1>5 DEF Slots
  <1>7. Slots(b)' = {} /\ FreeCells(b)' = Cells
    BY <1>5 DEF Slots, FreeCells
  <1>8. Slab'
    <2>1. usedCells'[b] = Cardinality(Slots(b)')
      BY <1>5, <1>7, FS_EmptySet
    <2>2. \E r \in [Cells -> Nat] : ChainOf(FreeCells(b)', freeList'[b], nextFree'[b], r)
      BY <1>5, <1>7, ZeroChain
    <2> QED
      BY <1>5, <2>1, <2>2, OtherBlocks
  <1> QED
    BY <1>2, <1>3, <1>4, <1>5, <1>6, <1>8

------------------------------------------------------------------------------
(* Allocation keeps the invariant.                                         *)

LEMMA IdleFacts ==
    ASSUME IInv
    PROVE  /\ IsFiniteSet(InArray(blocks)) /\ IsFiniteSet(UsedSlab) /\ IsFiniteSet(UsedOver)
           /\ Cardinality(UsedSlab) \in Nat /\ Cardinality(UsedOver) \in Nat
           /\ Len(blocks) \in Nat /\ Len(oversize) \in Nat
           /\ DOMAIN blocks = 1 .. Len(blocks) /\ DOMAIN oversize = 1 .. Len(oversize)
           /\ \A k \in 1 .. Len(blocks) : blocks[k] \in Blocks /\ blocks[k] \in InArray(blocks)
           /\ \A k \in 1 .. Len(oversize) : oversize[k] \in Oversize /\ oversize[k] \in InArray(oversize)
           /\ \A b \in InArray(blocks) : b \in Blocks /\ \E k \in 1 .. Len(blocks) : b = blocks[k]
           /\ \A o \in InArray(oversize) : \E k \in 1 .. Len(oversize) : o = oversize[k]
  <1>1. /\ blocks \in Seq(Blocks) /\ oversize \in Seq(Oversize)
        /\ Distinct(blocks)
    BY DEF IInv, Types, Arrays
  <1>2. IsFiniteSet(InArray(blocks)) /\ IsFiniteSet(UsedSlab) /\ IsFiniteSet(UsedOver)
    BY <1>1, DistinctCardinality, CellsFinite
  <1>3. /\ Len(blocks) \in Nat /\ Len(oversize) \in Nat
        /\ DOMAIN blocks = 1 .. Len(blocks) /\ DOMAIN oversize = 1 .. Len(oversize)
        /\ \A k \in 1 .. Len(blocks) : blocks[k] \in Blocks
        /\ \A k \in 1 .. Len(oversize) : oversize[k] \in Oversize
    BY <1>1, LenProperties, ElementOfSeq
  <1>4. Cardinality(UsedSlab) \in Nat /\ Cardinality(UsedOver) \in Nat
    BY <1>2, FS_CardinalityType
  <1> QED
    BY <1>2, <1>3, <1>4 DEF InArray

LEMMA AllocateInBlockStep ==
    ASSUME IInv, AllocateInBlock
    PROVE  IInv'
  <1> USE TunableAssumption
  <1>1. Types /\ Slab /\ Arrays /\ Counters /\ Ahead /\ Spares /\ phase = "idle"
    BY DEF IInv, AllocateInBlock, CanAllocate
  <1>2. PICK m \in 1 .. Len(blocks) : m = Min(WithSpace) /\ usedCells[blocks[m]] # CellsPerBlock
    <2>1. Len(blocks) \in Nat
      BY IdleFacts
    <2>2. WithSpace \subseteq 1 .. Len(blocks) /\ WithSpace # {}
      <3>1. firstSpace \in Nat \ {0}
        BY <1>1 DEF Types
      <3>2. WithSpace # {}
        BY DEF AllocateInBlock
      <3> QED
        BY <2>1, <3>1, <3>2 DEF WithSpace
    <2>3. Min(WithSpace) \in WithSpace
      BY <2>1, <2>2, MinFacts
    <2> QED
      BY <2>2, <2>3 DEF WithSpace
  <1>3. PICK b \in InArray(blocks) : b = blocks[m] /\ b \in Blocks /\ m \in Nat \ {0}
    BY IdleFacts
  <1> DEFINE i == freeList[b]
  <1>4. /\ firstSpace' = m /\ TakeCell(b)
        /\ UNCHANGED <<blocks, numBlocks, oversize, numOversize, overCell, liveAtLast,
                       phase, index, empty, sweptLive, doomed>>
    BY <1>2, <1>3 DEF AllocateInBlock, overVars, sweepVars
  <1>5. /\ cell' \in [Blocks -> [Cells -> CellStates]]
        /\ freeList' \in [Blocks -> 1 .. NoCell]
        /\ nextFree' \in [Blocks -> [Cells -> 0 .. NoCell]]
        /\ usedCells' = [usedCells EXCEPT ![b] = @ + 1]
        /\ usedCells' \in [Blocks -> Nat]
        /\ numLive' = numLive + 1
        /\ Slab'
        /\ UsedSlab' = UsedSlab \cup {<<b, i>>} /\ <<b, i>> \notin UsedSlab
    BY <1>1, <1>2, <1>3, <1>4, TakeCellFacts
  <1>6. Types'
    <2>1. firstSpace' \in Nat \ {0}
      BY <1>3, <1>4
    <2>2. numLive' \in Nat
      BY <1>1, <1>5 DEF Types
    <2>3. UNCHANGED <<blocks, numBlocks, oversize, numOversize, overCell, liveAtLast, phase,
                      index, empty, sweptLive>>
      BY <1>4
    <2> QED
      BY <1>1, <1>5, <2>1, <2>2, <2>3 DEF Types
  <1>7. UsedOver' = UsedOver /\ InArray(oversize)' = InArray(oversize) /\ InArray(blocks)' = InArray(blocks)
    BY <1>4 DEF UsedOver, InArray
  <1>8. \A c \in Blocks : usedCells'[c] = IF c = b THEN usedCells[c] + 1 ELSE usedCells[c]
    BY <1>1, <1>3, <1>5 DEF Types
  <1>9. Arrays'
    BY <1>1, <1>3, <1>4, <1>7, <1>8 DEF Arrays, Distinct
  <1>10. Counters'
    <2>1. Cardinality(UsedSlab') = Cardinality(UsedSlab) + 1
      BY <1>5, IdleFacts, FS_AddElement
    <2>2. numLive = Cardinality(UsedSlab) + Cardinality(UsedOver) /\ liveAtLast <= numLive
      BY <1>1 DEF Counters
    <2>3. numLive' = Cardinality(UsedSlab') + Cardinality(UsedOver') /\ liveAtLast' <= numLive'
      <3>1. numLive' = numLive + 1 /\ liveAtLast' = liveAtLast
        BY <1>4, <1>5
      <3>2. liveAtLast \in Nat /\ numLive \in Nat
        BY <1>1 DEF Types
      <3>3. Cardinality(UsedSlab) \in Nat /\ Cardinality(UsedOver) \in Nat
        BY IdleFacts
      <3>4. Cardinality(UsedOver') = Cardinality(UsedOver)
        BY <1>7
      <3>5. numLive' = Cardinality(UsedSlab') + Cardinality(UsedOver')
        BY <2>1, <2>2, <3>1, <3>3, <3>4
      <3> QED
        BY <2>2, <3>1, <3>2, <3>5
    <2>4. phase' = "idle"
      BY <1>1, <1>4
    <2> QED
      BY <2>3, <2>4 DEF Counters
  <1>11. Ahead'
    BY <1>1, <1>4 DEF Ahead
  <1>12. Spares'
    <2>1. EmptyIn(InArray(blocks))' \subseteq EmptyIn(InArray(blocks))
      <3>1. \A c \in InArray(blocks) : c \in Blocks
        BY IdleFacts
      <3>2. \A c \in Blocks : usedCells'[c] = 0 => usedCells[c] = 0
        <4>1. \A c \in Blocks : usedCells[c] \in Nat
          BY <1>1 DEF Types
        <4> QED
          BY <1>8, <4>1
      <3> QED
        BY <1>7, <3>1, <3>2 DEF EmptyIn
    <2>2. IsFiniteSet(EmptyIn(InArray(blocks)))
      BY IdleFacts, FS_Subset DEF EmptyIn
    <2>3. Cardinality(EmptyIn(InArray(blocks))') <= Cardinality(EmptyIn(InArray(blocks)))
      BY <2>1, <2>2, FS_Subset
    <2>4. /\ Cardinality(EmptyIn(InArray(blocks))') \in Nat
          /\ Cardinality(EmptyIn(InArray(blocks))) \in Nat
      BY <2>1, <2>2, FS_Subset, FS_CardinalityType
    <2> QED
      BY <1>1, <1>4, <2>3, <2>4 DEF Spares
  <1> QED
    BY <1>5, <1>6, <1>9, <1>10, <1>11, <1>12 DEF IInv

LEMMA AllocateInNewBlockStep ==
    ASSUME IInv, NEW b \in Blocks, AllocateInNewBlock(b)
    PROVE  IInv'
  <1> USE TunableAssumption
  <1>1. Types /\ Slab /\ Arrays /\ Counters /\ Ahead /\ Spares /\ phase = "idle"
    BY DEF IInv, AllocateInNewBlock, CanAllocate
  <1> DEFINE i == freeList[b]
  <1>2. /\ b \notin InArray(blocks) /\ TakeCell(b)
        /\ numBlocks' = Grown(numBlocks, Len(blocks)) /\ blocks' = Append(blocks, b)
        /\ firstSpace' = Len(blocks) + 1
        /\ UNCHANGED <<oversize, numOversize, overCell, liveAtLast,
                       phase, index, empty, sweptLive, doomed>>
    BY DEF AllocateInNewBlock, overVars, sweepVars
  <1>3. usedCells[b] = 0
    BY <1>1, <1>2 DEF Arrays, Types
  <1>4. /\ cell' \in [Blocks -> [Cells -> CellStates]]
        /\ freeList' \in [Blocks -> 1 .. NoCell]
        /\ nextFree' \in [Blocks -> [Cells -> 0 .. NoCell]]
        /\ usedCells' = [usedCells EXCEPT ![b] = @ + 1]
        /\ usedCells' \in [Blocks -> Nat]
        /\ numLive' = numLive + 1
        /\ Slab'
        /\ UsedSlab' = UsedSlab \cup {<<b, i>>} /\ <<b, i>> \notin UsedSlab
    BY <1>1, <1>2, <1>3, TakeCellFacts
  <1>5. /\ blocks' \in Seq(Blocks) /\ Len(blocks') = Len(blocks) + 1 /\ Distinct(blocks')
        /\ InArray(blocks') = InArray(blocks) \cup {b}
    BY <1>1, <1>2, AppendFacts DEF Types, Arrays
  <1>6. numBlocks' \in Nat /\ Len(blocks') <= numBlocks'
    BY <1>1, <1>2, <1>5, GrownRoom, IdleFacts DEF Types, Arrays
  <1>7. Types'
    <2>1. firstSpace' \in Nat \ {0}
      BY <1>2, IdleFacts
    <2>2. numLive' \in Nat
      BY <1>1, <1>4 DEF Types
    <2> QED
      BY <1>1, <1>2, <1>4, <1>5, <1>6, <2>1, <2>2 DEF Types
  <1>8. UsedOver' = UsedOver /\ InArray(oversize)' = InArray(oversize)
    BY <1>2 DEF UsedOver, InArray
  <1>9. \A c \in Blocks : usedCells'[c] = IF c = b THEN usedCells[c] + 1 ELSE usedCells[c]
    BY <1>1, <1>4 DEF Types
  <1>10. Arrays'
    <2>1. \A c \in Blocks : usedCells'[c] > 0 => c \in InArray(blocks')
      <3>1. \A c \in Blocks : usedCells[c] > 0 => c \in InArray(blocks)
        BY <1>1 DEF Arrays
      <3> QED
        BY <1>5, <1>9, <3>1
    <2>2. /\ Distinct(oversize') /\ Len(oversize') <= numOversize'
          /\ InArray(oversize') = UsedOver'
      BY <1>1, <1>2, <1>8 DEF Arrays, Distinct
    <2> QED
      BY <1>5, <1>6, <2>1, <2>2 DEF Arrays
  <1>11. Counters'
    <2>1. Cardinality(UsedSlab') = Cardinality(UsedSlab) + 1
      BY <1>4, IdleFacts, FS_AddElement
    <2>2. numLive = Cardinality(UsedSlab) + Cardinality(UsedOver) /\ liveAtLast <= numLive
      BY <1>1 DEF Counters
    <2>3. numLive' = Cardinality(UsedSlab') + Cardinality(UsedOver') /\ liveAtLast' <= numLive'
      <3>1. numLive' = numLive + 1 /\ liveAtLast' = liveAtLast
        BY <1>2, <1>4
      <3>2. liveAtLast \in Nat /\ numLive \in Nat
        BY <1>1 DEF Types
      <3>3. Cardinality(UsedSlab) \in Nat /\ Cardinality(UsedOver) \in Nat
        BY IdleFacts
      <3>4. Cardinality(UsedOver') = Cardinality(UsedOver)
        BY <1>8
      <3>5. numLive' = Cardinality(UsedSlab') + Cardinality(UsedOver')
        BY <2>1, <2>2, <3>1, <3>3, <3>4
      <3> QED
        BY <2>2, <3>1, <3>2, <3>5
    <2>4. phase' = "idle"
      BY <1>1, <1>2
    <2> QED
      BY <2>3, <2>4 DEF Counters
  <1>12. Ahead'
    BY <1>1, <1>2 DEF Ahead
  <1>13. Spares'
    <2>1. EmptyIn(InArray(blocks))' \subseteq EmptyIn(InArray(blocks))
      <3> SUFFICES ASSUME NEW c \in InArray(blocks'), usedCells'[c] = 0
                   PROVE  c \in InArray(blocks) /\ usedCells[c] = 0
        BY DEF EmptyIn
      <3>1. c # b
        BY <1>3, <1>9
      <3>2. c \in InArray(blocks) /\ c \in Blocks
        BY <1>5, <3>1, IdleFacts
      <3> QED
        BY <1>9, <3>1, <3>2
    <2>2. IsFiniteSet(EmptyIn(InArray(blocks)))
      BY IdleFacts, FS_Subset DEF EmptyIn
    <2>3. Cardinality(EmptyIn(InArray(blocks))') <= Cardinality(EmptyIn(InArray(blocks)))
      BY <2>1, <2>2, FS_Subset
    <2>4. /\ Cardinality(EmptyIn(InArray(blocks))') \in Nat
          /\ Cardinality(EmptyIn(InArray(blocks))) \in Nat
      BY <2>1, <2>2, FS_Subset, FS_CardinalityType
    <2> QED
      BY <1>1, <1>2, <2>3, <2>4 DEF Spares
  <1> QED
    BY <1>4, <1>7, <1>10, <1>11, <1>12, <1>13 DEF IInv

LEMMA AllocateOversizeStep ==
    ASSUME IInv, NEW o \in Oversize, AllocateOversize(o)
    PROVE  IInv'
  <1> USE TunableAssumption
  <1>1. Types /\ Slab /\ Arrays /\ Counters /\ Ahead /\ Spares /\ phase = "idle"
    BY DEF IInv, AllocateOversize, CanAllocate
  <1>2. /\ overCell[o] = "free"
        /\ numOversize' = Grown(numOversize, Len(oversize)) /\ oversize' = Append(oversize, o)
        /\ overCell' = [overCell EXCEPT ![o] = "raw"] /\ numLive' = numLive + 1
        /\ UNCHANGED <<cell, freeList, nextFree, usedCells, blocks, numBlocks, firstSpace, liveAtLast,
                       phase, index, empty, sweptLive, doomed>>
    BY DEF AllocateOversize, blockVars, arrayVars, sweepVars
  <1>3. UsedOver' = UsedOver \cup {o} /\ o \notin UsedOver /\ UsedSlab' = UsedSlab
    BY <1>1, <1>2 DEF UsedOver, UsedSlab, Types
  <1>4. o \notin InArray(oversize)
    BY <1>1, <1>3 DEF Arrays
  <1>5. /\ oversize' \in Seq(Oversize) /\ Len(oversize') = Len(oversize) + 1 /\ Distinct(oversize')
        /\ InArray(oversize') = InArray(oversize) \cup {o}
    BY <1>1, <1>2, <1>4, AppendFacts DEF Types, Arrays
  <1>6. numOversize' \in Nat /\ Len(oversize') <= numOversize'
    BY <1>1, <1>2, <1>5, GrownRoom, IdleFacts DEF Types, Arrays
  <1>7. Types'
    BY <1>1, <1>2, <1>5, <1>6 DEF Types, CellStates
  <1>8. Slab'
    BY <1>1, <1>2 DEF Slab, Slots, FreeCells
  <1>9. Arrays'
    <2>1. Distinct(blocks') /\ InArray(blocks') = InArray(blocks)
      BY <1>1, <1>2 DEF Arrays, Distinct, InArray
    <2>2. InArray(oversize') = UsedOver'
      BY <1>1, <1>3, <1>5 DEF Arrays
    <2> QED
      BY <1>1, <1>2, <1>5, <1>6, <2>1, <2>2 DEF Arrays
  <1>10. Counters'
    <2>1. Cardinality(UsedOver') = Cardinality(UsedOver) + 1
      BY <1>3, IdleFacts, FS_AddElement
    <2>2. numLive = Cardinality(UsedSlab) + Cardinality(UsedOver) /\ liveAtLast <= numLive
      BY <1>1 DEF Counters
    <2>3. numLive' = Cardinality(UsedSlab') + Cardinality(UsedOver') /\ liveAtLast' <= numLive'
      <3>1. numLive' = numLive + 1 /\ liveAtLast' = liveAtLast
        BY <1>2
      <3>2. liveAtLast \in Nat /\ numLive \in Nat
        BY <1>1 DEF Types
      <3>3. Cardinality(UsedSlab) \in Nat /\ Cardinality(UsedOver) \in Nat
        BY IdleFacts
      <3>4. Cardinality(UsedSlab') = Cardinality(UsedSlab)
        BY <1>3
      <3>5. numLive' = Cardinality(UsedSlab') + Cardinality(UsedOver')
        BY <2>1, <2>2, <3>1, <3>3, <3>4
      <3> QED
        BY <2>2, <3>1, <3>2, <3>5
    <2>4. phase' = "idle"
      BY <1>1, <1>2
    <2> QED
      BY <2>3, <2>4 DEF Counters
  <1>11. Ahead'
    BY <1>1, <1>2 DEF Ahead
  <1>12. Spares'
    BY <1>1, <1>2 DEF Spares, EmptyIn, InArray
  <1> QED
    BY <1>7, <1>8, <1>9, <1>10, <1>11, <1>12 DEF IInv

LEMMA ConstructSteps ==
    ASSUME IInv, ConstructStep
    PROVE  IInv'
  <1>1. Types /\ Slab /\ Arrays /\ Counters /\ Ahead /\ Spares
    BY DEF IInv
  <1>2. ASSUME NEW b \in Blocks, NEW i \in Cells, ConstructInBlock(b, i)
        PROVE  IInv'
    <2>1. /\ phase = "idle" /\ cell[b][i] = "raw" /\ cell' = [cell EXCEPT ![b][i] = "live"]
          /\ UNCHANGED <<freeList, nextFree, usedCells, blocks, numBlocks, firstSpace, oversize,
                         numOversize, overCell, numLive, liveAtLast, phase, index, empty, sweptLive, doomed>>
      BY <1>2 DEF ConstructInBlock, arrayVars, overVars, countVars, sweepVars
    <2>2. cell' \in [Blocks -> [Cells -> CellStates]] /\ Slab' /\ UsedSlab' = UsedSlab
      BY <1>1, <2>1, ConstructFacts
    <2>3. UsedOver' = UsedOver
      BY <2>1 DEF UsedOver
    <2>4. Types' /\ Ahead'
      BY <1>1, <2>1, <2>2 DEF Types, Ahead
    <2>5. Arrays' /\ Counters' /\ Spares'
      BY <1>1, <2>1, <2>2, <2>3 DEF Arrays, Distinct, InArray, Counters, Spares, EmptyIn
    <2> QED
      BY <2>2, <2>4, <2>5 DEF IInv
  <1>3. ASSUME NEW o \in Oversize, ConstructOversize(o)
        PROVE  IInv'
    <2>1. /\ phase = "idle" /\ overCell[o] = "raw" /\ overCell' = [overCell EXCEPT ![o] = "live"]
          /\ UNCHANGED <<cell, freeList, nextFree, usedCells, blocks, numBlocks, firstSpace, oversize,
                         numOversize, numLive, liveAtLast, phase, index, empty, sweptLive, doomed>>
      BY <1>3 DEF ConstructOversize, blockVars, arrayVars, countVars, sweepVars
    <2>2. UsedOver' = UsedOver /\ UsedSlab' = UsedSlab
      BY <1>1, <2>1 DEF UsedOver, UsedSlab, Types
    <2>3. Types' /\ Ahead'
      BY <1>1, <2>1 DEF Types, CellStates, Ahead
    <2>4. Slab'
      BY <1>1, <2>1 DEF Slab, Slots, FreeCells
    <2>5. Arrays' /\ Counters' /\ Spares'
      BY <1>1, <2>1, <2>2 DEF Arrays, Distinct, InArray, Counters, Spares, EmptyIn
    <2> QED
      BY <2>3, <2>4, <2>5 DEF IInv
  <1> QED
    BY <1>2, <1>3 DEF ConstructStep

------------------------------------------------------------------------------
(* The sweep keeps the invariant.                                          *)

LEMMA BeginSweepStep ==
    ASSUME IInv, NEW D \in SUBSET (LiveCells \cup UnreadOversize), BeginSweep(D)
    PROVE  IInv'
  <1> USE TunableAssumption
  <1>1. Types /\ Slab /\ Arrays /\ Counters /\ Ahead /\ Spares
    BY DEF IInv
  <1>2. /\ phase = "idle" /\ doomed' = D
        /\ phase' = "blocks" /\ index' = 1 /\ empty' = 0 /\ sweptLive' = numLive
        /\ UNCHANGED <<cell, freeList, nextFree, usedCells, blocks, numBlocks, firstSpace, oversize,
                       numOversize, overCell, numLive, liveAtLast, memoryFull>>
    BY DEF BeginSweep, blockVars, arrayVars, overVars, countVars
  <1>3. UsedSlab' = UsedSlab /\ UsedOver' = UsedOver
    BY <1>2 DEF UsedSlab, UsedOver
  <1>4. Types'
    BY <1>1, <1>2 DEF Types
  <1>5. Slab'
    BY <1>1, <1>2 DEF Slab, Slots, FreeCells
  <1>6. Arrays'
    BY <1>1, <1>2, <1>3 DEF Arrays, Distinct, InArray
  <1>7. Counters'
    BY <1>1, <1>2, <1>3 DEF Counters
  <1>8. Ahead'
    <2>1. ASSUME NEW x \in D
          PROVE  \/ x \in UsedOver
                 \/ \E k \in 1 .. Len(blocks), i \in Cells :
                      x = <<blocks[k], i>> /\ cell[blocks[k]][i] = "live"
      <3>1. CASE x \in SlabCells /\ cell[x[1]][x[2]] = "live"
        <4>1. PICK b \in Blocks, i \in Cells : x = <<b, i>> /\ cell[b][i] = "live"
          BY <3>1 DEF SlabCells
        <4>2. Slots(b) # {} /\ IsFiniteSet(Slots(b)) /\ usedCells[b] = Cardinality(Slots(b))
          BY <1>1, <4>1, CellsFinite DEF Slots, Slab
        <4>3. usedCells[b] > 0
          BY <4>2, FS_EmptySet, FS_CardinalityType
        <4>4. b \in InArray(blocks)
          BY <1>1, <4>3 DEF Arrays
        <4>5. PICK k \in 1 .. Len(blocks) : b = blocks[k]
          BY <4>4, IdleFacts
        <4> QED
          BY <4>1, <4>5
      <3>2. CASE x \in Oversize /\ overCell[x] \in {"live", "raw"}
        BY <3>2 DEF UsedOver
      <3> QED
        BY <3>1, <3>2 DEF LiveCells, UnreadOversize
    <2>2. 1 \in 1 .. Len(blocks) + 1
      BY IdleFacts
    <2> QED
      BY <1>2, <1>3, <2>1, <2>2 DEF Ahead
  <1>9. Spares'
    <2>1. Behind' = {}
      BY <1>2 DEF Behind
    <2>2. EmptyIn(Behind)' = {}
      BY <2>1 DEF EmptyIn
    <2>3. Cardinality(EmptyIn(Behind)') = 0
      BY <2>2, FS_EmptySet
    <2> QED
      BY <1>2, <2>3 DEF Spares
  <1> QED
    BY <1>4, <1>5, <1>6, <1>7, <1>8, <1>9 DEF IInv

\* What the sweep of one block does to the counters and to the doomed cells.
LEMMA BlockSwept ==
    ASSUME IInv, phase = "blocks", index <= Len(blocks), NEW b, b = blocks[index],
           \A c \in Blocks, j \in Cells :
              cell'[c][j] # "free" <=> cell[c][j] # "free" /\ ~(c = b /\ j \in Freed(b)),
           sweptLive' = sweptLive - Cardinality(Freed(b)),
           doomed' = doomed \ {<<b, i>> : i \in Freed(b)},
           overCell' = overCell
    PROVE  /\ b \in Blocks /\ index \in 1 .. Len(blocks)
           /\ b \notin Behind /\ Behind \subseteq InArray(blocks)
           /\ IsFiniteSet(EmptyIn(Behind)) /\ Cardinality(EmptyIn(Behind)) \in Nat
           /\ UsedOver' = UsedOver
           /\ sweptLive' = Cardinality(UsedSlab') + Cardinality(UsedOver) /\ sweptLive' \in Nat
           /\ \A x \in doomed' :
                \/ x \in UsedOver
                \/ \E k \in index + 1 .. Len(blocks), i \in Cells :
                     x = <<blocks[k], i>> /\ cell[blocks[k]][i] = "live" /\ blocks[k] # b
  <1> USE TunableAssumption
  <1>1. Types /\ Slab /\ Arrays /\ Counters /\ Ahead /\ Spares
    BY DEF IInv
  <1>2. index \in 1 .. Len(blocks) /\ b \in Blocks
    BY <1>1, IdleFacts DEF Ahead
  <1>3. b \notin Behind /\ Behind \subseteq InArray(blocks)
    <2>1. \A k \in 1 .. index - 1 : k \in 1 .. Len(blocks) /\ k # index
      BY <1>2, IdleFacts
    <2>2. \A k \in 1 .. index - 1 : blocks[k] # b
      BY <1>1, <1>2, <2>1 DEF Arrays, Distinct
    <2> QED
      BY <2>1, <2>2, IdleFacts DEF Behind
  <1>4. IsFiniteSet(EmptyIn(Behind)) /\ Cardinality(EmptyIn(Behind)) \in Nat
    <2>1. EmptyIn(Behind) \in SUBSET InArray(blocks)
      BY <1>3 DEF EmptyIn
    <2> QED
      BY <2>1, IdleFacts, FS_Subset, FS_CardinalityType
  <1>5. UsedOver' = UsedOver
    BY DEF UsedOver
  <1>6. sweptLive' = Cardinality(UsedSlab') + Cardinality(UsedOver) /\ sweptLive' \in Nat
    <2>1. Freed(b) \in SUBSET Slots(b) /\ IsFiniteSet(Freed(b))
      BY <1>1, <1>2, FreedFacts
    <2>2. /\ Cardinality(UsedSlab') = Cardinality(UsedSlab) - Cardinality(Freed(b))
          /\ Cardinality(Freed(b)) <= Cardinality(UsedSlab)
          /\ Cardinality(Freed(b)) \in Nat
      BY <1>1, <1>2, <2>1, SlotsGone
    <2>3. sweptLive = Cardinality(UsedSlab) + Cardinality(UsedOver)
      BY <1>1 DEF Counters
    <2> QED
      BY <2>2, <2>3, IdleFacts
  <1>7. ASSUME NEW x \in doomed', x \notin UsedOver
        PROVE  \E k \in index + 1 .. Len(blocks), i \in Cells :
                     x = <<blocks[k], i>> /\ cell[blocks[k]][i] = "live" /\ blocks[k] # b
    <2>1. x \in doomed /\ x \notin {<<b, i>> : i \in Freed(b)}
      OBVIOUS
    <2>2. PICK k \in index .. Len(blocks), i \in Cells :
            x = <<blocks[k], i>> /\ cell[blocks[k]][i] = "live"
      BY <1>1, <1>7, <2>1 DEF Ahead
    <2>3. k # index
      <3> SUFFICES ASSUME k = index PROVE FALSE
        OBVIOUS
      <3>1. cell[b][i] = "live" /\ <<b, i>> \in doomed /\ i \notin Freed(b)
        BY <2>1, <2>2
      <3> QED
        BY <1>1, <1>2, <3>1, FreedFacts
    <2>4. k \in index + 1 .. Len(blocks) /\ k \in 1 .. Len(blocks)
      BY <1>2, <2>3, IdleFacts
    <2>5. blocks[k] # b
      BY <1>1, <1>2, <2>3, <2>4 DEF Arrays, Distinct
    <2> QED
      BY <2>2, <2>4, <2>5
  <1> QED
    BY <1>2, <1>3, <1>4, <1>5, <1>6, <1>7

LEMMA SweepBlockStep ==
    ASSUME IInv, SweepBlock
    PROVE  IInv'
  <1> USE TunableAssumption
  <1>1. Types /\ Slab /\ Arrays /\ Counters /\ Ahead /\ Spares
    BY DEF IInv
  <1>0. PICK b \in Blocks : b = blocks[index]
    BY <1>1, IdleFacts DEF SweepBlock, Ahead
  <1> DEFINE F == Freed(b)
             nowEmpty == usedCells[b] = Cardinality(F)
  <1>2. /\ phase = "blocks" /\ index <= Len(blocks)
        /\ nowEmpty => empty < Spare
        /\ empty' = IF nowEmpty THEN empty + 1 ELSE empty
        /\ SweepCells(b) /\ index' = index + 1
        /\ UNCHANGED <<blocks, numBlocks, firstSpace, oversize, numOversize, overCell, numLive,
                       liveAtLast, memoryFull, phase>>
    BY <1>0 DEF SweepBlock, arrayVars, overVars, countVars
  <1>4. /\ cell' \in [Blocks -> [Cells -> CellStates]]
        /\ freeList' \in [Blocks -> 1 .. NoCell]
        /\ nextFree' \in [Blocks -> [Cells -> 0 .. NoCell]]
        /\ usedCells' \in [Blocks -> Nat]
        /\ \A c \in Blocks \ {b} : usedCells'[c] = usedCells[c] /\ cell'[c] = cell[c]
        /\ usedCells'[b] = usedCells[b] - Cardinality(F)
        /\ \A c \in Blocks, j \in Cells :
              cell'[c][j] # "free" <=> cell[c][j] # "free" /\ ~(c = b /\ j \in F)
        /\ sweptLive' = sweptLive - Cardinality(F)
        /\ doomed' = doomed \ {<<b, i>> : i \in F}
        /\ Slab'
    BY <1>1, <1>2, SweepCellsFacts
  <1>5. /\ index \in 1 .. Len(blocks)
        /\ b \notin Behind /\ Behind \subseteq InArray(blocks)
        /\ IsFiniteSet(EmptyIn(Behind)) /\ Cardinality(EmptyIn(Behind)) \in Nat
        /\ UsedOver' = UsedOver
        /\ sweptLive' = Cardinality(UsedSlab') + Cardinality(UsedOver) /\ sweptLive' \in Nat
        /\ \A x \in doomed' :
             \/ x \in UsedOver
             \/ \E k \in index + 1 .. Len(blocks), i \in Cells :
                  x = <<blocks[k], i>> /\ cell[blocks[k]][i] = "live" /\ blocks[k] # b
    <2>1. overCell' = overCell
      BY <1>2
    <2>2. /\ \A c \in Blocks, j \in Cells :
              cell'[c][j] # "free" <=> cell[c][j] # "free" /\ ~(c = b /\ j \in Freed(b))
          /\ sweptLive' = sweptLive - Cardinality(Freed(b))
          /\ doomed' = doomed \ {<<b, i>> : i \in Freed(b)}
      BY <1>4
    <2> HIDE DEF F
    <2> QED
      BY <1>0, <1>2, <2>1, <2>2, BlockSwept
  <1>6. Cardinality(F) \in Nat /\ usedCells[b] \in Nat
    BY <1>1, FreedFacts, FS_CardinalityType DEF Types
  <1> HIDE DEF F
  <1>7. Types'
    <2>1. empty' \in Nat /\ index' \in Nat
      BY <1>1, <1>2 DEF Types
    <2> QED
      BY <1>1, <1>2, <1>4, <1>5, <2>1 DEF Types
  <1>8. Arrays'
    <2>1. \A c \in Blocks : usedCells'[c] > 0 => usedCells[c] > 0
      <3>1. usedCells'[b] > 0 => usedCells[b] > 0
        BY <1>4, <1>6
      <3> QED
        BY <1>4, <3>1
    <2> QED
      BY <1>1, <1>2, <1>5, <2>1 DEF Arrays, Distinct, InArray
  <1>9. Counters'
    BY <1>2, <1>5 DEF Counters
  <1>10. Ahead'
    <2>1. index' \in 1 .. Len(blocks) + 1
      BY <1>2, <1>5, IdleFacts
    <2>2. \A k \in index + 1 .. Len(blocks), i \in Cells :
            blocks[k] # b /\ cell[blocks[k]][i] = "live" => cell'[blocks[k]][i] = "live"
      <3>1. \A k \in index + 1 .. Len(blocks) : blocks[k] \in Blocks
        BY <1>5, IdleFacts
      <3> QED
        BY <1>4, <3>1
    <2> QED
      BY <1>2, <1>5, <2>1, <2>2 DEF Ahead
  <1>11. Spares'
    <2>1. Behind' = Behind \cup {b}
      <3>1. \A k : k \in 1 .. index' - 1 <=> k \in 1 .. index - 1 \/ k = index
        <4>1. index' = index + 1
          BY <1>2
        <4>2. index \in 1 .. Len(blocks)
          BY <1>5
        <4>3. Len(blocks) \in Nat
          BY IdleFacts
        <4> QED
          BY <4>1, <4>2, <4>3
      <3> QED
        BY <1>0, <1>2, <3>1 DEF Behind
    <2>2. \A c \in Behind : c \in Blocks /\ c # b /\ usedCells'[c] = usedCells[c]
      BY <1>4, <1>5, IdleFacts
    <2>4. CASE nowEmpty
      <3>1. EmptyIn(Behind)' = EmptyIn(Behind) \cup {b}
        BY <1>4, <1>6, <2>1, <2>2, <2>4 DEF EmptyIn
      <3>2. /\ Cardinality(EmptyIn(Behind) \cup {b}) <= Cardinality(EmptyIn(Behind)) + 1
            /\ Cardinality(EmptyIn(Behind) \cup {b}) \in Nat
        BY <1>5, AddCardinality
      <3>3. /\ Cardinality(EmptyIn(Behind)') <= Cardinality(EmptyIn(Behind)) + 1
            /\ Cardinality(EmptyIn(Behind)') \in Nat
        BY <3>1, <3>2
      <3>4. Cardinality(EmptyIn(Behind)) <= empty /\ empty < Spare /\ empty' = empty + 1 /\ empty \in Nat
        BY <1>1, <1>2, <2>4 DEF Spares, Types
      <3> QED
        BY <1>2, <1>5, <3>3, <3>4 DEF Spares
    <2>5. CASE ~nowEmpty
      <3>1. EmptyIn(Behind)' = EmptyIn(Behind)
        <4>1. usedCells[b] # Cardinality(F)
          BY <2>5
        <4>2. usedCells'[b] # 0
          <5>1. usedCells'[b] = usedCells[b] - Cardinality(F)
            BY <1>4
          <5> HIDE DEF nowEmpty
          <5> QED
            BY <1>6, <4>1, <5>1
        <4> QED
          BY <2>1, <2>2, <4>2 DEF EmptyIn
      <3> QED
        BY <1>1, <1>2, <2>5, <3>1 DEF Spares
    <2> QED
      BY <2>4, <2>5
  <1> QED
    BY <1>4, <1>7, <1>8, <1>9, <1>10, <1>11 DEF IInv

LEMMA SweepAndFreeBlockStep ==
    ASSUME IInv, SweepAndFreeBlock
    PROVE  IInv'
  <1> USE TunableAssumption
  <1>1. Types /\ Slab /\ Arrays /\ Counters /\ Ahead /\ Spares
    BY DEF IInv
  <1>2. PICK b \in Blocks : b = blocks[index]
    BY <1>1, IdleFacts DEF SweepAndFreeBlock, Ahead
  <1>3. /\ phase = "blocks" /\ index <= Len(blocks)
        /\ usedCells[b] = Cardinality(Freed(b)) /\ empty' = empty + 1
        /\ cell' = [cell EXCEPT ![b] = ZeroCells]
        /\ freeList' = [freeList EXCEPT ![b] = 1]
        /\ nextFree' = [nextFree EXCEPT ![b] = ZeroLinks]
        /\ usedCells' = [usedCells EXCEPT ![b] = 0]
        /\ sweptLive' = sweptLive - Cardinality(Freed(b))
        /\ doomed' = doomed \ {<<b, i>> : i \in Freed(b)}
        /\ blocks' = SwapOut(blocks, index) /\ numBlocks' = Shrunk(numBlocks, Len(blocks) - 1)
        /\ UNCHANGED <<index, firstSpace, oversize, numOversize, overCell, numLive, liveAtLast, phase>>
    BY <1>2 DEF SweepAndFreeBlock, overVars, countVars
  <1>4. /\ cell' \in [Blocks -> [Cells -> CellStates]]
        /\ freeList' \in [Blocks -> 1 .. NoCell]
        /\ nextFree' \in [Blocks -> [Cells -> 0 .. NoCell]]
        /\ usedCells' \in [Blocks -> Nat]
        /\ \A c \in Blocks \ {b} : usedCells'[c] = usedCells[c] /\ cell'[c] = cell[c]
        /\ usedCells'[b] = 0
        /\ \A c \in Blocks, j \in Cells :
              cell'[c][j] # "free" <=> cell[c][j] # "free" /\ ~(c = b /\ j \in Freed(b))
        /\ Slab'
    BY <1>1, <1>3, FreeBlockFacts
  <1>5. /\ index \in 1 .. Len(blocks)
        /\ b \notin Behind /\ Behind \subseteq InArray(blocks)
        /\ UsedOver' = UsedOver
        /\ sweptLive' = Cardinality(UsedSlab') + Cardinality(UsedOver) /\ sweptLive' \in Nat
        /\ \A x \in doomed' :
             \/ x \in UsedOver
             \/ \E k \in index + 1 .. Len(blocks), i \in Cells :
                  x = <<blocks[k], i>> /\ cell[blocks[k]][i] = "live" /\ blocks[k] # b
    <2>1. \A c \in Blocks, j \in Cells :
              cell'[c][j] # "free" <=> cell[c][j] # "free" /\ ~(c = b /\ j \in Freed(b))
      BY <1>4
    <2>2. /\ phase = "blocks" /\ index <= Len(blocks) /\ overCell' = overCell
          /\ sweptLive' = sweptLive - Cardinality(Freed(b))
          /\ doomed' = doomed \ {<<b, i>> : i \in Freed(b)}
      BY <1>3
    <2> QED
      BY <1>2, <2>1, <2>2, BlockSwept
  <1>6. /\ blocks' \in Seq(Blocks) /\ Len(blocks') = Len(blocks) - 1
        /\ \A k \in 1 .. Len(blocks) - 1 :
              blocks'[k] = IF k = index THEN blocks[Len(blocks)] ELSE blocks[k]
        /\ Distinct(blocks') /\ InArray(blocks') = InArray(blocks) \ {b}
    <2>1. blocks \in Seq(Blocks) /\ Distinct(blocks)
      BY <1>1 DEF Types, Arrays
    <2>2. /\ SwapOut(blocks, index) \in Seq(Blocks) /\ Len(SwapOut(blocks, index)) = Len(blocks) - 1
          /\ \A k \in 1 .. Len(blocks) - 1 :
                SwapOut(blocks, index)[k] = IF k = index THEN blocks[Len(blocks)] ELSE blocks[k]
          /\ Distinct(SwapOut(blocks, index))
          /\ InArray(SwapOut(blocks, index)) = InArray(blocks) \ {blocks[index]}
      <3>1. index \in 1 .. Len(blocks)
        BY <1>5
      <3> QED
        BY <2>1, <3>1, SwapOutFacts
    <2>3. blocks' = SwapOut(blocks, index) /\ blocks[index] = b
      BY <1>2, <1>3
    <2>4. \A k \in 1 .. Len(blocks) - 1 :
              blocks'[k] = IF k = index THEN blocks[Len(blocks)] ELSE blocks[k]
      BY <2>2, <2>3
    <2>5. blocks' \in Seq(Blocks) /\ Len(blocks') = Len(blocks) - 1 /\ Distinct(blocks')
      BY <2>2, <2>3
    <2>6. InArray(blocks') = InArray(blocks) \ {b}
      BY <2>2, <2>3
    <2> QED
      BY <2>4, <2>5, <2>6
  <1>7. numBlocks' \in Nat /\ Len(blocks') <= numBlocks'
    <2>1. numBlocks \in Nat /\ Len(blocks) - 1 \in Nat /\ Len(blocks) - 1 <= numBlocks
      <3>1. numBlocks \in Nat /\ Len(blocks) <= numBlocks
        BY <1>1 DEF Types, Arrays
      <3>2. Len(blocks) \in Nat
        BY IdleFacts
      <3>3. index \in 1 .. Len(blocks)
        BY <1>5
      <3> QED
        BY <3>1, <3>2, <3>3
    <2> QED
      BY <1>3, <1>6, <2>1, ShrunkRoom
  <1>8. Types'
    <2>1. blocks' \in Seq(Blocks)
      BY <1>6
    <2>2. sweptLive' \in Nat
      BY <1>5
    <2>3. empty' \in Nat
      BY <1>1, <1>3 DEF Types
    <2>4. UNCHANGED <<index, firstSpace, oversize, numOversize, overCell, numLive, liveAtLast, phase>>
      BY <1>3
    <2> QED
      BY <1>1, <1>4, <1>7, <2>1, <2>2, <2>3, <2>4 DEF Types
  <1>9. Arrays'
    <2>1. \A c \in Blocks : usedCells'[c] > 0 => c \in InArray(blocks')
      <3> SUFFICES ASSUME NEW c \in Blocks, usedCells'[c] > 0 PROVE c \in InArray(blocks')
        OBVIOUS
      <3>1. c # b /\ usedCells'[c] = usedCells[c]
        BY <1>4
      <3>2. c \in InArray(blocks)
        BY <1>1, <3>1 DEF Arrays
      <3>3. InArray(blocks') = InArray(blocks) \ {b}
        BY <1>6
      <3> QED
        BY <3>1, <3>2, <3>3
    <2>2. Distinct(oversize') /\ InArray(oversize') = UsedOver' /\ Len(oversize') <= numOversize'
      BY <1>1, <1>3, <1>5 DEF Arrays, Distinct, InArray
    <2> QED
      BY <1>6, <1>7, <2>1, <2>2 DEF Arrays
  <1>10. Counters'
    BY <1>3, <1>5 DEF Counters
  <1>11. Ahead'
    <2>1. index' \in 1 .. Len(blocks') + 1
      BY <1>3, <1>5, <1>6, IdleFacts
    <2>2. ASSUME NEW k \in index + 1 .. Len(blocks), NEW i \in Cells,
                 blocks[k] # b, cell[blocks[k]][i] = "live"
          PROVE  \E n \in index .. Len(blocks) - 1 :
                    blocks'[n] = blocks[k] /\ cell'[blocks'[n]][i] = "live"
      <3>1. blocks[k] \in Blocks
        BY <1>5, IdleFacts
      <3>2. cell'[blocks[k]][i] = "live"
        BY <1>4, <2>2, <3>1
      <3>3. CASE k = Len(blocks)
        <4>1. index \in index .. Len(blocks) - 1 /\ index \in 1 .. Len(blocks) - 1
          BY <1>5, <2>2, <3>3, IdleFacts
        <4>2. blocks'[index] = blocks[k]
          BY <1>6, <3>3, <4>1
        <4> QED
          BY <3>2, <4>1, <4>2
      <3>4. CASE k # Len(blocks)
        <4>1. k \in index .. Len(blocks) - 1 /\ k \in 1 .. Len(blocks) - 1 /\ k # index
          <5>1. Len(blocks) \in Nat /\ index \in 1 .. Len(blocks)
            BY <1>5, IdleFacts
          <5> QED
            BY <3>4, <5>1
        <4>2. blocks'[k] = blocks[k]
          BY <1>6, <4>1
        <4> QED
          BY <3>2, <4>1, <4>2
      <3> QED
        BY <3>3, <3>4
    <2>3. ASSUME NEW x \in doomed', x \notin UsedOver'
          PROVE  \E n \in index' .. Len(blocks'), i \in Cells :
                    x = <<blocks'[n], i>> /\ cell'[blocks'[n]][i] = "live"
      <3>1. PICK k \in index + 1 .. Len(blocks), i \in Cells :
              x = <<blocks[k], i>> /\ cell[blocks[k]][i] = "live" /\ blocks[k] # b
        BY <1>5, <2>3
      <3>2. PICK n \in index .. Len(blocks) - 1 :
              blocks'[n] = blocks[k] /\ cell'[blocks'[n]][i] = "live"
        BY <2>2, <3>1
      <3>3. n \in index' .. Len(blocks')
        BY <1>3, <1>6
      <3> QED
        BY <3>1, <3>2, <3>3
    <2> QED
      BY <1>3, <2>1, <2>3 DEF Ahead
  <1>12. Spares'
    <2>1. Behind' = Behind
      <3>1. \A k \in 1 .. index - 1 : k \in 1 .. Len(blocks) - 1 /\ k # index
        BY <1>5, IdleFacts
      <3>2. \A k \in 1 .. index - 1 : blocks'[k] = blocks[k]
        BY <1>6, <3>1
      <3> QED
        BY <1>3, <3>2 DEF Behind
    <2>2. \A c \in Behind : usedCells'[c] = usedCells[c]
      BY <1>4, <1>5, IdleFacts
    <2>3. EmptyIn(Behind)' = EmptyIn(Behind)
      BY <2>1, <2>2 DEF EmptyIn
    <2>4. IsFiniteSet(EmptyIn(Behind))
      <3>1. EmptyIn(Behind) \in SUBSET InArray(blocks)
        BY <1>5 DEF EmptyIn
      <3> QED
        BY <3>1, IdleFacts, FS_Subset
    <2>5. Cardinality(EmptyIn(Behind)) \in Nat
      BY <2>4, FS_CardinalityType
    <2>6. Cardinality(EmptyIn(Behind)) <= Spare /\ Cardinality(EmptyIn(Behind)) <= empty /\ empty \in Nat
      BY <1>1, <1>3 DEF Spares, Types
    <2>7. Cardinality(EmptyIn(Behind)') = Cardinality(EmptyIn(Behind))
      BY <2>3
    <2>8. Cardinality(EmptyIn(Behind)') <= Spare /\ Cardinality(EmptyIn(Behind)') <= empty'
      <3>1. empty' = empty + 1
        BY <1>3
      <3> QED
        BY <2>5, <2>6, <2>7, <3>1
    <2> QED
      BY <1>3, <2>8 DEF Spares
  <1> QED
    BY <1>4, <1>8, <1>9, <1>10, <1>11, <1>12 DEF IInv

LEMMA EndBlocksStep ==
    ASSUME IInv, EndBlocks
    PROVE  IInv'
  <1> USE TunableAssumption
  <1>1. Types /\ Slab /\ Arrays /\ Counters /\ Ahead /\ Spares
    BY DEF IInv
  <1>2. /\ phase = "blocks" /\ index > Len(blocks)
        /\ firstSpace' = IF sweptLive # numLive THEN 1 ELSE firstSpace
        /\ phase' = "oversize" /\ index' = 1
        /\ UNCHANGED <<cell, freeList, nextFree, usedCells, blocks, numBlocks, oversize, numOversize,
                       overCell, numLive, liveAtLast, empty, sweptLive, doomed>>
    BY DEF EndBlocks, blockVars, overVars, countVars
  <1>3. UsedSlab' = UsedSlab /\ UsedOver' = UsedOver
    BY <1>2 DEF UsedSlab, UsedOver
  <1>4. index = Len(blocks) + 1
    BY <1>1, <1>2, IdleFacts DEF Ahead
  <1>5. Types'
    BY <1>1, <1>2 DEF Types
  <1>6. Slab'
    BY <1>1, <1>2 DEF Slab, Slots, FreeCells
  <1>7. Arrays'
    BY <1>1, <1>2, <1>3 DEF Arrays, Distinct, InArray
  <1>8. Counters'
    BY <1>1, <1>2, <1>3 DEF Counters
  <1>9. Ahead'
    <2>1. \A k \in index .. Len(blocks) : FALSE
      BY <1>4, IdleFacts
    <2>2. \A x \in doomed : x \in UsedOver
      BY <1>1, <1>2, <2>1 DEF Ahead
    <2>3. \A x \in doomed : \E k \in 1 .. Len(oversize) : x = oversize[k]
      BY <1>1, <2>2, IdleFacts DEF Arrays
    <2>4. 1 \in 1 .. Len(oversize) + 1
      BY IdleFacts
    <2> QED
      BY <1>2, <2>3, <2>4 DEF Ahead
  <1>10. Spares'
    <2>1. index - 1 = Len(blocks)
      BY <1>4, IdleFacts
    <2>2. Behind = InArray(blocks)
      BY <2>1, IdleFacts DEF Behind, InArray
    <2>3. EmptyIn(InArray(blocks))' = EmptyIn(Behind)
      BY <1>2, <2>2 DEF EmptyIn, InArray
    <2> QED
      BY <1>1, <1>2, <2>3 DEF Spares
  <1> QED
    BY <1>5, <1>6, <1>7, <1>8, <1>9, <1>10 DEF IInv

LEMMA SweepOversizeStep ==
    ASSUME IInv, SweepOversize
    PROVE  IInv'
  <1> USE TunableAssumption
  <1>1. Types /\ Slab /\ Arrays /\ Counters /\ Ahead /\ Spares
    BY DEF IInv
  <1>2. /\ phase = "oversize" /\ index <= Len(oversize)
        /\ UNCHANGED <<cell, freeList, nextFree, usedCells, blocks, numBlocks, firstSpace,
                       numLive, liveAtLast, phase, empty>>
    BY DEF SweepOversize, blockVars, arrayVars, countVars
  <1>3. index \in 1 .. Len(oversize)
    BY <1>1, <1>2, IdleFacts DEF Ahead
  <1>4. PICK o \in Oversize : o = oversize[index] /\ o \in InArray(oversize)
    BY <1>3, IdleFacts
  <1>5. Slab' /\ UsedSlab' = UsedSlab
    BY <1>1, <1>2 DEF Slab, Slots, FreeCells, UsedSlab
  <1>6. Distinct(blocks') /\ InArray(blocks') = InArray(blocks) /\ EmptyIn(InArray(blocks))' = EmptyIn(InArray(blocks))
    BY <1>1, <1>2 DEF Arrays, Distinct, InArray, EmptyIn
  <1>7. Spares'
    BY <1>1, <1>2, <1>6 DEF Spares
  <1>8. CASE o \in doomed
    <2>1. /\ overCell' = [overCell EXCEPT ![o] = "free"]
          /\ oversize' = SwapOut(oversize, index)
          /\ numOversize' = Shrunk(numOversize, Len(oversize) - 1)
          /\ sweptLive' = sweptLive - 1
          /\ doomed' = doomed \ {o} /\ index' = index
      BY <1>4, <1>8 DEF SweepOversize
    <2>2. UsedOver' = UsedOver \ {o} /\ o \in UsedOver
      BY <1>1, <1>4, <2>1 DEF UsedOver, Types, Arrays
    <2>3. /\ oversize' \in Seq(Oversize) /\ Len(oversize') = Len(oversize) - 1
          /\ \A k \in 1 .. Len(oversize) - 1 :
                oversize'[k] = IF k = index THEN oversize[Len(oversize)] ELSE oversize[k]
          /\ Distinct(oversize') /\ InArray(oversize') = InArray(oversize) \ {o}
      <3>1. oversize \in Seq(Oversize) /\ Distinct(oversize)
        BY <1>1 DEF Types, Arrays
      <3>2. /\ SwapOut(oversize, index) \in Seq(Oversize) /\ Len(SwapOut(oversize, index)) = Len(oversize) - 1
            /\ \A k \in 1 .. Len(oversize) - 1 :
                  SwapOut(oversize, index)[k] = IF k = index THEN oversize[Len(oversize)] ELSE oversize[k]
            /\ Distinct(SwapOut(oversize, index))
            /\ InArray(SwapOut(oversize, index)) = InArray(oversize) \ {oversize[index]}
        BY <1>3, <3>1, SwapOutFacts
      <3>3. oversize' = SwapOut(oversize, index) /\ oversize[index] = o
        BY <1>4, <2>1
      <3> QED
        BY <3>2, <3>3
    <2>4. numOversize' \in Nat /\ Len(oversize') <= numOversize'
      <3>1. numOversize \in Nat /\ Len(oversize) - 1 \in Nat /\ Len(oversize) - 1 <= numOversize
        <4>1. numOversize \in Nat /\ Len(oversize) <= numOversize
          BY <1>1 DEF Types, Arrays
        <4>2. Len(oversize) \in Nat
          BY IdleFacts
        <4> QED
          BY <1>3, <4>1, <4>2
      <3> QED
        BY <2>1, <2>3, <3>1, ShrunkRoom
    <2>5. sweptLive' = Cardinality(UsedSlab') + Cardinality(UsedOver') /\ sweptLive' \in Nat
      <3>1. Cardinality(UsedOver') = Cardinality(UsedOver) - 1 /\ Cardinality(UsedOver') \in Nat
        BY <2>2, IdleFacts, FS_RemoveElement, FS_CardinalityType
      <3>2. sweptLive = Cardinality(UsedSlab) + Cardinality(UsedOver)
        BY <1>1, <1>2 DEF Counters
      <3>3. Cardinality(UsedSlab) \in Nat /\ Cardinality(UsedOver) \in Nat
        BY IdleFacts
      <3>4. Cardinality(UsedSlab') = Cardinality(UsedSlab)
        BY <1>5
      <3>5. sweptLive' = sweptLive - 1
        BY <2>1
      <3> QED
        BY <3>1, <3>2, <3>3, <3>4, <3>5
    <2>6. Types'
      <3>1. overCell' \in [Oversize -> CellStates]
        BY <1>1, <2>1 DEF Types, CellStates
      <3> QED
        BY <1>1, <1>2, <2>1, <2>3, <2>4, <2>5, <3>1 DEF Types
    <2>7. Arrays'
      BY <1>1, <1>2, <1>6, <2>2, <2>3, <2>4 DEF Arrays
    <2>8. Counters'
      BY <1>2, <2>5 DEF Counters
    <2>9. Ahead'
      <3>1. index' \in 1 .. Len(oversize') + 1
        BY <1>3, <2>1, <2>3, IdleFacts
      <3>2. ASSUME NEW x \in doomed'
            PROVE  \E n \in index .. Len(oversize) - 1 : x = oversize'[n]
        <4>1. x \in doomed /\ x # o
          BY <2>1
        <4>2. PICK k \in index .. Len(oversize) : x = oversize[k]
          BY <1>1, <1>2, <4>1 DEF Ahead
        <4>3. k # index
          BY <1>4, <4>1, <4>2
        <4>4. CASE k = Len(oversize)
          <5>1. index \in index .. Len(oversize) - 1 /\ index \in 1 .. Len(oversize) - 1
            BY <1>3, <4>3, <4>4, IdleFacts
          <5> QED
            BY <2>3, <4>2, <4>4, <5>1
        <4>5. CASE k # Len(oversize)
          <5>1. Len(oversize) \in Nat
            BY IdleFacts
          <5>2. k \in index .. Len(oversize) - 1 /\ k \in 1 .. Len(oversize) - 1
            BY <1>3, <4>5, <5>1
          <5> QED
            BY <2>3, <4>2, <4>3, <5>2
        <4> QED
          BY <4>4, <4>5
      <3>3. \A x \in doomed' : \E n \in index' .. Len(oversize') : x = oversize'[n]
        BY <2>1, <2>3, <3>2
      <3> QED
        BY <1>2, <3>1, <3>3 DEF Ahead
    <2> QED
      BY <1>5, <1>7, <2>6, <2>7, <2>8, <2>9 DEF IInv
  <1>9. CASE o \notin doomed
    <2>1. index' = index + 1 /\ UNCHANGED <<oversize, numOversize, overCell, sweptLive, doomed>>
      BY <1>4, <1>9 DEF SweepOversize, overVars
    <2>2. UsedOver' = UsedOver
      BY <2>1 DEF UsedOver
    <2>3. Types' /\ Counters'
      BY <1>1, <1>2, <1>5, <2>1, <2>2 DEF Types, Counters
    <2>4. Arrays'
      BY <1>1, <1>2, <1>6, <2>1, <2>2 DEF Arrays, Distinct, InArray
    <2>5. Ahead'
      <3>1. index' \in 1 .. Len(oversize) + 1
        BY <1>3, <2>1, IdleFacts
      <3>2. ASSUME NEW x \in doomed
            PROVE  \E k \in index + 1 .. Len(oversize) : x = oversize[k]
        <4>1. PICK k \in index .. Len(oversize) : x = oversize[k]
          BY <1>1, <1>2 DEF Ahead
        <4>2. k # index
          BY <1>4, <1>9, <4>1
        <4>3. k \in index + 1 .. Len(oversize)
          BY <1>3, <4>2, IdleFacts
        <4> QED
          BY <4>1, <4>3
      <3> QED
        BY <1>2, <2>1, <3>1, <3>2 DEF Ahead
    <2> QED
      BY <1>5, <1>7, <2>3, <2>4, <2>5 DEF IInv
  <1> QED
    BY <1>8, <1>9

LEMMA EndSweepStep ==
    ASSUME IInv, EndSweep
    PROVE  IInv'
  <1> USE TunableAssumption
  <1>1. Types /\ Slab /\ Arrays /\ Counters /\ Ahead /\ Spares
    BY DEF IInv
  <1>2. /\ phase = "oversize" /\ index > Len(oversize)
        /\ numLive' = sweptLive /\ liveAtLast' = sweptLive
        /\ phase' = "idle" /\ index' = 0 /\ empty' = 0 /\ sweptLive' = 0
        /\ UNCHANGED <<cell, freeList, nextFree, usedCells, blocks, numBlocks, firstSpace,
                       oversize, numOversize, overCell, doomed>>
    BY DEF EndSweep, blockVars, arrayVars, overVars
  <1>3. UsedSlab' = UsedSlab /\ UsedOver' = UsedOver
    BY <1>2 DEF UsedSlab, UsedOver
  <1>4. Types'
    BY <1>1, <1>2 DEF Types
  <1>5. Slab'
    BY <1>1, <1>2 DEF Slab, Slots, FreeCells
  <1>6. Arrays'
    BY <1>1, <1>2, <1>3 DEF Arrays, Distinct, InArray
  <1>7. Counters'
    <2>1. sweptLive = Cardinality(UsedSlab) + Cardinality(UsedOver) /\ sweptLive \in Nat
      BY <1>1, <1>2 DEF Counters, Types
    <2>2. numLive' = Cardinality(UsedSlab') + Cardinality(UsedOver')
      BY <1>2, <1>3, <2>1
    <2>3. liveAtLast' <= numLive'
      BY <1>2, <2>1
    <2> QED
      BY <1>2, <2>2, <2>3 DEF Counters
  <1>8. Ahead'
    <2>1. \A k \in index .. Len(oversize) : FALSE
      BY <1>1, <1>2, IdleFacts DEF Types
    <2>2. doomed = {}
      BY <1>1, <1>2, <2>1 DEF Ahead
    <2> QED
      BY <1>2, <2>2 DEF Ahead
  <1>9. Spares'
    BY <1>1, <1>2 DEF Spares, EmptyIn, InArray
  <1> QED
    BY <1>4, <1>5, <1>6, <1>7, <1>8, <1>9 DEF IInv

------------------------------------------------------------------------------
(* The theorems.                                                           *)

LEMMA InitIInv ==
    ASSUME Init
    PROVE  IInv
  <1> USE TunableAssumption
  <1>1. /\ cell = [b \in Blocks |-> ZeroCells] /\ freeList = [b \in Blocks |-> 1]
        /\ nextFree = [b \in Blocks |-> ZeroLinks] /\ usedCells = [b \in Blocks |-> 0]
        /\ blocks = <<>> /\ numBlocks = 0 /\ firstSpace = 1
        /\ oversize = <<>> /\ numOversize = 0 /\ overCell = [o \in Oversize |-> "free"]
        /\ numLive = 0 /\ liveAtLast = 0 /\ phase = "idle" /\ index = 0 /\ empty = 0
        /\ sweptLive = 0 /\ doomed = {}
    BY DEF Init
  <1>2. Len(blocks) = 0 /\ Len(oversize) = 0 /\ InArray(blocks) = {} /\ InArray(oversize) = {}
    BY <1>1 DEF InArray
  <1>3. \A b \in Blocks : Slots(b) = {} /\ FreeCells(b) = Cells
    BY <1>1 DEF Slots, FreeCells, ZeroCells
  <1>4. UsedSlab = {} /\ UsedOver = {}
    BY <1>1 DEF UsedSlab, UsedOver, SlabCells, ZeroCells
  <1>5. Cardinality(UsedSlab) = 0 /\ Cardinality(UsedOver) = 0
    BY <1>4, FS_EmptySet
  <1>6. Types
    <2>1. ZeroCells \in [Cells -> CellStates]
      BY DEF ZeroCells, CellStates
    <2>2. ZeroLinks \in [Cells -> 0 .. NoCell]
      BY DEF ZeroLinks, Cells, NoCell
    <2>3. 1 \in 1 .. NoCell
      BY DEF NoCell
    <2> QED
      BY <1>1, <2>1, <2>2, <2>3 DEF Types, CellStates
  <1>7. Slab
    <2> SUFFICES ASSUME NEW b \in Blocks
                 PROVE  /\ usedCells[b] = Cardinality(Slots(b))
                        /\ \E r \in [Cells -> Nat] : ChainOf(FreeCells(b), freeList[b], nextFree[b], r)
      BY DEF Slab
    <2>1. usedCells[b] = 0 /\ freeList[b] = 1 /\ nextFree[b] = ZeroLinks
      BY <1>1
    <2>2. usedCells[b] = Cardinality(Slots(b))
      BY <1>3, <2>1, FS_EmptySet
    <2> QED
      BY <1>3, <2>1, <2>2, ZeroChain
  <1>8. Arrays
    BY <1>1, <1>2, <1>4 DEF Arrays, Distinct
  <1>9. Counters
    BY <1>1, <1>5 DEF Counters
  <1>10. Ahead
    BY <1>1 DEF Ahead
  <1>11. Spares
    <2>1. EmptyIn(InArray(blocks)) = {}
      BY <1>2 DEF EmptyIn
    <2>2. Cardinality(EmptyIn(InArray(blocks))) = 0
      BY <2>1, FS_EmptySet
    <2> QED
      BY <1>1, <2>2 DEF Spares
  <1> QED
    BY <1>6, <1>7, <1>8, <1>9, <1>10, <1>11 DEF IInv

LEMMA StepIInv ==
    ASSUME IInv, [Next]_vars
    PROVE  IInv'
  <1>1. CASE AllocateInBlock
    BY <1>1, AllocateInBlockStep
  <1>2. CASE \E b \in Blocks : AllocateInNewBlock(b)
    BY <1>2, AllocateInNewBlockStep
  <1>3. CASE \E o \in Oversize : AllocateOversize(o)
    BY <1>3, AllocateOversizeStep
  <1>4. CASE ConstructStep
    BY <1>4, ConstructSteps
  <1>5. CASE \E D \in SUBSET (LiveCells \cup UnreadOversize) : BeginSweep(D)
    BY <1>5, BeginSweepStep
  <1>6. CASE SweepBlock
    BY <1>6, SweepBlockStep
  <1>7. CASE SweepAndFreeBlock
    BY <1>7, SweepAndFreeBlockStep
  <1>8. CASE EndBlocks
    BY <1>8, EndBlocksStep
  <1>9. CASE SweepOversize
    BY <1>9, SweepOversizeStep
  <1>10. CASE EndSweep
    BY <1>10, EndSweepStep
  <1>11. CASE UNCHANGED vars
    <2>1. UNCHANGED <<cell, freeList, nextFree, usedCells, blocks, numBlocks, firstSpace, oversize,
                      numOversize, overCell, numLive, liveAtLast, phase, index, empty, sweptLive, doomed>>
      BY <1>11 DEF vars, blockVars, arrayVars, overVars, countVars, sweepVars
    <2>2. UsedSlab' = UsedSlab /\ UsedOver' = UsedOver /\ Behind' = Behind
      BY <2>1 DEF UsedSlab, UsedOver, Behind
    <2>3. Types' = Types /\ Ahead' = Ahead
      BY <2>1, <2>2 DEF Types, Ahead
    <2>4. Slab' = Slab
      BY <2>1 DEF Slab, Slots, FreeCells
    <2>5. Arrays' = Arrays /\ Counters' = Counters
      BY <2>1, <2>2 DEF Arrays, Distinct, InArray, Counters
    <2>6. Spares' = Spares
      BY <2>1, <2>2 DEF Spares, EmptyIn, InArray
    <2> QED
      BY <2>3, <2>4, <2>5, <2>6 DEF IInv
  <1> QED
    BY <1>1, <1>2, <1>3, <1>4, <1>5, <1>6, <1>7, <1>8, <1>9, <1>10, <1>11
    DEF Next, AllocateStep, SweepStep

\* Every reachable state satisfies the invariant: Collector::allocate and the
\* sweep of Collector::collect keep the blocks, the arrays and the counters in
\* step.
THEOREM HeapInvariance == Spec => []IInv
  <1>1. Init => IInv
    BY InitIInv
  <1>2. IInv /\ [Next]_vars => IInv'
    BY StepIInv
  <1> QED
    BY <1>1, <1>2, PTL DEF Spec

\* The arrays of Collector::allocate and Collector::collect hold the allocated
\* cells and blocks, each once and within the capacity that was allocated for
\* them, and numLiveObjects is the number of the allocated cells.
THEOREM HeapArraysAreExact == Spec => []ArraysExact
  <1>1. ASSUME IInv
        PROVE  ArraysExact
    <2>1. Types /\ Arrays /\ Counters
      BY <1>1 DEF IInv
    <2>2. blocks \in Seq(Blocks) /\ oversize \in Seq(Oversize) /\ Distinct(blocks) /\ Distinct(oversize)
      BY <2>1 DEF Types, Arrays
    <2>3. Cardinality(InArray(blocks)) = Len(blocks) /\ Cardinality(InArray(oversize)) = Len(oversize)
      BY <2>2, DistinctCardinality
    <2>4. /\ InArray(oversize) = {o \in Oversize : overCell[o] # "free"}
          /\ Len(blocks) <= numBlocks /\ Len(oversize) <= numOversize
          /\ \A b \in Blocks : usedCells[b] > 0 => b \in InArray(blocks)
      BY <2>1 DEF Arrays, UsedOver
    <2>5. IF phase = "idle"
          THEN /\ numLive = Cardinality(UsedSlab) + Cardinality(UsedOver)
               /\ liveAtLast <= numLive
          ELSE sweptLive = Cardinality(UsedSlab) + Cardinality(UsedOver)
      BY <2>1 DEF Counters
    <2> QED
      BY <2>3, <2>4, <2>5 DEF ArraysExact, UsedSlab, UsedOver
  <1> QED
    BY <1>1, HeapInvariance, PTL

\* When Collector::collect has returned every doomed cell has been destroyed,
\* and no more than SPARE_EMPTY_BLOCKS blocks are empty.
THEOREM SweepsAreComplete == Spec => []SweepComplete
  <1>1. ASSUME IInv
        PROVE  SweepComplete
    <2>1. Ahead /\ Spares
      BY <1>1 DEF IInv
    <2> QED
      BY <2>1 DEF Ahead, Spares, EmptyIn, SweepComplete
  <1> QED
    BY <1>1, HeapInvariance, PTL

\* The sweep of Collector::collect frees no slab cell that is not doomed, and
\* nothing else frees one.
THEOREM SweepsSpareTheRest == Spec => SweepSpares
  <1> DEFINE Spares1 == \A c \in SlabCells :
                cell[c[1]][c[2]] # "free" /\ cell'[c[1]][c[2]] = "free" => c \in doomed
  <1>1. ASSUME IInv, [Next]_vars
        PROVE  [Spares1]_vars
    <2> SUFFICES ASSUME Next, NEW b \in Blocks, NEW i \in Cells,
                        cell[b][i] # "free", cell'[b][i] = "free"
                 PROVE  <<b, i>> \in doomed
      BY <1>1 DEF SlabCells
    <2>1. Types /\ Slab /\ Ahead
      BY <1>1 DEF IInv
    <2>2. cell' # cell
      OBVIOUS
    <2>3. ASSUME NEW c \in Blocks, TakeCell(c)
          PROVE  FALSE
      BY <2>1, <2>3 DEF TakeCell, Types
    <2>4. ~AllocateInBlock
      <3> SUFFICES ASSUME AllocateInBlock PROVE FALSE
        OBVIOUS
      <3>0. Len(blocks) \in Nat
        BY <1>1, IdleFacts
      <3>1. WithSpace \subseteq 1 .. Len(blocks) /\ WithSpace # {}
        <4>1. firstSpace \in Nat \ {0}
          BY <2>1 DEF Types
        <4>2. WithSpace # {}
          BY DEF AllocateInBlock
        <4> QED
          BY <3>0, <4>1, <4>2 DEF WithSpace
      <3>2. Min(WithSpace) \in WithSpace
        BY <3>0, <3>1, MinFacts
      <3>3. blocks[Min(WithSpace)] \in Blocks
        BY <1>1, <3>1, <3>2, IdleFacts
      <3> QED
        BY <2>3, <3>3 DEF AllocateInBlock
    <2>5. ~(\E c \in Blocks : AllocateInNewBlock(c))
      BY <2>3 DEF AllocateInNewBlock
    <2>6. ~(\E o \in Oversize : AllocateOversize(o))
      BY <2>2 DEF AllocateOversize, blockVars
    <2>7. ~ConstructStep
      <3>1. ASSUME NEW c \in Blocks, NEW j \in Cells, cell' = [cell EXCEPT ![c][j] = "live"]
            PROVE  FALSE
        BY <2>1, <3>1 DEF Types
      <3>2. ~(\E o \in Oversize : ConstructOversize(o))
        BY <2>2 DEF ConstructOversize, blockVars
      <3> QED
        BY <3>1, <3>2 DEF ConstructStep, ConstructInBlock
    <2>8. ~(\E D \in SUBSET (LiveCells \cup UnreadOversize) : BeginSweep(D))
      BY <2>2 DEF BeginSweep, blockVars
    <2>9. ~EndBlocks /\ ~SweepOversize /\ ~EndSweep
      BY <2>2 DEF EndBlocks, SweepOversize, EndSweep, blockVars
    <2>10. ASSUME NEW d \in Blocks,
                  \A c \in Blocks, j \in Cells :
                     cell'[c][j] # "free" <=> cell[c][j] # "free" /\ ~(c = d /\ j \in Freed(d))
           PROVE  <<b, i>> \in doomed
      <3>1. b = d /\ i \in Freed(d)
        BY <2>10
      <3> QED
        BY <2>1, <3>1, FreedFacts
    <2>11. CASE SweepBlock
      <3>1. blocks[index] \in Blocks /\ SweepCells(blocks[index])
        BY <1>1, <2>1, <2>11, IdleFacts DEF SweepBlock, Ahead
      <3> QED
        BY <2>1, <2>10, <3>1, SweepCellsFacts
    <2>12. CASE SweepAndFreeBlock
      <3>1. PICK d \in Blocks : d = blocks[index]
        BY <1>1, <2>1, <2>12, IdleFacts DEF SweepAndFreeBlock, Ahead
      <3>2. /\ usedCells[d] = Cardinality(Freed(d))
            /\ cell' = [cell EXCEPT ![d] = ZeroCells]
            /\ freeList' = [freeList EXCEPT ![d] = 1]
            /\ nextFree' = [nextFree EXCEPT ![d] = ZeroLinks]
            /\ usedCells' = [usedCells EXCEPT ![d] = 0]
        BY <2>12, <3>1 DEF SweepAndFreeBlock
      <3> QED
        BY <2>1, <2>10, <3>2, FreeBlockFacts
    <2> QED
      BY <2>4, <2>5, <2>6, <2>7, <2>8, <2>9, <2>11, <2>12 DEF Next, AllocateStep, SweepStep
  <1>2. IInv /\ [Next]_vars => [Spares1]_vars
    BY <1>1
  <1> QED
    BY <1>2, HeapInvariance, PTL DEF Spec, SweepSpares

\* Each turn of the two loops of Collector::collect, those that swap an entry
\* out and do not advance included, leaves fewer turns to come.
THEOREM SweepsAdvance == Spec => SweepAdvances
  <1> DEFINE Nearer == phase # "idle" => TurnsLeft' < TurnsLeft
  <1>1. ASSUME IInv, [Next]_vars
        PROVE  [Nearer]_vars
    <2> SUFFICES ASSUME Next, phase # "idle"
                 PROVE  TurnsLeft' < TurnsLeft
      BY <1>1
    <2>1. Types /\ Arrays /\ Ahead
      BY <1>1 DEF IInv
    <2>2. Len(blocks) \in Nat /\ Len(oversize) \in Nat /\ index \in Nat
      BY <1>1, <2>1, IdleFacts DEF Types
    <2>3. /\ ~AllocateStep /\ ~ConstructStep
          /\ ~(\E D \in SUBSET (LiveCells \cup UnreadOversize) : BeginSweep(D))
      BY DEF AllocateStep, AllocateInBlock, AllocateInNewBlock, AllocateOversize, CanAllocate,
             ConstructStep, ConstructInBlock, ConstructOversize, BeginSweep
    <2>4. CASE SweepBlock
      <3>1. /\ phase = "blocks" /\ phase' = "blocks" /\ index' = index + 1
            /\ blocks' = blocks /\ oversize' = oversize
        BY <2>4 DEF SweepBlock, arrayVars, overVars
      <3> QED
        BY <2>2, <3>1 DEF TurnsLeft
    <2>5. CASE SweepAndFreeBlock
      <3>1. /\ phase = "blocks" /\ phase' = "blocks" /\ index' = index /\ index <= Len(blocks)
            /\ blocks' = SwapOut(blocks, index) /\ oversize' = oversize
        BY <2>5 DEF SweepAndFreeBlock, overVars
      <3>2. index \in 1 .. Len(blocks) /\ blocks \in Seq(Blocks) /\ Distinct(blocks)
        BY <2>1, <2>2, <3>1 DEF Ahead, Types, Arrays
      <3>3. Len(SwapOut(blocks, index)) = Len(blocks) - 1
        BY <3>2, SwapOutFacts
      <3>4. Len(blocks') = Len(blocks) - 1
        BY <3>1, <3>3
      <3> QED
        BY <2>2, <3>1, <3>4 DEF TurnsLeft
    <2>6. CASE EndBlocks
      <3>1. /\ phase = "blocks" /\ phase' = "oversize" /\ index' = 1 /\ oversize' = oversize
        BY <2>6 DEF EndBlocks, overVars
      <3>2. index <= Len(blocks) + 1
        BY <2>1, <2>2, <3>1 DEF Ahead
      <3> QED
        BY <2>2, <3>1, <3>2 DEF TurnsLeft
    <2>7. CASE SweepOversize
      <3>1. phase = "oversize" /\ phase' = "oversize" /\ index <= Len(oversize)
        BY <2>7 DEF SweepOversize
      <3>2. CASE oversize[index] \in doomed
        <4>1. oversize' = SwapOut(oversize, index) /\ index' = index
          BY <2>7, <3>2 DEF SweepOversize
        <4>2. index \in 1 .. Len(oversize) /\ oversize \in Seq(Oversize) /\ Distinct(oversize)
          BY <2>1, <2>2, <3>1 DEF Ahead, Types, Arrays
        <4>3. Len(SwapOut(oversize, index)) = Len(oversize) - 1
          BY <4>2, SwapOutFacts
        <4>4. Len(oversize') = Len(oversize) - 1
          BY <4>1, <4>3
        <4> QED
          BY <2>2, <3>1, <4>1, <4>4 DEF TurnsLeft
      <3>3. CASE oversize[index] \notin doomed
        <4>1. oversize' = oversize /\ index' = index + 1
          BY <2>7, <3>3 DEF SweepOversize, overVars
        <4> QED
          BY <2>2, <3>1, <4>1 DEF TurnsLeft
      <3> QED
        BY <3>2, <3>3
    <2>8. CASE EndSweep
      <3>1. phase = "oversize" /\ phase' = "idle"
        BY <2>8 DEF EndSweep
      <3>2. index <= Len(oversize) + 1
        BY <2>1, <2>2, <3>1 DEF Ahead
      <3> QED
        BY <2>2, <3>1, <3>2 DEF TurnsLeft
    <2> QED
      BY <2>3, <2>4, <2>5, <2>6, <2>7, <2>8 DEF Next, SweepStep
  <1>2. IInv /\ [Next]_vars => [Nearer]_vars
    BY <1>1
  <1> QED
    BY <1>2, HeapInvariance, PTL DEF Spec, SweepAdvances

------------------------------------------------------------------------------
(* The walk along a free list, and where the search for space begins.      *)

\* The walk of ListFrom is well defined, and stays on the list.
LEMMA WalkExists ==
    ASSUME Slab, NEW b \in Blocks
    PROVE  /\ ListFrom(b) \in [0 .. CellsPerBlock -> FreeCells(b) \cup {NoCell}]
           /\ ListFrom(b)[0] = freeList[b]
           /\ \A n \in 1 .. CellsPerBlock :
                ListFrom(b)[n] = IF ListFrom(b)[n - 1] = NoCell THEN NoCell
                                 ELSE nextFree[b][ListFrom(b)[n - 1]]
  <1> USE TunableAssumption
  <1> DEFINE F == FreeCells(b)
             A == F \cup {NoCell}
             Turn(x) == IF x = NoCell THEN NoCell ELSE nextFree[b][x]
             step == [n \in 1 .. CellsPerBlock |-> [x \in A |-> Turn(x)]]
             Walk(f) == f = [n \in 0 .. CellsPerBlock |->
                               IF n = 0 THEN freeList[b]
                               ELSE IF f[n - 1] = NoCell THEN NoCell ELSE nextFree[b][f[n - 1]]]
  <1>1. PICK r \in [Cells -> Nat] : ChainOf(F, freeList[b], nextFree[b], r)
    BY DEF Slab
  <1>2. freeList[b] \in A /\ \A x \in A : Turn(x) \in A
    BY <1>1 DEF ChainOf, Leads
  <1>3. step \in [1 .. CellsPerBlock -> [A -> A]]
    BY <1>2
  <1>4. PICK f : Run(CellsPerBlock, A, freeList[b], step, f)
    <2>1. CellsPerBlock \in Nat /\ freeList[b] \in A
      BY <1>2
    <2> HIDE DEF step, A, Turn
    <2> QED
      BY <1>3, <2>1, Recursion
  <1>5. \A n \in 1 .. CellsPerBlock : f[n] = Turn(f[n - 1])
    <2> SUFFICES ASSUME NEW n \in 1 .. CellsPerBlock PROVE f[n] = Turn(f[n - 1])
      OBVIOUS
    <2>1. n - 1 \in 0 .. CellsPerBlock
      OBVIOUS
    <2>2. f[n - 1] \in A /\ f[n] = step[n][f[n - 1]]
      BY <1>4, <2>1 DEF Run
    <2> QED
      BY <2>2
  <1>6. Walk(f)
    <2>1. ASSUME NEW n \in 0 .. CellsPerBlock
          PROVE  f[n] = IF n = 0 THEN freeList[b] ELSE Turn(f[n - 1])
      <3> HIDE DEF Turn
      <3>1. n = 0 \/ n \in 1 .. CellsPerBlock
        OBVIOUS
      <3> QED
        BY <1>4, <1>5, <3>1 DEF Run
    <2> QED
      BY <1>4, <2>1 DEF Run
  <1>7. ListFrom(b) = CHOOSE g : Walk(g)
    BY DEF ListFrom
  <1>8. Walk(ListFrom(b))
    <2> HIDE DEF Walk
    <2> QED
      BY <1>6, <1>7
  <1> DEFINE g == ListFrom(b)
  <1>9. \A n \in 0 .. CellsPerBlock : g[n] = IF n = 0 THEN freeList[b] ELSE Turn(g[n - 1])
    <2> HIDE DEF g
    <2> QED
      BY <1>8 DEF g
  <1>10. DOMAIN g = 0 .. CellsPerBlock /\ g = [n \in 0 .. CellsPerBlock |-> g[n]]
    <2> HIDE DEF g
    <2> QED
      BY <1>8 DEF g
  <1> HIDE DEF g, Walk, A, Turn
  <1>11. g[0] = freeList[b] /\ \A n \in 1 .. CellsPerBlock : g[n] = Turn(g[n - 1])
    BY <1>9
  <1>12. \A n \in 0 .. CellsPerBlock : g[n] \in A
    <2> DEFINE S == {n \in 0 .. CellsPerBlock : g[n] \in A}
    <2>1. 0 \in S
      BY <1>2, <1>11
    <2>2. ASSUME NEW n \in 0 .. CellsPerBlock - 1, n \in S PROVE n + 1 \in S
      <3>1. n + 1 \in 1 .. CellsPerBlock /\ n + 1 - 1 = n /\ n + 1 \in 0 .. CellsPerBlock
        OBVIOUS
      <3>2. g[n + 1] = Turn(g[n])
        BY <1>11, <3>1
      <3> QED
        BY <1>2, <2>2, <3>1, <3>2
    <2>3. 0 .. CellsPerBlock \subseteq S
      <3> HIDE DEF S
      <3> QED
        BY <2>1, <2>2, IntervalInduction
    <2> QED
      BY <2>3
  <1>13. g \in [0 .. CellsPerBlock -> A]
    BY <1>10, <1>12
  <1> QED
    BY <1>11, <1>13 DEF g, A, Turn

DownClosed(D, F, r) == \A i \in F, j \in D : r[i] < r[j] => i \in D

\* From a state of the walk on which the cells D are still to come to the next.
LEMMA WalkStep ==
    ASSUME NEW F \in SUBSET Cells, NEW h, NEW n, NEW r, ChainOf(F, h, n, r),
           NEW D \in SUBSET F, NEW x, Leads(x, D, r), D # {},
           DownClosed(D, F, r)
    PROVE  /\ x \in D /\ Leads(n[x], D \ {x}, r)
           /\ DownClosed(D \ {x}, F, r)
  <1>1. x \in D /\ \A j \in D : r[j] <= r[x]
    BY DEF Leads
  <1>2. /\ r \in [Cells -> Nat] /\ \A i, j \in F : r[i] = r[j] => i = j
        /\ Leads(n[x], {j \in F : r[j] < r[x]}, r)
    BY <1>1 DEF ChainOf
  <1>3. \A j \in F : r[j] \in Nat
    BY <1>2
  <1>4. {j \in F : r[j] < r[x]} = D \ {x}
    <2>1. ASSUME NEW j \in F, r[j] < r[x] PROVE j \in D \ {x}
      <3>1. j \in D
        BY <1>1, <2>1 DEF DownClosed
      <3> QED
        BY <1>1, <1>3, <2>1, <3>1
    <2>2. ASSUME NEW j \in D \ {x} PROVE r[j] < r[x]
      BY <1>1, <1>2, <1>3
    <2> QED
      BY <2>1, <2>2
  <1>5. ASSUME NEW i \in F, NEW j \in D \ {x}, r[i] < r[j] PROVE i \in D \ {x}
    BY <1>1, <1>3, <1>5 DEF DownClosed
  <1> QED
    BY <1>1, <1>2, <1>4, <1>5 DEF DownClosed

\* The walk meets each free cell once, and then the end.
LEMMA WalkExact ==
    ASSUME Types, Slab, NEW b \in Blocks
    PROVE  LET f == ListFrom(b)
               free == Cardinality(FreeCells(b))
           IN  /\ free \in 0 .. CellsPerBlock /\ usedCells[b] = CellsPerBlock - free
               /\ {f[n] : n \in 0 .. free - 1} = FreeCells(b)
               /\ f[free] = NoCell
  <1> USE TunableAssumption
  <1> DEFINE F == FreeCells(b)
             f == ListFrom(b)
             free == Cardinality(F)
             Met(n) == {f[m] : m \in 0 .. n - 1}
  <1>1. PICK r \in [Cells -> Nat] : ChainOf(F, freeList[b], nextFree[b], r)
    BY DEF Slab
  <1>2. /\ f[0] = freeList[b]
        /\ \A n \in 1 .. CellsPerBlock :
             f[n] = IF f[n - 1] = NoCell THEN NoCell ELSE nextFree[b][f[n - 1]]
    BY WalkExists
  <1>3. F \in SUBSET Cells /\ NoCell \notin Cells
    BY DEF FreeCells, Cells, NoCell
  <1>4. IsFiniteSet(F) /\ free \in 0 .. CellsPerBlock /\ usedCells[b] = CellsPerBlock - free
    <2>1. IsFiniteSet(Cells) /\ Cardinality(Cells) = CellsPerBlock
      BY CellsFinite
    <2>2. Slots(b) = Cells \ F
      BY DEF Slots, FreeCells
    <2>3. /\ IsFiniteSet(F) /\ free \in Nat /\ free <= CellsPerBlock
          /\ Cardinality(Cells \ F) = CellsPerBlock - free
      BY <1>3, <2>1, WithoutCardinality
    <2>4. usedCells[b] = CellsPerBlock - free
      BY <2>2, <2>3 DEF Slab
    <2> QED
      BY <2>3, <2>4
  <1> HIDE DEF F, f, free
  <1> DEFINE Reached(n) == /\ Met(n) \subseteq F /\ Cardinality(F \ Met(n)) = free - n
                           /\ Leads(f[n], F \ Met(n), r)
                           /\ DownClosed(F \ Met(n), F, r)
             S == {n \in 0 .. free : Reached(n)}
  <1>5. 0 \in S
    <2>1. Met(0) = {}
      OBVIOUS
    <2>2. F \ Met(0) = F
      BY <2>1
    <2>3. Leads(f[0], F, r)
      BY <1>1, <1>2 DEF ChainOf
    <2> HIDE DEF Met
    <2> QED
      BY <1>4, <2>1, <2>2, <2>3 DEF free, DownClosed
  <1>6. ASSUME NEW n \in 0 .. free - 1, n \in S PROVE n + 1 \in S
    <2> DEFINE D == F \ Met(n)
    <2>1. /\ D \in SUBSET F /\ Cardinality(D) = free - n /\ Leads(f[n], D, r)
          /\ DownClosed(D, F, r)
          /\ Met(n) \subseteq F
      BY <1>6
    <2>2. n \in Nat /\ free \in Nat /\ n < free /\ n + 1 \in 0 .. free /\ n + 1 \in 1 .. CellsPerBlock
      BY <1>4
    <2>3. IsFiniteSet(D)
      BY <1>4, <2>1, FS_Subset
    <2> HIDE DEF D, Met
    <2>4. D # {}
      BY <2>1, <2>2, FS_EmptySet
    <2>5. /\ f[n] \in D /\ Leads(nextFree[b][f[n]], D \ {f[n]}, r)
          /\ DownClosed(D \ {f[n]}, F, r)
      <3>1. F \in SUBSET Cells /\ D \in SUBSET F /\ D # {}
        BY <1>3, <2>1, <2>4
      <3>2. ChainOf(F, freeList[b], nextFree[b], r) /\ Leads(f[n], D, r)
        BY <1>1, <2>1
      <3>3. DownClosed(D, F, r)
        BY <2>1
      <3> QED
        BY ONLY <3>1, <3>2, <3>3, WalkStep
    <2>6. f[n + 1] = nextFree[b][f[n]]
      <3>1. f[n] # NoCell
        BY <1>3, <2>1, <2>5
      <3>2. n + 1 - 1 = n
        BY <2>2
      <3> QED
        BY <1>2, <2>2, <3>1, <3>2
    <2>7. Met(n + 1) = Met(n) \cup {f[n]}
      <3>1. \A m : m \in 0 .. n + 1 - 1 <=> m \in 0 .. n - 1 \/ m = n
        BY <2>2
      <3> QED
        BY <3>1 DEF Met
    <2>8. F \ Met(n + 1) = D \ {f[n]}
      BY <2>7 DEF D
    <2>9. Cardinality(D \ {f[n]}) = free - (n + 1)
      <3>1. Cardinality(D \ {f[n]}) = Cardinality(D) - 1
        BY <2>3, <2>5, FS_RemoveElement
      <3> QED
        BY <2>1, <2>2, <3>1
    <2>10. Met(n + 1) \subseteq F
      BY <2>1, <2>5, <2>7
    <2> QED
      BY <2>2, <2>5, <2>6, <2>8, <2>9, <2>10
  <1>7. Reached(free)
    <2> HIDE DEF S
    <2>1. 0 .. free \subseteq S
      BY <1>4, <1>5, <1>6, IntervalInduction
    <2>2. free \in 0 .. free
      BY <1>4
    <2>3. free \in S
      BY <2>1, <2>2
    <2> HIDE DEF Reached
    <2> QED
      BY <2>3 DEF S
  <1>8. F \ Met(free) = {}
    <2>1. Cardinality(F \ Met(free)) = 0
      BY <1>4, <1>7
    <2>2. IsFiniteSet(F \ Met(free))
      BY <1>4, FS_Subset
    <2> QED
      BY <2>1, <2>2, FS_EmptySet
  <1>9. Met(free) = F /\ f[free] = NoCell
    BY <1>7, <1>8 DEF Leads
  <1> QED
    BY <1>4, <1>9 DEF F, f, free

------------------------------------------------------------------------------
(* Where the search for space begins.                                      *)

FullBefore(n) ==
    /\ n <= Len(blocks) + 1
    /\ \A i \in 1 .. n - 1 : usedCells[blocks[i]] = CellsPerBlock

\* A sweep that destroyed something starts the search anew at its end.
Space ==
    IF phase = "blocks"
    THEN sweptLive <= numLive /\ (sweptLive = numLive => FullBefore(firstSpace))
    ELSE FullBefore(firstSpace)

LEMMA SpaceSame ==
    ASSUME Space, UNCHANGED <<blocks, usedCells, firstSpace>>, phase # "blocks", phase' # "blocks"
    PROVE  Space'
  BY DEF Space, FullBefore

LEMMA SpaceAllocateInBlock ==
    ASSUME IInv, Space, AllocateInBlock
    PROVE  Space'
  <1> USE TunableAssumption
  <1> DEFINE m == Min(WithSpace)
  <1>1. /\ phase = "idle" /\ WithSpace # {} /\ firstSpace' = m /\ TakeCell(blocks[m])
        /\ blocks' = blocks /\ phase' = phase
    BY DEF AllocateInBlock, CanAllocate, sweepVars
  <1>2. Len(blocks) \in Nat /\ firstSpace \in Nat \ {0} /\ \A k \in 1 .. Len(blocks) : blocks[k] \in Blocks
    BY IdleFacts DEF IInv, Types
  <1>3. WithSpace \subseteq 1 .. Len(blocks)
    BY <1>2 DEF WithSpace
  <1>4. m \in WithSpace /\ \A y \in WithSpace : m <= y
    <2> HIDE DEF m
    <2> QED
      BY <1>1, <1>2, <1>3, MinFacts DEF m
  <1> HIDE DEF m
  <1>5. m \in 1 .. Len(blocks) /\ usedCells[blocks[m]] # CellsPerBlock
    BY <1>3, <1>4 DEF WithSpace
  <1>6. usedCells' = [usedCells EXCEPT ![blocks[m]] = @ + 1]
    BY <1>1 DEF TakeCell
  <1>7. FullBefore(firstSpace)
    BY <1>1 DEF Space
  <1>8. ASSUME NEW i \in 1 .. m - 1
        PROVE  usedCells'[blocks[i]] = CellsPerBlock
    <2>1. i \in 1 .. Len(blocks) /\ i # m /\ i \notin WithSpace
      BY <1>2, <1>4, <1>5
    <2>2. usedCells[blocks[i]] = CellsPerBlock
      <3>1. CASE i < firstSpace
        BY <1>2, <1>7, <2>1, <3>1 DEF FullBefore
      <3>2. CASE ~(i < firstSpace)
        <4>1. i \in firstSpace .. Len(blocks)
          BY <1>2, <2>1, <3>2
        <4> QED
          BY <2>1, <4>1 DEF WithSpace
      <3> QED
        BY <3>1, <3>2
    <2>3. blocks[i] # blocks[m]
      BY <1>5, <2>2
    <2> QED
      BY <1>6, <2>2, <2>3
  <1>9. m <= Len(blocks) + 1
    BY <1>2, <1>5
  <1> QED
    BY <1>1, <1>8, <1>9 DEF Space, FullBefore

LEMMA SpaceAllocateInNewBlock ==
    ASSUME IInv, Space, NEW b \in Blocks, AllocateInNewBlock(b)
    PROVE  Space'
  <1> USE TunableAssumption
  <1>1. /\ phase = "idle" /\ WithSpace = {} /\ firstSpace' = Len(blocks) + 1 /\ TakeCell(b)
        /\ blocks' = Append(blocks, b) /\ phase' = phase /\ b \notin InArray(blocks)
    BY DEF AllocateInNewBlock, CanAllocate, sweepVars
  <1>2. Len(blocks) \in Nat /\ firstSpace \in Nat \ {0}
    BY IdleFacts DEF IInv, Types
  <1>3. blocks \in Seq(Blocks) /\ Distinct(blocks)
    BY DEF IInv, Types, Arrays
  <1>4. Len(blocks') = Len(blocks) + 1 /\ \A k \in 1 .. Len(blocks) : blocks'[k] = blocks[k]
    BY <1>1, <1>3, AppendFacts
  <1>5. usedCells' = [usedCells EXCEPT ![b] = @ + 1]
    BY <1>1 DEF TakeCell
  <1>6. FullBefore(firstSpace)
    BY <1>1 DEF Space
  <1>7. ASSUME NEW i \in 1 .. Len(blocks)
        PROVE  usedCells'[blocks'[i]] = CellsPerBlock
    <2>1. blocks'[i] = blocks[i] /\ blocks[i] # b
      BY <1>1, <1>3, <1>4 DEF InArray
    <2>2. usedCells[blocks[i]] = CellsPerBlock
      <3>1. CASE i < firstSpace
        BY <1>2, <1>6, <3>1 DEF FullBefore
      <3>2. CASE ~(i < firstSpace)
        <4>1. i \in firstSpace .. Len(blocks)
          BY <1>2, <3>2
        <4> QED
          BY <1>1, <4>1 DEF WithSpace
      <3> QED
        BY <3>1, <3>2
    <2> QED
      BY <1>5, <2>1, <2>2
  <1>8. Len(blocks) + 1 - 1 = Len(blocks) /\ Len(blocks) + 1 <= Len(blocks) + 1 + 1
    BY <1>2
  <1> QED
    BY <1>1, <1>4, <1>7, <1>8 DEF Space, FullBefore

LEMMA SpaceSweepBlock ==
    ASSUME IInv, Space, SweepBlock
    PROVE  Space'
  <1> USE TunableAssumption
  <1>1. Types /\ Slab /\ Ahead
    BY DEF IInv
  <1>2. PICK b \in Blocks : b = blocks[index]
    BY <1>1, IdleFacts DEF SweepBlock, Ahead
  <1> DEFINE n == Cardinality(Freed(b))
  <1>3. /\ phase = "blocks" /\ phase' = "blocks" /\ SweepCells(b)
        /\ UNCHANGED <<blocks, firstSpace, numLive>>
    BY <1>2 DEF SweepBlock, arrayVars, countVars
  <1>4. /\ \A c \in Blocks \ {b} : usedCells'[c] = usedCells[c]
        /\ usedCells'[b] = usedCells[b] - n
        /\ sweptLive' = sweptLive - n
    BY <1>1, <1>3, SweepCellsFacts
  <1>5. n \in Nat
    BY <1>1, FreedFacts, FS_CardinalityType
  <1>6. sweptLive \in Nat /\ numLive \in Nat /\ \A c \in Blocks : usedCells[c] \in Nat
    BY <1>1 DEF Types
  <1> HIDE DEF n
  <1>7. sweptLive <= numLive /\ (sweptLive = numLive => FullBefore(firstSpace))
    BY <1>3 DEF Space
  <1>8. sweptLive' <= numLive /\ (sweptLive' = numLive => n = 0 /\ sweptLive = numLive)
    BY <1>4, <1>5, <1>6, <1>7
  <1>9. n = 0 => \A c \in Blocks : usedCells'[c] = usedCells[c]
    BY <1>4, <1>6
  <1>10. ASSUME sweptLive' = numLive PROVE FullBefore(firstSpace)'
    <2>1. /\ FullBefore(firstSpace) /\ firstSpace \in Nat \ {0} /\ Len(blocks) \in Nat
          /\ \A k \in 1 .. Len(blocks) : blocks[k] \in Blocks
      BY <1>1, <1>7, <1>8, <1>10, IdleFacts DEF Types
    <2>2. \A i \in 1 .. firstSpace - 1 : i \in 1 .. Len(blocks)
      BY <2>1 DEF FullBefore
    <2> QED
      BY <1>3, <1>8, <1>9, <1>10, <2>1, <2>2 DEF FullBefore
  <1> QED
    BY <1>3, <1>8, <1>10 DEF Space

LEMMA SpaceSweepAndFreeBlock ==
    ASSUME IInv, Space, SweepAndFreeBlock
    PROVE  Space'
  <1> USE TunableAssumption
  <1>1. Types /\ Slab /\ Arrays /\ Ahead
    BY DEF IInv
  <1>2. PICK b \in Blocks : b = blocks[index]
    BY <1>1, IdleFacts DEF SweepAndFreeBlock, Ahead
  <1> DEFINE n == Cardinality(Freed(b))
  <1>3. /\ phase = "blocks" /\ phase' = "blocks" /\ index <= Len(blocks)
        /\ usedCells[b] = n /\ usedCells' = [usedCells EXCEPT ![b] = 0]
        /\ sweptLive' = sweptLive - n
        /\ blocks' = SwapOut(blocks, index)
        /\ UNCHANGED <<firstSpace, numLive>>
    BY <1>2 DEF SweepAndFreeBlock, countVars
  <1>4. n \in Nat
    BY <1>1, FreedFacts, FS_CardinalityType
  <1> HIDE DEF n
  <1>5. sweptLive \in Nat /\ numLive \in Nat /\ firstSpace \in Nat \ {0}
    BY <1>1 DEF Types
  <1>6. /\ Len(blocks) \in Nat /\ index \in 1 .. Len(blocks)
        /\ \A k \in 1 .. Len(blocks) : blocks[k] \in Blocks
    BY <1>1, <1>3, IdleFacts DEF Ahead
  <1>7. sweptLive <= numLive /\ (sweptLive = numLive => FullBefore(firstSpace))
    BY <1>3 DEF Space
  <1>8. sweptLive' <= numLive /\ (sweptLive' = numLive => n = 0 /\ sweptLive = numLive)
    BY <1>3, <1>4, <1>5, <1>7
  <1>9. ASSUME sweptLive' = numLive PROVE FullBefore(firstSpace)'
    <2>1. FullBefore(firstSpace) /\ usedCells[blocks[index]] = 0
      BY <1>2, <1>3, <1>7, <1>8, <1>9
    <2>2. firstSpace <= index
      <3>1. CellsPerBlock # 0
        OBVIOUS
      <3>2. index \notin 1 .. firstSpace - 1
        BY <2>1, <3>1 DEF FullBefore
      <3> QED
        BY <1>5, <1>6, <3>2
    <2>3. blocks \in Seq(Blocks) /\ Distinct(blocks)
      BY <1>1 DEF Types, Arrays
    <2>4. /\ Len(blocks') = Len(blocks) - 1
          /\ \A k \in 1 .. Len(blocks) - 1 : blocks'[k] = IF k = index THEN blocks[Len(blocks)] ELSE blocks[k]
      <3>1. /\ Len(SwapOut(blocks, index)) = Len(blocks) - 1
            /\ \A k \in 1 .. Len(blocks) - 1 :
                 SwapOut(blocks, index)[k] = IF k = index THEN blocks[Len(blocks)] ELSE blocks[k]
        BY <1>6, <2>3, SwapOutFacts
      <3> QED
        BY <1>3, <3>1
    <2>5. ASSUME NEW i \in 1 .. firstSpace - 1
          PROVE  usedCells'[blocks'[i]] = CellsPerBlock
      <3>1. i \in 1 .. Len(blocks) - 1 /\ i # index /\ i \in 1 .. Len(blocks)
        BY <1>5, <1>6, <2>2
      <3>2. blocks'[i] = blocks[i] /\ usedCells[blocks[i]] = CellsPerBlock
        BY <2>1, <2>4, <3>1 DEF FullBefore
      <3>3. blocks[i] # b
        BY <1>2, <1>6, <2>3, <3>1 DEF Distinct
      <3> QED
        BY <1>3, <3>2, <3>3
    <2>6. firstSpace <= Len(blocks) - 1 + 1
      BY <1>5, <1>6, <2>2
    <2> QED
      BY <1>3, <2>4, <2>5, <2>6 DEF FullBefore
  <1> QED
    BY <1>3, <1>8, <1>9 DEF Space

LEMMA SpaceStep ==
    ASSUME IInv, Space, [Next]_vars
    PROVE  Space'
  <1> USE TunableAssumption
  <1>1. CASE AllocateInBlock
    BY <1>1, SpaceAllocateInBlock
  <1>2. CASE \E b \in Blocks : AllocateInNewBlock(b)
    BY <1>2, SpaceAllocateInNewBlock
  <1>3. CASE \E o \in Oversize : AllocateOversize(o)
    <2>1. UNCHANGED <<blocks, usedCells, firstSpace, phase>> /\ phase = "idle"
      BY <1>3 DEF AllocateOversize, CanAllocate, blockVars, arrayVars, sweepVars
    <2> QED
      BY <2>1, SpaceSame
  <1>4. CASE ConstructStep
    <2>1. UNCHANGED <<blocks, usedCells, firstSpace, phase>> /\ phase = "idle"
      BY <1>4 DEF ConstructStep, ConstructInBlock, ConstructOversize, blockVars, arrayVars, sweepVars
    <2> QED
      BY <2>1, SpaceSame
  <1>5. CASE \E D \in SUBSET (LiveCells \cup UnreadOversize) : BeginSweep(D)
    <2>1. /\ UNCHANGED <<blocks, usedCells, firstSpace, numLive>> /\ phase = "idle" /\ phase' = "blocks"
          /\ sweptLive' = numLive
      BY <1>5 DEF BeginSweep, blockVars, arrayVars, countVars
    <2>2. numLive \in Nat
      BY DEF IInv, Types
    <2> QED
      BY <2>1, <2>2 DEF Space, FullBefore
  <1>6. CASE SweepBlock
    BY <1>6, SpaceSweepBlock
  <1>7. CASE SweepAndFreeBlock
    BY <1>7, SpaceSweepAndFreeBlock
  <1>8. CASE EndBlocks
    <2>1. /\ UNCHANGED <<blocks, usedCells, numLive, sweptLive>> /\ phase = "blocks" /\ phase' = "oversize"
          /\ firstSpace' = IF sweptLive # numLive THEN 1 ELSE firstSpace
      BY <1>8 DEF EndBlocks, blockVars, countVars
    <2>2. CASE sweptLive # numLive
      <3>1. Len(blocks) \in Nat
        BY IdleFacts
      <3> QED
        BY <2>1, <2>2, <3>1 DEF Space, FullBefore
    <2>3. CASE sweptLive = numLive
      BY <2>1, <2>3 DEF Space, FullBefore
    <2> QED
      BY <2>2, <2>3
  <1>9. CASE SweepOversize
    <2>1. UNCHANGED <<blocks, usedCells, firstSpace, phase>> /\ phase = "oversize"
      BY <1>9 DEF SweepOversize, blockVars, arrayVars
    <2> QED
      BY <2>1, SpaceSame
  <1>10. CASE EndSweep
    <2>1. UNCHANGED <<blocks, usedCells, firstSpace>> /\ phase = "oversize" /\ phase' = "idle"
      BY <1>10 DEF EndSweep, blockVars, arrayVars
    <2> QED
      BY <2>1, SpaceSame
  <1>11. CASE UNCHANGED vars
    <2>1. UNCHANGED <<blocks, usedCells, firstSpace, phase, sweptLive, numLive>>
      BY <1>11 DEF vars, blockVars, arrayVars, countVars, sweepVars
    <2> QED
      BY <2>1 DEF Space, FullBefore
  <1> QED
    BY <1>1, <1>2, <1>3, <1>4, <1>5, <1>6, <1>7, <1>8, <1>9, <1>10, <1>11
    DEF Next, AllocateStep, SweepStep

------------------------------------------------------------------------------
(* The bounds of the types.                                                *)

LEMMA Products ==
    ASSUME NEW m \in Nat, NEW n \in Nat, NEW g \in Nat, m <= n
    PROVE  m * g <= g * n /\ g * n \in Nat /\ (g >= 1 => n <= n * g)
  OBVIOUS

LEMMA Sizes ==
    /\ IsFiniteSet(SlabCells) /\ Cardinality(SlabCells) \in Nat
    /\ Cardinality(Blocks) \in Nat /\ Cardinality(Oversize) \in Nat
    /\ MaxCells \in Nat /\ ArrayBound \in Nat
    /\ Cardinality(Blocks) <= MaxCells /\ Cardinality(Oversize) <= MaxCells
    /\ Cardinality(SlabCells) + Cardinality(Oversize) = MaxCells
  <1>1. CellsPerBlock \in Nat /\ CellsPerBlock >= 1 /\ Growth \in Nat /\ MinArray \in Nat
    BY TunableAssumption
  <1>2. IsFiniteSet(Cells) /\ Cardinality(Cells) = CellsPerBlock
    BY CellsFinite
  <1>3. IsFiniteSet(SlabCells) /\ Cardinality(SlabCells) = Cardinality(Blocks) * CellsPerBlock
    BY <1>2, FS_Product, AddressAssumption DEF SlabCells
  <1>4. Cardinality(Blocks) \in Nat /\ Cardinality(Oversize) \in Nat /\ Cardinality(SlabCells) \in Nat
    BY <1>3, AddressAssumption, FS_CardinalityType
  <1>5. Cardinality(Blocks) <= Cardinality(SlabCells)
    BY <1>1, <1>3, <1>4, Products
  <1>6. MaxCells = Cardinality(SlabCells) + Cardinality(Oversize)
    BY DEF MaxCells
  <1>7. MaxCells \in Nat /\ Cardinality(Blocks) <= MaxCells /\ Cardinality(Oversize) <= MaxCells
    BY <1>4, <1>5, <1>6
  <1>8. Growth * MaxCells \in Nat
    BY <1>1, <1>7, Products
  <1>9. ArrayBound \in Nat
    BY <1>1, <1>8 DEF ArrayBound
  <1> QED
    BY <1>3, <1>4, <1>6, <1>7, <1>9

\* There are no more entries in an array than addresses.
LEMMA ArrayFits ==
    ASSUME NEW S, IsFiniteSet(S), NEW s \in Seq(S), Distinct(s)
    PROVE  Len(s) <= Cardinality(S) /\ Len(s) \in Nat
  <1>1. IsFiniteSet(InArray(s)) /\ Cardinality(InArray(s)) = Len(s)
    BY DistinctCardinality
  <1>2. InArray(s) \in SUBSET S
    BY ElementOfSeq DEF InArray
  <1> QED
    BY <1>1, <1>2, FS_Subset, FS_CardinalityType

LEMMA CellsFit ==
    ASSUME NEW A \in SUBSET SlabCells, NEW B \in SUBSET Oversize
    PROVE  Cardinality(A) + Cardinality(B) <= MaxCells
  <1>1. Cardinality(A) <= Cardinality(SlabCells) /\ IsFiniteSet(A)
    BY Sizes, FS_Subset
  <1>2. Cardinality(B) <= Cardinality(Oversize) /\ IsFiniteSet(B)
    BY AddressAssumption, FS_Subset
  <1>3. Cardinality(A) \in Nat /\ Cardinality(B) \in Nat
    BY <1>1, <1>2, FS_CardinalityType
  <1> QED
    BY <1>1, <1>2, <1>3, Sizes

\* The capacity of an array stays below a bound.
LEMMA CapacityBound ==
    ASSUME NEW n \in Nat, NEW used \in Nat, used <= MaxCells, n <= ArrayBound
    PROVE  Grown(n, used) <= ArrayBound /\ Shrunk(n, used) <= ArrayBound
  <1>1. CellsPerBlock \in Nat /\ Growth \in Nat /\ MinArray \in Nat /\ Growth >= 2
    BY TunableAssumption
  <1>2. MaxCells \in Nat /\ ArrayBound \in Nat
    BY Sizes
  <1>3. used * Growth <= Growth * MaxCells /\ Growth * MaxCells \in Nat
    BY <1>1, <1>2, Products
  <1>4. used * Growth <= ArrayBound /\ MinArray <= ArrayBound
    <2> DEFINE p == used * Growth
               q == Growth * MaxCells
    <2>1. p \in Nat /\ q \in Nat /\ p <= q /\ ArrayBound = MinArray + q
      BY <1>1, <1>3, Products DEF ArrayBound
    <2> HIDE DEF p, q
    <2>2. p <= ArrayBound /\ MinArray <= ArrayBound
      BY <1>1, <2>1
    <2> QED
      BY <2>2 DEF p
  <1>5. Grown(n, used) <= ArrayBound
    BY <1>4 DEF Grown
  <1>6. n \div Growth <= n
    BY <1>1, Quotients
  <1>7. Shrunk(n, used) <= ArrayBound
    <2>1. n \div Growth \in Nat
      BY <1>1, Quotients
    <2> QED
      BY <1>2, <1>6, <2>1 DEF Shrunk
  <1> QED
    BY <1>5, <1>7

Bounds ==
    /\ numBlocks <= ArrayBound /\ numOversize <= ArrayBound
    /\ firstSpace <= Cardinality(Blocks) + 1
    /\ numLive <= MaxCells /\ liveAtLast <= MaxCells
    /\ phase = "idle" => index = 0 /\ empty = 0 /\ sweptLive = 0
    /\ phase = "blocks" => empty + Len(blocks) + 1 <= Cardinality(Blocks) + index
    /\ phase = "oversize" => empty <= Cardinality(Blocks)
    /\ memoryFull \in BOOLEAN /\ doomed \subseteq SlabCells \cup Oversize

\* What the bounds depend on.
LEMMA Lengths ==
    ASSUME IInv
    PROVE  /\ Len(blocks) \in Nat /\ Len(blocks) <= Cardinality(Blocks)
           /\ Len(oversize) \in Nat /\ Len(oversize) <= Cardinality(Oversize)
           /\ Cardinality(UsedSlab) + Cardinality(UsedOver) <= MaxCells
           /\ phase = "idle" => numLive <= MaxCells /\ liveAtLast <= numLive
           /\ phase # "idle" => sweptLive <= MaxCells
  <1>1. /\ blocks \in Seq(Blocks) /\ oversize \in Seq(Oversize)
        /\ Distinct(blocks) /\ Distinct(oversize)
    BY DEF IInv, Types, Arrays
  <1>2. /\ Len(blocks) \in Nat /\ Len(blocks) <= Cardinality(Blocks)
        /\ Len(oversize) \in Nat /\ Len(oversize) <= Cardinality(Oversize)
    BY <1>1, AddressAssumption, ArrayFits
  <1>3. UsedSlab \in SUBSET SlabCells /\ UsedOver \in SUBSET Oversize
    BY DEF UsedSlab, UsedOver
  <1>4. Cardinality(UsedSlab) + Cardinality(UsedOver) <= MaxCells
    BY <1>3, CellsFit
  <1>5. Counters
    BY DEF IInv
  <1> QED
    BY <1>2, <1>4, <1>5 DEF Counters

LEMMA IdleBounds ==
    ASSUME IInv, IInv', Space', Bounds, phase = "idle", phase' = "idle",
           UNCHANGED <<memoryFull, sweepVars>>,
           numBlocks' \in {numBlocks, Grown(numBlocks, Len(blocks))},
           numOversize' \in {numOversize, Grown(numOversize, Len(oversize))}
    PROVE  Bounds'
  <1>1. Types /\ Types'
    BY DEF IInv
  <1>2. numBlocks' <= ArrayBound /\ numOversize' <= ArrayBound
    <2>1. /\ Len(blocks) \in Nat /\ Len(blocks) <= Cardinality(Blocks)
          /\ Len(oversize) \in Nat /\ Len(oversize) <= Cardinality(Oversize)
      BY Lengths
    <2>2. Len(blocks) <= MaxCells /\ Len(oversize) <= MaxCells
      BY <2>1, Sizes
    <2>3. /\ numBlocks \in Nat /\ numBlocks <= ArrayBound
          /\ numOversize \in Nat /\ numOversize <= ArrayBound
      BY <1>1 DEF Types, Bounds
    <2> QED
      BY <2>1, <2>2, <2>3, CapacityBound
  <1>3. firstSpace' <= Cardinality(Blocks) + 1
    <2>1. firstSpace' <= Len(blocks') + 1
      BY DEF Space, FullBefore
    <2>2. blocks' \in Seq(Blocks) /\ Distinct(blocks')
      BY DEF IInv, Types, Arrays, Distinct
    <2>3. Len(blocks') <= Cardinality(Blocks) /\ Len(blocks') \in Nat
      BY <2>2, AddressAssumption, ArrayFits
    <2>4. firstSpace' \in Nat /\ Cardinality(Blocks) \in Nat
      BY <1>1, Sizes DEF Types
    <2> QED
      BY <2>1, <2>3, <2>4
  <1>4. numLive' <= MaxCells /\ liveAtLast' <= MaxCells
    <2>1. UsedSlab' \in SUBSET SlabCells /\ UsedOver' \in SUBSET Oversize
      BY DEF UsedSlab, UsedOver
    <2>2. Cardinality(UsedSlab') + Cardinality(UsedOver') <= MaxCells
      BY <2>1, CellsFit
    <2>3. numLive' = Cardinality(UsedSlab') + Cardinality(UsedOver') /\ liveAtLast' <= numLive'
      BY DEF IInv, Counters
    <2>4. numLive' \in Nat /\ liveAtLast' \in Nat /\ MaxCells \in Nat
      BY <1>1, Sizes DEF Types
    <2> QED
      BY <2>2, <2>3, <2>4
  <1>5. UNCHANGED <<index, empty, sweptLive, doomed>>
    BY DEF sweepVars
  <1> QED
    BY <1>2, <1>3, <1>4, <1>5 DEF Bounds

LEMMA BoundsStep ==
    ASSUME IInv, IInv', Space', Bounds, [Next]_vars
    PROVE  Bounds'
  <1>0. /\ Types /\ Ahead /\ Cardinality(Blocks) \in Nat
        /\ Len(blocks) \in Nat /\ Len(blocks) <= Cardinality(Blocks)
        /\ Len(oversize) \in Nat /\ Len(oversize) <= MaxCells /\ Len(blocks) <= MaxCells
    <2>1. /\ Len(blocks) \in Nat /\ Len(blocks) <= Cardinality(Blocks)
          /\ Len(oversize) \in Nat /\ Len(oversize) <= Cardinality(Oversize)
      BY Lengths
    <2> QED
      BY <2>1, Sizes DEF IInv
  <1>1. CASE AllocateInBlock
    <2>1. /\ phase = "idle" /\ phase' = phase /\ UNCHANGED <<memoryFull, sweepVars>>
          /\ numBlocks' = numBlocks /\ numOversize' = numOversize
      BY <1>1 DEF AllocateInBlock, CanAllocate, overVars, sweepVars
    <2> QED
      BY <2>1, IdleBounds
  <1>2. CASE \E b \in Blocks : AllocateInNewBlock(b)
    <2>1. /\ phase = "idle" /\ phase' = phase /\ UNCHANGED <<memoryFull, sweepVars>>
          /\ numBlocks' = Grown(numBlocks, Len(blocks)) /\ numOversize' = numOversize
      BY <1>2 DEF AllocateInNewBlock, CanAllocate, overVars, sweepVars
    <2> QED
      BY <2>1, IdleBounds
  <1>3. CASE \E o \in Oversize : AllocateOversize(o)
    <2>1. /\ phase = "idle" /\ phase' = phase /\ UNCHANGED <<memoryFull, sweepVars>>
          /\ numBlocks' = numBlocks /\ numOversize' = Grown(numOversize, Len(oversize))
      BY <1>3 DEF AllocateOversize, CanAllocate, arrayVars, sweepVars
    <2> QED
      BY <2>1, IdleBounds
  <1>4. CASE ConstructStep
    <2>1. /\ phase = "idle" /\ phase' = phase /\ UNCHANGED <<memoryFull, sweepVars>>
          /\ numBlocks' = numBlocks /\ numOversize' = numOversize
      BY <1>4 DEF ConstructStep, ConstructInBlock, ConstructOversize, arrayVars, overVars, countVars, sweepVars
    <2> QED
      BY <2>1, IdleBounds
  <1>5. CASE \E D \in SUBSET (LiveCells \cup UnreadOversize) : BeginSweep(D)
    <2>1. PICK D \in SUBSET (LiveCells \cup UnreadOversize) : BeginSweep(D)
      BY <1>5
    <2>2. /\ UNCHANGED <<blocks, numBlocks, firstSpace, numOversize, numLive, liveAtLast, memoryFull>>
          /\ phase' = "blocks" /\ index' = 1 /\ empty' = 0 /\ doomed' = D
      BY <2>1 DEF BeginSweep, arrayVars, overVars, countVars
    <2>3. LiveCells \cup UnreadOversize \subseteq SlabCells \cup Oversize
      BY DEF LiveCells, UnreadOversize
    <2>4. D \subseteq SlabCells \cup Oversize
      BY <2>3
    <2>5. 0 + Len(blocks) + 1 <= Cardinality(Blocks) + 1
      BY <1>0
    <2> QED
      BY <2>2, <2>4, <2>5 DEF Bounds
  <1>6. CASE SweepBlock
    <2>1. /\ UNCHANGED <<blocks, numBlocks, firstSpace, numOversize, numLive, liveAtLast, memoryFull>>
          /\ phase = "blocks" /\ phase' = "blocks" /\ index' = index + 1 /\ empty' \in {empty, empty + 1}
          /\ doomed' \subseteq doomed
      BY <1>6 DEF SweepBlock, SweepCells, arrayVars, overVars, countVars
    <2>0. empty \in Nat /\ index \in Nat
      BY <1>0 DEF Types
    <2>2. empty + Len(blocks) + 1 <= Cardinality(Blocks) + index
      BY <2>1 DEF Bounds
    <2>3. empty' + Len(blocks) + 1 <= Cardinality(Blocks) + (index + 1)
      <3>1. empty' \in {empty, empty + 1} /\ Len(blocks) \in Nat /\ Cardinality(Blocks) \in Nat
        BY <1>0, <2>1
      <3> QED
        BY ONLY <2>0, <2>2, <3>1
    <2> QED
      BY <2>1, <2>3 DEF Bounds
  <1>7. CASE SweepAndFreeBlock
    <2>1. /\ UNCHANGED <<firstSpace, numOversize, numLive, liveAtLast, memoryFull, index>>
          /\ phase = "blocks" /\ phase' = "blocks" /\ index <= Len(blocks) /\ empty' = empty + 1
          /\ doomed' \subseteq doomed
          /\ blocks' = SwapOut(blocks, index) /\ numBlocks' = Shrunk(numBlocks, Len(blocks) - 1)
      BY <1>7 DEF SweepAndFreeBlock, overVars, countVars
    <2>0. empty \in Nat /\ index \in Nat /\ numBlocks \in Nat
      BY <1>0 DEF Types
    <2>2. numBlocks <= ArrayBound /\ empty + Len(blocks) + 1 <= Cardinality(Blocks) + index
      BY <2>1 DEF Bounds
    <2>3. index \in 1 .. Len(blocks) /\ blocks \in Seq(Blocks) /\ Distinct(blocks)
      BY <1>0, <2>1 DEF Ahead, IInv, Types, Arrays
    <2>4. Len(SwapOut(blocks, index)) = Len(blocks) - 1
      BY <2>3, SwapOutFacts
    <2>5. Len(blocks') = Len(blocks) - 1
      BY <2>1, <2>4
    <2>6. empty' + Len(blocks') + 1 <= Cardinality(Blocks) + index'
      BY <1>0, <2>0, <2>1, <2>2, <2>5
    <2>7. Len(blocks) - 1 \in Nat /\ Len(blocks) - 1 <= MaxCells
      BY <1>0, <2>3, Sizes
    <2>8. numBlocks' <= ArrayBound
      BY <2>0, <2>1, <2>2, <2>7, CapacityBound
    <2> QED
      BY <2>1, <2>6, <2>8 DEF Bounds
  <1>8. CASE EndBlocks
    <2>1. /\ UNCHANGED <<blocks, numBlocks, numOversize, numLive, liveAtLast, memoryFull, empty, doomed>>
          /\ phase = "blocks" /\ phase' = "oversize" /\ firstSpace' \in {1, firstSpace}
      BY <1>8 DEF EndBlocks, overVars, countVars
    <2>0. empty \in Nat /\ index \in 1 .. Len(blocks) + 1
      BY <1>0, <2>1 DEF Types, Ahead
    <2>2. empty + Len(blocks) + 1 <= Cardinality(Blocks) + index
      BY <2>1 DEF Bounds
    <2>3. empty <= Cardinality(Blocks)
      BY <1>0, <2>0, <2>2
    <2>4. firstSpace' <= Cardinality(Blocks) + 1
      BY <1>0, <2>1 DEF Bounds
    <2> QED
      BY <2>1, <2>3, <2>4 DEF Bounds
  <1>9. CASE SweepOversize
    <2>1. /\ UNCHANGED <<blocks, numBlocks, firstSpace, numLive, liveAtLast, memoryFull, empty>>
          /\ phase = "oversize" /\ phase' = "oversize" /\ index <= Len(oversize)
          /\ doomed' \subseteq doomed
          /\ numOversize' \in {numOversize, Shrunk(numOversize, Len(oversize) - 1)}
      BY <1>9 DEF SweepOversize, arrayVars, overVars, countVars
    <2>2. numOversize \in Nat /\ numOversize <= ArrayBound /\ index \in 1 .. Len(oversize)
      BY <1>0, <2>1 DEF Bounds, Types, Ahead
    <2>3. Len(oversize) - 1 \in Nat /\ Len(oversize) - 1 <= MaxCells
      BY <1>0, <2>2, Sizes
    <2>4. numOversize' <= ArrayBound
      BY <2>1, <2>2, <2>3, CapacityBound
    <2> QED
      BY <2>1, <2>4 DEF Bounds
  <1>10. CASE EndSweep
    <2>1. /\ UNCHANGED <<blocks, numBlocks, firstSpace, numOversize, doomed>>
          /\ phase = "oversize" /\ phase' = "idle" /\ index' = 0 /\ empty' = 0 /\ sweptLive' = 0
          /\ numLive' = sweptLive /\ liveAtLast' = sweptLive /\ memoryFull' \in BOOLEAN
      BY <1>10 DEF EndSweep, arrayVars, overVars
    <2>2. sweptLive <= MaxCells
      BY <2>1, Lengths
    <2> QED
      BY <2>1, <2>2 DEF Bounds
  <1>11. CASE UNCHANGED vars
    BY <1>11 DEF vars, arrayVars, overVars, countVars, sweepVars, Bounds
  <1> QED
    BY <1>1, <1>2, <1>3, <1>4, <1>5, <1>6, <1>7, <1>8, <1>9, <1>10, <1>11
    DEF Next, AllocateStep, SweepStep

\* All that Collector::allocate and Collector::collect compute stays in its
\* range: the counters do not exceed the number of cells, the capacities of the
\* two arrays stay in proportion to what they can ever hold, and emptyBlocks
\* counts no block twice.
THEOREM HeapTypes == Spec => []TypeOK
  <1>1. Init => IInv /\ Space /\ Bounds
    <2>1. Init => Space
      BY DEF Init, Space, FullBefore
    <2>2. Init => Bounds
      <3>1. 0 <= ArrayBound /\ 1 <= Cardinality(Blocks) + 1 /\ 0 <= MaxCells
        BY Sizes
      <3> QED
        BY <3>1 DEF Init, Bounds
    <2> QED
      BY <2>1, <2>2, InitIInv
  <1>2. IInv /\ Space /\ Bounds /\ [Next]_vars => (IInv /\ Space /\ Bounds)'
    BY StepIInv, SpaceStep, BoundsStep
  <1>3. ASSUME IInv, Bounds
        PROVE  TypeOK
    <2>1. Types /\ Slab /\ Ahead
      BY <1>3 DEF IInv
    <2>2. usedCells \in [Blocks -> 0 .. CellsPerBlock]
      <3>1. ASSUME NEW b \in Blocks PROVE usedCells[b] \in 0 .. CellsPerBlock
        <4>1. IsFiniteSet(Cells) /\ Cardinality(Cells) = CellsPerBlock /\ Slots(b) \subseteq Cells
          BY CellsFinite
        <4>2. Cardinality(Slots(b)) <= CellsPerBlock
          BY <4>1, FS_Subset
        <4>3. usedCells[b] = Cardinality(Slots(b)) /\ usedCells[b] \in Nat
          BY <2>1 DEF Slab, Types
        <4> QED
          BY <4>2, <4>3, TunableAssumption
      <3> QED
        BY <2>1, <3>1 DEF Types
    <2>3. /\ Len(blocks) \in Nat /\ Len(blocks) <= Cardinality(Blocks)
          /\ Len(oversize) \in Nat /\ Len(oversize) <= Cardinality(Oversize)
          /\ phase # "idle" => sweptLive <= MaxCells
      BY <1>3, Lengths
    <2>4. /\ MaxCells \in Nat /\ ArrayBound \in Nat /\ Cardinality(Blocks) \in Nat
          /\ Cardinality(Blocks) <= MaxCells /\ Cardinality(Oversize) <= MaxCells
          /\ Cardinality(Oversize) \in Nat
      BY Sizes
    <2>5. /\ numBlocks \in Nat /\ numOversize \in Nat /\ firstSpace \in Nat \ {0} /\ numLive \in Nat
          /\ liveAtLast \in Nat /\ sweptLive \in Nat /\ index \in Nat /\ empty \in Nat
          /\ phase \in {"idle", "blocks", "oversize"}
      BY <2>1 DEF Types
    <2>6. /\ numBlocks \in 0 .. ArrayBound /\ numOversize \in 0 .. ArrayBound
          /\ firstSpace \in 1 .. Cardinality(Blocks) + 1
          /\ numLive \in 0 .. MaxCells /\ liveAtLast \in 0 .. MaxCells
          /\ memoryFull \in BOOLEAN /\ doomed \subseteq SlabCells \cup Oversize
      BY <1>3, <2>4, <2>5 DEF Bounds
    <2>7. sweptLive \in 0 .. MaxCells /\ index \in 0 .. MaxCells + 1 /\ empty \in 0 .. Cardinality(Blocks)
      <3>1. CASE phase = "idle"
        BY <1>3, <2>4, <3>1 DEF Bounds
      <3>2. CASE phase = "blocks"
        <4>1. /\ index \in 1 .. Len(blocks) + 1
              /\ empty + Len(blocks) + 1 <= Cardinality(Blocks) + index
          BY <1>3, <2>1, <3>2 DEF Ahead, Bounds
        <4> QED
          BY <2>3, <2>4, <2>5, <3>2, <4>1
      <3>3. CASE phase = "oversize"
        <4>1. index \in 1 .. Len(oversize) + 1 /\ empty <= Cardinality(Blocks)
          BY <1>3, <2>1, <3>3 DEF Ahead, Bounds
        <4> QED
          BY <2>3, <2>4, <2>5, <3>3, <4>1
      <3> QED
        BY <2>5, <3>1, <3>2, <3>3
    <2> QED
      BY <2>1, <2>2, <2>5, <2>6, <2>7 DEF Types, TypeOK
  <1>4. IInv /\ Bounds => TypeOK
    BY <1>3
  <1> QED
    BY <1>1, <1>2, <1>4, PTL DEF Spec

\* The free list of every block that Collector::allocate takes cells from, and
\* that the sweep of Collector::collect puts cells on, leads to each free cell
\* of the block once and ends; and outside of a collection no block before
\* firstBlockWithPossibleSpace has a free cell.
THEOREM FreeListsAreExact == Spec => []FreeListsExact
  <1>1. Init => IInv /\ Space
    <2>1. Init => Space
      BY DEF Init, Space, FullBefore
    <2> QED
      BY <2>1, InitIInv
  <1>2. IInv /\ Space /\ [Next]_vars => (IInv /\ Space)'
    BY StepIInv, SpaceStep
  <1>3. ASSUME IInv, Space
        PROVE  FreeListsExact
    <2>1. Types /\ Slab
      BY <1>3 DEF IInv
    <2> QED
      BY <1>3, <2>1, WalkExact DEF FreeListsExact, Space, FullBefore
  <1>4. IInv /\ Space => FreeListsExact
    BY <1>3
  <1> QED
    BY <1>1, <1>2, <1>4, PTL DEF Spec
==============================================================================
